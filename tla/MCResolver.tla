----------------------------- MODULE MCResolver -----------------------------
EXTENDS Resolver

MCSearch == <<"example.org">>
==============================================================================
