-------------------------------- MODULE MCDns --------------------------------
EXTENDS DnsMessage, NameSources, Integers

MCPunycode == <<200>> :> <<120, 110, 45, 45, 113>>

Name(labels, dot) == [labels |-> labels, dot |-> dot]
Root == Name(<<>>, TRUE)
a == Name(<<<<97>>>>, TRUE)
ba == Name(<<<<98>>, <<97>>>>, FALSE)
cba == Name(<<<<99>>, <<98>>, <<97>>>>, TRUE)
dba == Name(<<<<100>>, <<98>>, <<97>>>>, TRUE)
Unicode == Name(<<<<200>>, <<97>>>>, FALSE)
Wide(n) == [i \in 1..n |-> 97]

(* Labels and names at, and one over, their limits, and names that break a *)
(* rule: empty, an empty label, a hyphen, no Punycode form.                *)
EdgeNames ==
  {Name(<<Wide(n), Wide(m)>>, dot) : n \in {1, LABEL_LIMIT, LABEL_LIMIT + 1},
                                     m \in {NAME_LIMIT - LABEL_LIMIT - 3,
                                            NAME_LIMIT - LABEL_LIMIT - 2}, dot \in BOOLEAN}
  \union {Root, Unicode, Name(<<>>, FALSE), Name(<<<<97>>, <<>>, <<98>>>>, TRUE),
          Name(<<<<45, 97>>>>, FALSE), Name(<<<<201>>>>, FALSE)}

Header == [id |-> 43981, qr |-> "Response", op |-> Kind("Query"), authoritative |-> FALSE,
           truncated |-> FALSE, recursion_desired |-> TRUE, recursion_available |-> TRUE,
           rcode |-> Kind("NoError")]

Headers ==
  [id : {1}, qr : {"Query", "Response"}, op : {Kind("Query")},
   authoritative : BOOLEAN, truncated : BOOLEAN, recursion_desired : BOOLEAN,
   recursion_available : BOOLEAN, rcode : {Kind("NoError")}]
  \union {[Header EXCEPT !.op = op, !.rcode = rcode] :
            op \in {Kind("Query"), Kind("Update"), [kind |-> "Other", n |-> 9]},
            rcode \in {Kind("NoError"), Kind("Refused"), [kind |-> "Other", n |-> 9]}}

Ask(name) == [name |-> name, q_type |-> Kind("A"), q_class |-> Kind("Internet")]

Rec(name, kind, vals) == [name |-> name, kind |-> kind, vals |-> vals, ttl |-> 65538]

Samples(name) ==
  {Rec(name, "A", <<127, 0, 0, 1>>), Rec(name, "AAAA", <<8193, 3512, 0, 0, 0, 0, 0, 1>>),
   Rec(name, "CName", <<cba>>), Rec(name, "Mx", <<10, dba>>), Rec(name, "Ns", <<Root>>),
   Rec(name, "Ptr", <<Unicode>>), Rec(name, "Soa", <<dba, ba, 1, 65536, 3, 4, 5>>),
   Rec(name, "Srv", <<1, 2, 443, cba>>), Rec(name, "Txt", <<Wide(3)>>)}

Message(header, question, answer, authority, additional) ==
  [header |-> header, question |-> question, answer |-> answer, authority |-> authority,
   additional |-> additional]

MCInputs ==
  {Message(h, <<Ask(a)>>, <<>>, <<>>, <<>>) : h \in Headers}
  \union {Message(Header, <<Ask(name)>>, <<>>, <<>>, <<>>) : name \in EdgeNames}
  \union {Message(Header, <<Ask(ba)>>, <<Rec(ba, "CName", <<name>>)>>, <<>>, <<>>) : name \in EdgeNames}
  \union {Message(Header, <<Ask(ba)>>, <<Rec(ba, "Txt", <<Wide(n)>>)>>, <<>>, <<>>) :
            n \in {0, MESSAGE_LIMIT - 37, MESSAGE_LIMIT - 36}}
  \union {Message(Header, <<>>, <<Rec(a, "Txt", <<Wide(n)>>)>>, <<>>, <<>>) : n \in {255, 256}}
  \union {Message(Header, <<Ask(cba)>>, <<first, second>>, <<Rec(dba, "Ns", <<cba>>)>>,
                  <<Rec(cba, "A", <<10, 0, 0, 1>>)>>) :
            first \in {Rec(ba, "CName", <<cba>>), Rec(cba, "Mx", <<1, dba>>)},
            second \in Samples(dba)}

------------------------------------------------------------------------------
Line(name, words) == [name |-> name, words |-> words]
Opt(name, n) == [name |-> name, n |-> n]

MCConfLines ==
  {Line("nameserver", <<"1.1.1.1">>), Line("nameserver", <<"::1", "1.1.1.1">>),
   Line("nameserver", <<"dns">>), Line("nameserver", <<>>),
   Line("domain", <<"a.org">>), Line("domain", <<>>),
   Line("search", <<"b.org", "c.org">>), Line("search", <<>>),
   Line("options", <<Opt("ndots", 16), Opt("rotate", -1), Opt("attempts", 0)>>),
   Line("options", <<Opt("attempts", 6), Opt("timeout", 31), Opt("ndots", -1), Opt("debug", -1)>>),
   Line("options", <<Opt("inet6", -1), Opt("ndots", 2), Opt("timeout", 0)>>),
   Line("comment", <<>>)}

MCHostLines ==
  {<<>>, <<"1.1.1.1", "box">>, <<"::1", "alias", "box", "me">>, <<"1.1.1.1", "::1">>,
   <<"bad", "box">>, <<"::1">>}

MCHostNames == {NoHostname, [name |-> "me", domain |-> ""], [name |-> "box.d.org", domain |-> "d.org"]}

(* The two components share nothing: each is explored while the other is   *)
(* at rest, the message refused and the hosts file empty.                  *)
MsgRest ==
  /\ input = Message(Header, <<Ask(Name(<<>>, FALSE))>>, <<>>, <<>>, <<>>)
  /\ pc = "refused" /\ compress = FALSE /\ wire = <<>> /\ decoded = Failed("none yet")

FileRest ==
  /\ file = "hosts" /\ lines = <<>> /\ loading = "loaded"
  /\ cfg = default_config /\ hosts = <<>>

Init == (MsgInit /\ FileRest) \/ (FileInit /\ MsgRest)

Next == (MsgNext /\ UNCHANGED fileVars) \/ (FileNext /\ UNCHANGED msgVars)

Spec == Init /\ [][Next]_<<msgVars, fileVars>>
==============================================================================
