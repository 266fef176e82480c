----------------------------- MODULE MCStcpNet ------------------------------
EXTENDS StcpNet, TLC

CONSTANT t1    \* one of the threads

Symmetry == Permutations(Threads)

(* Settings of a stream that are explored: blocking without and with       *)
(* timeouts, and nonblocking.                                              *)
MCOptChoices == {DefaultOptions,
                 [DefaultOptions EXCEPT !.nonblocking = TRUE],
                 [DefaultOptions EXCEPT !.read_timeout = TRUE],
                 [DefaultOptions EXCEPT !.write_timeout = TRUE]}
DefaultOnly == {DefaultOptions}

(* A call that is blocked in read or peek returns after the peer's FIN,    *)
(* and every blocked call after its RST. The specification treats all      *)
(* threads alike, so that one stands for all.                              *)
PeerEndsCall == PeerEndsCallOf(t1)
==============================================================================
