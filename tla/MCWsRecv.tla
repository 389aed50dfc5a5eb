------------------------------ MODULE MCWsRecv ------------------------------
(* Instances of WsRecv: which frames the peer sends. *)
EXTENDS WsRecv

CONSTANT Fragments      \* does the peer send messages in several frames?

\* A buffer that holds a header and a bit, so that frames span several calls and
\* short ones share a call.
MCBufSizes == {22}

F(c, fin, lf, m, z) == [code |-> c, finp |-> fin, lenf |-> lf, mask |-> m, plen |-> z]

\* Every header length but one, payloads that are empty, fit into a stash,
\* and outlast a buffer, so that a read may be all payload; an opcode that is not
\* known.
Whole == {F(1, TRUE, 7, FALSE, 0), F(2, TRUE, 7, FALSE, 13),
          F(1, TRUE, 16, FALSE, 40), F(1, TRUE, 64, TRUE, 1),
          F(9, TRUE, 7, FALSE, 0), F(9, TRUE, 7, TRUE, 9),
          F(10, TRUE, 7, FALSE, 2), F(8, TRUE, 7, FALSE, 2),
          F(3, TRUE, 7, FALSE, 0)}

Parts == {F(1, FALSE, 7, FALSE, 3), F(0, FALSE, 7, TRUE, 12), F(0, TRUE, 7, FALSE, 1)}

MCFrames == Whole \cup (IF Fragments THEN Parts ELSE {})

=============================================================================
