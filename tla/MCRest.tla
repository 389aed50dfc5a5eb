------------------------------- MODULE MCRest -------------------------------
(* A web socket and a REST handle, as in coin.c and plxwss.c. *)
EXTENDS Rest

MCSlots == {1, 2}
MCUrls == [i \in MCSlots |-> IF i = 1 THEN {"wamp", "sio3"} ELSE {"http"}]
MCChunkings == {<<2, 1>>}

\* A body that the server sends in one chunk.
MCOneChunk == {<<2>>}
=============================================================================
