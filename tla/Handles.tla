------------------------------ MODULE Handles -------------------------------
(***************************************************************************)
(* The handles of src/src/ws.c and what they share: ws_open(), ws_close()  *)
(* and ws_send() of all handles use one buffer, gbuf, which ws_open()      *)
(* allocates, ws_send() replaces by a larger one, and the last ws_close(), *)
(* by the reference count gbrc, frees.                                     *)
(*                                                                         *)
(* The calls block, so each is one step; what the resolver, the peer and   *)
(* malloc() may do to it are its alternatives.  Requests and messages are  *)
(* abstracted to their lengths.  A call without an effect, for a port out  *)
(* of range or by rest_send() on a web socket, is a stuttering step.       *)
(***************************************************************************)
EXTENDS Integers, Sequences, FiniteSets

CONSTANTS
  Slots,        \* places for handles, ctx->ws of a program
  Urls,         \* schemes of the URLs a slot is opened with
  Requests,     \* lengths of HTTP requests, URL and host included
  Payloads,     \* lengths of messages handed to ws_send()
  MaxRefs       \* bound: references counted at a time

VARIABLES
  h,            \* the protocol of the handle in a slot, ws->p
  gb,           \* the buffer: is gbuf # NULL (p), gbsz (z), gbrc (rc), and,
                \* a ghost, the size of the memory at gbuf (room)
  \* ghosts
  used,         \* what the last call has put into the buffer: who and how much
  heap,         \* buffers allocated and not freed
  lost,         \* ws_open() calls that have failed to connect
  oom           \* the function that has found no memory for the buffer; the
                \* model lets malloc() fail once

hvars == <<h, gb, used, heap, lost, oom>>

Protos == {"raw", "wamp", "sio1", "sio3", "rest"}
Schemes == {"ws", "wamp", "http", "sio1", "sio3", "none"}

\* What ws_open() allocates at least.
BUFSZ == 4096

\* The requests of the programs fit the buffer ws_open() allocates.
ASSUME HandlesAssumption ==
  /\ IsFiniteSet(Slots)
  /\ Urls \in [Slots -> SUBSET Schemes]
  /\ Requests \subseteq 1..BUFSZ
  /\ Payloads \subseteq Nat
  /\ MaxRefs \in Nat

Open == {i \in Slots : h[i] # "none"}

guess_proto(scheme) ==
  CASE scheme \in {"ws", "none"} -> "raw"
    [] scheme = "http" -> "rest"
    [] scheme \in {"wamp", "sio1", "sio3"} -> scheme

Nobody == [by |-> "nobody", n |-> 0]

Init ==
  /\ h = [i \in Slots |-> "none"]
  /\ gb = [p |-> FALSE, z |-> 0, rc |-> 0, room |-> 0]
  /\ used = Nobody /\ heap = 0 /\ lost = 0 /\ oom = "nobody"

-----------------------------------------------------------------------------
(* The buffer *)

\* ws_open() makes sure of its minimum.
Acquire(g) ==
  IF g.z < BUFSZ THEN [g EXCEPT !.p = TRUE, !.z = BUFSZ, !.room = BUFSZ, !.rc = @ + 1]
  ELSE [g EXCEPT !.rc = @ + 1]

Acquired(g) == IF g.z < BUFSZ THEN 1 ELSE 0

\* ws_close() frees it with the last handle.
Release(g) ==
  IF g.p /\ g.rc = 1 THEN [p |-> FALSE, z |-> 0, rc |-> 0, room |-> 0]
  ELSE [g EXCEPT !.rc = IF g.p THEN @ - 1 ELSE @]

Released(g) == IF g.p /\ ~Release(g).p THEN 1 ELSE 0

\* the length of a frame's header with its masking key
Slen(bsz) == IF bsz >= 65536 THEN 14 ELSE IF bsz >= 126 THEN 8 ELSE 6

\* up to the next multiple of 256
RoundUp(n) == (n \div 256 + 1) * 256

-----------------------------------------------------------------------------
(* ws_open(), ws_close(), ws_send() *)

\* The first buffer cannot be allocated.
WsOpenOom(i) ==
  /\ h[i] = "none" /\ Urls[i] # {} /\ gb.z < BUFSZ /\ oom = "nobody"
  /\ gb' = [gb EXCEPT !.p = FALSE, !.z = BUFSZ, !.room = 0]
  /\ oom' = "ws_open"
  /\ used' = Nobody
  /\ UNCHANGED <<h, heap, lost>>

\* Mutant of WsOpenLost: the count is taken back, and the buffer let go.
WsOpenLostFrees(i) ==
  /\ h[i] = "none" /\ Urls[i] # {} /\ gb.rc < MaxRefs
  /\ gb' = [Acquire(gb) EXCEPT !.p = FALSE, !.z = 0, !.rc = gb.rc, !.room = 0]
  /\ heap' = heap + Acquired(gb) - 1
  /\ lost' = lost + 1 /\ used' = Nobody
  /\ UNCHANGED <<h, oom>>

\* _open() fails: the host is unknown, there is no socket or memory, or
\* connect() or the TLS handshake fails.
WsOpenLost(i) ==
  /\ h[i] = "none" /\ Urls[i] # {} /\ gb.rc < MaxRefs
  /\ gb' = Acquire(gb)
  /\ heap' = heap + Acquired(gb)
  /\ lost' = lost + 1 /\ used' = Nobody
  /\ UNCHANGED <<h, oom>>

\* _sioi() gets no session id, or _init() no `101': the request has been put
\* into the buffer and is followed by ws_close().
WsOpenRefused(i) ==
  /\ h[i] = "none" /\ gb.rc < MaxRefs
  /\ \E s \in Urls[i] : guess_proto(s) # "rest"
  /\ gb' = Release(Acquire(gb))
  /\ heap' = heap + Acquired(gb) - Released(Acquire(gb))
  /\ used' = Nobody
  /\ UNCHANGED <<h, lost, oom>>

\* The connection is there; all but REST have been sent a request, and socket.io
\* two.
WsOpen(i) ==
  /\ h[i] = "none" /\ gb.rc < MaxRefs
  /\ \E s \in Urls[i] : h' = [h EXCEPT ![i] = guess_proto(s)]
  /\ gb' = Acquire(gb)
  /\ heap' = heap + Acquired(gb)
  /\ \E n \in Requests :
       used' = [by |-> "ws_open", n |-> IF h'[i] = "rest" THEN 0 ELSE n]
  /\ UNCHANGED <<lost, oom>>

WsClose(i) ==
  /\ h[i] # "none"
  /\ h' = [h EXCEPT ![i] = "none"]
  /\ gb' = Release(gb)
  /\ heap' = heap - Released(gb)
  /\ used' = Nobody
  /\ UNCHANGED <<lost, oom>>

\* A larger buffer if this one is too small, the frame is put into it and sent.
WsSend(i, bsz) ==
  /\ h[i] \notin {"none", "rest"}
  /\ LET n == Slen(bsz) + bsz IN
     /\ IF gb.z < n
        THEN /\ gb' = [gb EXCEPT !.p = TRUE, !.z = RoundUp(n), !.room = RoundUp(n)]
             /\ heap' = IF gb.p THEN heap ELSE heap + 1
        ELSE UNCHANGED <<gb, heap>>
     /\ used' = [by |-> "ws_send", n |-> n]
  /\ UNCHANGED <<h, lost, oom>>

\* Mutant of WsSendOom: gbsz keeps the size the buffer was to have.
WsSendOomKeeps(i, bsz) ==
  /\ h[i] \notin {"none", "rest"}
  /\ gb.z < Slen(bsz) + bsz /\ oom = "nobody"
  /\ gb' = [gb EXCEPT !.p = FALSE, !.room = 0, !.z = RoundUp(Slen(bsz) + bsz)]
  /\ heap' = IF gb.p THEN heap - 1 ELSE heap
  /\ oom' = "ws_send" /\ used' = Nobody
  /\ UNCHANGED <<h, lost>>

\* The old buffer has been freed and there is no memory for the new one.
WsSendOom(i, bsz) ==
  /\ h[i] \notin {"none", "rest"}
  /\ gb.z < Slen(bsz) + bsz /\ oom = "nobody"
  /\ gb' = [gb EXCEPT !.p = FALSE, !.z = 0, !.room = 0]
  /\ heap' = IF gb.p THEN heap - 1 ELSE heap
  /\ oom' = "ws_send" /\ used' = Nobody
  /\ UNCHANGED <<h, lost>>

\* rest_send() puts a request into the buffer whatever its size.
RestRequest(i) ==
  /\ h[i] = "rest"
  /\ \E n \in Requests : used' = [by |-> "rest_send", n |-> n]
  /\ UNCHANGED <<h, gb, heap, lost, oom>>

-----------------------------------------------------------------------------
(* Properties *)

HandlesTypeOK ==
  /\ h \in [Slots -> Protos \cup {"none"}]
  /\ gb \in [p : BOOLEAN, z : Nat, rc : Nat, room : Nat]
  /\ used \in [by : {"nobody", "ws_open", "ws_send", "rest_send"}, n : Nat]
  /\ heap \in Nat /\ lost \in Nat
  /\ oom \in {"nobody", "ws_open", "ws_send"}

\* No call writes past the buffer, or into one that has been freed, however
\* calls on different handles take turns (ws.c:769).  ws_send() keeps to that
\* even after it has found no memory; requests rely on a buffer of the size
\* ws_open() has left, and nobody is safe once ws_open() has found none.
Fits ==
  \/ used.n <= gb.room
  \/ oom = "ws_open"
  \/ oom = "ws_send" /\ used.by = "rest_send"

\* The buffer is there as long as somebody needs it: gbrc (ws.c:59) counts the
\* handles and the calls that have failed to connect, which nobody takes back.
\* There is never more than one buffer, and none without a count.
Counted ==
  oom = "nobody" =>
    /\ gb.rc = Cardinality(Open) + lost
    /\ gb.p <=> gb.rc > 0
    /\ heap = IF gb.p THEN 1 ELSE 0
=============================================================================
