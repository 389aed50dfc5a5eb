----------------------------- MODULE RestProofs -----------------------------
(***************************************************************************)
(* What the handles share is safe: for any number of handles, of any       *)
(* protocols, requests and payloads of any length, and however the calls   *)
(* on them take turns, no call writes past gbuf, and gbrc counts who needs *)
(* it.                                                                     *)
(*                                                                         *)
(* Neither is inductive.  The buffer's size is that of the memory behind   *)
(* it unless ws_open() has found none (Sized); as long as malloc() has     *)
(* never failed a buffer is never smaller than ws_open() makes it; and the *)
(* count is never less than the handles there are and the calls that have  *)
(* failed to connect, so that taking from it cannot go below zero and the  *)
(* buffer is not freed while a handle is left (Backed).                    *)
(*                                                                         *)
(* And what comes out of them is: TypesStay, OneLineOnly, AnswersAreWhole. *)
(* For the first two it takes what may still be on the wire of a request   *)
(* on its own (RInv): nothing has come out before the header's end, and    *)
(* behind it there is nothing but the body.  For the third it takes every  *)
(* place a read may end at without harm (Reads): in front of the header,   *)
(* behind its first line, behind the field, in the body, within a chunk,   *)
(* behind a chunk, in front of the last newline.  The state of the handle  *)
(* and the rest of the answer determine what is still to come out, and a   *)
(* read leads from one such place to another.                              *)
(***************************************************************************)
EXTENDS Rest, FiniteSetTheorems, SequenceTheorems, WellFoundedInduction, TLAPS

Sized ==
  /\ oom # "ws_open" => gb.z = gb.room
  /\ oom = "nobody" => IF gb.p THEN gb.z >= BUFSZ ELSE gb.z = 0

Backed ==
  /\ gb.rc >= Cardinality(Open) + lost
  /\ gb.p => heap >= 1

HInv == HandlesTypeOK /\ Sized /\ Backed /\ Counted /\ Fits

-----------------------------------------------------------------------------
\* The handles that are open are finitely many.
LEMMA OpenFinite == IsFiniteSet(Open) /\ Cardinality(Open) \in Nat
  BY HandlesAssumption, FS_Subset, FS_CardinalityType DEF Open

\* A step that fills an empty slot adds a handle.
LEMMA OneMore ==
  ASSUME HandlesTypeOK, NEW i \in Slots, h[i] = "none", NEW p \in Protos, h' = [h EXCEPT ![i] = p]
  PROVE  Cardinality(Open') = Cardinality(Open) + 1 /\ h' \in [Slots -> Protos \cup {"none"}]
<1>1. h \in [Slots -> Protos \cup {"none"}]
  BY DEF HandlesTypeOK
<1>2. p # "none"
  BY DEF Protos
<1>3. Open' = Open \cup {i} /\ i \notin Open
  BY <1>1, <1>2 DEF Open
<1> QED
  BY <1>1, <1>3, OpenFinite, FS_AddElement

\* A step that empties a slot removes one.
LEMMA OneLess ==
  ASSUME HandlesTypeOK, NEW i \in Slots, h[i] # "none", h' = [h EXCEPT ![i] = "none"]
  PROVE  /\ Cardinality(Open') = Cardinality(Open) - 1 /\ Cardinality(Open) >= 1
         /\ h' \in [Slots -> Protos \cup {"none"}]
<1>1. h \in [Slots -> Protos \cup {"none"}]
  BY DEF HandlesTypeOK
<1>2. Open' = Open \ {i} /\ i \in Open
  BY <1>1 DEF Open
<1>3. Cardinality(Open') = Cardinality(Open) - 1
  BY <1>2, OpenFinite, FS_RemoveElement
<1>4. Cardinality(Open) # 0
  BY <1>2, OpenFinite, FS_EmptySet
<1> QED
  BY <1>1, <1>3, <1>4, OpenFinite

\* Somebody who is open is counted.
LEMMA SomeOpen ==
  ASSUME NEW i \in Slots, h[i] # "none"
  PROVE  Cardinality(Open) >= 1
<1>1. i \in Open
  BY DEF Open
<1> QED
  BY <1>1, OpenFinite, FS_EmptySet

Buffers == [p : BOOLEAN, z : Nat, rc : Nat, room : Nat]

\* What ws_open() does to the buffer, field by field.
LEMMA AcquireFields ==
  ASSUME NEW g \in Buffers
  PROVE  /\ Acquire(g) \in Buffers
         /\ Acquire(g).rc = g.rc + 1
         /\ g.z < BUFSZ => /\ Acquire(g).p /\ Acquire(g).z = BUFSZ /\ Acquire(g).room = BUFSZ
                           /\ Acquired(g) = 1
         /\ ~(g.z < BUFSZ) => /\ Acquire(g).p = g.p /\ Acquire(g).z = g.z /\ Acquire(g).room = g.room
                              /\ Acquired(g) = 0
<1>1. CASE g.z < BUFSZ
  <2>1. Acquire(g) = [p |-> TRUE, z |-> BUFSZ, rc |-> g.rc + 1, room |-> BUFSZ]
    BY <1>1 DEF Acquire, Buffers
  <2>2. BUFSZ \in Nat /\ g.rc + 1 \in Nat
    BY DEF BUFSZ, Buffers
  <2>3. Acquire(g) \in Buffers
    BY <2>1, <2>2 DEF Buffers
  <2>4. /\ Acquire(g).p /\ Acquire(g).z = BUFSZ /\ Acquire(g).room = BUFSZ
        /\ Acquire(g).rc = g.rc + 1
    BY <2>1
  <2> QED
    BY <1>1, <2>3, <2>4 DEF Acquired
<1>2. CASE ~(g.z < BUFSZ)
  <2>1. Acquire(g) = [g EXCEPT !.rc = g.rc + 1]
    BY <1>2 DEF Acquire, Buffers
  <2> QED
    BY <1>2, <2>1 DEF Acquired, Buffers
<1> QED
  BY <1>1, <1>2

\* What ws_close() does to it.
LEMMA ReleaseFields ==
  ASSUME NEW g \in Buffers, g.p => g.rc >= 1
  PROVE  /\ Release(g) \in Buffers
         /\ g.p /\ g.rc = 1 => /\ ~Release(g).p /\ Release(g).z = 0 /\ Release(g).rc = 0
                               /\ Release(g).room = 0 /\ Released(g) = 1
         /\ g.p /\ g.rc # 1 => /\ Release(g).p /\ Release(g).z = g.z /\ Release(g).rc = g.rc - 1
                               /\ Release(g).room = g.room /\ Released(g) = 0
         /\ ~g.p => Release(g) = g /\ Released(g) = 0
<1>1. CASE g.p /\ g.rc = 1
  BY <1>1 DEF Release, Released, Buffers
<1>2. CASE g.p /\ g.rc # 1
  <2>1. Release(g) = [g EXCEPT !.rc = g.rc - 1] /\ g.rc - 1 \in Nat
    BY <1>2 DEF Release, Buffers
  <2> QED
    BY <1>2, <2>1 DEF Released, Buffers
<1>3. CASE ~g.p
  <2>1. Release(g) = g
    BY <1>3 DEF Release, Buffers
  <2> QED
    BY <1>3, <2>1 DEF Released
<1> QED
  BY <1>1, <1>2, <1>3

\* Sizes of frames.
LEMMA Sizes ==
  ASSUME NEW bsz \in Nat
  PROVE  /\ Slen(bsz) + bsz \in Nat
         /\ RoundUp(Slen(bsz) + bsz) \in Nat /\ RoundUp(Slen(bsz) + bsz) >= Slen(bsz) + bsz
<1>1. Slen(bsz) + bsz \in Nat
  BY DEF Slen
<1>2. ASSUME NEW n \in Nat PROVE RoundUp(n) \in Nat /\ RoundUp(n) >= n
  BY DEF RoundUp
<1> QED
  BY <1>1, <1>2

-----------------------------------------------------------------------------
LEMMA InitHInv == Init => HInv
<1> SUFFICES ASSUME Init PROVE HInv
  OBVIOUS
<1>1. Open = {}
  BY DEF Init, Open
<1>2. Cardinality(Open) = 0
  BY <1>1, FS_EmptySet
<1>3. HandlesTypeOK
  BY DEF Init, HandlesTypeOK, Protos, Nobody
<1> QED
  BY <1>2, <1>3 DEF Init, HInv, Sized, Backed, Counted, Fits, Nobody

\* What the invariant says of the buffer, for the lemmas below.
LEMMA HInvFacts ==
  ASSUME HInv
  PROVE  /\ gb \in Buffers /\ heap \in Nat /\ lost \in Nat /\ Cardinality(Open) \in Nat
         /\ gb.z \in Nat /\ gb.rc \in Nat /\ gb.room \in Nat
  BY OpenFinite DEF HInv, HandlesTypeOK, Buffers

LEMMA WsOpenOomHInv ==
  ASSUME HInv, NEW i \in Slots, WsOpenOom(i)
  PROVE  HInv'
<1>1. /\ gb' = [gb EXCEPT !.p = FALSE, !.z = BUFSZ, !.room = 0] /\ oom' = "ws_open"
      /\ used' = Nobody /\ UNCHANGED <<h, heap, lost>>
  BY DEF WsOpenOom
<1>2. gb' \in Buffers /\ ~gb'.p /\ gb'.rc = gb.rc
  <2>1. gb' = [p |-> FALSE, z |-> BUFSZ, rc |-> gb.rc, room |-> 0]
    BY <1>1, HInvFacts DEF Buffers
  <2>2. BUFSZ \in Nat /\ gb.rc \in Nat /\ 0 \in Nat
    BY HInvFacts DEF BUFSZ
  <2> QED
    BY <2>1, <2>2, Zenon DEF Buffers
<1>3. Open' = Open
  BY <1>1 DEF Open
<1>4. HandlesTypeOK'
  BY <1>1, <1>2 DEF HInv, HandlesTypeOK, Buffers, Nobody
<1> QED
  BY <1>1, <1>2, <1>3, <1>4 DEF HInv, Sized, Backed, Counted, Fits

LEMMA WsOpenLostHInv ==
  ASSUME HInv, NEW i \in Slots, WsOpenLost(i)
  PROVE  HInv'
<1>1. /\ gb' = Acquire(gb) /\ heap' = heap + Acquired(gb)
      /\ lost' = lost + 1 /\ used' = Nobody /\ UNCHANGED <<h, oom>>
  BY DEF WsOpenLost
<1>2. Open' = Open
  BY <1>1 DEF Open
<1>3. /\ gb' \in Buffers /\ heap' \in Nat /\ lost' \in Nat
  BY <1>1, HInvFacts, AcquireFields
<1>4. HandlesTypeOK'
  BY <1>1, <1>3 DEF HInv, HandlesTypeOK, Buffers, Nobody
<1>5. Sized'
  BY <1>1, HInvFacts, AcquireFields DEF HInv, Sized, BUFSZ
<1>6. Backed'
  BY <1>1, <1>2, HInvFacts, AcquireFields DEF HInv, Backed
<1>7. Counted'
  BY <1>1, <1>2, HInvFacts, AcquireFields DEF HInv, Counted, Sized, BUFSZ
<1>8. Fits'
  BY <1>1, <1>3 DEF Fits, Nobody, Buffers
<1> QED
  BY <1>4, <1>5, <1>6, <1>7, <1>8 DEF HInv

LEMMA WsOpenRefusedHInv ==
  ASSUME HInv, NEW i \in Slots, WsOpenRefused(i)
  PROVE  HInv'
<1> DEFINE a == Acquire(gb)
<1>1. /\ gb' = Release(a) /\ heap' = heap + Acquired(gb) - Released(a)
      /\ used' = Nobody /\ UNCHANGED <<h, lost, oom>>
  BY DEF WsOpenRefused
<1>2. Open' = Open
  BY <1>1 DEF Open
<1>3. /\ a \in Buffers /\ a.rc = gb.rc + 1 /\ a.rc >= 1
      /\ gb.z < BUFSZ => a.p /\ a.z = BUFSZ /\ a.room = BUFSZ /\ Acquired(gb) = 1
      /\ ~(gb.z < BUFSZ) => a.p = gb.p /\ a.z = gb.z /\ a.room = gb.room /\ Acquired(gb) = 0
  BY HInvFacts, AcquireFields
<1> HIDE DEF a
<1>4. /\ Release(a) \in Buffers
      /\ a.p /\ a.rc = 1 => /\ ~gb'.p /\ gb'.z = 0 /\ gb'.rc = 0 /\ gb'.room = 0
                            /\ Released(a) = 1
      /\ a.p /\ a.rc # 1 => /\ gb'.p /\ gb'.z = a.z /\ gb'.rc = a.rc - 1 /\ gb'.room = a.room
                            /\ Released(a) = 0
      /\ ~a.p => gb' = a /\ Released(a) = 0
  BY <1>1, <1>3, ReleaseFields
<1>5. heap' \in Nat
  BY <1>1, <1>3, <1>4, HInvFacts DEF HInv, Backed
<1>6. HandlesTypeOK'
  BY <1>1, <1>4, <1>5 DEF HInv, HandlesTypeOK, Buffers, Nobody
<1>7. Sized'
  BY <1>1, <1>3, <1>4, HInvFacts DEF HInv, Sized, BUFSZ
<1>8. Backed'
  <2>1. gb'.rc >= gb.rc
    BY <1>3, <1>4, HInvFacts
  <2>2. gb'.p => heap' >= 1
    BY <1>1, <1>3, <1>4, HInvFacts DEF HInv, Backed
  <2>3. gb'.rc \in Nat
    BY <1>1, <1>4 DEF Buffers
  <2> QED
    BY <1>1, <1>2, <2>1, <2>2, <2>3, HInvFacts DEF HInv, Backed
<1>9. Counted'
  BY <1>1, <1>2, <1>3, <1>4, HInvFacts DEF HInv, Counted, Sized, BUFSZ
<1>10. Fits'
  BY <1>1, <1>4 DEF Fits, Nobody, Buffers
<1> QED
  BY <1>6, <1>7, <1>8, <1>9, <1>10 DEF HInv

LEMMA WsOpenHInv ==
  ASSUME HInv, NEW i \in Slots, WsOpen(i)
  PROVE  HInv'
<1>1. /\ gb' = Acquire(gb) /\ heap' = heap + Acquired(gb) /\ h[i] = "none"
      /\ UNCHANGED <<lost, oom>>
  BY DEF WsOpen
<1>2. PICK s \in Urls[i] : h' = [h EXCEPT ![i] = guess_proto(s)]
  BY DEF WsOpen
<1>3. guess_proto(s) \in Protos
  BY HandlesAssumption DEF guess_proto, Schemes, Protos
<1>4. Cardinality(Open') = Cardinality(Open) + 1 /\ h' \in [Slots -> Protos \cup {"none"}]
  BY <1>1, <1>2, <1>3, OneMore DEF HInv
<1>5. PICK n \in Requests : used' = [by |-> "ws_open", n |-> IF h'[i] = "rest" THEN 0 ELSE n]
  BY DEF WsOpen
<1>6. used'.n \in Nat /\ used'.n <= BUFSZ /\ used'.by = "ws_open"
      /\ used' \in [by : {"nobody", "ws_open", "ws_send", "rest_send"}, n : Nat]
  BY <1>5, HandlesAssumption DEF BUFSZ
<1>7. gb' \in Buffers /\ heap' \in Nat
  BY <1>1, HInvFacts, AcquireFields
<1>8. HandlesTypeOK'
  BY <1>1, <1>4, <1>6, <1>7 DEF HInv, HandlesTypeOK, Buffers
<1>9. Sized'
  BY <1>1, HInvFacts, AcquireFields DEF HInv, Sized, BUFSZ
<1>10. Backed'
  BY <1>1, <1>4, HInvFacts, AcquireFields DEF HInv, Backed
<1>11. Counted'
  BY <1>1, <1>4, HInvFacts, AcquireFields DEF HInv, Counted, Sized, BUFSZ
<1>12. Fits'
  BY <1>1, <1>6, HInvFacts, AcquireFields DEF HInv, Fits, Sized, BUFSZ
<1> QED
  BY <1>8, <1>9, <1>10, <1>11, <1>12 DEF HInv

LEMMA WsCloseHInv ==
  ASSUME HInv, NEW i \in Slots, WsClose(i)
  PROVE  HInv'
<1>1. /\ h[i] # "none" /\ h' = [h EXCEPT ![i] = "none"] /\ gb' = Release(gb)
      /\ heap' = heap - Released(gb) /\ used' = Nobody /\ UNCHANGED <<lost, oom>>
  BY DEF WsClose
<1>2. /\ Cardinality(Open') = Cardinality(Open) - 1 /\ Cardinality(Open) >= 1
      /\ h' \in [Slots -> Protos \cup {"none"}]
  BY <1>1, OneLess DEF HInv
<1>3. gb.rc >= 1
  BY <1>2, HInvFacts DEF HInv, Backed
<1>4. /\ gb' \in Buffers
      /\ gb.p /\ gb.rc = 1 => /\ ~gb'.p /\ gb'.z = 0 /\ gb'.rc = 0 /\ gb'.room = 0
                              /\ Released(gb) = 1
      /\ gb.p /\ gb.rc # 1 => /\ gb'.p /\ gb'.z = gb.z /\ gb'.rc = gb.rc - 1 /\ gb'.room = gb.room
                              /\ Released(gb) = 0
      /\ ~gb.p => gb' = gb /\ Released(gb) = 0
  BY <1>1, <1>3, HInvFacts, ReleaseFields
<1>5. heap' \in Nat
  BY <1>1, <1>4, HInvFacts DEF HInv, Backed
<1>6. HandlesTypeOK'
  BY <1>1, <1>2, <1>4, <1>5 DEF HInv, HandlesTypeOK, Buffers, Nobody
<1>7. Sized'
  BY <1>1, <1>4, HInvFacts DEF HInv, Sized, BUFSZ
<1>8. Backed'
  BY <1>1, <1>2, <1>3, <1>4, HInvFacts DEF HInv, Backed
<1>9. Counted'
  <2> SUFFICES ASSUME oom = "nobody"
               PROVE  /\ gb'.rc = Cardinality(Open') + lost /\ (gb'.p <=> gb'.rc > 0)
                      /\ heap' = IF gb'.p THEN 1 ELSE 0
    BY <1>1 DEF Counted
  <2>1. gb.rc = Cardinality(Open) + lost /\ gb.p /\ heap = 1
    BY <1>3, HInvFacts DEF HInv, Counted
  <2>2. CASE gb.rc = 1
    <3>1. ~gb'.p /\ gb'.rc = 0 /\ Released(gb) = 1
      BY <1>4, <2>1, <2>2
    <3>2. Cardinality(Open') + lost = 0
      BY <1>2, <2>1, <2>2, HInvFacts
    <3>3. heap' = 0
      BY <1>1, <2>1, <3>1
    <3> QED
      BY <3>1, <3>2, <3>3
  <2>3. CASE gb.rc # 1
    BY <1>1, <1>2, <1>3, <1>4, <2>1, <2>3, HInvFacts
  <2> QED
    BY <2>2, <2>3
<1>10. Fits'
  BY <1>1, <1>4 DEF Fits, Nobody, Buffers
<1> QED
  BY <1>6, <1>7, <1>8, <1>9, <1>10 DEF HInv

LEMMA WsSendHInv ==
  ASSUME HInv, NEW i \in Slots, NEW bsz \in Payloads, WsSend(i, bsz)
  PROVE  HInv'
<1> DEFINE n == Slen(bsz) + bsz
<1>1. n \in Nat /\ RoundUp(n) \in Nat /\ RoundUp(n) >= n
  BY Sizes, HandlesAssumption
<1>2. h[i] # "none" /\ used' = [by |-> "ws_send", n |-> n] /\ UNCHANGED <<h, lost, oom>>
  BY DEF WsSend
<1>3. CASE /\ gb.z < n /\ gb' = [gb EXCEPT !.p = TRUE, !.z = RoundUp(n), !.room = RoundUp(n)]
           /\ heap' = IF gb.p THEN heap ELSE heap + 1
  <2> HIDE DEF n
  <2>1. /\ gb' \in Buffers /\ gb'.p /\ gb'.z = RoundUp(n) /\ gb'.room = RoundUp(n)
        /\ gb'.rc = gb.rc
    BY <1>1, <1>3, HInvFacts DEF Buffers
  <2>2. Open' = Open
    BY <1>2 DEF Open
  <2>3. heap' \in Nat
    BY <1>3, HInvFacts
  <2>4. HandlesTypeOK'
    BY <1>1, <1>2, <2>1, <2>3 DEF HInv, HandlesTypeOK, Buffers
  <2>5. oom = "nobody" => gb.p
    BY <1>2, SomeOpen, HInvFacts DEF HInv, Counted
  <2>6. Sized'
    BY <1>1, <1>2, <1>3, <2>1, <2>5, HInvFacts DEF HInv, Sized, BUFSZ
  <2>7. Backed'
    BY <1>2, <1>3, <2>1, <2>2, HInvFacts DEF HInv, Backed
  <2>8. Counted'
    BY <1>2, <1>3, <2>1, <2>2, <2>5, HInvFacts DEF HInv, Counted
  <2>9. Fits'
    BY <1>1, <1>2, <2>1 DEF Fits
  <2> QED
    BY <2>4, <2>6, <2>7, <2>8, <2>9 DEF HInv
<1>4. CASE ~(gb.z < n) /\ UNCHANGED <<gb, heap>>
  <2> HIDE DEF n
  <2>1. Open' = Open
    BY <1>2 DEF Open
  <2>2. HandlesTypeOK'
    BY <1>1, <1>2, <1>4 DEF HInv, HandlesTypeOK
  <2>3. Fits'
    BY <1>1, <1>2, <1>4, HInvFacts DEF HInv, Fits, Sized
  <2> QED
    BY <1>2, <1>4, <2>1, <2>2, <2>3 DEF HInv, Sized, Backed, Counted
<1> QED
  BY <1>3, <1>4 DEF WsSend

LEMMA WsSendOomHInv ==
  ASSUME HInv, NEW i \in Slots, NEW bsz \in Payloads, WsSendOom(i, bsz)
  PROVE  HInv'
<1>1. /\ gb' = [gb EXCEPT !.p = FALSE, !.z = 0, !.room = 0]
      /\ heap' = IF gb.p THEN heap - 1 ELSE heap
      /\ oom' = "ws_send" /\ used' = Nobody /\ UNCHANGED <<h, lost>>
  BY DEF WsSendOom
<1>2. gb' \in Buffers /\ ~gb'.p /\ gb'.z = 0 /\ gb'.room = 0 /\ gb'.rc = gb.rc
  BY <1>1, HInvFacts DEF Buffers
<1>3. heap' \in Nat
  BY <1>1, HInvFacts DEF HInv, Backed
<1>4. Open' = Open
  BY <1>1 DEF Open
<1>5. HandlesTypeOK'
  BY <1>1, <1>2, <1>3 DEF HInv, HandlesTypeOK, Buffers, Nobody
<1> QED
  BY <1>1, <1>2, <1>4, <1>5 DEF HInv, Sized, Backed, Counted, Fits, Nobody

LEMMA RestRequestHInv ==
  ASSUME HInv, NEW i \in Slots, RestRequest(i)
  PROVE  HInv'
<1>1. h[i] = "rest" /\ UNCHANGED <<h, gb, heap, lost, oom>>
  BY DEF RestRequest
<1>2. PICK n \in Requests : used' = [by |-> "rest_send", n |-> n]
  BY DEF RestRequest
<1>3. n \in Nat /\ n <= BUFSZ
  BY HandlesAssumption DEF BUFSZ
<1>4. Open' = Open
  BY <1>1 DEF Open
<1>5. HandlesTypeOK'
  BY <1>1, <1>2, <1>3 DEF HInv, HandlesTypeOK
<1>6. oom = "nobody" => gb.p
  BY <1>1, SomeOpen, HInvFacts DEF HInv, Counted
<1>7. Fits'
  <2>1. oom \in {"nobody", "ws_open", "ws_send"}
    BY DEF HInv, HandlesTypeOK
  <2>2. CASE oom = "nobody"
    BY <1>1, <1>2, <1>3, <1>6, <2>2, HInvFacts DEF HInv, Sized, Fits, BUFSZ
  <2> QED
    BY <1>1, <1>2, <2>1, <2>2 DEF Fits
<1> QED
  BY <1>1, <1>4, <1>5, <1>7 DEF HInv, Sized, Backed, Counted

\* rest_recv() reads into memory of its own.
LEMMA IdleHInv ==
  ASSUME HInv, used' \in {used, Nobody}, UNCHANGED <<h, gb, heap, lost, oom>>
  PROVE  HInv'
<1>1. Open' = Open
  BY DEF Open
<1>2. HandlesTypeOK'
  BY DEF HInv, HandlesTypeOK, Nobody
<1>3. Fits'
  BY HInvFacts DEF HInv, Fits, Nobody
<1> QED
  BY <1>1, <1>2, <1>3 DEF HInv, Sized, Backed, Counted

-----------------------------------------------------------------------------
LEMMA NextHInv == HInv /\ [Next]_vars => HInv'
<1> SUFFICES ASSUME HInv, [Next]_vars PROVE HInv'
  OBVIOUS
<1>1. CASE UNCHANGED vars
  <2>1. used' = used /\ UNCHANGED <<h, gb, heap, lost, oom>>
    BY <1>1 DEF vars, hvars
  <2> QED
    BY <2>1, IdleHInv
<1>2. CASE Next
  <2>1. PICK i \in Slots : RestSend(i) \/ RestRecv(i) \/ Others(i)
    BY <1>2 DEF Next
  <2>2. CASE RestSend(i)
    BY <2>2, RestRequestHInv DEF RestSend
  <2>3. CASE RestRecv(i)
    <3>1. used' = Nobody /\ UNCHANGED <<h, gb, heap, lost, oom>>
      BY <2>3 DEF RestRecv
    <3> QED
      BY <3>1, IdleHInv
  <2>4. CASE Others(i)
    BY <2>4, WsOpenOomHInv, WsOpenLostHInv, WsOpenRefusedHInv, WsOpenHInv, WsCloseHInv,
       WsSendHInv, WsSendOomHInv DEF Others
  <2> QED
    BY <2>1, <2>2, <2>3, <2>4
<1> QED
  BY <1>1, <1>2

\* The inductive invariant holds throughout.
THEOREM Invariance == Spec => []HInv
<1>1. RestInit => HInv
  BY InitHInv DEF RestInit
<1> QED
  BY <1>1, NextHInv, PTL DEF Spec

\* No call writes past the buffer that the handles share, or into one that has
\* been freed, for requests of up to BUFSZ and payloads of any length.
THEOREM BufferFits == Spec => []Fits
<1>1. HInv => Fits
  BY DEF HInv
<1> QED
  BY <1>1, Invariance, PTL

\* gbrc counts the handles and the calls that have failed to connect, and there
\* is a buffer, one, exactly when it is not zero.
THEOREM BufferCounted == Spec => []Counted
<1>1. HInv => Counted
  BY DEF HInv
<1> QED
  BY <1>1, Invariance, PTL

-----------------------------------------------------------------------------
(* Answers *)

\* What may come behind the header, and in all.
BodyTs == {"data", "size", "size+", "crlf"}
Ts == BodyTs \cup {"header", "len", "len+", "enc", "enc+", "eoh", "eoh+"}
Token == [t : Ts, n : Nat]
BodyTok == [t : BodyTs, n : Nat]

\* A non-empty set of naturals has a least element.
LEMMA MinExists ==
  ASSUME NEW T \in SUBSET Nat, T # {}
  PROVE  \E x \in T : \A y \in T : x <= y
<1>1. PICK x \in T : \A y \in T : ~(<<y, x>> \in OpToRel(<, Nat))
  BY NatLessThanWellFounded, WFMin
<1>2. \A y \in T : ~(y < x)
  BY <1>1 DEF OpToRel
<1> QED
  BY <1>2

IsRear(f, n, parts, end) == f = [j \in 0 .. n |-> IF j = 0 THEN end ELSE parts[j] \o f[j - 1]]

\* There is a function with the equation of Rear(): if there were none for n
\* parts, take the least such n and add a part to the function for n - 1.
LEMMA RearExists ==
  ASSUME NEW parts, NEW end, NEW n \in Nat
  PROVE  \E f : IsRear(f, n, parts, end)
<1> DEFINE Bad == {m \in Nat : ~ \E f : IsRear(f, m, parts, end)}
<1> SUFFICES ASSUME Bad # {} PROVE FALSE
  OBVIOUS
<1>1. PICK m \in Bad : \A y \in Bad : m <= y
  BY MinExists
<1>2. CASE m = 0
  <2> DEFINE f == [j \in 0 .. 0 |-> end]
  <2>1. IsRear(f, 0, parts, end)
    BY DEF IsRear
  <2> QED
    BY <2>1, <1>2
<1>3. CASE m # 0
  <2>1. m - 1 \in Nat /\ m - 1 \notin Bad
    BY <1>1, <1>3
  <2>2. PICK g : IsRear(g, m - 1, parts, end)
    BY <2>1
  <2> DEFINE f == [j \in 0 .. m |-> IF j = m THEN parts[m] \o g[m - 1] ELSE g[j]]
  <2>3. \A j \in 0 .. m - 1 : g[j] = IF j = 0 THEN end ELSE parts[j] \o g[j - 1]
    BY <2>2 DEF IsRear
  <2>4. \A j \in 0 .. m : f[j] = IF j = 0 THEN end ELSE parts[j] \o f[j - 1]
    <3>1. TAKE j \in 0 .. m
    <3>2. CASE j = m
      <4>1. f[j - 1] = g[m - 1] /\ f[j] = parts[m] \o g[m - 1]
        BY <3>2, <1>3, <2>1
      <4> QED
        BY <4>1, <3>2, <1>3
    <3>3. CASE j # m
      <4>1. f[j] = g[j] /\ j \in 0 .. m - 1
        BY <3>3, <1>1
      <4>2. j # 0 => f[j - 1] = g[j - 1]
        BY <3>3
      <4> HIDE DEF f
      <4> QED
        BY <4>1, <4>2, <2>3
    <3> QED
      BY <3>2, <3>3
  <2>5. f = [j \in 0 .. m |-> f[j]]
    OBVIOUS
  <2> HIDE DEF f
  <2>6. [j \in 0 .. m |-> f[j]] = [j \in 0 .. m |-> IF j = 0 THEN end ELSE parts[j] \o f[j - 1]]
    BY <2>4, Zenon
  <2>7. IsRear(f, m, parts, end)
    BY <2>5, <2>6, Zenon DEF IsRear
  <2> QED
    BY <2>7
<1> QED
  BY <1>2, <1>3

\* So Rear() is what its definition says.
LEMMA RearStep ==
  ASSUME NEW S, NEW parts \in Seq(S), NEW end
  PROVE  \A j \in 0 .. Len(parts) :
           Rear(parts, end)[j] = IF j = 0 THEN end ELSE parts[j] \o Rear(parts, end)[j - 1]
<1> DEFINE n == Len(parts)
<1>1. \E f : f = [j \in 0 .. n |-> IF j = 0 THEN end ELSE parts[j] \o f[j - 1]]
  <2>1. Len(parts) \in Nat
    OBVIOUS
  <2>2. \E f : IsRear(f, n, parts, end)
    BY <2>1, RearExists, Zenon
  <2> QED
    BY <2>2, Zenon DEF IsRear
<1> DEFINE r == CHOOSE f : f = [j \in 0 .. n |-> IF j = 0 THEN end ELSE parts[j] \o f[j - 1]]
<1>2. r = [j \in 0 .. n |-> IF j = 0 THEN end ELSE parts[j] \o r[j - 1]]
  BY <1>1, Zenon
<1>3. Rear(parts, end) = r
  BY DEF Rear
<1> HIDE DEF r
<1> QED
  BY <1>2, <1>3, Zenon

\* What is made of tokens of a kind consists of them.
LEMMA RearType ==
  ASSUME NEW S, NEW parts \in Seq(Seq(S)), NEW end \in Seq(S)
  PROVE  \A j \in 0 .. Len(parts) : Rear(parts, end)[j] \in Seq(S)
<1> DEFINE f == Rear(parts, end)
           Bad == {m \in 0 .. Len(parts) : f[m] \notin Seq(S)}
<1>0. Len(parts) \in Nat /\ \A j \in 1 .. Len(parts) : parts[j] \in Seq(S)
  OBVIOUS
<1>1. \A j \in 0 .. Len(parts) : f[j] = IF j = 0 THEN end ELSE parts[j] \o f[j - 1]
  BY RearStep
<1> HIDE DEF f
<1> SUFFICES ASSUME Bad # {} PROVE FALSE
  BY DEF f
<1>2. Bad \in SUBSET Nat
  BY <1>0
<1>3. PICK m \in Bad : \A y \in Bad : m <= y
  BY <1>2, MinExists
<1>4. CASE m = 0
  BY <1>0, <1>1, <1>4
<1>5. CASE m # 0
  <2>1. m \in 1 .. Len(parts) /\ m - 1 \in 0 .. Len(parts) /\ m - 1 \notin Bad
    BY <1>0, <1>3, <1>5
  <2>2. f[m - 1] \in Seq(S) /\ parts[m] \in Seq(S)
    BY <2>1, <1>0
  <2>3. f[m] = parts[m] \o f[m - 1]
    BY <1>1, <2>1
  <2>4. f[m] \in Seq(S)
    BY <2>2, <2>3
  <2> QED
    BY <2>4
<1> QED
  BY <1>4, <1>5

LEMMA DataType ==
  ASSUME NEW k \in Nat, NEW n \in Nat
  PROVE  /\ Data(k, n) \in Seq([t : {"data"}, n : Nat]) /\ Len(Data(k, n)) = n
         /\ Data(k, n) \in Seq(BodyTok)
<1> DEFINE D == [t : {"data"}, n : Nat]
<1>1. \A j \in 1 .. n : Tok("data", 10 * k + j) \in D /\ Tok("data", 10 * k + j) \in BodyTok
  BY DEF Tok, BodyTok, BodyTs
<1> QED
  BY <1>1 DEF Data

LEMMA ChunksType ==
  ASSUME NEW ns \in Seq(Nat \ {0})
  PROVE  /\ \A j \in 0 .. Len(ns) : Chunks(ns)[j] \in Seq(BodyTok)
         /\ Chunks(ns)[0] = Append(Size2(0), CRLF)
         /\ \A j \in 1 .. Len(ns) :
              Chunks(ns)[j] = Append(Size2(ns[j]) \o Data(j, ns[j]), CRLF) \o Chunks(ns)[j - 1]
<1> DEFINE parts == [j \in DOMAIN ns |-> Append(Size2(ns[j]) \o Data(j, ns[j]), CRLF)]
           end == Append(Size2(0), CRLF)
<1>1. ASSUME NEW n \in Nat PROVE Size2(n) \in Seq(BodyTok)
  BY DEF Size2, Tok, BodyTok, BodyTs
<1>2. CRLF \in BodyTok
  BY DEF CRLF, Tok, BodyTok, BodyTs
<1>3. DOMAIN ns = 1 .. Len(ns) /\ Len(ns) \in Nat /\ \A j \in DOMAIN ns : j \in Nat /\ ns[j] \in Nat
  OBVIOUS
<1>4. ASSUME NEW j \in DOMAIN ns PROVE parts[j] \in Seq(BodyTok)
  <2>1. Size2(ns[j]) \in Seq(BodyTok) /\ Data(j, ns[j]) \in Seq(BodyTok)
    BY <1>1, <1>3, DataType
  <2> QED
    BY <2>1, <1>2
<1>5. parts \in Seq(Seq(BodyTok)) /\ Len(parts) = Len(ns)
  <2> HIDE DEF parts
  <2>1. DOMAIN parts = 1 .. Len(ns) /\ parts = [j \in 1 .. Len(ns) |-> parts[j]]
    BY <1>3 DEF parts
  <2> QED
    BY <2>1, <1>3, <1>4
<1>6. end \in Seq(BodyTok)
  BY <1>1, <1>2
<1>7. Chunks(ns) = Rear(parts, end)
  BY DEF Chunks
<1> HIDE DEF end
<1>8. \A j \in 1 .. Len(ns) : parts[j] = Append(Size2(ns[j]) \o Data(j, ns[j]), CRLF)
  BY <1>3
<1> HIDE DEF parts
<1>9. \A j \in 0 .. Len(ns) : Rear(parts, end)[j] \in Seq(BodyTok)
  BY <1>5, <1>6, RearType
<1>10. \A j \in 0 .. Len(ns) : Rear(parts, end)[j] = IF j = 0 THEN end ELSE parts[j] \o Rear(parts, end)[j - 1]
  BY <1>5, RearStep
<1>11. Rear(parts, end)[0] = end
  BY <1>3, <1>10
<1>12. \A j \in 1 .. Len(ns) : Rear(parts, end)[j] = parts[j] \o Rear(parts, end)[j - 1]
  <2>1. \A j \in 1 .. Len(ns) : j \in 0 .. Len(ns) /\ j # 0
    BY <1>3
  <2> QED
    BY <2>1, <1>10, Zenon
<1> QED
  BY <1>7, <1>8, <1>9, <1>11, <1>12 DEF end

-----------------------------------------------------------------------------
(* rest_recv() *)

RState == [hdr : BOOLEAN, len : BOOLEAN, enc : BOOLEAN, togo : Nat]
Fit(s) == s \in RState /\ (s.len => ~s.enc)

\* xmemmem() finds the first whole t, if there is one.
LEMMA Found ==
  ASSUME NEW r \in Seq(Token), NEW t
  PROVE  /\ xmemmem(r, t) \in 0 .. Len(r)
         /\ xmemmem(r, t) # 0 =>
              /\ xmemmem(r, t) \in 1 .. Len(r) - 1
              /\ r[xmemmem(r, t)].t = t /\ r[xmemmem(r, t) + 1].t = Second[t]
         /\ \A j \in 1 .. Len(r) - 1 : r[j].t = t /\ r[j + 1].t = Second[t] =>
              xmemmem(r, t) # 0 /\ xmemmem(r, t) <= j
<1> DEFINE at == {k \in 1 .. Len(r) - 1 : r[k].t = t /\ r[k + 1].t = Second[t]}
           x == CHOOSE k \in at : \A j \in at : k <= j
<1>0. Len(r) \in Nat
  OBVIOUS
<1>1. xmemmem(r, t) = IF at = {} THEN 0 ELSE x
  BY DEF xmemmem
<1>2. CASE at = {}
  <2>1. xmemmem(r, t) = 0
    BY <1>1, <1>2
  <2> QED
    BY <2>1, <1>0, <1>2
<1>3. CASE at # {}
  <2>1. at \in SUBSET Nat
    BY <1>0
  <2>2. \E k \in at : \A j \in at : k <= j
    BY <2>1, <1>3, MinExists
  <2>3. x \in at /\ \A j \in at : x <= j
    BY <2>2, Zenon
  <2>4. xmemmem(r, t) = x
    BY <1>1, <1>3
  <2> HIDE DEF x
  <2> QED
    BY <2>3, <2>4, <1>0
<1> QED
  BY <1>2, <1>3

LEMMA BodyTokens == BodyTok \subseteq Token
BY DEF BodyTok, Token, Ts

LEMMA FreshFit == Fit(Fresh) /\ ~Fresh.hdr
BY DEF Fit, RState, Fresh

LEMMA SnarfFit ==
  ASSUME NEW s, Fit(s), NEW r \in Seq(Token)
  PROVE  Fit(Snarf(s, r)) /\ Snarf(s, r).hdr = s.hdr
<1>1. CASE s.len \/ s.enc \/ s.hdr
  BY <1>1 DEF Snarf
<1>2. CASE ~(s.len \/ s.enc \/ s.hdr)
  <2>1. CASE xmemmem(r, "len") # 0
    <3>1. xmemmem(r, "len") \in 1 .. Len(r) /\ Len(r) \in Nat
      BY <2>1, Found
    <3>2. r[xmemmem(r, "len")].n \in Nat
      <4>1. r[xmemmem(r, "len")] \in Token
        BY <3>1
      <4> QED
        BY <4>1 DEF Token
    <3>3. Snarf(s, r) = [s EXCEPT !.len = TRUE, !.togo = r[xmemmem(r, "len")].n]
      BY <1>2, <2>1 DEF Snarf
    <3> QED
      BY <3>2, <3>3, <1>2 DEF Fit, RState
  <2>2. CASE xmemmem(r, "len") = 0 /\ xmemmem(r, "enc") # 0
    <3>1. Snarf(s, r) = [s EXCEPT !.enc = TRUE, !.togo = 0]
      BY <1>2, <2>2 DEF Snarf
    <3>2. Snarf(s, r) \in RState
      <4>1. \A e \in BOOLEAN, g \in Nat : [s EXCEPT !.enc = e, !.togo = g] \in RState
        BY DEF Fit, RState
      <4> QED
        BY <3>1, <4>1
    <3>3. Snarf(s, r).len = s.len /\ Snarf(s, r).hdr = s.hdr
      BY <3>1, Zenon DEF Fit, RState
    <3> QED
      BY <3>2, <3>3, <1>2 DEF Fit
  <2>3. CASE xmemmem(r, "len") = 0 /\ xmemmem(r, "enc") = 0
    BY <1>2, <2>3 DEF Snarf
  <2> QED
    BY <2>1, <2>2, <2>3
<1> QED
  BY <1>1, <1>2

\* What is put out is body, or body and a newline, behind which the state is
\* fresh.
Gives(g, K) ==
  /\ Fit(g.s)
  /\ \/ g.out \in Seq(K)
     \/ ~g.s.hdr /\ \E p \in Seq(K) : g.out = Append(p, NL)

LEMMA Concat ==
  ASSUME NEW K, NEW p \in Seq(K), NEW q \in Seq(K)
  PROVE  /\ p \o q \in Seq(K) /\ Len(p \o q) = Len(p) + Len(q) /\ Len(p) \in Nat /\ Len(q) \in Nat
         /\ \A i \in 1 .. Len(p) : (p \o q)[i] = p[i]
         /\ \A i \in 1 .. Len(q) : (p \o q)[Len(p) + i] = q[i]
<1> DEFINE c == p \o q
<1>1. /\ c \in Seq(K) /\ Len(c) = Len(p) + Len(q)
      /\ \A i \in 1 .. Len(p) + Len(q) : c[i] = IF i <= Len(p) THEN p[i] ELSE q[i - Len(p)]
  BY ConcatProperties, Zenon
<1>2. Len(p) \in Nat /\ Len(q) \in Nat
  OBVIOUS
<1> HIDE DEF c
<1>3. \A i \in 1 .. Len(p) : c[i] = p[i]
  BY <1>1, <1>2
<1>4. \A i \in 1 .. Len(q) : c[Len(p) + i] = q[i]
  BY <1>1, <1>2
<1> QED
  BY <1>1, <1>2, <1>3, <1>4 DEF c

LEMMA FrontType ==
  ASSUME NEW K, NEW q \in Seq(K), NEW m \in Nat, m <= Len(q)
  PROVE  SubSeq(q, 1, m) \in Seq(K) /\ Len(SubSeq(q, 1, m)) = m
         /\ \A i \in 1 .. m : SubSeq(q, 1, m)[i] = q[i]
<1>1. Len(q) \in Nat /\ \A i \in 1 .. m : q[i] \in K
  OBVIOUS
<1> QED
  BY <1>1, SubSeqProperties

LEMMA BackType ==
  ASSUME NEW K, NEW q \in Seq(K), NEW m \in Nat, m <= Len(q) + 1, m > 0
  PROVE  SubSeq(q, m, Len(q)) \in Seq(K) /\ Len(SubSeq(q, m, Len(q))) = Len(q) - m + 1
         /\ \A i \in 1 .. Len(q) - m + 1 : SubSeq(q, m, Len(q))[i] = q[m + i - 1]
<1>1. Len(q) \in Nat /\ \A i \in m .. Len(q) : q[i] \in K
  OBVIOUS
<1> QED
  BY <1>1, SubSeqProperties

LEMMA RestType ==
  ASSUME NEW K, NEW w \in Seq(K), NEW n \in 0 .. Len(w)
  PROVE  SubSeq(w, n + 1, Len(w)) \in Seq(K) /\ Len(SubSeq(w, n + 1, Len(w))) = Len(w) - n
         /\ \A i \in 1 .. Len(w) - n : SubSeq(w, n + 1, Len(w))[i] = w[n + i]
<1> DEFINE r == SubSeq(w, n + 1, Len(w))
<1>1. Len(w) \in Nat /\ n + 1 \in Nat /\ n + 1 <= Len(w) + 1 /\ n + 1 > 0
  OBVIOUS
<1>2. r \in Seq(K) /\ Len(r) = Len(w) - (n + 1) + 1
      /\ \A i \in 1 .. Len(w) - (n + 1) + 1 : r[i] = w[(n + 1) + i - 1]
  BY <1>1, BackType
<1> HIDE DEF r
<1>3. Len(r) = Len(w) - n /\ \A i \in 1 .. Len(w) - n : (n + 1) + i - 1 = n + i /\ i \in 1 .. Len(w) - (n + 1) + 1
  BY <1>1, <1>2
<1> QED
  BY <1>2, <1>3 DEF r

LEMMA InChunkGives ==
  ASSUME NEW K, NEW s, Fit(s), NEW q \in Seq(K)
  PROVE  Gives(InChunk(s, q), K)
<1>0. Len(q) \in Nat /\ s.togo \in Nat
  BY DEF Fit, RState
<1>1. CASE Len(q) < s.togo
  <2>1. Fit([s EXCEPT !.togo = @ - Len(q)])
    BY <1>0, <1>1 DEF Fit, RState
  <2> QED
    BY <2>1, <1>1 DEF InChunk, Gives
<1>2. CASE ~(Len(q) < s.togo)
  <2>1. Fit([s EXCEPT !.togo = 0])
    BY DEF Fit, RState
  <2>2. SubSeq(q, 1, s.togo) \in Seq(K)
    BY <1>0, <1>2, FrontType
  <2> QED
    BY <2>1, <2>2, <1>2 DEF InChunk, Gives
<1> QED
  BY <1>1, <1>2

LEMMA BodyGives ==
  ASSUME NEW K, K \subseteq Token, NEW s, Fit(s), NEW q \in Seq(K)
  PROVE  Gives(Body(s, q), K)
<1>0. Len(q) \in Nat /\ s.togo \in Nat /\ (\A i \in 1 .. Len(q) : q[i].n \in Nat)
  BY DEF Fit, RState, Token
<1>1. CASE s.len
  <2>1. Body(s, q) = ByLen(s, q)
    BY <1>1 DEF Body
  <2>2. CASE Len(q) < s.togo
    <3>1. Fit([s EXCEPT !.togo = @ - Len(q)])
      BY <1>0, <2>2 DEF Fit, RState
    <3> QED
      BY <2>1, <2>2, <3>1 DEF ByLen, Gives
  <2>3. CASE ~(Len(q) < s.togo)
    <3>1. SubSeq(q, 1, s.togo) \in Seq(K)
      BY <1>0, <2>3, FrontType
    <3>2. Body(s, q) = [s |-> Fresh, out |-> Append(SubSeq(q, 1, s.togo), NL)]
      BY <2>1, <2>3 DEF ByLen
    <3>3. Body(s, q).s = Fresh /\ Body(s, q).out = Append(SubSeq(q, 1, s.togo), NL)
      BY <3>1, <3>2
    <3>4. \E p \in Seq(K) : Body(s, q).out = Append(p, NL)
      BY <3>1, <3>2, <3>3, Zenon
    <3> QED
      BY <3>3, <3>4, FreshFit DEF Gives
  <2> QED
    BY <2>2, <2>3
<1>2. CASE ~s.len /\ s.enc
  <2> DEFINE k == IF q # <<>> /\ q[1] = CRLF THEN 2 ELSE 1
             sized == k < Len(q) /\ xmemmem(SubSeq(q, k, k + 1), "size") # 0 /\ q[k].n > 0
  <2>1. Body(s, q) = IF s.togo > 0 THEN InChunk(s, q)
                     ELSE IF sized THEN InChunk([s EXCEPT !.togo = q[k].n], SubSeq(q, k + 2, Len(q)))
                     ELSE [s |-> Fresh, out |-> <<NL>>]
    BY <1>2 DEF Body, ByEnc
  <2>2. k \in {1, 2}
    OBVIOUS
  <2> HIDE DEF k
  <2>3. CASE s.togo > 0
    BY <2>1, <2>3, InChunkGives
  <2>4. CASE ~(s.togo > 0) /\ sized
    <3>1. k + 2 \in Nat /\ k + 2 <= Len(q) + 1 /\ k + 2 > 0 /\ q[k].n \in Nat
      BY <1>0, <2>2, <2>4
    <3>2. SubSeq(q, k + 2, Len(q)) \in Seq(K)
      BY <3>1, BackType
    <3>3. Fit([s EXCEPT !.togo = q[k].n])
      BY <3>1 DEF Fit, RState
    <3> QED
      BY <2>1, <2>4, <3>2, <3>3, InChunkGives
  <2>5. CASE ~(s.togo > 0) /\ ~sized
    <3>1. Body(s, q) = [s |-> Fresh, out |-> <<NL>>]
      BY <2>1, <2>5
    <3>2. <<NL>> = Append(<<>>, NL) /\ <<>> \in Seq(K)
      OBVIOUS
    <3>3. Body(s, q).s = Fresh /\ Body(s, q).out = Append(<<>>, NL)
      BY <3>1, <3>2
    <3>4. \E p \in Seq(K) : Body(s, q).out = Append(p, NL)
      BY <3>1, <3>2, <3>3, Zenon
    <3> QED
      BY <3>3, <3>4, FreshFit DEF Gives
  <2> QED
    BY <2>3, <2>4, <2>5
<1>3. CASE ~s.len /\ ~s.enc
  BY <1>3 DEF Body, Gives
<1> QED
  BY <1>1, <1>2, <1>3

\* Behind "eoh" there is its second half, and nothing but body behind that.
Tidy(w) == \A k \in 1 .. Len(w) : w[k].t = "eoh" => \A j \in k + 2 .. Len(w) : w[j] \in BodyTok

\* A read of anything leaves a state of the right type.
LEMMA RecvFit ==
  ASSUME NEW s, Fit(s), NEW r \in Seq(Token)
  PROVE  Fit(rest_recv(s, r).s)
<1> DEFINE t == Snarf(s, r)
           k == xmemmem(r, "eoh")
           q == SubSeq(r, k + 2, Len(r))
<1>1. Fit(t)
  BY SnarfFit
<1>2. rest_recv(s, r) = IF t.hdr THEN Body(t, r) ELSE IF k = 0 THEN [s |-> t, out |-> <<>>]
                        ELSE Body([t EXCEPT !.hdr = q # <<>>], q)
  BY DEF rest_recv
<1>3. k # 0 => q \in Seq(Token)
  <2>1. Len(r) \in Nat /\ (k # 0 => k \in 1 .. Len(r) - 1)
    BY Found
  <2>2. k # 0 => k + 2 \in Nat /\ k + 2 <= Len(r) + 1 /\ k + 2 > 0
    BY <2>1
  <2> HIDE DEF k
  <2> QED
    BY <2>2, BackType
<1>4. Fit([t EXCEPT !.hdr = q # <<>>])
  <2> HIDE DEF t, q
  <2>1. (q # <<>>) \in BOOLEAN
    OBVIOUS
  <2> QED
    BY <1>1, <2>1 DEF Fit, RState
<1> HIDE DEF t, k, q
<1>5. t.hdr => Gives(Body(t, r), Token)
  BY <1>1, BodyGives
<1>6. k # 0 => Gives(Body([t EXCEPT !.hdr = q # <<>>], q), Token)
  BY <1>3, <1>4, BodyGives
<1> QED
  BY <1>1, <1>2, <1>5, <1>6 DEF Gives

\* A read of an answer puts out nothing before the header's end, and behind it
\* what Gives() says; what is left on the wire is body as soon as there is
\* output.
LEMMA RecvGives ==
  ASSUME NEW s, Fit(s), NEW w \in Seq(Token), Tidy(w), NEW n \in 1 .. Len(w),
         s.hdr => w \in Seq(BodyTok)
  PROVE  LET g == rest_recv(s, SubSeq(w, 1, n))
             rest == SubSeq(w, n + 1, Len(w))
         IN  /\ \/ g.out = <<>> /\ ~s.hdr /\ ~g.s.hdr
                \/ Gives(g, BodyTok) /\ rest \in Seq(BodyTok)
             /\ w \in Seq(BodyTok) /\ ~s.hdr => g.out = <<>> /\ ~g.s.hdr
             /\ rest \in Seq(Token) /\ Tidy(rest)
             /\ w \in Seq(BodyTok) => rest \in Seq(BodyTok)
<1> DEFINE r == SubSeq(w, 1, n)
           rest == SubSeq(w, n + 1, Len(w))
           t == Snarf(s, r)
           k == xmemmem(r, "eoh")
           q == SubSeq(r, k + 2, Len(r))
           g == rest_recv(s, r)
<1>0. Len(w) \in Nat /\ n \in Nat /\ n <= Len(w) /\ n + 1 \in Nat /\ n + 1 <= Len(w) + 1 /\ n + 1 > 0
  OBVIOUS
<1>1. /\ r \in Seq(Token) /\ Len(r) = n /\ \A i \in 1 .. n : r[i] = w[i]
      /\ w \in Seq(BodyTok) => r \in Seq(BodyTok)
  BY <1>0, FrontType
<1>2. /\ rest \in Seq(Token) /\ Len(rest) = Len(w) - n
      /\ \A i \in 1 .. Len(w) - n : rest[i] = w[n + i]
      /\ w \in Seq(BodyTok) => rest \in Seq(BodyTok)
  BY <1>0, RestType
<1> HIDE DEF r, rest
<1>3. Tidy(rest)
  <2> SUFFICES ASSUME NEW i \in 1 .. Len(rest), rest[i].t = "eoh", NEW j \in i + 2 .. Len(rest)
               PROVE  rest[j] \in BodyTok
    BY DEF Tidy
  <2>1. i \in 1 .. Len(w) - n /\ j \in 1 .. Len(w) - n /\ n + i \in 1 .. Len(w) /\ n + j \in (n + i) + 2 .. Len(w)
    BY <1>0, <1>2
  <2> QED
    BY <2>1, <1>2 DEF Tidy
<1>4. Fit(t) /\ t.hdr = s.hdr
  BY <1>1, SnarfFit
<1>5. g = IF t.hdr THEN Body(t, r) ELSE IF k = 0 THEN [s |-> t, out |-> <<>>]
                   ELSE Body([t EXCEPT !.hdr = q # <<>>], q)
  BY DEF rest_recv
<1>6. k # 0 => /\ k \in 1 .. n - 1 /\ w[k].t = "eoh"
               /\ q \in Seq(BodyTok) /\ rest \in Seq(BodyTok) /\ w \notin Seq(BodyTok)
  <2> SUFFICES ASSUME k # 0 PROVE k \in 1 .. n - 1 /\ w[k].t = "eoh" /\ q \in Seq(BodyTok) /\ rest \in Seq(BodyTok)
                                  /\ w \notin Seq(BodyTok)
    OBVIOUS
  <2>1. k \in 1 .. n - 1 /\ r[k].t = "eoh"
    BY <1>1, Found
  <2> HIDE DEF k
  <2>2. w[k].t = "eoh" /\ k \in 1 .. Len(w)
    BY <1>0, <1>1, <2>1
  <2>3. \A j \in k + 2 .. Len(w) : w[j] \in BodyTok
    BY <2>2 DEF Tidy
  <2>4. q \in Seq(BodyTok)
    <3>1. k + 2 \in Int /\ n \in Int /\ \A i \in k + 2 .. n : r[i] \in BodyTok
      BY <1>0, <1>1, <2>1, <2>3, SMTT(60)
    <3>2. SubSeq(r, k + 2, n) \in Seq(BodyTok)
      BY <3>1, SubSeqProperties
    <3> QED
      BY <3>2, <1>1
  <2>5. rest \in Seq(BodyTok)
    <3>1. n + 1 \in Int /\ Len(w) \in Int /\ \A i \in n + 1 .. Len(w) : w[i] \in BodyTok
      BY <1>0, <2>1, <2>3
    <3>2. SubSeq(w, n + 1, Len(w)) \in Seq(BodyTok)
      BY <3>1, SubSeqProperties
    <3> QED
      BY <3>2 DEF rest
  <2>6. w \notin Seq(BodyTok)
    <3>1. w \in Seq(BodyTok) => w[k] \in BodyTok
      BY <2>2
    <3>2. w[k] \in BodyTok => w[k].t \in BodyTs
      BY DEF BodyTok
    <3> QED
      BY <2>2, <3>1, <3>2 DEF BodyTs
  <2> QED
    BY <2>1, <2>2, <2>4, <2>5, <2>6
<1>7. Fit([t EXCEPT !.hdr = q # <<>>])
  <2> HIDE DEF t, q
  <2>1. (q # <<>>) \in BOOLEAN
    OBVIOUS
  <2> QED
    BY <1>4, <2>1 DEF Fit, RState
<1>8. BodyTok \subseteq Token
  BY BodyTokens
<1> HIDE DEF t, k, q, g
<1>9. CASE t.hdr
  <2>1. Gives(Body(t, r), BodyTok) /\ rest \in Seq(BodyTok)
    BY <1>1, <1>2, <1>4, <1>8, <1>9, BodyGives
  <2>2. Gives(g, BodyTok) /\ rest \in Seq(BodyTok) /\ s.hdr
    BY <2>1, <1>4, <1>5, <1>9
  <2> QED
    BY <2>2, <1>2, <1>3 DEF g, r, rest
<1>10. CASE ~t.hdr /\ k = 0
  <2>1. g.out = <<>> /\ ~s.hdr /\ ~g.s.hdr
    BY <1>4, <1>5, <1>10
  <2> QED
    BY <2>1, <1>2, <1>3 DEF g, r, rest
<1>11. CASE ~t.hdr /\ k # 0
  <2>1. Gives(Body([t EXCEPT !.hdr = q # <<>>], q), BodyTok)
    BY <1>6, <1>7, <1>8, <1>11, BodyGives
  <2>2. Gives(g, BodyTok) /\ rest \in Seq(BodyTok) /\ w \notin Seq(BodyTok)
    BY <2>1, <1>5, <1>6, <1>11
  <2> QED
    BY <2>2, <1>2, <1>3 DEF g, r, rest
<1> QED
  BY <1>9, <1>10, <1>11

-----------------------------------------------------------------------------
(* The state of the handles that speak REST *)

\* The header of an answer that tells a length, or chunks.
Header(m) == <<Tok("header", 0)>> \o m \o Eoh2

LEMMA HeaderTokens ==
  ASSUME NEW a \in Token, NEW b \in Token, NEW body \in Seq(Token)
  PROVE  LET w == Header(<<a, b>>) \o body
         IN  /\ w \in Seq(Token) /\ Len(w) = 5 + Len(body)
             /\ w[1] = Tok("header", 0) /\ w[2] = a /\ w[3] = b
             /\ w[4] = Tok("eoh", 0) /\ w[5] = Tok("eoh+", 0)
             /\ \A k \in 1 .. Len(body) : w[5 + k] = body[k]
<1> DEFINE hd == Tok("header", 0)
           e == Tok("eoh", 0)
           f == Tok("eoh+", 0)
           x == Header(<<a, b>>)
<1>1. hd \in Token /\ e \in Token /\ f \in Token
  BY DEF Tok, Token, Ts
<1>2. x = <<hd>> \o <<a, b>> \o <<e, f>>
  BY DEF Header, Eoh2
<1> HIDE DEF hd, e, f, x
<1>3. /\ x \in Seq(Token) /\ Len(x) = 5
      /\ x[1] = hd /\ x[2] = a /\ x[3] = b /\ x[4] = e /\ x[5] = f
  <2> DEFINE y == <<hd>> \o <<a, b>>
  <2>1. y \in Seq(Token) /\ Len(y) = 3 /\ y[1] = hd /\ y[2] = a /\ y[3] = b
    BY <1>1
  <2> DEFINE z == <<e, f>>
  <2>2. z \in Seq(Token) /\ Len(z) = 2 /\ z[1] = e /\ z[2] = f
    BY <1>1
  <2> HIDE DEF y, z
  <2>3. /\ y \o z \in Seq(Token) /\ Len(y \o z) = Len(y) + Len(z)
        /\ \A i \in 1 .. Len(y) : (y \o z)[i] = y[i]
        /\ \A i \in 1 .. Len(z) : (y \o z)[Len(y) + i] = z[i]
    <3>1. y \in Seq(Token) /\ z \in Seq(Token)
      BY <2>1, <2>2
    <3> QED
      BY <3>1, Concat
  <2>4. /\ (y \o z)[1] = y[1] /\ (y \o z)[2] = y[2] /\ (y \o z)[3] = y[3]
        /\ (y \o z)[4] = z[1] /\ (y \o z)[5] = z[2]
    BY <2>1, <2>2, <2>3
  <2>5. x = y \o z
    BY <1>2 DEF y, z
  <2> QED
    BY <2>1, <2>2, <2>3, <2>4, <2>5
<1>4. /\ x \o body \in Seq(Token) /\ Len(x \o body) = 5 + Len(body)
      /\ \A i \in 1 .. 5 : (x \o body)[i] = x[i]
      /\ \A k \in 1 .. Len(body) : (x \o body)[5 + k] = body[k]
  <2>1. /\ x \o body \in Seq(Token) /\ Len(x \o body) = Len(x) + Len(body) /\ Len(body) \in Nat
        /\ \A i \in 1 .. Len(x) : (x \o body)[i] = x[i]
        /\ \A i \in 1 .. Len(body) : (x \o body)[Len(x) + i] = body[i]
    <3>1. x \in Seq(Token)
      BY <1>3
    <3> QED
      BY <3>1, Concat
  <2> QED
    BY <2>1, <1>3
<1>5. /\ (x \o body)[1] = hd /\ (x \o body)[2] = a /\ (x \o body)[3] = b
      /\ (x \o body)[4] = e /\ (x \o body)[5] = f
  BY <1>3, <1>4
<1> QED
  BY <1>4, <1>5 DEF x, hd, e, f

\* The two kinds of answers.
LEMMA AnswerKinds ==
  ASSUME NEW a \in Answers
  PROVE  \/ \E n \in Nat : /\ a.bytes = Header(Len2(n)) \o Data(1, n)
                           /\ a.line = Append(Data(1, n), NL)
         \/ \E ns \in Seq(Nat \ {0}) : /\ a.bytes = Header(Enc2) \o Chunks(ns)[Len(ns)]
                                       /\ a.line = Bodies(ns)[Len(ns)]
<1>1. CASE a \in {ByLength(n) : n \in Lengths}
  <2>1. PICK n \in Lengths : a = ByLength(n)
    BY <1>1
  <2>2. n \in Nat
    BY RestAssumption
  <2>3. a.bytes = Header(Len2(n)) \o Data(1, n) /\ a.line = Append(Data(1, n), NL)
    BY <2>1 DEF ByLength, Header
  <2> QED
    BY <2>2, <2>3
<1>2. CASE a \in {ByChunks(ns) : ns \in Chunkings}
  <2>1. PICK ns \in Chunkings : a = ByChunks(ns)
    BY <1>2
  <2>2. ns \in Seq(Nat \ {0})
    BY RestAssumption
  <2>3. a.bytes = Header(Enc2) \o Chunks(ns)[Len(ns)] /\ a.line = Bodies(ns)[Len(ns)]
    BY <2>1 DEF ByChunks, Header
  <2> QED
    BY <2>2, <2>3
<1> QED
  BY <1>1, <1>2 DEF Answers

LEMMA AnswerTidy ==
  ASSUME NEW a \in Answers
  PROVE  a.bytes \in Seq(Token) /\ a.bytes # <<>> /\ Tidy(a.bytes)
<1>1. ASSUME NEW x \in Token, NEW y \in Token, NEW body \in Seq(BodyTok),
             x.t \in {"len", "enc"}, y.t \in {"len+", "enc+"}
      PROVE  LET w == Header(<<x, y>>) \o body IN w \in Seq(Token) /\ w # <<>> /\ Tidy(w)
  <2> DEFINE w == Header(<<x, y>>) \o body
  <2>1. body \in Seq(Token)
    BY BodyTokens, SeqMonotonic
  <2>2. /\ w \in Seq(Token) /\ Len(w) = 5 + Len(body) /\ Len(body) \in Nat
        /\ w[1] = Tok("header", 0) /\ w[2] = x /\ w[3] = y
        /\ w[4] = Tok("eoh", 0) /\ w[5] = Tok("eoh+", 0)
        /\ \A k \in 1 .. Len(body) : w[5 + k] = body[k]
    BY <2>1, HeaderTokens
  <2> HIDE DEF w
  <2>3. ASSUME NEW k \in 6 .. Len(w) PROVE w[k] \in BodyTok
    <3>1. k - 5 \in 1 .. Len(body) /\ k = 5 + (k - 5)
      BY <2>2
    <3>2. w[k] = body[k - 5]
      BY <3>1, <2>2
    <3> QED
      BY <3>1, <3>2
  <2>4. ASSUME NEW k \in 1 .. Len(w), w[k].t = "eoh" PROVE k >= 4
    <3>1. w[1].t # "eoh" /\ w[2].t # "eoh" /\ w[3].t # "eoh"
      <4>1. Tok("header", 0).t # "eoh"
        BY DEF Tok
      <4> QED
        BY <2>2, <4>1, <1>1
    <3> QED
      BY <2>2, <2>4, <3>1
  <2>5. Tidy(w)
    BY <2>2, <2>3, <2>4 DEF Tidy
  <2> QED
    BY <2>2, <2>5 DEF w
<1>2. CASE \E n \in Nat : a.bytes = Header(Len2(n)) \o Data(1, n)
  <2>1. PICK n \in Nat : a.bytes = Header(Len2(n)) \o Data(1, n)
    BY <1>2
  <2>2. Tok("len", n) \in Token /\ Tok("len+", n) \in Token /\ Tok("len", n).t = "len" /\ Tok("len+", n).t = "len+"
    BY DEF Tok, Token, Ts
  <2>3. Len2(n) = <<Tok("len", n), Tok("len+", n)>>
    BY DEF Len2
  <2>4. Data(1, n) \in Seq(BodyTok)
    BY DataType
  <2> QED
    BY <2>1, <2>2, <2>3, <2>4, <1>1
<1>3. CASE \E ns \in Seq(Nat \ {0}) : a.bytes = Header(Enc2) \o Chunks(ns)[Len(ns)]
  <2>1. PICK ns \in Seq(Nat \ {0}) : a.bytes = Header(Enc2) \o Chunks(ns)[Len(ns)]
    BY <1>3
  <2>2. Tok("enc", 0) \in Token /\ Tok("enc+", 0) \in Token /\ Tok("enc", 0).t = "enc" /\ Tok("enc+", 0).t = "enc+"
    BY DEF Tok, Token, Ts
  <2>3. Enc2 = <<Tok("enc", 0), Tok("enc+", 0)>>
    BY DEF Enc2
  <2>4. Chunks(ns)[Len(ns)] \in Seq(BodyTok)
    <3>1. Len(ns) \in 0 .. Len(ns)
      OBVIOUS
    <3> QED
      BY <3>1, ChunksType
  <2> QED
    BY <2>1, <2>2, <2>3, <2>4, <1>1
<1> QED
  BY <1>2, <1>3, AnswerKinds

-----------------------------------------------------------------------------
OutTok == BodyTok \cup {NL}

Typed ==
  /\ rs \in [Slots -> RState] /\ \A i \in Slots : rs[i].len => ~rs[i].enc
  /\ wire \in [Slots -> Seq(Token)]
  /\ want \in [Slots -> Answers \cup {NoAnswer}]
  /\ out \in [Slots -> Seq(OutTok)]
  /\ whole \in [Slots -> BOOLEAN]

\* Nothing has been put out before the header's end, and nothing is put out
\* behind a newline: there is no other header on the wire.
Lined(i) ==
  alone(i) =>
    /\ Tidy(wire[i])
    /\ rs[i].hdr \/ out[i] # <<>> => wire[i] \in Seq(BodyTok)
    /\ \/ out[i] \in Seq(BodyTok)
       \/ ~rs[i].hdr /\ \E p \in Seq(BodyTok) : out[i] = Append(p, NL)

RInv == Typed /\ \A i \in Slots : Lined(i)

\* Append() behind a concatenation.
LEMMA ConcatAppend ==
  ASSUME NEW K, NEW p \in Seq(K), NEW q \in Seq(K), NEW e
  PROVE  p \o q \in Seq(K) /\ p \o Append(q, e) = Append(p \o q, e)
<1> DEFINE E == K \cup {e}
<1>1. p \in Seq(E) /\ q \in Seq(E) /\ <<e>> \in Seq(E) /\ e \in E
  BY SeqMonotonic
<1>2. p \o q \in Seq(E) /\ p \o q \in Seq(K)
  BY <1>1, ConcatProperties
<1>3. Append(q, e) = q \o <<e>> /\ Append(p \o q, e) = (p \o q) \o <<e>>
  BY <1>1, <1>2, AppendIsConcat
<1>4. (p \o q) \o <<e>> = p \o (q \o <<e>>)
  BY <1>1, ConcatAssociative
<1> QED
  BY <1>2, <1>3, <1>4

LEMMA NLToken == NL \notin BodyTok /\ NL.t = "newline"
<1>1. NL.t = "newline"
  BY DEF NL, Tok
<1>2. \A x \in BodyTok : x.t \in BodyTs
  BY DEF BodyTok
<1> QED
  BY <1>1, <1>2 DEF BodyTs

\* The line is as OneLine says.
LEMMA LinedOne ==
  ASSUME RInv
  PROVE  OneLine
<1> SUFFICES ASSUME NEW i \in Slots, alone(i), NEW k \in DOMAIN out[i]
             PROVE  /\ out[i][k].t \in BodyTs \cup {"newline"}
                    /\ out[i][k] = NL => k = Len(out[i])
  BY DEF OneLine, BodyTs
<1>0. \A x \in BodyTok : x.t \in BodyTs
  BY DEF BodyTok
<1>1. CASE out[i] \in Seq(BodyTok)
  <2>1. out[i][k] \in BodyTok
    BY <1>1
  <2> QED
    BY <2>1, <1>0, NLToken
<1>2. CASE \E p \in Seq(BodyTok) : out[i] = Append(p, NL)
  <2>1. PICK p \in Seq(BodyTok) : out[i] = Append(p, NL)
    BY <1>2
  <2>2. /\ Len(out[i]) = Len(p) + 1 /\ Len(p) \in Nat /\ k \in 1 .. Len(p) + 1
        /\ \A j \in 1 .. Len(p) : out[i][j] = p[j]
        /\ out[i][Len(p) + 1] = NL
    BY <2>1
  <2>3. CASE k = Len(p) + 1
    BY <2>2, <2>3, NLToken
  <2>4. CASE k # Len(p) + 1
    <3>1. k \in 1 .. Len(p)
      BY <2>2, <2>4
    <3>2. out[i][k] = p[k] /\ p[k] \in BodyTok
      BY <3>1, <2>2
    <3> QED
      BY <3>2, <1>0, NLToken
  <2> QED
    BY <2>3, <2>4
<1> QED
  BY <1>1, <1>2 DEF RInv, Lined

LEMMA InitRInv == RestInit => RInv
<1> SUFFICES ASSUME RestInit PROVE RInv
  OBVIOUS
<1>1. <<>> \in Seq(Token) /\ <<>> \in Seq(OutTok)
  OBVIOUS
<1>2. Fresh \in RState /\ ~Fresh.len
  BY DEF Fresh, RState
<1>3. /\ rs = [i \in Slots |-> Fresh] /\ wire = [i \in Slots |-> <<>>]
      /\ want = [i \in Slots |-> NoAnswer] /\ out = [i \in Slots |-> <<>>]
      /\ whole = [i \in Slots |-> FALSE]
  BY DEF RestInit
<1>4. Typed
  BY <1>1, <1>2, <1>3 DEF Typed
<1>5. \A i \in Slots : ~alone(i)
  BY <1>3 DEF alone
<1> QED
  BY <1>4, <1>5 DEF RInv, Lined

\* A slot that nothing is done to.
LEMMA OthersLined ==
  ASSUME NEW i \in Slots, Lined(i),
         rs'[i] = rs[i], wire'[i] = wire[i], want'[i] = want[i], out'[i] = out[i]
  PROVE  Lined(i)'
BY DEF Lined, alone

LEMMA ResetRInv ==
  ASSUME RInv, NEW i \in Slots, Reset(i)
  PROVE  RInv'
<1>1. <<>> \in Seq(Token) /\ <<>> \in Seq(OutTok)
  OBVIOUS
<1>2. Fresh \in RState /\ ~Fresh.len
  BY DEF Fresh, RState
<1>3. Typed'
  <2>1. rs' \in [Slots -> RState] /\ \A j \in Slots : rs'[j].len => ~rs'[j].enc
    BY <1>2 DEF RInv, Typed, Reset
  <2>2. /\ wire' \in [Slots -> Seq(Token)] /\ want' \in [Slots -> Answers \cup {NoAnswer}]
        /\ out' \in [Slots -> Seq(OutTok)] /\ whole' \in [Slots -> BOOLEAN]
    BY <1>1 DEF RInv, Typed, Reset
  <2> QED
    BY <2>1, <2>2 DEF Typed
<1>4. ASSUME NEW j \in Slots PROVE Lined(j)'
  <2>1. CASE j = i
    BY <2>1 DEF Lined, alone, Reset, RInv, Typed
  <2>2. CASE j # i
    BY <2>2, OthersLined DEF RInv, Typed, Reset
  <2> QED
    BY <2>1, <2>2
<1> QED
  BY <1>3, <1>4 DEF RInv

LEMMA SendRInv ==
  ASSUME RInv, NEW i \in Slots, RestSend(i)
  PROVE  RInv'
<1>1. PICK a \in Answers :
        /\ wire' = [wire EXCEPT ![i] = @ \o a.bytes]
        /\ want' = [want EXCEPT ![i] = IF wire[i] = <<>> THEN a ELSE NoAnswer]
  BY DEF RestSend
<1>2. /\ rs' = [rs EXCEPT ![i] = Fresh] /\ out' = [out EXCEPT ![i] = <<>>]
      /\ whole' = [whole EXCEPT ![i] = wire[i] = <<>>]
  BY DEF RestSend
<1>3. Fresh \in RState /\ ~Fresh.len /\ ~Fresh.hdr
  BY DEF Fresh, RState
<1>4. a.bytes \in Seq(Token) /\ Tidy(a.bytes)
  BY AnswerTidy
<1>5. wire[i] \in Seq(Token) /\ wire[i] \o a.bytes \in Seq(Token) /\ (wire[i] = <<>> => wire[i] \o a.bytes = a.bytes)
  BY <1>4 DEF RInv, Typed
<1>6. Typed'
  <2>1. rs' \in [Slots -> RState] /\ \A j \in Slots : rs'[j].len => ~rs'[j].enc
    BY <1>2, <1>3 DEF RInv, Typed
  <2>2. wire' \in [Slots -> Seq(Token)]
    BY <1>1, <1>5 DEF RInv, Typed
  <2>3. want' \in [Slots -> Answers \cup {NoAnswer}]
    BY <1>1 DEF RInv, Typed
  <2>4. out' \in [Slots -> Seq(OutTok)]
    BY <1>2 DEF RInv, Typed
  <2>5. whole' \in [Slots -> BOOLEAN]
    <3>1. (wire[i] = <<>>) \in BOOLEAN
      OBVIOUS
    <3> QED
      BY <1>2, <3>1 DEF RInv, Typed
  <2> QED
    BY <2>1, <2>2, <2>3, <2>4, <2>5 DEF Typed
<1>7. ASSUME NEW j \in Slots PROVE Lined(j)'
  <2>1. CASE j = i
    <3>1. rs'[i] = Fresh /\ out'[i] = <<>> /\ wire'[i] = wire[i] \o a.bytes
          /\ want'[i] = IF wire[i] = <<>> THEN a ELSE NoAnswer
      BY <1>1, <1>2 DEF RInv, Typed
    <3>2. CASE wire[i] = <<>>
      <4>1. wire'[i] = a.bytes /\ ~rs'[i].hdr /\ out'[i] \in Seq(BodyTok)
        BY <1>3, <1>5, <3>1, <3>2
      <4> QED
        BY <2>1, <3>1, <4>1, <1>4 DEF Lined
    <3>3. CASE wire[i] # <<>>
      BY <2>1, <3>1, <3>3 DEF Lined, alone
    <3> QED
      BY <3>2, <3>3
  <2>2. CASE j # i
    <3>1. rs'[j] = rs[j] /\ wire'[j] = wire[j] /\ want'[j] = want[j] /\ out'[j] = out[j]
      BY <1>1, <1>2, <2>2 DEF RInv, Typed
    <3> QED
      BY <3>1, OthersLined DEF RInv
  <2> QED
    BY <2>1, <2>2
<1> QED
  BY <1>6, <1>7 DEF RInv

LEMMA RecvRInv ==
  ASSUME RInv, NEW i \in Slots, RestRecv(i)
  PROVE  RInv'
<1> DEFINE w == wire[i]
           g(n) == rest_recv(rs[i], SubSeq(w, 1, n))
           rest(n) == SubSeq(w, n + 1, Len(w))
<1>1. PICK n \in 1 .. Len(w) :
        /\ wire' = [wire EXCEPT ![i] = rest(n)]
        /\ rs' = [rs EXCEPT ![i] = g(n).s]
        /\ out' = IF alone(i) THEN [out EXCEPT ![i] = @ \o g(n).out] ELSE out
        /\ whole' = [whole EXCEPT ![i] = @ /\ Harmless(SubSeq(w, 1, n), rest(n))]
  BY DEF RestRecv
<1>2. want' = want
  BY DEF RestRecv
<1>3. /\ w \in Seq(Token) /\ Len(w) \in Nat /\ Fit(rs[i]) /\ out[i] \in Seq(OutTok)
      /\ whole[i] \in BOOLEAN
  BY DEF RInv, Typed, Fit
<1>4. SubSeq(w, 1, n) \in Seq(Token)
  BY <1>3, FrontType
<1>5. Fit(g(n).s)
  BY <1>3, <1>4, RecvFit
<1>6. rest(n) \in Seq(Token)
  <2>1. n + 1 \in Nat /\ n + 1 <= Len(w) + 1 /\ n + 1 > 0
    BY <1>3
  <2> QED
    BY <1>3, <2>1, BackType
<1>7. alone(i) =>
        /\ \/ g(n).out = <<>> /\ ~rs[i].hdr /\ ~g(n).s.hdr
           \/ Gives(g(n), BodyTok) /\ rest(n) \in Seq(BodyTok)
        /\ w \in Seq(BodyTok) /\ ~rs[i].hdr => g(n).out = <<>> /\ ~g(n).s.hdr
        /\ Tidy(rest(n))
        /\ w \in Seq(BodyTok) => rest(n) \in Seq(BodyTok)
  <2> SUFFICES ASSUME alone(i)
               PROVE  /\ \/ g(n).out = <<>> /\ ~rs[i].hdr /\ ~g(n).s.hdr
                         \/ Gives(g(n), BodyTok) /\ rest(n) \in Seq(BodyTok)
                      /\ w \in Seq(BodyTok) /\ ~rs[i].hdr => g(n).out = <<>> /\ ~g(n).s.hdr
                      /\ Tidy(rest(n))
                      /\ w \in Seq(BodyTok) => rest(n) \in Seq(BodyTok)
    OBVIOUS
  <2>1. Tidy(w) /\ (rs[i].hdr => w \in Seq(BodyTok))
    BY DEF RInv, Lined
  <2> QED
    BY <1>3, <2>1, RecvGives
<1> HIDE DEF w, g, rest
<1> DEFINE o == IF alone(i) THEN out[i] \o g(n).out ELSE out[i]
<1>8. alone(i) =>
        /\ (g(n).s.hdr \/ o # <<>>) => rest(n) \in Seq(BodyTok)
        /\ \/ o \in Seq(BodyTok)
           \/ ~g(n).s.hdr /\ \E p \in Seq(BodyTok) : o = Append(p, NL)
  <2> SUFFICES ASSUME alone(i)
               PROVE  /\ (g(n).s.hdr \/ o # <<>>) => rest(n) \in Seq(BodyTok)
                      /\ \/ o \in Seq(BodyTok)
                         \/ ~g(n).s.hdr /\ \E p \in Seq(BodyTok) : o = Append(p, NL)
    OBVIOUS
  <2>1. /\ rs[i].hdr \/ out[i] # <<>> => w \in Seq(BodyTok)
        /\ \/ out[i] \in Seq(BodyTok)
           \/ ~rs[i].hdr /\ \E p \in Seq(BodyTok) : out[i] = Append(p, NL)
    BY DEF RInv, Lined, w
  <2>2. CASE g(n).out = <<>> /\ ~g(n).s.hdr /\ ~rs[i].hdr
    <3>1. o = out[i]
      BY <1>3, <2>2
    <3> QED
      BY <3>1, <2>1, <2>2, <1>7
  <2>3. CASE ~(g(n).out = <<>> /\ ~g(n).s.hdr /\ ~rs[i].hdr)
    <3>1. Gives(g(n), BodyTok) /\ rest(n) \in Seq(BodyTok)
      BY <1>7, <2>3
    <3>2. out[i] \in Seq(BodyTok)
      <4>1. CASE ~rs[i].hdr /\ \E p \in Seq(BodyTok) : out[i] = Append(p, NL)
        <5>1. out[i] # <<>>
          BY <4>1
        <5>2. w \in Seq(BodyTok)
          BY <5>1, <2>1
        <5> QED
          BY <5>2, <4>1, <1>7, <2>3
      <4> QED
        BY <4>1, <2>1
    <3>3. CASE g(n).out \in Seq(BodyTok)
      <4>1. o \in Seq(BodyTok)
        BY <3>2, <3>3, ConcatProperties
      <4> QED
        BY <3>1, <4>1
    <3>4. CASE ~g(n).s.hdr /\ \E p \in Seq(BodyTok) : g(n).out = Append(p, NL)
      <4>1. PICK p \in Seq(BodyTok) : g(n).out = Append(p, NL)
        BY <3>4
      <4>2. out[i] \o p \in Seq(BodyTok) /\ out[i] \o Append(p, NL) = Append(out[i] \o p, NL)
        <5> DEFINE v == out[i]
        <5>1. v \in Seq(BodyTok)
          BY <3>2
        <5> HIDE DEF v
        <5>2. v \o p \in Seq(BodyTok) /\ v \o Append(p, NL) = Append(v \o p, NL)
          BY <5>1, ConcatAppend
        <5> QED
          BY <5>2 DEF v
      <4>3. o = Append(out[i] \o p, NL)
        BY <4>1, <4>2
      <4> QED
        BY <3>1, <3>4, <4>2, <4>3
    <3> QED
      BY <3>1, <3>3, <3>4 DEF Gives
  <2> QED
    BY <2>2, <2>3
<1>9. o \in Seq(OutTok)
  <2>1. BodyTok \subseteq OutTok /\ NL \in OutTok
    BY DEF OutTok
  <2>2. \A p \in Seq(BodyTok) : p \in Seq(OutTok)
    BY <2>1, SeqMonotonic
  <2>3. \A p \in Seq(OutTok) : Append(p, NL) \in Seq(OutTok)
    BY <2>1
  <2> HIDE DEF o
  <2>4. alone(i) => o \in Seq(OutTok)
    BY <2>2, <2>3, <1>8
  <2>5. ~alone(i) => o = out[i]
    BY DEF o
  <2> QED
    BY <2>4, <2>5, <1>3
<1>10. /\ wire'[i] = rest(n) /\ rs'[i] = g(n).s /\ out'[i] = o
       /\ out' = [out EXCEPT ![i] = o]
       /\ \A j \in Slots \ {i} : wire'[j] = wire[j] /\ rs'[j] = rs[j] /\ out'[j] = out[j]
  <2>1. out' = [out EXCEPT ![i] = o]
    BY <1>1 DEF RInv, Typed
  <2> HIDE DEF o
  <2> QED
    BY <1>1, <2>1 DEF RInv, Typed
<1> HIDE DEF o
<1>11. Typed'
  <2>1. rs' \in [Slots -> RState] /\ \A j \in Slots : rs'[j].len => ~rs'[j].enc
    BY <1>1, <1>5, <1>10 DEF RInv, Typed, Fit
  <2>2. wire' \in [Slots -> Seq(Token)]
    BY <1>1, <1>6 DEF RInv, Typed
  <2>3. want' \in [Slots -> Answers \cup {NoAnswer}]
    BY <1>2 DEF RInv, Typed
  <2>4. out' \in [Slots -> Seq(OutTok)]
    BY <1>9, <1>10 DEF RInv, Typed
  <2>5. whole' \in [Slots -> BOOLEAN]
    <3>1. (whole[i] /\ Harmless(SubSeq(w, 1, n), rest(n))) \in BOOLEAN
      OBVIOUS
    <3> QED
      BY <1>1, <3>1 DEF RInv, Typed
  <2> QED
    BY <2>1, <2>2, <2>3, <2>4, <2>5 DEF Typed
<1>12. ASSUME NEW j \in Slots PROVE Lined(j)'
  <2>1. CASE j = i
    <3>1. alone(i)' => alone(i)
      BY <1>2 DEF alone
    <3> QED
      BY <2>1, <3>1, <1>7, <1>8, <1>10 DEF Lined
  <2>2. CASE j # i
    BY <2>2, <1>2, <1>10, OthersLined DEF RInv
  <2> QED
    BY <2>1, <2>2
<1> QED
  BY <1>11, <1>12 DEF RInv

LEMMA NextRInv == RInv /\ [Next]_vars => RInv'
<1> SUFFICES ASSUME RInv, [Next]_vars PROVE RInv'
  OBVIOUS
<1>0. ASSUME UNCHANGED rvars PROVE RInv'
  <2>1. UNCHANGED <<rs, wire, want, out, whole>>
    BY <1>0 DEF rvars
  <2>2. Typed'
    BY <2>1 DEF RInv, Typed
  <2>3. \A i \in Slots : Lined(i)'
    BY <2>1, OthersLined DEF RInv
  <2> QED
    BY <2>2, <2>3 DEF RInv
<1>1. CASE UNCHANGED vars
  BY <1>0, <1>1 DEF vars
<1>2. CASE Next
  <2>1. PICK i \in Slots : RestSend(i) \/ RestRecv(i) \/ Others(i)
    BY <1>2 DEF Next
  <2>2. Others(i) => UNCHANGED rvars \/ Reset(i)
    BY DEF Others
  <2> QED
    BY <2>1, <2>2, <1>0, SendRInv, RecvRInv, ResetRInv
<1> QED
  BY <1>1, <1>2

-----------------------------------------------------------------------------
(* Sequences *)

LEMMA SeqEq ==
  ASSUME NEW K, NEW p \in Seq(K), NEW q \in Seq(K), NEW n \in Nat, Len(p) = n, Len(q) = n,
         \A i \in 1 .. n : p[i] = q[i]
  PROVE  p = q
BY SeqEqual

\* A read of p \o q that ends in p.
LEMMA CutFirst ==
  ASSUME NEW K, NEW p \in Seq(K), NEW q \in Seq(K), NEW m \in 0 .. Len(p)
  PROVE  /\ SubSeq(p \o q, 1, m) = SubSeq(p, 1, m)
         /\ SubSeq(p \o q, m + 1, Len(p \o q)) = SubSeq(p, m + 1, Len(p)) \o q
<1> DEFINE w == p \o q
           a == SubSeq(p, m + 1, Len(p))
           b == SubSeq(w, m + 1, Len(w))
           x == SubSeq(p, 1, m)
           y == SubSeq(w, 1, m)
           c == a \o q
<1>1. /\ w \in Seq(K) /\ Len(w) = Len(p) + Len(q) /\ Len(p) \in Nat /\ Len(q) \in Nat
      /\ \A i \in 1 .. Len(p) : w[i] = p[i]
      /\ \A i \in 1 .. Len(q) : w[Len(p) + i] = q[i]
  BY Concat
<1> HIDE DEF w
<1>2. m \in Nat /\ m <= Len(p) /\ m <= Len(w) /\ m \in 0 .. Len(w)
  BY <1>1
<1>3. x \in Seq(K) /\ Len(x) = m /\ \A i \in 1 .. m : x[i] = p[i]
  BY <1>2, FrontType
<1>4. y \in Seq(K) /\ Len(y) = m /\ \A i \in 1 .. m : y[i] = w[i]
  BY <1>1, <1>2, FrontType
<1>5. a \in Seq(K) /\ Len(a) = Len(p) - m /\ \A i \in 1 .. Len(p) - m : a[i] = p[m + i]
  BY RestType
<1>6. b \in Seq(K) /\ Len(b) = Len(w) - m /\ \A i \in 1 .. Len(w) - m : b[i] = w[m + i]
  BY <1>1, <1>2, RestType
<1> HIDE DEF a, b, x, y
<1>7. /\ c \in Seq(K) /\ Len(c) = Len(a) + Len(q)
      /\ \A i \in 1 .. Len(a) : c[i] = a[i]
      /\ \A i \in 1 .. Len(q) : c[Len(a) + i] = q[i]
  <2>1. a \in Seq(K)
    BY <1>5
  <2> QED
    BY <2>1, Concat
<1> HIDE DEF c
<1>8. ASSUME NEW i \in 1 .. m PROVE x[i] = y[i]
  <2>1. i \in 1 .. Len(p)
    BY <1>1, <1>2
  <2> QED
    BY <2>1, <1>1, <1>3, <1>4
<1>9. x = y
  BY <1>2, <1>3, <1>4, <1>8, SeqEq
<1>10. Len(c) = Len(w) - m /\ Len(w) - m \in Nat
  BY <1>1, <1>2, <1>5, <1>7
<1>11. ASSUME NEW i \in 1 .. Len(w) - m PROVE c[i] = b[i]
  <2>1. CASE i <= Len(p) - m
    BY <2>1, <1>1, <1>2, <1>5, <1>6, <1>7
  <2>2. CASE i > Len(p) - m
    <3>1. i - (Len(p) - m) \in 1 .. Len(q)
      BY <2>2, <1>1, <1>2
    <3>2. i = Len(a) + (i - (Len(p) - m)) /\ m + i = Len(p) + (i - (Len(p) - m))
      BY <1>1, <1>2, <1>5
    <3>3. c[i] = q[i - (Len(p) - m)] /\ w[m + i] = q[i - (Len(p) - m)]
      BY <3>1, <3>2, <1>1, <1>7
    <3> QED
      BY <3>3, <1>6
  <2> QED
    BY <2>1, <2>2, <1>1, <1>2
<1>12. c = b
  BY <1>6, <1>7, <1>10, <1>11, SeqEq
<1> QED
  BY <1>9, <1>12 DEF a, b, c, x, y, w

\* One that ends in q.
LEMMA CutSecond ==
  ASSUME NEW K, NEW p \in Seq(K), NEW q \in Seq(K), NEW m \in 0 .. Len(q)
  PROVE  /\ SubSeq(p \o q, 1, Len(p) + m) = p \o SubSeq(q, 1, m)
         /\ SubSeq(p \o q, Len(p) + m + 1, Len(p \o q)) = SubSeq(q, m + 1, Len(q))
<1> DEFINE w == p \o q
           l == Len(p)
           a == SubSeq(q, m + 1, Len(q))
           b == SubSeq(w, l + m + 1, Len(w))
           x == SubSeq(q, 1, m)
           y == SubSeq(w, 1, l + m)
           c == p \o x
<1>1. /\ w \in Seq(K) /\ Len(w) = l + Len(q) /\ l \in Nat /\ Len(q) \in Nat
      /\ \A i \in 1 .. l : w[i] = p[i]
      /\ \A i \in 1 .. Len(q) : w[l + i] = q[i]
  BY Concat
<1> HIDE DEF w
<1>2. m \in Nat /\ m <= Len(q) /\ l + m <= Len(w) /\ l + m \in 0 .. Len(w) /\ l + m \in Nat
  BY <1>1
<1>3. x \in Seq(K) /\ Len(x) = m /\ \A i \in 1 .. m : x[i] = q[i]
  BY <1>2, FrontType
<1>4. y \in Seq(K) /\ Len(y) = l + m /\ \A i \in 1 .. l + m : y[i] = w[i]
  BY <1>1, <1>2, FrontType
<1>5. a \in Seq(K) /\ Len(a) = Len(q) - m /\ \A i \in 1 .. Len(q) - m : a[i] = q[m + i]
  BY RestType
<1>6. b \in Seq(K) /\ Len(b) = Len(w) - (l + m) /\ \A i \in 1 .. Len(w) - (l + m) : b[i] = w[(l + m) + i]
  BY <1>1, <1>2, RestType
<1> HIDE DEF a, b, x, y
<1>7. /\ c \in Seq(K) /\ Len(c) = l + Len(x)
      /\ \A i \in 1 .. l : c[i] = p[i]
      /\ \A i \in 1 .. Len(x) : c[l + i] = x[i]
  <2>1. x \in Seq(K)
    BY <1>3
  <2> QED
    BY <2>1, Concat
<1> HIDE DEF c, l
<1>8. ASSUME NEW i \in 1 .. l + m PROVE c[i] = y[i]
  <2>1. CASE i <= l
    BY <2>1, <1>1, <1>2, <1>4, <1>7
  <2>2. CASE i > l
    <3>1. i - l \in 1 .. m /\ i = l + (i - l)
      BY <2>2, <1>1, <1>2
    <3>2. c[i] = q[i - l] /\ w[i] = q[i - l]
      BY <3>1, <1>1, <1>2, <1>3, <1>7
    <3> QED
      BY <3>2, <1>4
  <2> QED
    BY <2>1, <2>2, <1>1, <1>2
<1>9. c = y
  BY <1>2, <1>3, <1>4, <1>7, <1>8, SeqEq
<1>10. Len(b) = Len(q) - m /\ Len(q) - m \in Nat
  BY <1>1, <1>2, <1>6
<1>11. ASSUME NEW i \in 1 .. Len(q) - m PROVE a[i] = b[i]
  <2>1. m + i \in 1 .. Len(q) /\ (l + m) + i = l + (m + i) /\ i \in 1 .. Len(w) - (l + m)
    BY <1>1, <1>2
  <2> QED
    BY <2>1, <1>1, <1>5, <1>6
<1>12. a = b
  BY <1>5, <1>6, <1>10, <1>11, SeqEq
<1> QED
  BY <1>9, <1>12 DEF a, b, c, x, y, w, l

\* The two halves of a sequence.
LEMMA Halves ==
  ASSUME NEW K, NEW p \in Seq(K), NEW m \in 0 .. Len(p)
  PROVE  SubSeq(p, 1, m) \o SubSeq(p, m + 1, Len(p)) = p
<1>1. Len(p) \in Nat /\ 1 \in 1 .. Len(p) + 1 /\ m \in 1 - 1 .. Len(p) /\ Len(p) \in m .. Len(p)
  OBVIOUS
<1>2. SubSeq(p, 1, m) \o SubSeq(p, m + 1, Len(p)) = SubSeq(p, 1, Len(p))
  BY <1>1, ConcatAdjacentSubSeq
<1>3. SubSeq(p, 1, Len(p)) = p
  BY SubSeqFull
<1> QED
  BY <1>2, <1>3

LEMMA Assoc ==
  ASSUME NEW K, NEW p \in Seq(K), NEW q \in Seq(K), NEW r \in Seq(K)
  PROVE  (p \o q) \o r = p \o (q \o r) /\ q \o r \in Seq(K) /\ p \o q \in Seq(K)
<1>1. (p \o q) \o r = p \o (q \o r)
  BY ConcatAssociative
<1>2. q \o r \in Seq(K) /\ p \o q \in Seq(K)
  BY Concat
<1> QED
  BY <1>1, <1>2

-----------------------------------------------------------------------------
(* Where in an answer a harmless read may have ended *)

DataTok == [t : {"data"}, n : Nat]

LEMMA Kinds ==
  /\ DataTok \subseteq BodyTok /\ BodyTok \subseteq Token /\ BodyTok \subseteq OutTok
  /\ NL \in OutTok /\ CRLF \in BodyTok /\ CRLF \notin DataTok /\ CRLF.t = "crlf"
  /\ \A n \in Nat : Tok("size", n) \in BodyTok /\ Tok("size+", n) \in BodyTok
<1>1. DataTok \subseteq BodyTok
  BY DEF DataTok, BodyTok, BodyTs
<1>2. CRLF \in BodyTok /\ CRLF.t = "crlf"
  BY DEF CRLF, Tok, BodyTok, BodyTs
<1>3. \A x \in DataTok : x.t = "data"
  BY DEF DataTok
<1>4. \A n \in Nat : Tok("size", n) \in BodyTok /\ Tok("size+", n) \in BodyTok
  BY DEF Tok, BodyTok, BodyTs
<1> QED
  BY <1>1, <1>2, <1>3, <1>4, BodyTokens DEF OutTok

\* The lines of chunked answers.
LEMMA BodiesType ==
  ASSUME NEW ns \in Seq(Nat \ {0})
  PROVE  /\ \A j \in 0 .. Len(ns) : Bodies(ns)[j] \in Seq(OutTok)
         /\ Bodies(ns)[0] = <<NL>>
         /\ \A j \in 1 .. Len(ns) : Bodies(ns)[j] = Data(j, ns[j]) \o Bodies(ns)[j - 1]
<1> DEFINE parts == [j \in DOMAIN ns |-> Data(j, ns[j])]
           end == <<NL>>
<1>3. DOMAIN ns = 1 .. Len(ns) /\ Len(ns) \in Nat /\ \A j \in DOMAIN ns : j \in Nat /\ ns[j] \in Nat
  OBVIOUS
<1>4. ASSUME NEW j \in DOMAIN ns PROVE parts[j] \in Seq(OutTok)
  <2>1. Data(j, ns[j]) \in Seq(BodyTok)
    BY <1>3, DataType
  <2>2. Data(j, ns[j]) \in Seq(OutTok)
    BY <2>1, Kinds, SeqMonotonic
  <2> QED
    BY <2>2
<1>5. parts \in Seq(Seq(OutTok)) /\ Len(parts) = Len(ns)
  <2> HIDE DEF parts
  <2>1. DOMAIN parts = 1 .. Len(ns) /\ parts = [j \in 1 .. Len(ns) |-> parts[j]]
    BY <1>3 DEF parts
  <2> QED
    BY <2>1, <1>3, <1>4
<1>6. end \in Seq(OutTok)
  BY Kinds
<1>7. Bodies(ns) = Rear(parts, end)
  BY DEF Bodies
<1>8. \A j \in 1 .. Len(ns) : parts[j] = Data(j, ns[j])
  BY <1>3
<1> HIDE DEF parts, end
<1>9. \A j \in 0 .. Len(ns) : Rear(parts, end)[j] \in Seq(OutTok)
  BY <1>5, <1>6, RearType
<1>10. \A j \in 0 .. Len(ns) : Rear(parts, end)[j] = IF j = 0 THEN end ELSE parts[j] \o Rear(parts, end)[j - 1]
  BY <1>5, RearStep
<1>11. Rear(parts, end)[0] = end
  BY <1>3, <1>10
<1>12. \A j \in 1 .. Len(ns) : Rear(parts, end)[j] = parts[j] \o Rear(parts, end)[j - 1]
  <2>1. \A j \in 1 .. Len(ns) : j \in 0 .. Len(ns) /\ j # 0
    BY <1>3
  <2> QED
    BY <2>1, <1>10, Zenon
<1> QED
  BY <1>7, <1>8, <1>9, <1>11, <1>12 DEF end

LEMMA OutAssoc == \A p, q, r \in Seq(OutTok) : (p \o q) \o r = p \o (q \o r)
BY ConcatAssociative

ByLenAt(m) == [hdr |-> TRUE, len |-> TRUE, enc |-> FALSE, togo |-> m]
ByEncAt(m) == [hdr |-> TRUE, len |-> FALSE, enc |-> TRUE, togo |-> m]

LEMMA TogoAt ==
  ASSUME NEW m \in Nat, NEW k \in Nat
  PROVE  /\ [ByLenAt(m) EXCEPT !.togo = k] = ByLenAt(k) /\ ByLenAt(m).togo = m
         /\ [ByEncAt(m) EXCEPT !.togo = k] = ByEncAt(k) /\ ByEncAt(m).togo = m
<1> DEFINE a == [ByLenAt(m) EXCEPT !.togo = k]
           b == [ByEncAt(m) EXCEPT !.togo = k]
<1>1. a \in RState /\ ByLenAt(k) \in RState
  BY DEF ByLenAt, RState
<1>2. b \in RState /\ ByEncAt(k) \in RState
  BY DEF ByEncAt, RState
<1>3. a.hdr = TRUE /\ a.len = TRUE /\ a.enc = FALSE /\ a.togo = k
  BY DEF ByLenAt
<1>4. b.hdr = TRUE /\ b.len = FALSE /\ b.enc = TRUE /\ b.togo = k
  BY DEF ByEncAt
<1>5. ByLenAt(m).togo = m /\ ByEncAt(m).togo = m
  BY DEF ByLenAt, ByEncAt
<1> HIDE DEF a, b
<1>6. a = ByLenAt(k)
  BY <1>1, <1>3 DEF ByLenAt, RState
<1>7. b = ByEncAt(k)
  BY <1>2, <1>4 DEF ByEncAt, RState
<1> QED
  BY <1>5, <1>6, <1>7 DEF a, b

\* With w on the wire and L of the line to come: within a body with a length,
\* in front of a chunk or of the end of the one before, within a chunk, or at
\* the end.
AtLen(s, w, L) == w \in Seq(DataTok) /\ w # <<>> /\ s = ByLenAt(Len(w)) /\ L = Append(w, NL)
AtChunk(s, w, L) ==
  \E ns \in Seq(Nat \ {0}) : \E j \in 0 .. Len(ns) :
    /\ s = ByEncAt(0) /\ L = Bodies(ns)[j]
    /\ w \in {Chunks(ns)[j], <<CRLF>> \o Chunks(ns)[j]}
InData(s, w, L) ==
  \E ns \in Seq(Nat \ {0}) : \E j \in 0 .. Len(ns) : \E d \in Seq(DataTok) :
    /\ d # <<>> /\ s = ByEncAt(Len(d)) /\ L = d \o Bodies(ns)[j]
    /\ w = d \o (<<CRLF>> \o Chunks(ns)[j])
Ended(s, w, L) == s = Fresh /\ w \in {<<>>, <<CRLF>>} /\ L = <<>>

Stage(s, w, L) == AtLen(s, w, L) \/ AtChunk(s, w, L) \/ InData(s, w, L)

\* What a read of r, of which rest is left, has to do.
Goes(g, rest, L) ==
  \E M \in Seq(OutTok) : g.out \in Seq(OutTok) /\ L = g.out \o M /\ (Stage(g.s, rest, M) \/ Ended(g.s, rest, M))

\* Harmless(), as far as it goes in a body.
Good(r) ==
  /\ r # <<>> /\ r # <<CRLF>> /\ r[Len(r)].t # "size"
  /\ \A k \in 2 .. Len(r) - 1 : r[k] # CRLF

LEMMA LenStep ==
  ASSUME NEW s, NEW w, NEW L, AtLen(s, w, L), NEW n \in 1 .. Len(w)
  PROVE  Goes(Body(s, SubSeq(w, 1, n)), SubSeq(w, n + 1, Len(w)), L)
<1> DEFINE r == SubSeq(w, 1, n)
           rest == SubSeq(w, n + 1, Len(w))
<1>1. /\ w \in Seq(DataTok) /\ w # <<>> /\ s = ByLenAt(Len(w)) /\ L = Append(w, NL) /\ Len(w) \in Nat
  BY DEF AtLen
<1>2. r \in Seq(DataTok) /\ Len(r) = n
  BY <1>1, FrontType
<1>3. rest \in Seq(DataTok) /\ Len(rest) = Len(w) - n
  BY <1>1, RestType
<1>4. r \o rest = w
  BY <1>1, Halves
<1>5. Body(s, r) = ByLen(s, r) /\ s.togo = Len(w)
  BY <1>1 DEF Body, ByLenAt
<1> HIDE DEF r, rest
<1>6. CASE n < Len(w)
  <2>1. Body(s, r) = [s |-> [s EXCEPT !.togo = @ - n], out |-> r]
    BY <1>2, <1>5, <1>6 DEF ByLen
  <2>2. [s EXCEPT !.togo = @ - n] = ByLenAt(Len(w) - n)
    <3>1. Len(w) - n \in Nat /\ s.togo - n = Len(w) - n
      BY <1>1, <1>5, <1>6
    <3> QED
      BY <1>1, <3>1, TogoAt
  <2> DEFINE M == Append(rest, NL)
  <2>3. r \in Seq(OutTok) /\ rest \in Seq(OutTok)
    BY <1>2, <1>3, Kinds, SeqMonotonic
  <2>4. M \in Seq(OutTok)
    BY <2>3, Kinds
  <2>5. r \o M = L
    BY <1>1, <1>2, <1>3, <1>4, ConcatAppend
  <2>6. AtLen(Body(s, r).s, rest, M)
    <3>1. rest # <<>>
      BY <1>1, <1>3, <1>6
    <3> QED
      BY <3>1, <1>3, <2>1, <2>2 DEF AtLen
  <2> HIDE DEF M
  <2>7. Goes(Body(s, r), rest, L)
    BY <2>1, <2>3, <2>4, <2>5, <2>6 DEF Goes, Stage
  <2> QED
    BY <2>7 DEF r, rest
<1>7. CASE n = Len(w)
  <2>1. r = w
    BY <1>1, <1>7, SubSeqFull DEF r
  <2>2. SubSeq(r, 1, s.togo) = w
    BY <1>1, <1>5, <2>1, SubSeqFull
  <2>3. Body(s, r) = [s |-> Fresh, out |-> L]
    <3>1. ~(Len(r) < s.togo)
      BY <1>1, <1>2, <1>5, <1>7
    <3>2. ByLen(s, r) = [s |-> Fresh, out |-> Append(SubSeq(r, 1, s.togo), NL)]
      BY <3>1 DEF ByLen
    <3> QED
      BY <1>1, <1>5, <2>2, <3>2
  <2>4. w \in Seq(OutTok) /\ NL \in OutTok
    BY <1>1, Kinds, SeqMonotonic
  <2>5. L \in Seq(OutTok) /\ L \o <<>> = L /\ <<>> \in Seq(OutTok)
    BY <2>4, <1>1, ConcatEmptySeq
  <2>6. rest = <<>>
    BY <1>1, <1>3, <1>7
  <2>7. Ended(Body(s, r).s, rest, <<>>)
    BY <2>3, <2>6 DEF Ended
  <2>8. Body(s, r).out = L
    BY <2>3
  <2>9. Goes(Body(s, r), rest, L)
    BY <2>5, <2>7, <2>8, Zenon DEF Goes
  <2> QED
    BY <2>9 DEF r, rest
<1> QED
  BY <1>1, <1>6, <1>7

\* The data of a chunk, of which m bytes, or all and what is behind, are read.
LEMMA DataStep ==
  ASSUME NEW ns \in Seq(Nat \ {0}), NEW j \in 0 .. Len(ns), NEW d \in Seq(DataTok), d # <<>>,
         NEW m \in 0 .. Len(d) + 1
  PROVE  LET w == d \o (<<CRLF>> \o Chunks(ns)[j])
         IN  Goes(InChunk(ByEncAt(Len(d)), SubSeq(w, 1, m)), SubSeq(w, m + 1, Len(w)), d \o Bodies(ns)[j])
<1> DEFINE C == Chunks(ns)[j]
           B == Bodies(ns)[j]
           e == <<CRLF>> \o C
           w == d \o e
           r == SubSeq(w, 1, m)
           rest == SubSeq(w, m + 1, Len(w))
           s == ByEncAt(Len(d))
<1>1. C \in Seq(BodyTok) /\ B \in Seq(OutTok) /\ Len(d) \in Nat /\ Len(d) > 0
  <2>1. C \in Seq(BodyTok)
    BY ChunksType
  <2>2. B \in Seq(OutTok)
    BY BodiesType
  <2>3. Len(d) \in Nat /\ Len(d) > 0
    OBVIOUS
  <2> QED
    BY <2>1, <2>2, <2>3
<1> HIDE DEF C, B
<1>2. <<CRLF>> \in Seq(BodyTok) /\ Len(<<CRLF>>) = 1 /\ d \in Seq(BodyTok) /\ d \in Seq(OutTok)
  BY Kinds, SeqMonotonic
<1>3. e \in Seq(BodyTok) /\ Len(e) = 1 + Len(C) /\ Len(C) \in Nat
  BY <1>1, <1>2, Concat
<1>4. s.togo = Len(d)
  BY <1>1, TogoAt
<1>5. ASSUME NEW g, NEW M \in Seq(OutTok), g.out \in Seq(OutTok), d \o B = g.out \o M,
             Stage(g.s, rest, M), InChunk(s, r) = g
      PROVE  Goes(InChunk(s, r), rest, d \o B)
  BY <1>5 DEF Goes
<1>6. CASE m <= Len(d)
  <2> DEFINE x == SubSeq(d, 1, m)
             y == SubSeq(d, m + 1, Len(d))
  <2>0. m \in Nat /\ m \in 0 .. Len(d)
    BY <1>1, <1>6
  <2>1. r = x /\ rest = y \o e
    BY <1>2, <1>3, <2>0, CutFirst
  <2>2. x \in Seq(DataTok) /\ Len(x) = m
    BY <2>0, FrontType
  <2>3. y \in Seq(DataTok) /\ Len(y) = Len(d) - m
    BY <2>0, RestType
  <2>4. x \o y = d
    BY <2>0, Halves
  <2> HIDE DEF x, y, w, r, rest, s
  <2>5. x \in Seq(OutTok) /\ y \in Seq(OutTok) /\ x \in Seq(BodyTok) /\ y \in Seq(BodyTok)
    BY <2>2, <2>3, Kinds, SeqMonotonic
  <2>6. d \o B = x \o (y \o B) /\ y \o B \in Seq(OutTok)
    <3>1. x \in Seq(OutTok) /\ y \in Seq(OutTok) /\ B \in Seq(OutTok)
      BY <1>1, <2>5
    <3>2. (x \o y) \o B = x \o (y \o B) /\ y \o B \in Seq(OutTok)
      <4>1. (x \o y) \o B = x \o (y \o B)
        BY <3>1, OutAssoc, Zenon
      <4>2. y \o B \in Seq(OutTok)
        BY <3>1, Concat
      <4> QED
        BY <4>1, <4>2
    <3> QED
      BY <2>4, <3>2
  <2>7. CASE m < Len(d)
    <3> DEFINE g == [s |-> ByEncAt(Len(y)), out |-> x]
    <3>1. [s EXCEPT !.togo = @ - m] = ByEncAt(Len(y))
      <4>1. Len(d) - m \in Nat /\ s.togo - m = Len(y)
        BY <1>1, <1>4, <2>0, <2>3
      <4>2. [s EXCEPT !.togo = @ - m] = [s EXCEPT !.togo = Len(y)]
        BY <4>1, Zenon
      <4>3. [ByEncAt(Len(d)) EXCEPT !.togo = Len(y)] = ByEncAt(Len(y))
        <5>1. Len(d) \in Nat /\ Len(y) \in Nat
          BY <1>1, <2>3
        <5> QED
          BY <5>1, TogoAt
      <4> QED
        BY <4>2, <4>3 DEF s
    <3>2. InChunk(s, r) = g
      BY <1>4, <2>1, <2>2, <2>7, <3>1 DEF InChunk
    <3>3. y # <<>>
      BY <1>1, <2>0, <2>3, <2>7
    <3>4. InData(g.s, rest, y \o B)
      BY <2>1, <2>3, <3>3 DEF InData, B, C
    <3>5. g.out \in Seq(OutTok) /\ d \o B = g.out \o (y \o B) /\ Stage(g.s, rest, y \o B)
      BY <2>5, <2>6, <3>4 DEF Stage
    <3> HIDE DEF g
    <3>6. Goes(InChunk(s, r), rest, d \o B)
      BY <1>5, <2>6, <3>2, <3>5
    <3> QED
      BY <3>6 DEF w, r, rest, s, B, C
  <2>8. CASE m = Len(d)
    <3>1. x = d
      BY <2>8, SubSeqFull DEF x
    <3>2. y = <<>> /\ rest = e /\ d \o B = d \o B
      <4>1. y = <<>>
        BY <1>1, <2>3, <2>8
      <4>2. <<>> \o e = e
        BY <1>3, ConcatEmptySeq
      <4> QED
        BY <4>1, <4>2, <2>1
    <3> DEFINE g == [s |-> ByEncAt(0), out |-> d]
    <3>3. InChunk(s, r) = g
      <4>1. [s EXCEPT !.togo = 0] = ByEncAt(0)
        BY <1>1, TogoAt DEF s
      <4>2. SubSeq(r, 1, s.togo) = d /\ ~(Len(r) < s.togo)
        BY <1>1, <1>4, <2>1, <3>1, SubSeqFull
      <4> QED
        BY <4>1, <4>2 DEF InChunk
    <3>4. AtChunk(g.s, rest, B)
      BY <3>2 DEF AtChunk, B, C
    <3>5. g.out \in Seq(OutTok) /\ d \o B = g.out \o B /\ Stage(g.s, rest, B)
      BY <1>2, <3>4 DEF Stage
    <3> HIDE DEF g
    <3>6. Goes(InChunk(s, r), rest, d \o B)
      BY <1>1, <1>5, <3>3, <3>5
    <3> QED
      BY <3>6 DEF w, r, rest, s, B, C
  <2> QED
    BY <1>1, <1>6, <2>0, <2>7, <2>8
<1>7. CASE m = Len(d) + 1
  <2>1. 1 \in 0 .. Len(e)
    BY <1>3
  <2>2. r = d \o SubSeq(e, 1, 1) /\ rest = SubSeq(e, 1 + 1, Len(e))
    BY <1>2, <1>3, <1>7, <2>1, CutSecond, SMTT(60)
  <2>3. SubSeq(e, 1 + 1, Len(e)) = C
    <3>1. 0 \in 0 .. Len(C) /\ Len(<<CRLF>>) + 0 + 1 = 1 + 1
      BY <1>1, <1>2, <1>3
    <3>2. SubSeq(e, Len(<<CRLF>>) + 0 + 1, Len(e)) = SubSeq(C, 0 + 1, Len(C))
      BY <1>1, <1>2, <3>1, CutSecond
    <3>3. SubSeq(C, 1, Len(C)) = C
      BY <1>1, SubSeqFull
    <3> QED
      BY <3>1, <3>2, <3>3
  <2>4. SubSeq(e, 1, 1) \in Seq(BodyTok) /\ Len(SubSeq(e, 1, 1)) = 1
    BY <1>3, FrontType
  <2> DEFINE f == SubSeq(e, 1, 1)
  <2> HIDE DEF f
  <2>5. Len(d \o f) = Len(d) + 1 /\ SubSeq(d \o f, 1, Len(d)) = d
    <3>1. Len(d \o f) = Len(d) + Len(f) /\ f \in Seq(BodyTok)
      BY <1>2, <2>4, Concat DEF f
    <3>2. SubSeq(d \o f, 1, Len(d)) = SubSeq(d, 1, Len(d))
      BY <1>1, <1>2, <3>1, CutFirst
    <3>3. SubSeq(d, 1, Len(d)) = d
      BY SubSeqFull
    <3> QED
      BY <3>1, <3>2, <3>3, <2>4 DEF f
  <2> DEFINE g == [s |-> ByEncAt(0), out |-> d]
  <2>6. InChunk(s, r) = g
    <3>0. r = d \o f
      BY <2>2 DEF f
    <3> HIDE DEF r
    <3>1. [s EXCEPT !.togo = 0] = ByEncAt(0)
      BY <1>1, TogoAt
    <3>2. SubSeq(r, 1, s.togo) = d /\ ~(Len(r) < s.togo)
      BY <1>1, <1>4, <2>5, <3>0
    <3> HIDE DEF s
    <3> QED
      BY <3>1, <3>2 DEF InChunk
  <2> HIDE DEF w, r, rest, s
  <2>7. AtChunk(g.s, rest, B)
    BY <2>2, <2>3 DEF AtChunk, B, C
  <2>8. g.out \in Seq(OutTok) /\ d \o B = g.out \o B /\ Stage(g.s, rest, B)
    BY <1>2, <2>7 DEF Stage
  <2> HIDE DEF g
  <2>9. Goes(InChunk(s, r), rest, d \o B)
    BY <1>1, <1>5, <2>6, <2>8
  <2> QED
    BY <2>9 DEF w, r, rest, s, B, C
<1> QED
  BY <1>1, <1>6, <1>7

LEMMA OutConcat == \A p, q \in Seq(BodyTok) : p \o q \in Seq(BodyTok)
BY Concat

LEMMA BodyAssoc == \A p, q, r \in Seq(BodyTok) : (p \o q) \o r = p \o (q \o r)
BY ConcatAssociative

LEMMA BodyAppend == \A p \in Seq(BodyTok), x \in BodyTok : Append(p, x) = p \o <<x>>
BY AppendIsConcat

\* In front of a chunk there is its size, perhaps behind the end of the one
\* before.
Sized2(P, o, v) ==
  /\ P \in Seq(BodyTok) /\ Len(P) = o + 1 /\ o \in {1, 2}
  /\ P[o] = Tok("size", v) /\ P[o + 1] = Tok("size+", v)
  /\ o = 2 => P[1] = CRLF

Follows(ns, j) == IF j = 0 THEN <<CRLF>> ELSE Data(j, ns[j]) \o (<<CRLF>> \o Chunks(ns)[j - 1])
Volume(ns, j) == IF j = 0 THEN 0 ELSE ns[j]

LEMMA ChunkFront ==
  ASSUME NEW ns \in Seq(Nat \ {0}), NEW j \in 0 .. Len(ns)
  PROVE  /\ Follows(ns, j) \in Seq(BodyTok) /\ Volume(ns, j) \in Nat
         /\ Size2(Volume(ns, j)) \in Seq(BodyTok) /\ Len(Size2(Volume(ns, j))) = 2
         /\ Size2(Volume(ns, j))[1] = Tok("size", Volume(ns, j))
         /\ Size2(Volume(ns, j))[2] = Tok("size+", Volume(ns, j))
         /\ Chunks(ns)[j] = Size2(Volume(ns, j)) \o Follows(ns, j)
<1> DEFINE C == Chunks(ns)
           v == Volume(ns, j)
           u == Follows(ns, j)
           z == Size2(v)
<1>0. <<CRLF>> \in Seq(BodyTok) /\ CRLF \in BodyTok
  BY Kinds
<1>1. v \in Nat
  <2>1. j # 0 => ns[j] \in Nat
    OBVIOUS
  <2> QED
    BY <2>1 DEF Volume
<1>2. z \in Seq(BodyTok) /\ Len(z) = 2 /\ z[1] = Tok("size", v) /\ z[2] = Tok("size+", v)
  <2>1. Tok("size", v) \in BodyTok /\ Tok("size+", v) \in BodyTok
    BY <1>1, Kinds
  <2> HIDE DEF v
  <2> QED
    BY <2>1 DEF Size2
<1> HIDE DEF z, C, v
<1>3. u \in Seq(BodyTok) /\ C[j] = z \o u
  <2>1. CASE j = 0
    <3>1. u = <<CRLF>> /\ C[j] = Append(z, CRLF)
      BY <2>1, ChunksType DEF Follows, C, z, v, Volume
    <3>2. Append(z, CRLF) = z \o <<CRLF>>
      BY <1>0, <1>2, BodyAppend
    <3> QED
      BY <1>0, <3>1, <3>2
  <2>2. CASE j # 0
    <3> DEFINE d == Data(j, ns[j])
               t == C[j - 1]
    <3>1. j \in 1 .. Len(ns) /\ j - 1 \in 0 .. Len(ns) /\ j \in Nat /\ ns[j] \in Nat
      BY <2>2
    <3>2. d \in Seq(BodyTok)
      BY <3>1, DataType
    <3>3. t \in Seq(BodyTok)
      BY <3>1, ChunksType DEF C
    <3>4. C[j] = Append(z \o d, CRLF) \o t
      BY <2>2, <3>1, ChunksType DEF C, z, v, Volume
    <3>5. u = d \o (<<CRLF>> \o t)
      BY <2>2 DEF Follows, C
    <3> HIDE DEF d, t, u
    <3>6. z \o d \in Seq(BodyTok) /\ <<CRLF>> \o t \in Seq(BodyTok)
      BY <1>0, <1>2, <3>2, <3>3, OutConcat, Zenon
    <3>7. u \in Seq(BodyTok)
      BY <3>2, <3>5, <3>6, OutConcat, Zenon
    <3>8. Append(z \o d, CRLF) = (z \o d) \o <<CRLF>>
      BY <1>0, <3>6, BodyAppend, Zenon
    <3>9. ((z \o d) \o <<CRLF>>) \o t = (z \o d) \o (<<CRLF>> \o t)
      BY <1>0, <3>3, <3>6, BodyAssoc, Zenon
    <3>10. (z \o d) \o (<<CRLF>> \o t) = z \o (d \o (<<CRLF>> \o t))
      BY <1>2, <3>2, <3>6, BodyAssoc, Zenon
    <3> QED
      BY <3>4, <3>5, <3>7, <3>8, <3>9, <3>10, Zenon DEF u
  <2> QED
    BY <2>1, <2>2
<1> QED
  BY <1>1, <1>2, <1>3 DEF C, z, v

LEMMA ChunkShape ==
  ASSUME NEW ns \in Seq(Nat \ {0}), NEW j \in 0 .. Len(ns), NEW w \in {Chunks(ns)[j], <<CRLF>> \o Chunks(ns)[j]}
  PROVE  /\ Follows(ns, j) \in Seq(BodyTok) /\ Volume(ns, j) \in Nat
         /\ \E P : \E o \in {1, 2} : w = P \o Follows(ns, j) /\ Sized2(P, o, Volume(ns, j))
<1> DEFINE C == Chunks(ns)
           v == Volume(ns, j)
           u == Follows(ns, j)
           z == Size2(v)
<1>0. <<CRLF>> \in Seq(BodyTok) /\ CRLF \in BodyTok
  BY Kinds
<1>1. v \in Nat
  BY ChunkFront
<1>2. z \in Seq(BodyTok) /\ Len(z) = 2 /\ z[1] = Tok("size", v) /\ z[2] = Tok("size+", v)
  BY ChunkFront
<1>3. u \in Seq(BodyTok) /\ C[j] = z \o u
  BY ChunkFront
<1> HIDE DEF z, C, v
<1> HIDE DEF u
<1>4. CASE w = Chunks(ns)[j]
  <2>1. w = z \o u /\ Sized2(z, 1, v)
    BY <1>2, <1>3, <1>4 DEF C, Sized2
  <2> QED
    BY <1>1, <1>3, <2>1 DEF u, v
<1>5. CASE w = <<CRLF>> \o Chunks(ns)[j]
  <2> DEFINE P == <<CRLF>> \o z
  <2>1. w = P \o u
    <3>1. w = <<CRLF>> \o (z \o u)
      BY <1>3, <1>5 DEF C
    <3>2. (<<CRLF>> \o z) \o u = <<CRLF>> \o (z \o u)
      BY <1>0, <1>2, <1>3, BodyAssoc, Zenon
    <3> QED
      BY <3>1, <3>2
  <2>2. /\ P \in Seq(BodyTok) /\ Len(P) = Len(<<CRLF>>) + Len(z)
        /\ \A i \in 1 .. Len(<<CRLF>>) : P[i] = <<CRLF>>[i]
        /\ \A i \in 1 .. Len(z) : P[Len(<<CRLF>>) + i] = z[i]
    <3>1. z \in Seq(BodyTok) /\ <<CRLF>> \in Seq(BodyTok)
      BY <1>0, <1>2
    <3> QED
      BY <3>1, Concat
  <2> HIDE DEF P
  <2>3. Len(<<CRLF>>) = 1 /\ <<CRLF>>[1] = CRLF
    OBVIOUS
  <2>4. Len(P) = 3 /\ P[1] = CRLF /\ P[2] = z[1] /\ P[3] = z[2]
    BY <1>2, <2>2, <2>3
  <2>5. Sized2(P, 2, v)
    BY <1>2, <2>2, <2>4 DEF Sized2
  <2> QED
    BY <1>1, <1>3, <2>1, <2>5 DEF u, v
<1> QED
  BY <1>4, <1>5

\* Reads go on behind the size.
LEMMA SizeRead ==
  ASSUME NEW P, NEW o, NEW v \in Nat, Sized2(P, o, v), NEW u \in Seq(BodyTok),
         NEW n \in 1 .. Len(P \o u), Good(SubSeq(P \o u, 1, n))
  PROVE  /\ \E m \in 0 .. Len(u) : n = Len(P) + m
         /\ n - Len(P) \in Nat /\ Len(P) \in Nat /\ P \in Seq(BodyTok)
         /\ \A i \in 2 .. n - 1 : (P \o u)[i] # CRLF
<1> DEFINE w == P \o u
           r == SubSeq(w, 1, n)
<1>1. P \in Seq(BodyTok) /\ Len(P) = o + 1 /\ o \in {1, 2}
  BY DEF Sized2
<1>2. /\ w \in Seq(BodyTok) /\ Len(w) = Len(P) + Len(u) /\ Len(u) \in Nat
      /\ \A i \in 1 .. Len(P) : w[i] = P[i]
  BY <1>1, Concat
<1> HIDE DEF w
<1>3. r \in Seq(BodyTok) /\ Len(r) = n /\ \A i \in 1 .. n : r[i] = w[i]
  <2>1. n \in Nat /\ n <= Len(w)
    BY <1>2 DEF w
  <2> QED
    BY <1>2, <2>1, FrontType
<1>4. Good(r)
  BY DEF w
<1> HIDE DEF r
<1>5. n # o
  <2>1. SUFFICES ASSUME n = o PROVE FALSE
    OBVIOUS
  <2>2. r[Len(r)] = Tok("size", v)
    BY <1>1, <1>2, <1>3, <2>1 DEF Sized2
  <2> QED
    BY <1>4, <2>2 DEF Good, Tok
<1>6. ~(o = 2 /\ n = 1)
  <2>1. SUFFICES ASSUME o = 2, n = 1 PROVE FALSE
    OBVIOUS
  <2>2. r[1] = CRLF /\ Len(r) = 1
    BY <1>1, <1>2, <1>3, <2>1 DEF Sized2
  <2>3. r = <<CRLF>>
    BY <1>3, <2>2
  <2> QED
    BY <1>4, <2>3 DEF Good
<1>7. n >= o + 1 /\ n <= Len(P) + Len(u) /\ n \in Nat
  BY <1>1, <1>2, <1>5, <1>6 DEF w
<1>8. n - Len(P) \in 0 .. Len(u) /\ n = Len(P) + (n - Len(P))
  BY <1>1, <1>2, <1>7
<1>9. \A i \in 2 .. n - 1 : w[i] # CRLF
  <2>1. \A i \in 2 .. Len(r) - 1 : r[i] # CRLF
    BY <1>4 DEF Good
  <2> QED
    BY <1>3, <2>1
<1> QED
  BY <1>1, <1>8, <1>9 DEF w

\* What ByEnc() makes of them.
LEMMA SizeStep ==
  ASSUME NEW P, NEW o, NEW v \in Nat, Sized2(P, o, v), NEW x \in Seq(BodyTok)
  PROVE  Body(ByEncAt(0), P \o x) =
           IF v > 0 THEN InChunk(ByEncAt(v), x) ELSE [s |-> Fresh, out |-> <<NL>>]
<1> DEFINE r == P \o x
           s == ByEncAt(0)
           k == IF r # <<>> /\ r[1] = CRLF THEN 2 ELSE 1
           sized == k < Len(r) /\ xmemmem(SubSeq(r, k, k + 1), "size") # 0 /\ r[k].n > 0
<1>1. P \in Seq(BodyTok) /\ Len(P) = o + 1 /\ o \in {1, 2}
  BY DEF Sized2
<1>2. /\ r \in Seq(BodyTok) /\ Len(r) = Len(P) + Len(x) /\ Len(x) \in Nat
      /\ \A i \in 1 .. Len(P) : r[i] = P[i]
  BY <1>1, Concat
<1>3. SubSeq(r, o + 2, Len(r)) = x
  <2>1. 0 \in 0 .. Len(x) /\ Len(P) + 0 + 1 = o + 2
    BY <1>1, <1>2
  <2>2. SubSeq(r, Len(P) + 0 + 1, Len(r)) = SubSeq(x, 0 + 1, Len(x))
    BY <1>1, <2>1, CutSecond
  <2>3. SubSeq(x, 1, Len(x)) = x
    BY SubSeqFull
  <2> QED
    BY <2>1, <2>2, <2>3
<1> HIDE DEF r
<1>4. s.len = FALSE /\ s.enc = TRUE /\ s.togo = 0
  BY DEF ByEncAt
<1>5. Body(s, r) = IF s.togo > 0 THEN InChunk(s, r)
                   ELSE IF sized THEN InChunk([s EXCEPT !.togo = r[k].n], SubSeq(r, k + 2, Len(r)))
                   ELSE [s |-> Fresh, out |-> <<NL>>]
  BY <1>4 DEF Body, ByEnc
<1>6. r[o] = Tok("size", v) /\ r[o + 1] = Tok("size+", v) /\ r # <<>> /\ o < Len(r)
  BY <1>1, <1>2 DEF Sized2
<1>7. k = o
  <2>1. CASE o = 2
    <3>1. r[1] = CRLF
      BY <1>1, <1>2, <2>1 DEF Sized2
    <3> QED
      BY <1>6, <2>1, <3>1
  <2>2. CASE o = 1
    <3>1. r[1].t = "size"
      BY <1>6, <2>2 DEF Tok
    <3>2. r[1] # CRLF
      BY <3>1, Kinds
    <3> QED
      BY <2>2, <3>2
  <2> QED
    BY <1>1, <2>1, <2>2
<1>8. xmemmem(SubSeq(r, o, o + 1), "size") # 0
  <2> DEFINE y == SubSeq(r, o, o + 1)
  <2>1. y \in Seq(BodyTok) /\ Len(y) = 2 /\ y[1] = r[o] /\ y[2] = r[o + 1]
    <3>1. o \in Int /\ o + 1 \in Int /\ \A i \in o .. o + 1 : r[i] \in BodyTok
      BY <1>1, <1>2
    <3>2. /\ y \in Seq(BodyTok) /\ Len(y) = IF o <= o + 1 THEN (o + 1) - o + 1 ELSE 0
          /\ \A i \in 1 .. (o + 1) - o + 1 : y[i] = r[o + i - 1]
      BY <3>1, SubSeqProperties
    <3> HIDE DEF y
    <3>3. o <= o + 1 /\ (o + 1) - o + 1 = 2 /\ o + 1 - 1 = o /\ o + 2 - 1 = o + 1
      BY <1>1
    <3> QED
      BY <3>2, <3>3
  <2> HIDE DEF y
  <2>2. y[1].t = "size" /\ y[2].t = Second["size"] /\ 1 \in 1 .. Len(y) - 1
    BY <1>6, <2>1 DEF Tok, Second
  <2>3. y \in Seq(Token)
    BY <2>1, Kinds, SeqMonotonic
  <2>4. xmemmem(y, "size") # 0
    <3>1. \A i \in 1 .. Len(y) - 1 : y[i].t = "size" /\ y[i + 1].t = Second["size"] => xmemmem(y, "size") # 0
      BY <2>3, Found
    <3>2. 1 + 1 = 2
      OBVIOUS
    <3> QED
      BY <2>2, <3>1, <3>2
  <2> QED
    BY <2>4 DEF y
<1>9. r[o].n = v
  BY <1>6 DEF Tok
<1>10. sized <=> v > 0
  BY <1>6, <1>7, <1>8, <1>9
<1>11. [s EXCEPT !.togo = r[k].n] = ByEncAt(v)
  BY <1>7, <1>9, TogoAt
<1> HIDE DEF k, sized, s
<1>12. Body(s, r) = IF v > 0 THEN InChunk(ByEncAt(v), x) ELSE [s |-> Fresh, out |-> <<NL>>]
  <2>1. Body(s, r) = IF sized THEN InChunk([s EXCEPT !.togo = r[k].n], SubSeq(r, k + 2, Len(r)))
                     ELSE [s |-> Fresh, out |-> <<NL>>]
    BY <1>4, <1>5
  <2>2. SubSeq(r, k + 2, Len(r)) = x
    BY <1>3, <1>7
  <2>3. InChunk([s EXCEPT !.togo = r[k].n], SubSeq(r, k + 2, Len(r))) = InChunk(ByEncAt(v), x)
    BY <1>11, <2>2
  <2> QED
    BY <1>10, <2>1, <2>3, Zenon
<1> QED
  BY <1>12 DEF r, s

LEMMA ChunkStep ==
  ASSUME NEW ns \in Seq(Nat \ {0}), NEW j \in 0 .. Len(ns), NEW w \in {Chunks(ns)[j], <<CRLF>> \o Chunks(ns)[j]},
         NEW n \in 1 .. Len(w), Good(SubSeq(w, 1, n))
  PROVE  Goes(Body(ByEncAt(0), SubSeq(w, 1, n)), SubSeq(w, n + 1, Len(w)), Bodies(ns)[j])
<1> DEFINE v == Volume(ns, j)
           u == Follows(ns, j)
           B == Bodies(ns)[j]
<1>1. u \in Seq(BodyTok) /\ v \in Nat
  BY ChunkShape
<1>2. PICK P : \E o \in {1, 2} : w = P \o u /\ Sized2(P, o, v)
  BY ChunkShape
<1>3. PICK o \in {1, 2} : w = P \o u /\ Sized2(P, o, v)
  BY <1>2
<1>4. P \in Seq(BodyTok) /\ Len(P) \in Nat /\ Len(u) \in Nat /\ Len(P) >= 2
  BY <1>1, <1>3 DEF Sized2
<1> HIDE DEF u, v
<1>5. /\ \E m \in 0 .. Len(u) : n = Len(P) + m
      /\ \A i \in 2 .. n - 1 : (P \o u)[i] # CRLF
  BY <1>1, <1>3, SizeRead
<1>6. PICK m \in 0 .. Len(u) : n = Len(P) + m
  BY <1>5
<1> DEFINE x == SubSeq(u, 1, m)
           y == SubSeq(u, m + 1, Len(u))
<1>7. SubSeq(w, 1, n) = P \o x /\ SubSeq(w, n + 1, Len(w)) = y
  <2>1. /\ SubSeq(P \o u, 1, Len(P) + m) = P \o SubSeq(u, 1, m)
        /\ SubSeq(P \o u, Len(P) + m + 1, Len(P \o u)) = SubSeq(u, m + 1, Len(u))
    <3>1. P \in Seq(BodyTok) /\ u \in Seq(BodyTok) /\ m \in 0 .. Len(u)
      BY <1>1, <1>4, <1>6
    <3> QED
      BY <3>1, CutSecond
  <2> QED
    BY <1>3, <1>6, <2>1, Zenon
<1>8. x \in Seq(BodyTok) /\ Len(x) = m /\ \A i \in 1 .. m : x[i] = u[i]
  <2>1. m \in Nat /\ m <= Len(u)
    BY <1>4
  <2> QED
    BY <1>1, <2>1, FrontType
<1> HIDE DEF x, y
<1>9. Body(ByEncAt(0), P \o x) = IF v > 0 THEN InChunk(ByEncAt(v), x) ELSE [s |-> Fresh, out |-> <<NL>>]
  BY <1>1, <1>3, <1>8, SizeStep
<1>10. CASE j = 0
  <2>1. v = 0 /\ u = <<CRLF>> /\ B = <<NL>>
    BY <1>10, BodiesType DEF v, u, Volume, Follows
  <2> DEFINE g == [s |-> Fresh, out |-> <<NL>>]
  <2>2. Body(ByEncAt(0), P \o x) = g
    BY <1>9, <2>1
  <2>3. y \in {<<>>, <<CRLF>>}
    <3>1. Len(u) = 1
      BY <2>1
    <3>2. CASE m = 0
      <4>1. y = u
        BY <1>1, <3>2, SubSeqFull DEF y
      <4> QED
        BY <2>1, <4>1
    <3>3. CASE m = 1
      <4>1. y = <<>>
        BY <3>1, <3>3, SubSeqEmpty DEF y
      <4> QED
        BY <4>1
    <3> QED
      BY <3>1, <3>2, <3>3
  <2>4. Ended(g.s, y, <<>>)
    BY <2>3 DEF Ended
  <2>5. g.out \in Seq(OutTok) /\ B = g.out \o <<>> /\ <<>> \in Seq(OutTok)
    <3>1. <<NL>> \in Seq(OutTok) /\ <<>> \in Seq(OutTok)
      BY Kinds
    <3>2. <<NL>> \o <<>> = <<NL>>
      BY <3>1, ConcatEmptySeq
    <3> QED
      BY <2>1, <3>1, <3>2
  <2> HIDE DEF g
  <2>6. Goes(g, y, B)
    BY <2>4, <2>5, Zenon DEF Goes
  <2> QED
    BY <1>7, <2>2, <2>6
<1>11. CASE j # 0
  <2> DEFINE d == Data(j, ns[j])
             C == Chunks(ns)[j - 1]
             e == <<CRLF>> \o C
  <2>1. j \in 1 .. Len(ns) /\ j - 1 \in 0 .. Len(ns) /\ j \in Nat /\ ns[j] \in Nat /\ ns[j] > 0
    BY <1>11
  <2>2. v = ns[j] /\ u = d \o e
    BY <1>11 DEF v, u, Volume, Follows
  <2>3. d \in Seq(DataTok) /\ Len(d) = v /\ d # <<>> /\ d \in Seq(BodyTok) /\ v > 0
    <3>1. d \in Seq(DataTok) /\ Len(d) = ns[j] /\ d \in Seq(BodyTok)
      BY <2>1, DataType DEF DataTok
    <3> HIDE DEF d
    <3> QED
      BY <2>1, <2>2, <3>1
  <2>4. C \in Seq(BodyTok)
    BY <2>1, ChunksType
  <2>5. B = d \o Bodies(ns)[j - 1]
    BY <2>1, BodiesType
  <2>6. Body(ByEncAt(0), P \o x) = InChunk(ByEncAt(Len(d)), x)
    BY <1>9, <2>3
  <2>7. m <= Len(d) + 1
    <3> HIDE DEF d, C
    <3>1. <<CRLF>> \in Seq(BodyTok) /\ Len(<<CRLF>>) = 1 /\ <<CRLF>>[1] = CRLF
      BY Kinds
    <3>2. e \in Seq(BodyTok) /\ Len(e) = 1 + Len(C) /\ e[1] = CRLF /\ Len(C) \in Nat
      <4>1. /\ e \in Seq(BodyTok) /\ Len(e) = Len(<<CRLF>>) + Len(C) /\ Len(C) \in Nat
            /\ \A i \in 1 .. Len(<<CRLF>>) : e[i] = <<CRLF>>[i]
        BY <2>4, <3>1, Concat
      <4> QED
        BY <3>1, <4>1
    <3> HIDE DEF e
    <3>3. u[Len(d) + 1] = CRLF /\ Len(d) \in Nat /\ Len(d) + 1 \in 1 .. Len(u)
      <4>1. /\ Len(u) = Len(d) + Len(e) /\ Len(d) \in Nat
            /\ \A i \in 1 .. Len(e) : u[Len(d) + i] = e[i]
        <5>1. d \in Seq(BodyTok) /\ e \in Seq(BodyTok)
          BY <2>3, <3>2
        <5>2. /\ Len(d \o e) = Len(d) + Len(e) /\ Len(d) \in Nat
              /\ \A i \in 1 .. Len(e) : (d \o e)[Len(d) + i] = e[i]
          BY <5>1, Concat
        <5> QED
          BY <2>2, <5>2
      <4>2. 1 \in 1 .. Len(e)
        BY <3>2
      <4> QED
        BY <3>2, <4>1, <4>2
    <3>4. \A i \in 1 .. Len(u) : (P \o u)[Len(P) + i] = u[i]
      BY <1>1, <1>4, Concat
    <3>5. (P \o u)[Len(P) + (Len(d) + 1)] = CRLF
      BY <3>3, <3>4
    <3>6. Len(P) + (Len(d) + 1) \notin 2 .. n - 1
      BY <1>5, <3>5
    <3> QED
      BY <1>4, <1>6, <3>3, <3>6
  <2>8. m \in 0 .. Len(d) + 1
    BY <1>4, <2>3, <2>7
  <2>9. Goes(InChunk(ByEncAt(Len(d)), SubSeq(d \o e, 1, m)), SubSeq(d \o e, m + 1, Len(d \o e)), d \o Bodies(ns)[j - 1])
    BY <2>1, <2>3, <2>8, DataStep
  <2> HIDE DEF d, e
  <2>10. Goes(InChunk(ByEncAt(Len(d)), x), y, B)
    BY <2>2, <2>5, <2>9 DEF x, y
  <2> QED
    BY <1>7, <2>6, <2>10
<1> QED
  BY <1>10, <1>11

LEMMA DataRead ==
  ASSUME NEW s, NEW w, NEW L, InData(s, w, L), NEW n \in 1 .. Len(w), Good(SubSeq(w, 1, n))
  PROVE  Goes(Body(s, SubSeq(w, 1, n)), SubSeq(w, n + 1, Len(w)), L)
<1>0. PICK ns \in Seq(Nat \ {0}) : \E j \in 0 .. Len(ns) : \E d \in Seq(DataTok) :
        /\ d # <<>> /\ s = ByEncAt(Len(d)) /\ L = d \o Bodies(ns)[j]
        /\ w = d \o (<<CRLF>> \o Chunks(ns)[j])
  BY DEF InData
<1>1. PICK j \in 0 .. Len(ns), d \in Seq(DataTok) :
        /\ d # <<>> /\ s = ByEncAt(Len(d)) /\ L = d \o Bodies(ns)[j]
        /\ w = d \o (<<CRLF>> \o Chunks(ns)[j])
  BY <1>0
<1> DEFINE C == Chunks(ns)[j]
           e == <<CRLF>> \o C
           r == SubSeq(w, 1, n)
<1>2. C \in Seq(BodyTok)
  BY ChunksType
<1> HIDE DEF C
<1>3. d \in Seq(BodyTok) /\ Len(d) \in Nat /\ Len(d) > 0
  BY <1>1, Kinds, SeqMonotonic
<1>4. e \in Seq(BodyTok) /\ Len(e) \in Nat /\ Len(e) >= 1 /\ e[1] = CRLF
  <2>1. <<CRLF>> \in Seq(BodyTok) /\ Len(<<CRLF>>) = 1 /\ <<CRLF>>[1] = CRLF
    BY Kinds
  <2>2. /\ e \in Seq(BodyTok) /\ Len(e) = Len(<<CRLF>>) + Len(C) /\ Len(C) \in Nat
        /\ \A i \in 1 .. Len(<<CRLF>>) : e[i] = <<CRLF>>[i]
    BY <1>2, <2>1, Concat
  <2> HIDE DEF e
  <2> QED
    BY <2>1, <2>2
<1> HIDE DEF e
<1>5. w = d \o e
  BY <1>1 DEF e, C
<1>6. w \in Seq(BodyTok) /\ Len(w) = Len(d) + Len(e) /\ w[Len(d) + 1] = CRLF
  <2>1. /\ d \o e \in Seq(BodyTok) /\ Len(d \o e) = Len(d) + Len(e)
        /\ \A i \in 1 .. Len(e) : (d \o e)[Len(d) + i] = e[i]
    BY <1>3, <1>4, Concat
  <2>2. 1 \in 1 .. Len(e)
    BY <1>4
  <2> QED
    BY <1>4, <1>5, <2>1, <2>2
<1>7. Len(r) = n /\ \A i \in 1 .. n : r[i] = w[i]
  <2>1. n \in Nat /\ n <= Len(w)
    BY <1>3, <1>4, <1>6
  <2> QED
    BY <1>6, <2>1, FrontType
<1>8. Good(r)
  OBVIOUS
<1> HIDE DEF r
<1>9. n \in 0 .. Len(d) + 1
  <2>1. \A i \in 2 .. n - 1 : w[i] # CRLF
    BY <1>7, <1>8 DEF Good
  <2>2. Len(d) + 1 \notin 2 .. n - 1
    BY <1>6, <2>1
  <2> QED
    BY <1>3, <1>4, <1>6, <2>2
<1>10. Goes(InChunk(ByEncAt(Len(d)), r), SubSeq(w, n + 1, Len(w)), L)
  BY <1>1, <1>5, <1>9, DataStep DEF r, e, C
<1>11. Body(ByEncAt(Len(d)), r) = InChunk(ByEncAt(Len(d)), r)
  <2> DEFINE t == ByEncAt(Len(d))
  <2>1. t.len = FALSE /\ t.enc = TRUE /\ t.togo > 0
    BY <1>3 DEF ByEncAt
  <2> HIDE DEF t
  <2>2. Body(t, r) = InChunk(t, r)
    BY <2>1 DEF Body, ByEnc
  <2> QED
    BY <2>2 DEF t
<1> QED
  BY <1>1, <1>10, <1>11 DEF r

\* A body, read without harm to it.
LEMMA BodyStep ==
  ASSUME NEW s, NEW w, NEW L, Stage(s, w, L), NEW n \in 1 .. Len(w), Good(SubSeq(w, 1, n))
  PROVE  Goes(Body(s, SubSeq(w, 1, n)), SubSeq(w, n + 1, Len(w)), L)
<1>1. CASE AtLen(s, w, L)
  BY <1>1, LenStep
<1>2. CASE AtChunk(s, w, L)
  <2>0. PICK ns \in Seq(Nat \ {0}) : \E j \in 0 .. Len(ns) :
          /\ s = ByEncAt(0) /\ L = Bodies(ns)[j]
          /\ w \in {Chunks(ns)[j], <<CRLF>> \o Chunks(ns)[j]}
    BY <1>2 DEF AtChunk
  <2>1. PICK j \in 0 .. Len(ns) :
          /\ s = ByEncAt(0) /\ L = Bodies(ns)[j]
          /\ w \in {Chunks(ns)[j], <<CRLF>> \o Chunks(ns)[j]}
    BY <2>0
  <2> QED
    BY <2>1, ChunkStep
<1>3. CASE InData(s, w, L)
  BY <1>3, DataRead
<1> QED
  BY <1>1, <1>2, <1>3 DEF Stage

\* In a body there is something left on the wire.
LEMMA StageWire ==
  ASSUME NEW s, NEW w, NEW L, Stage(s, w, L)
  PROVE  w # <<>> /\ s.hdr
<1>1. CASE AtLen(s, w, L)
  BY <1>1 DEF AtLen, ByLenAt
<1>2. CASE AtChunk(s, w, L)
  <2>0. PICK ns \in Seq(Nat \ {0}) : \E j \in 0 .. Len(ns) :
          s = ByEncAt(0) /\ w \in {Chunks(ns)[j], <<CRLF>> \o Chunks(ns)[j]}
    BY <1>2 DEF AtChunk
  <2>1. PICK j \in 0 .. Len(ns) :
          s = ByEncAt(0) /\ w \in {Chunks(ns)[j], <<CRLF>> \o Chunks(ns)[j]}
    BY <2>0
  <2>2. PICK P : \E o \in {1, 2} : w = P \o Follows(ns, j) /\ Sized2(P, o, Volume(ns, j))
    BY <2>1, ChunkShape
  <2>3. Follows(ns, j) \in Seq(BodyTok) /\ P \in Seq(BodyTok) /\ Len(P) > 0
    BY <2>1, <2>2, ChunkShape DEF Sized2
  <2>4. Len(w) = Len(P) + Len(Follows(ns, j)) /\ Len(Follows(ns, j)) \in Nat /\ Len(P) \in Nat
    BY <2>2, <2>3, Concat
  <2>5. Len(w) # 0
    BY <2>3, <2>4
  <2> QED
    BY <2>1, <2>5 DEF ByEncAt
<1>3. CASE InData(s, w, L)
  <2>0. PICK ns \in Seq(Nat \ {0}) : \E j \in 0 .. Len(ns) : \E d \in Seq(DataTok) :
          /\ d # <<>> /\ s = ByEncAt(Len(d)) /\ w = d \o (<<CRLF>> \o Chunks(ns)[j])
    BY <1>3 DEF InData
  <2>1. PICK j \in 0 .. Len(ns), d \in Seq(DataTok) :
          /\ d # <<>> /\ s = ByEncAt(Len(d)) /\ w = d \o (<<CRLF>> \o Chunks(ns)[j])
    BY <2>0
  <2> DEFINE e == <<CRLF>> \o Chunks(ns)[j]
  <2>2. d \in Seq(BodyTok) /\ <<CRLF>> \in Seq(BodyTok) /\ Chunks(ns)[j] \in Seq(BodyTok) /\ Len(d) > 0
    <3>1. d \in Seq(BodyTok) /\ Len(d) > 0
      BY <2>1, Kinds, SeqMonotonic
    <3>2. Chunks(ns)[j] \in Seq(BodyTok)
      BY ChunksType
    <3>3. <<CRLF>> \in Seq(BodyTok)
      BY Kinds
    <3> QED
      BY <3>1, <3>2, <3>3
  <2>3. e \in Seq(BodyTok)
    BY <2>2, OutConcat, Zenon
  <2> HIDE DEF e
  <2>4. Len(d \o e) = Len(d) + Len(e) /\ Len(d) \in Nat /\ Len(e) \in Nat
    BY <2>2, <2>3, Concat
  <2>5. Len(w) # 0
    BY <2>1, <2>2, <2>4 DEF e
  <2> QED
    BY <2>1, <2>5 DEF ByEncAt
<1> QED
  BY <1>1, <1>2, <1>3 DEF Stage

-----------------------------------------------------------------------------
(* The header *)

\* An answer with header fields x and y, a body and a line.
Kind(x, y, body, L) ==
  \/ \E n \in Nat : /\ x = Tok("len", n) /\ y = Tok("len+", n)
                    /\ body \in Seq(DataTok) /\ Len(body) = n /\ L = Append(body, NL)
  \/ \E ns \in Seq(Nat \ {0}) : /\ x = Tok("enc", 0) /\ y = Tok("enc+", 0)
                                /\ body = Chunks(ns)[Len(ns)] /\ L = Bodies(ns)[Len(ns)]

Seen(x) == IF x.t = "len" THEN [Fresh EXCEPT !.len = TRUE, !.togo = x.n]
           ELSE [Fresh EXCEPT !.enc = TRUE, !.togo = 0]

Full(x, y, body) == Header(<<x, y>>) \o body

\* In front of the header, behind its first token or behind the field.
InHead(s, w, L) ==
  \E x \in Token, y \in Token, body \in Seq(BodyTok), o \in {0, 1, 3} :
    /\ Kind(x, y, body, L)
    /\ w = SubSeq(Full(x, y, body), o + 1, Len(Full(x, y, body)))
    /\ s = IF o = 3 THEN Seen(x) ELSE Fresh

LEMMA KindFields ==
  ASSUME NEW x, NEW y, NEW body, NEW L, Kind(x, y, body, L)
  PROVE  /\ x.t \in {"len", "enc"} /\ y.t = Second[x.t] /\ y.t \in {"len+", "enc+"} /\ x.n \in Nat
         /\ x.t = "len" => body \in Seq(DataTok) /\ x.n = Len(body) /\ L = Append(body, NL)
         /\ x.t = "enc" => \E ns \in Seq(Nat \ {0}) : body = Chunks(ns)[Len(ns)] /\ L = Bodies(ns)[Len(ns)]
<1>1. CASE \E n \in Nat : /\ x = Tok("len", n) /\ y = Tok("len+", n)
                          /\ body \in Seq(DataTok) /\ Len(body) = n /\ L = Append(body, NL)
  BY <1>1 DEF Tok, Second
<1>2. CASE \E ns \in Seq(Nat \ {0}) : /\ x = Tok("enc", 0) /\ y = Tok("enc+", 0)
                                      /\ body = Chunks(ns)[Len(ns)] /\ L = Bodies(ns)[Len(ns)]
  <2>1. x.t = "enc" /\ x.n = 0 /\ y.t = "enc+"
    BY <1>2 DEF Tok
  <2>2. Second["enc"] = "enc+"
    BY DEF Second
  <2> QED
    BY <1>2, <2>1, <2>2
<1> QED
  BY <1>1, <1>2 DEF Kind

LEMMA FullTokens ==
  ASSUME NEW x \in Token, NEW y \in Token, NEW body \in Seq(BodyTok), NEW L, Kind(x, y, body, L)
  PROVE  LET full == Full(x, y, body)
         IN  /\ full \in Seq(Token) /\ Len(full) = 5 + Len(body) /\ Len(body) \in Nat
             /\ full[2] = x /\ full[3] = y /\ full[4].t = "eoh" /\ full[5].t = "eoh+"
             /\ \A i \in 1 .. Len(body) : full[5 + i] = body[i]
             /\ \A i \in 1 .. Len(full) : /\ full[i].t = "eoh" => i = 4
                                          /\ full[i].t \in {"len", "enc"} => i = 2
<1> DEFINE full == Full(x, y, body)
<1>1. body \in Seq(Token) /\ Len(body) \in Nat
  BY BodyTokens, SeqMonotonic
<1>2. /\ full \in Seq(Token) /\ Len(full) = 5 + Len(body)
      /\ full[1] = Tok("header", 0) /\ full[2] = x /\ full[3] = y
      /\ full[4] = Tok("eoh", 0) /\ full[5] = Tok("eoh+", 0)
      /\ \A k \in 1 .. Len(body) : full[5 + k] = body[k]
  BY <1>1, HeaderTokens, SMTT(60) DEF Full
<1> HIDE DEF full
<1>3. full[1].t = "header" /\ full[4].t = "eoh" /\ full[5].t = "eoh+"
  BY <1>2 DEF Tok
<1>4. full[2].t \in {"len", "enc"} /\ full[3].t \in {"len+", "enc+"}
  BY <1>2, KindFields
<1>5. ASSUME NEW i \in 1 .. Len(full), i > 5 PROVE full[i].t \in BodyTs
  <2>1. i - 5 \in 1 .. Len(body) /\ i = 5 + (i - 5)
    BY <1>1, <1>2, <1>5
  <2>2. full[i] = body[i - 5] /\ body[i - 5] \in BodyTok
    BY <1>2, <2>1
  <2> QED
    BY <2>2 DEF BodyTok
<1>6. ASSUME NEW i \in 1 .. Len(full)
      PROVE  /\ full[i].t = "eoh" => i = 4
             /\ full[i].t \in {"len", "enc"} => i = 2
  <2>1. CASE i > 5
    <3>1. full[i].t \in {"data", "size", "size+", "crlf"}
      BY <1>5, <2>1 DEF BodyTs
    <3> QED
      BY <3>1
  <2>2. CASE i \in 1 .. 5
    <3>1. i = 1 \/ i = 2 \/ i = 3 \/ i = 4 \/ i = 5
      BY <2>2
    <3> QED
      BY <3>1, <1>3, <1>4
  <2> QED
    BY <1>1, <1>2, <2>1, <2>2
<1> QED
  BY <1>1, <1>2, <1>3, <1>6 DEF full

\* The field is found as soon as it has been read.
LEMMA SnarfField ==
  ASSUME NEW x \in Token, NEW y \in Token, NEW body \in Seq(BodyTok), NEW L, Kind(x, y, body, L),
         NEW o \in {0, 1}, NEW r \in Seq(Token), o + Len(r) \in 3 .. Len(Full(x, y, body)),
         \A i \in 1 .. Len(r) : r[i] = Full(x, y, body)[o + i]
  PROVE  Snarf(Fresh, r) = Seen(x)
<1> DEFINE full == Full(x, y, body)
           a == 2 - o
<1>1. /\ full[2] = x /\ full[3] = y
      /\ \A i \in 1 .. Len(full) : full[i].t \in {"len", "enc"} => i = 2
  BY FullTokens
<1>2. Len(r) \in Nat /\ a \in 1 .. Len(r) - 1 /\ o + a = 2 /\ o + (a + 1) = 3 /\ a + 1 \in 1 .. Len(r) /\ a \in 1 .. Len(r)
  <2>1. Len(r) \in Nat /\ o + Len(r) >= 3
    BY FullTokens
  <2>2. a \in {1, 2} /\ o + a = 2 /\ o + (a + 1) = 3
    OBVIOUS
  <2> HIDE DEF a
  <2>3. o + Len(r) >= o + (a + 1)
    BY <2>1, <2>2
  <2>4. Len(r) >= a + 1
    BY <2>1, <2>2, <2>3
  <2> QED
    BY <2>1, <2>2, <2>4
<1>3. r[a] = x /\ r[a + 1] = y
  BY <1>1, <1>2
<1>4. \A i \in 1 .. Len(r) : r[i].t \in {"len", "enc"} => i = a
  <2>1. \A i \in 1 .. Len(r) : o + i \in 1 .. Len(full)
    BY <1>2
  <2>2. \A i \in 1 .. Len(r) : r[i].t \in {"len", "enc"} => o + i = 2
    BY <1>1, <2>1
  <2> QED
    BY <1>2, <2>2
<1>5. x.t \in {"len", "enc"} /\ y.t = Second[x.t]
  BY KindFields
<1> HIDE DEF full, a
<1>6. xmemmem(r, x.t) = a
  <2>1. xmemmem(r, x.t) # 0
    BY <1>2, <1>3, <1>5, Found
  <2>2. xmemmem(r, x.t) \in 1 .. Len(r) - 1 /\ r[xmemmem(r, x.t)].t = x.t
    BY <2>1, Found
  <2>3. xmemmem(r, x.t) \in 1 .. Len(r)
    BY <1>2, <2>2
  <2> QED
    BY <1>4, <1>5, <2>2, <2>3
<1>7. a # 0
  BY <1>2
<1>8. ~(Fresh.len \/ Fresh.enc \/ Fresh.hdr)
  BY DEF Fresh
<1>9. CASE x.t = "len"
  <2>1. Snarf(Fresh, r) = [Fresh EXCEPT !.len = TRUE, !.togo = r[xmemmem(r, "len")].n]
    BY <1>6, <1>7, <1>8, <1>9 DEF Snarf
  <2>2. r[xmemmem(r, "len")].n = x.n
    BY <1>3, <1>6, <1>9
  <2>3. Seen(x) = [Fresh EXCEPT !.len = TRUE, !.togo = x.n]
    BY <1>9 DEF Seen
  <2> QED
    BY <2>1, <2>2, <2>3
<1>10. CASE x.t = "enc"
  <2>1. xmemmem(r, "len") = 0
    <3>1. SUFFICES ASSUME xmemmem(r, "len") # 0 PROVE FALSE
      OBVIOUS
    <3>2. xmemmem(r, "len") \in 1 .. Len(r) - 1 /\ r[xmemmem(r, "len")].t = "len"
      BY <3>1, Found
    <3>3. xmemmem(r, "len") \in 1 .. Len(r)
      BY <1>2, <3>2
    <3>4. xmemmem(r, "len") = a
      BY <1>4, <3>2, <3>3
    <3> QED
      BY <1>3, <1>10, <3>2, <3>4
  <2>2. Snarf(Fresh, r) = [Fresh EXCEPT !.enc = TRUE, !.togo = 0]
    BY <1>6, <1>7, <1>8, <1>10, <2>1 DEF Snarf
  <2>3. Seen(x) = [Fresh EXCEPT !.enc = TRUE, !.togo = 0]
    BY <1>10 DEF Seen
  <2> QED
    BY <2>2, <2>3
<1> QED
  BY <1>5, <1>9, <1>10

\* The body does not begin with the end of a chunk.
LEMMA BodyStart ==
  ASSUME NEW x, NEW y, NEW body, NEW L, Kind(x, y, body, L), body # <<>>
  PROVE  body[1] # CRLF
<1>1. CASE x.t = "len"
  <2>1. body \in Seq(DataTok)
    BY <1>1, KindFields
  <2>2. body[1] \in DataTok
    BY <2>1
  <2> QED
    BY <2>2, Kinds
<1>2. CASE x.t = "enc"
  <2>1. PICK ns \in Seq(Nat \ {0}) : body = Chunks(ns)[Len(ns)]
    BY <1>2, KindFields
  <2> DEFINE j == Len(ns)
             v == Volume(ns, j)
             u == Follows(ns, j)
             z == Size2(v)
  <2>2. v \in Nat /\ u \in Seq(BodyTok) /\ body = z \o u
    <3>1. j \in 0 .. Len(ns)
      OBVIOUS
    <3> QED
      BY <2>1, <3>1, ChunkFront
  <2> HIDE DEF u, v
  <2>3. z \in Seq(BodyTok) /\ Len(z) = 2 /\ z[1] = Tok("size", v)
    <3>1. Tok("size", v) \in BodyTok /\ Tok("size+", v) \in BodyTok
      BY <2>2, Kinds
    <3> QED
      BY <3>1 DEF Size2
  <2> HIDE DEF z
  <2>4. \A i \in 1 .. Len(z) : (z \o u)[i] = z[i]
    BY <2>2, <2>3, Concat, ZenonT(60)
  <2>5. body[1].t = "size"
    BY <2>2, <2>3, <2>4, SMTT(60) DEF Tok
  <2> QED
    BY <2>5, Kinds
<1> QED
  BY <1>1, <1>2, KindFields

\* What the fields make of the state, and the end of the header of that.
SeenFields(x) ==
  /\ Seen(x).hdr = FALSE /\ (Seen(x).len \/ Seen(x).enc) /\ ~Seen(x).hdr
  /\ x.t = "len" => [Seen(x) EXCEPT !.hdr = TRUE] = ByLenAt(x.n)
  /\ x.t = "enc" => [Seen(x) EXCEPT !.hdr = TRUE] = ByEncAt(0)
  /\ x.t = "len" => /\ [Seen(x) EXCEPT !.hdr = FALSE].len
                    /\ [Seen(x) EXCEPT !.hdr = FALSE].togo = x.n

LEMMA SeenAt ==
  ASSUME NEW x, x.t \in {"len", "enc"}, x.n \in Nat
  PROVE  SeenFields(x)
<1> USE DEF SeenFields
<1>1. CASE x.t = "len"
  <2> DEFINE a == [Seen(x) EXCEPT !.hdr = TRUE]
             b == [Seen(x) EXCEPT !.hdr = FALSE]
  <2>1. Seen(x) = [Fresh EXCEPT !.len = TRUE, !.togo = x.n]
    BY <1>1 DEF Seen
  <2>2. Seen(x) \in RState
    BY <2>1 DEF Fresh, RState
  <2>3. Seen(x).hdr = FALSE /\ Seen(x).len = TRUE /\ Seen(x).enc = FALSE /\ Seen(x).togo = x.n
    BY <2>1 DEF Fresh
  <2>4. a \in RState /\ a.hdr = TRUE /\ a.len = TRUE /\ a.enc = FALSE /\ a.togo = x.n
    BY <2>2, <2>3 DEF RState
  <2>5. b.len = TRUE /\ b.togo = x.n
    BY <2>2, <2>3 DEF RState
  <2>6. ByLenAt(x.n) \in RState
    BY DEF ByLenAt, RState
  <2> HIDE DEF a, b
  <2>7. a = ByLenAt(x.n)
    BY <2>4, <2>6 DEF ByLenAt, RState
  <2> QED
    BY <1>1, <2>3, <2>5, <2>7 DEF a, b
<1>2. CASE x.t = "enc"
  <2> DEFINE a == [Seen(x) EXCEPT !.hdr = TRUE]
  <2>1. Seen(x) = [Fresh EXCEPT !.enc = TRUE, !.togo = 0]
    BY <1>2 DEF Seen
  <2>2. Seen(x) \in RState
    <3>1. \A e \in BOOLEAN, g \in Nat : [Fresh EXCEPT !.enc = e, !.togo = g] \in RState
      BY DEF Fresh, RState
    <3> QED
      BY <2>1, <3>1
  <2>3. Seen(x).hdr = FALSE /\ Seen(x).len = FALSE /\ Seen(x).enc = TRUE /\ Seen(x).togo = 0
    BY <2>1 DEF Fresh
  <2>4. a \in RState /\ a.hdr = TRUE /\ a.len = FALSE /\ a.enc = TRUE /\ a.togo = 0
    BY <2>2, <2>3 DEF RState
  <2>6. ByEncAt(0) \in RState
    BY DEF ByEncAt, RState
  <2> HIDE DEF a
  <2>7. a = ByEncAt(0)
    BY <2>4, <2>6 DEF ByEncAt, RState
  <2> QED
    BY <1>2, <2>3, <2>7 DEF a
<1> QED
  BY <1>1, <1>2

\* What a read of an answer has to do.
Reads(s, w, L) == Stage(s, w, L) \/ Ended(s, w, L) \/ InHead(s, w, L)
Gets(g, rest, L) ==
  \E M \in Seq(OutTok) : g.out \in Seq(OutTok) /\ L = g.out \o M /\ Reads(g.s, rest, M)

LEMMA GoesGets ==
  ASSUME NEW g, NEW rest, NEW L, Goes(g, rest, L)
  PROVE  Gets(g, rest, L)
BY DEF Goes, Gets, Reads

\* A harmless read of a body, or of a header and some body, is good.
LEMMA HarmlessGood ==
  ASSUME NEW r \in Seq(Token), Len(r) > 0, NEW rest, Harmless(r, rest)
  PROVE  Good(r)
BY DEF Harmless, Good, Last

LEMMA LenNat == \A ns \in Seq(Nat \ {0}) : Len(ns) \in 0 .. Len(ns)
OBVIOUS

\* The header and what follows it, read up to p.
LEMMA HeadStep ==
  ASSUME NEW s, NEW w, NEW L \in Seq(OutTok), InHead(s, w, L), NEW n \in 1 .. Len(w),
         Harmless(SubSeq(w, 1, n), SubSeq(w, n + 1, Len(w)))
  PROVE  Gets(rest_recv(s, SubSeq(w, 1, n)), SubSeq(w, n + 1, Len(w)), L)
<1>1. PICK x \in Token, y \in Token, body \in Seq(BodyTok), o \in {0, 1, 3} :
        /\ Kind(x, y, body, L)
        /\ w = SubSeq(Full(x, y, body), o + 1, Len(Full(x, y, body)))
        /\ s = IF o = 3 THEN Seen(x) ELSE Fresh
  BY DEF InHead
<1> DEFINE full == Full(x, y, body)
           r == SubSeq(w, 1, n)
           rest == SubSeq(w, n + 1, Len(w))
           p == o + n
           g == rest_recv(s, r)
<1>2. /\ full \in Seq(Token) /\ Len(full) = 5 + Len(body) /\ Len(body) \in Nat
      /\ full[2] = x /\ full[3] = y /\ full[4].t = "eoh" /\ full[5].t = "eoh+"
      /\ \A i \in 1 .. Len(body) : full[5 + i] = body[i]
      /\ \A i \in 1 .. Len(full) : /\ full[i].t = "eoh" => i = 4
                                   /\ full[i].t \in {"len", "enc"} => i = 2
  BY <1>1, FullTokens
<1>3. x.t \in {"len", "enc"} /\ x.n \in Nat
  BY <1>1, KindFields
<1>25. SeenFields(x)
  BY <1>3, SeenAt
<1>23. /\ Seen(x).hdr = FALSE /\ (Seen(x).len \/ Seen(x).enc) /\ ~Seen(x).hdr
       /\ x.t = "len" => [Seen(x) EXCEPT !.hdr = TRUE] = ByLenAt(x.n)
       /\ x.t = "enc" => [Seen(x) EXCEPT !.hdr = TRUE] = ByEncAt(0)
       /\ x.t = "len" => /\ [Seen(x) EXCEPT !.hdr = FALSE].len
                         /\ [Seen(x) EXCEPT !.hdr = FALSE].togo = x.n
  BY <1>25, Zenon DEF SeenFields
<1>24. /\ x.t = "len" => body \in Seq(DataTok) /\ x.n = Len(body) /\ L = Append(body, NL)
       /\ x.t = "enc" => \E ns \in Seq(Nat \ {0}) : body = Chunks(ns)[Len(ns)] /\ L = Bodies(ns)[Len(ns)]
  BY <1>1, KindFields
<1>4. w = SubSeq(full, o + 1, Len(full))
  BY <1>1
<1>5. Kind(x, y, body, L)
  BY <1>1
<1>6. /\ w \in Seq(Token) /\ Len(w) = Len(full) - o
      /\ \A i \in 1 .. Len(full) - o : w[i] = full[o + i]
  <2>1. o \in 0 .. Len(full)
    BY <1>2
  <2> HIDE DEF full
  <2> QED
    BY <1>2, <1>4, <2>1, RestType, SMTT(60)
<1> HIDE DEF full
<1>7. n \in Nat /\ n <= Len(w) /\ p \in Nat /\ p <= Len(full) /\ n \in 0 .. Len(w) /\ Len(w) \in Nat
      /\ p > o /\ p \in 1 .. Len(full)
  BY <1>2, <1>6
<1>8. r \in Seq(Token) /\ Len(r) = n /\ \A i \in 1 .. n : r[i] = w[i]
  BY <1>6, <1>7, FrontType
<1>9. rest \in Seq(Token) /\ Len(rest) = Len(w) - n /\ \A i \in 1 .. Len(w) - n : rest[i] = w[n + i]
  BY <1>6, <1>7, RestType
<1>10. Harmless(r, rest)
  OBVIOUS
<1> HIDE DEF r, rest
<1>11. \A i \in 1 .. n : r[i] = full[o + i]
  <2> TAKE i \in 1 .. n
  <2>1. i \in 1 .. Len(full) - o
    BY <1>2, <1>6, <1>7
  <2> QED
    BY <2>1, <1>6, <1>8
<1>12. \A i \in 1 .. Len(full) - p : rest[i] = full[p + i]
  <2> TAKE i \in 1 .. Len(full) - p
  <2>1. i \in 1 .. Len(w) - n /\ n + i \in 1 .. Len(full) - o /\ o + (n + i) = p + i
    BY <1>2, <1>6, <1>7
  <2> QED
    BY <2>1, <1>6, <1>9
<1>13. Len(rest) = Len(full) - p
  BY <1>2, <1>6, <1>7, <1>9, SMTT(60)
<1>14. rest = SubSeq(full, p + 1, Len(full))
  <2> DEFINE z == SubSeq(full, p + 1, Len(full))
  <2>1. p \in 0 .. Len(full) /\ Len(full) - p \in Nat
    BY <1>2, <1>7
  <2>2. z \in Seq(Token) /\ Len(z) = Len(full) - p /\ \A i \in 1 .. Len(full) - p : z[i] = full[p + i]
    BY <1>2, <2>1, RestType
  <2> HIDE DEF z
  <2>3. \A i \in 1 .. Len(full) - p : rest[i] = z[i]
    BY <1>12, <2>2
  <2>4. rest = z
    BY <1>9, <1>13, <2>1, <2>2, <2>3, SeqEq
  <2> QED
    BY <2>4 DEF z
<1>15. Last(r).t = full[p].t
  <2>1. n \in 1 .. n
    BY <1>7
  <2> QED
    BY <1>8, <1>11, <2>1 DEF Last
<1>16. p \notin {2, 4} /\ (p = 5 => Len(body) = 0)
  <2>1. full[p].t \notin {"len", "enc", "eoh", "size"} /\ (full[p].t = "eoh+" => rest = <<>>)
    BY <1>10, <1>15 DEF Harmless
  <2>2. p # 2 /\ p # 4
    BY <1>2, <1>3, <2>1
  <2>3. p = 5 => Len(rest) = 0
    BY <1>2, <2>1
  <2> QED
    BY <1>2, <1>13, <2>2, <2>3
<1>17. Snarf(s, r) = IF p = 1 THEN Fresh ELSE Seen(x)
  <2>1. CASE o = 3
    <3>1. s = Seen(x) /\ (s.len \/ s.enc) /\ p # 1
      BY <1>1, <1>23, <1>7, <2>1
    <3> QED
      BY <3>1 DEF Snarf
  <2>2. CASE o \in {0, 1} /\ p = 1
    <3>1. s = Fresh /\ n = 1
      BY <1>1, <1>7, <2>2
    <3>2. \A t : xmemmem(r, t) = 0
      <4> TAKE t
      <4>1. xmemmem(r, t) # 0 => xmemmem(r, t) \in 1 .. Len(r) - 1
        BY <1>8, Found
      <4>2. 1 .. Len(r) - 1 = {}
        BY <1>8, <3>1
      <4> QED
        BY <4>1, <4>2
    <3> QED
      BY <2>2, <3>1, <3>2 DEF Snarf
  <2>3. CASE o \in {0, 1} /\ p # 1
    <3>1. s = Fresh
      BY <1>1, <2>3
    <3>2. o + Len(r) \in 3 .. Len(full)
      BY <1>2, <1>7, <1>8, <1>16, <2>3
    <3>3. Snarf(Fresh, r) = Seen(x)
      BY <1>5, <1>8, <1>11, <2>3, <3>2, SnarfField DEF full
    <3> QED
      BY <2>3, <3>1, <3>3
  <2> QED
    BY <2>1, <2>2, <2>3
<1> DEFINE t == Snarf(s, r)
           k == xmemmem(r, "eoh")
           q == SubSeq(r, k + 2, Len(r))
<1>18. g = IF t.hdr THEN Body(t, r) ELSE IF k = 0 THEN [s |-> t, out |-> <<>>]
                    ELSE Body([t EXCEPT !.hdr = q # <<>>], q)
  BY DEF rest_recv
<1>19. ~t.hdr
  <2>1. ~Seen(x).hdr /\ ~Fresh.hdr
    BY <1>23, FreshFit
  <2> QED
    BY <1>17, <2>1
<1>20. k # 0 => k \in 1 .. n - 1 /\ o + k = 4
  <2>1. SUFFICES ASSUME k # 0 PROVE k \in 1 .. n - 1 /\ o + k = 4
    OBVIOUS
  <2>2. k \in 1 .. n - 1 /\ r[k].t = "eoh"
    BY <1>8, <2>1, Found
  <2> HIDE DEF k
  <2>3. k \in 1 .. n /\ o + k \in 1 .. Len(full)
    BY <1>2, <1>6, <1>7, <2>2
  <2> QED
    BY <1>2, <1>11, <2>2, <2>3
<1>21. CASE p <= 3
  <2>1. k = 0
    <3> HIDE DEF k
    <3> QED
      BY <1>7, <1>20, <1>21
  <2>2. g = [s |-> t, out |-> <<>>]
    BY <1>18, <1>19, <2>1
  <2>3. InHead(t, rest, L)
    <3>1. p \in {0, 1, 3} /\ t = IF p = 3 THEN Seen(x) ELSE Fresh
      BY <1>7, <1>16, <1>17, <1>21
    <3> HIDE DEF p, t
    <3> QED
      BY <1>5, <1>14, <3>1 DEF InHead, full
  <2>4. L = <<>> \o L /\ <<>> \in Seq(OutTok)
    BY ConcatEmptySeq
  <2> HIDE DEF t, g
  <2>5. g.out = <<>> /\ Reads(g.s, rest, L)
    BY <2>2, <2>3 DEF Reads
  <2>6. Gets(g, rest, L)
    BY <2>4, <2>5, Zenon DEF Gets
  <2> QED
    BY <2>6 DEF g, r, rest
<1>22. CASE p >= 5
  <2>1. k = 4 - o
    <3>1. 4 - o \in 1 .. n - 1 /\ 4 - o \in 1 .. n /\ (4 - o) + 1 \in 1 .. n
      BY <1>7, <1>22
    <3>2. o + (4 - o) = 4 /\ o + ((4 - o) + 1) = 5
      OBVIOUS
    <3>3. r[4 - o].t = "eoh" /\ r[(4 - o) + 1].t = Second["eoh"]
      BY <1>2, <1>11, <3>1, <3>2 DEF Second
    <3>4. k # 0
      <4>1. \A i \in 1 .. Len(r) - 1 : r[i].t = "eoh" /\ r[i + 1].t = Second["eoh"] => k # 0
        BY <1>8, Found
      <4> HIDE DEF k
      <4> QED
        BY <1>8, <3>1, <3>3, <4>1
    <3> HIDE DEF k
    <3> QED
      BY <1>20, <3>4
  <2> DEFINE m == p - 5
  <2>2. m \in Nat /\ m <= Len(body) /\ m \in 0 .. Len(body)
    BY <1>2, <1>7, <1>22
  <2>3. q = SubSeq(body, 1, m)
    <3> DEFINE z == SubSeq(body, 1, m)
    <3>1. z \in Seq(BodyTok) /\ Len(z) = m /\ \A i \in 1 .. m : z[i] = body[i]
      BY <2>2, FrontType
    <3>2. k + 2 \in Nat /\ k + 2 <= Len(r) + 1 /\ k + 2 > 0 /\ Len(r) - (k + 2) + 1 = m
      <4> HIDE DEF k
      <4> QED
        BY <1>7, <1>8, <1>22, <2>1
    <3>3. q \in Seq(Token) /\ Len(q) = m /\ \A i \in 1 .. m : q[i] = r[(k + 2) + i - 1]
      <4> DEFINE b == k + 2
      <4>1. b \in Nat /\ b <= Len(r) + 1 /\ b > 0 /\ Len(r) - b + 1 = m
        BY <3>2
      <4> HIDE DEF b, m, k
      <4>2. /\ SubSeq(r, b, Len(r)) \in Seq(Token) /\ Len(SubSeq(r, b, Len(r))) = Len(r) - b + 1
            /\ \A i \in 1 .. Len(r) - b + 1 : SubSeq(r, b, Len(r))[i] = r[b + i - 1]
        BY <1>8, <4>1, BackType
      <4>3. q = SubSeq(r, b, Len(r))
        BY DEF b
      <4>4. \A i \in 1 .. m : SubSeq(r, b, Len(r))[i] = r[b + i - 1]
        BY <4>1, <4>2
      <4>5. Len(SubSeq(r, b, Len(r))) = m
        BY <4>1, <4>2
      <4> HIDE DEF q
      <4> QED
        BY <4>2, <4>3, <4>4, <4>5 DEF b
    <3>4. z \in Seq(Token)
      BY <3>1, BodyTokens, SeqMonotonic
    <3> HIDE DEF z, q, k
    <3>5. ASSUME NEW i \in 1 .. m PROVE q[i] = z[i]
      <4>1. (k + 2) + i - 1 \in 1 .. n /\ o + ((k + 2) + i - 1) = 5 + i /\ i \in 1 .. Len(body)
        BY <1>7, <1>22, <2>1, <2>2
      <4> DEFINE j == (k + 2) + i - 1
      <4>2. r[j] = full[o + j]
        <5> HIDE DEF j
        <5> QED
          BY <1>11, <4>1 DEF j
      <4>3. full[o + j] = full[5 + i] /\ full[5 + i] = body[i]
        BY <1>2, <4>1
      <4>4. q[i] = r[j]
        BY <3>3
      <4>5. z[i] = body[i]
        BY <3>1
      <4> QED
        BY <4>2, <4>3, <4>4, <4>5
    <3>6. q = z
      BY <2>2, <3>1, <3>3, <3>4, <3>5, SeqEq
    <3> QED
      BY <3>6 DEF z
  <2>4. rest = SubSeq(body, m + 1, Len(body))
    <3> DEFINE z == SubSeq(body, m + 1, Len(body))
    <3>1. z \in Seq(BodyTok) /\ Len(z) = Len(body) - m /\ \A i \in 1 .. Len(body) - m : z[i] = body[m + i]
      BY <2>2, RestType
    <3>2. Len(full) - p = Len(body) - m /\ Len(body) - m \in Nat
      BY <1>2, <2>2
    <3>3. z \in Seq(Token)
      BY <3>1, BodyTokens, SeqMonotonic
    <3> HIDE DEF z
    <3>4. ASSUME NEW i \in 1 .. Len(body) - m PROVE rest[i] = z[i]
      <4>1. i \in 1 .. Len(full) - p /\ m + i \in 1 .. Len(body) /\ p + i = 5 + (m + i)
        BY <1>2, <1>7, <2>2, <3>2
      <4> QED
        BY <1>2, <1>12, <3>1, <4>1
    <3>5. rest = z
      BY <1>9, <1>13, <3>1, <3>2, <3>3, <3>4, SeqEq
    <3> QED
      BY <3>5 DEF z
  <2>5. g = Body([Seen(x) EXCEPT !.hdr = q # <<>>], q)
    <3>1. t = Seen(x) /\ k # 0
      <4>1. t = Seen(x)
        BY <1>17, <1>22
      <4>2. k # 0
        <5> HIDE DEF k
        <5> QED
          BY <2>1
      <4> QED
        BY <4>1, <4>2
    <3> QED
      BY <1>18, <1>19, <3>1
  <2>6. q \in Seq(BodyTok) /\ Len(q) = m
    BY <2>2, <2>3, FrontType
  <2> HIDE DEF t, k, q, g
  <2>7. CASE m = 0
    <3>1. Len(body) = 0 /\ q = <<>> /\ body = <<>>
      BY <1>16, <2>2, <2>6, <2>7
    <3>2. x.t # "enc"
      <4>1. SUFFICES ASSUME x.t = "enc" PROVE FALSE
        OBVIOUS
      <4>2. PICK ns \in Seq(Nat \ {0}) : body = Chunks(ns)[Len(ns)]
        BY <1>24, <4>1
      <4>3. AtChunk(ByEncAt(0), body, Bodies(ns)[Len(ns)])
        <5>1. Len(ns) \in 0 .. Len(ns)
          BY LenNat
        <5> QED
          BY <4>2, <5>1 DEF AtChunk
      <4> QED
        BY <3>1, <4>3, StageWire DEF Stage
    <3>3. x.t = "len" /\ x.n = 0 /\ L = Append(<<>>, NL)
      BY <1>3, <1>24, <3>1, <3>2
    <3> DEFINE u == [Seen(x) EXCEPT !.hdr = q # <<>>]
    <3>4. (q # <<>>) = FALSE
      BY <3>1
    <3>5. u.len /\ u.togo = 0
      <4>1. u = [Seen(x) EXCEPT !.hdr = FALSE]
        BY <3>4
      <4> QED
        BY <1>23, <3>3, <4>1
    <3> HIDE DEF u
    <3>6. Body(u, q) = [s |-> Fresh, out |-> L]
      <4>1. SubSeq(q, 1, 0) = <<>>
        BY SubSeqEmpty
      <4>2. ~(Len(q) < u.togo)
        BY <2>6, <2>7, <3>5
      <4>3. ByLen(u, q) = [s |-> Fresh, out |-> L]
        BY <3>3, <3>5, <4>1, <4>2 DEF ByLen
      <4> QED
        BY <3>5, <4>3 DEF Body
    <3>7. rest = <<>>
      <4>1. Len(rest) = 0
        BY <1>2, <1>13, <2>7, <3>1
      <4> QED
        BY <1>9, <4>1
    <3>8. g.out = L /\ g.s = Fresh
      BY <2>5, <3>6 DEF u
    <3>9. Reads(g.s, rest, <<>>)
      BY <3>7, <3>8 DEF Reads, Ended
    <3>10. L = L \o <<>> /\ <<>> \in Seq(OutTok)
      BY ConcatEmptySeq
    <3>11. Gets(g, rest, L)
      BY <3>8, <3>9, <3>10, Zenon DEF Gets
    <3> QED
      BY <3>11 DEF g, r, rest
  <2>8. CASE m > 0
    <3>1. (q # <<>>) = TRUE /\ m \in 1 .. Len(body) /\ body # <<>>
      BY <2>2, <2>6, <2>8
    <3> DEFINE u == [Seen(x) EXCEPT !.hdr = q # <<>>]
    <3>2. u = [Seen(x) EXCEPT !.hdr = TRUE]
      BY <3>1
    <3> HIDE DEF u
    <3>3. Stage(u, body, L)
      <4>1. CASE x.t = "len"
        <5>1. body \in Seq(DataTok) /\ x.n = Len(body) /\ L = Append(body, NL)
          BY <1>24, <4>1
        <5>2. u = ByLenAt(Len(body))
          BY <1>23, <3>2, <4>1, <5>1
        <5> QED
          BY <3>1, <5>1, <5>2 DEF Stage, AtLen
      <4>2. CASE x.t = "enc"
        <5>1. PICK ns \in Seq(Nat \ {0}) : body = Chunks(ns)[Len(ns)] /\ L = Bodies(ns)[Len(ns)]
          BY <1>24, <4>2
        <5>3. u = ByEncAt(0)
          BY <1>23, <3>2, <4>2
        <5>2. Len(ns) \in 0 .. Len(ns)
          BY LenNat
        <5> QED
          BY <5>1, <5>2, <5>3 DEF Stage, AtChunk
      <4> QED
        BY <1>3, <4>1, <4>2
    <3>4. Good(q)
      <4>1. Good(r)
        BY <1>7, <1>8, <1>10, HarmlessGood
      <4>2. \A i \in 1 .. m : q[i] = r[5 - o + i] /\ 5 - o + i \in 1 .. n
        <5> TAKE i \in 1 .. m
        <5>1. 5 - o + i \in 1 .. n /\ o + (5 - o + i) = 5 + i /\ i \in 1 .. Len(body)
          BY <1>7, <1>22, <2>2
        <5>2. q[i] = body[i]
          BY <2>2, <2>3, FrontType
        <5> QED
          BY <1>2, <1>11, <5>1, <5>2
      <4>3. 5 - o + m = n
        BY <1>7
      <4>4. q[Len(q)].t # "size"
        <5>1. q[m] = r[n]
          BY <2>8, <2>2, <4>2, <4>3
        <5> QED
          BY <1>8, <2>6, <4>1, <5>1 DEF Good
      <4>5. \A i \in 2 .. Len(q) - 1 : q[i] # CRLF
        <5> TAKE i \in 2 .. Len(q) - 1
        <5>1. i \in 1 .. m /\ 5 - o + i \in 2 .. n - 1
          BY <1>7, <2>2, <2>6, <4>3
        <5> QED
          BY <1>8, <4>1, <4>2, <5>1 DEF Good
      <4>6. q # <<CRLF>>
        <5>1. SUFFICES ASSUME q = <<CRLF>> PROVE FALSE
          OBVIOUS
        <5>2. m = 1 /\ q[1] = CRLF
          BY <2>6, <5>1
        <5>3. body[1] = CRLF
          BY <2>2, <2>3, <5>2, FrontType
        <5> QED
          BY <1>5, <3>1, <5>3, BodyStart
      <4> QED
        BY <3>1, <4>4, <4>5, <4>6 DEF Good
    <3>5. Goes(Body(u, q), rest, L)
      BY <2>3, <2>4, <3>1, <3>3, <3>4, BodyStep
    <3>6. Gets(g, rest, L)
      BY <2>5, <3>5, GoesGets DEF u
    <3> QED
      BY <3>6 DEF g, r, rest
  <2> QED
    BY <2>2, <2>7, <2>8
<1> QED
  BY <1>7, <1>16, <1>21, <1>22

-----------------------------------------------------------------------------
(* Answers are whole *)

\* A sequence is what is behind its first 0 elements.
LEMMA AllOfIt ==
  ASSUME NEW q \in Seq(Token)
  PROVE  SubSeq(q, 0 + 1, Len(q)) = q
<1> DEFINE z == SubSeq(q, 0 + 1, Len(q))
<1>1. 0 \in 0 .. Len(q) /\ Len(q) - 0 = Len(q) /\ Len(q) \in Nat
  OBVIOUS
<1>2. z \in Seq(Token) /\ Len(z) = Len(q) /\ \A i \in 1 .. Len(q) : z[i] = q[0 + i]
  BY <1>1, RestType
<1> HIDE DEF z
<1>3. \A i \in 1 .. Len(q) : z[i] = q[i]
  BY <1>2
<1>4. z = q
  BY <1>1, <1>2, <1>3, SeqEq
<1> QED
  BY <1>4 DEF z

\* What a request finds in front of it.
LEMMA AnswerStart ==
  ASSUME NEW a \in Answers
  PROVE  a.line \in Seq(OutTok) /\ InHead(Fresh, a.bytes, a.line)
<1>1. ASSUME NEW x \in Token, NEW y \in Token, NEW body \in Seq(BodyTok),
             Kind(x, y, body, a.line), a.bytes = Full(x, y, body)
      PROVE  InHead(Fresh, a.bytes, a.line)
  <2>1. a.bytes \in Seq(Token)
    BY AnswerTidy
  <2>2. a.bytes = SubSeq(Full(x, y, body), 0 + 1, Len(Full(x, y, body)))
    BY <1>1, <2>1, AllOfIt
  <2>3. 0 \in {0, 1, 3} /\ Fresh = IF 0 = 3 THEN Seen(x) ELSE Fresh
    OBVIOUS
  <2> QED
    BY <1>1, <2>2, <2>3, Zenon DEF InHead
<1>2. CASE \E n \in Nat : /\ a.bytes = Header(Len2(n)) \o Data(1, n)
                          /\ a.line = Append(Data(1, n), NL)
  <2>1. PICK n \in Nat : /\ a.bytes = Header(Len2(n)) \o Data(1, n)
                         /\ a.line = Append(Data(1, n), NL)
    BY <1>2
  <2> DEFINE x == Tok("len", n)
             y == Tok("len+", n)
             body == Data(1, n)
  <2>2. x \in Token /\ y \in Token /\ Len2(n) = <<x, y>>
    BY DEF Token, Ts, BodyTs, Tok, Len2
  <2>3. body \in Seq(DataTok) /\ Len(body) = n /\ body \in Seq(BodyTok)
    BY DataType DEF DataTok
  <2>4. a.bytes = Full(x, y, body)
    BY <2>1, <2>2 DEF Full
  <2>5. Kind(x, y, body, a.line)
    BY <2>1, <2>3, Zenon DEF Kind
  <2>6. a.line \in Seq(OutTok)
    <3> HIDE DEF body
    <3>1. body \in Seq(OutTok)
      BY <2>3, Kinds, SeqMonotonic
    <3>2. a.line = Append(body, NL)
      BY <2>1 DEF body
    <3> QED
      BY <3>1, <3>2, Kinds
  <2> HIDE DEF x, y, body
  <2> QED
    BY <1>1, <2>2, <2>3, <2>4, <2>5, <2>6
<1>3. CASE \E ns \in Seq(Nat \ {0}) : /\ a.bytes = Header(Enc2) \o Chunks(ns)[Len(ns)]
                                      /\ a.line = Bodies(ns)[Len(ns)]
  <2>1. PICK ns \in Seq(Nat \ {0}) : /\ a.bytes = Header(Enc2) \o Chunks(ns)[Len(ns)]
                                     /\ a.line = Bodies(ns)[Len(ns)]
    BY <1>3
  <2> DEFINE x == Tok("enc", 0)
             y == Tok("enc+", 0)
             body == Chunks(ns)[Len(ns)]
  <2>2. x \in Token /\ y \in Token /\ Enc2 = <<x, y>>
    BY DEF Token, Ts, BodyTs, Tok, Enc2
  <2>3. Len(ns) \in 0 .. Len(ns)
    BY LenNat
  <2>4. body \in Seq(BodyTok)
    BY <2>3, ChunksType
  <2>5. a.bytes = Full(x, y, body)
    BY <2>1, <2>2 DEF Full
  <2>6. Kind(x, y, body, a.line)
    BY <2>1, Zenon DEF Kind
  <2>7. a.line \in Seq(OutTok)
    BY <2>1, <2>3, BodiesType
  <2> HIDE DEF x, y, body
  <2> QED
    BY <1>1, <2>2, <2>4, <2>5, <2>6, <2>7
<1> QED
  BY <1>2, <1>3, AnswerKinds

\* In all of its stages an answer leads to the next, read without harm.
LEMMA ReadsStep ==
  ASSUME NEW s, NEW w \in Seq(Token), NEW L \in Seq(OutTok), Reads(s, w, L), NEW n \in 1 .. Len(w),
         Harmless(SubSeq(w, 1, n), SubSeq(w, n + 1, Len(w)))
  PROVE  Gets(rest_recv(s, SubSeq(w, 1, n)), SubSeq(w, n + 1, Len(w)), L)
<1> DEFINE r == SubSeq(w, 1, n)
           rest == SubSeq(w, n + 1, Len(w))
<1>1. r \in Seq(Token) /\ Len(r) = n /\ \A i \in 1 .. n : r[i] = w[i]
  <2>1. n \in Nat /\ n <= Len(w)
    OBVIOUS
  <2> QED
    BY <2>1, FrontType
<1>2. Harmless(r, rest)
  OBVIOUS
<1>3. CASE Stage(s, w, L)
  <2>1. s.hdr
    BY <1>3, StageWire
  <2>2. rest_recv(s, r) = Body(s, r)
    BY <2>1 DEF rest_recv, Snarf
  <2> HIDE DEF r, rest
  <2>3. Good(r)
    BY <1>1, <1>2, HarmlessGood
  <2>4. Goes(Body(s, r), rest, L)
    BY <1>3, <2>3, BodyStep DEF r, rest
  <2>5. Gets(rest_recv(s, r), rest, L)
    BY <2>2, <2>4, GoesGets
  <2> QED
    BY <2>5 DEF r, rest
<1>4. ~Ended(s, w, L)
  <2>1. SUFFICES ASSUME w = <<CRLF>> PROVE FALSE
    BY DEF Ended
  <2>2. n = 1 /\ r[1] = CRLF /\ Len(r) = 1
    BY <1>1, <2>1
  <2> HIDE DEF r
  <2>3. r = <<CRLF>>
    BY <1>1, <2>2
  <2> QED
    BY <1>2, <2>3 DEF Harmless
<1>5. CASE InHead(s, w, L)
  BY <1>5, HeadStep
<1> QED
  BY <1>3, <1>4, <1>5 DEF Reads

\* When nothing is left to read, nothing is left to put out.
LEMMA ReadsEnd ==
  ASSUME NEW s, NEW L, Reads(s, <<>>, L)
  PROVE  L = <<>>
<1>1. ~InHead(s, <<>>, L)
  <2>1. SUFFICES ASSUME InHead(s, <<>>, L) PROVE FALSE
    OBVIOUS
  <2>2. PICK x \in Token, y \in Token, body \in Seq(BodyTok), o \in {0, 1, 3} :
          /\ Kind(x, y, body, L)
          /\ <<>> = SubSeq(Full(x, y, body), o + 1, Len(Full(x, y, body)))
    BY <2>1 DEF InHead
  <2> DEFINE full == Full(x, y, body)
  <2>3. full \in Seq(Token) /\ Len(full) = 5 + Len(body) /\ Len(body) \in Nat
    BY <2>2, FullTokens
  <2> HIDE DEF full
  <2>4. o \in 0 .. Len(full) /\ Len(full) - o > 0
    BY <2>3
  <2>5. Len(SubSeq(full, o + 1, Len(full))) = Len(full) - o
    BY <2>3, <2>4, RestType
  <2>6. Len(SubSeq(full, o + 1, Len(full))) = 0
    <3>1. SubSeq(full, o + 1, Len(full)) = <<>>
      BY <2>2, Zenon DEF full
    <3>2. Len(<<>>) = 0
      OBVIOUS
    <3> QED
      BY <3>1, <3>2, Zenon
  <2> QED
    BY <2>4, <2>5, <2>6
<1>2. ~Stage(s, <<>>, L)
  BY StageWire
<1> QED
  BY <1>1, <1>2 DEF Reads, Ended

\* What has been put out and what the rest of the answer will add are its line.
Reading(i) ==
  whole[i] => /\ alone(i)
              /\ \E M \in Seq(OutTok) : want[i].line = out[i] \o M /\ Reads(rs[i], wire[i], M)

WInv == RInv /\ \A i \in Slots : Reading(i)

\* A prefix and the rest.
LEMMA PrefixOf ==
  ASSUME NEW p \in Seq(OutTok), NEW q \in Seq(OutTok)
  PROVE  IsPrefix(p, p \o q)
<1>1. p \o q \in Seq(OutTok) /\ Len(p \o q) = Len(p) + Len(q) /\ Len(p) \in Nat /\ Len(q) \in Nat
      /\ \A i \in 1 .. Len(p) : (p \o q)[i] = p[i]
  BY Concat
<1> DEFINE w == p \o q
<1> HIDE DEF w
<1>2. w \in Seq(OutTok) /\ Len(p) <= Len(w) /\ \A i \in 1 .. Len(p) : w[i] = p[i]
  BY <1>1 DEF w
<1> DEFINE z == SubSeq(w, 1, Len(p))
<1>3. z \in Seq(OutTok) /\ Len(z) = Len(p) /\ \A i \in 1 .. Len(p) : z[i] = w[i]
  BY <1>1, <1>2, FrontType
<1> HIDE DEF z
<1>4. z = p
  BY <1>1, <1>2, <1>3, SeqEq
<1> QED
  BY <1>2, <1>4 DEF IsPrefix, w, z

\* As long as that is so, the answer comes out whole.
LEMMA ReadingWhole ==
  ASSUME WInv
  PROVE  WholeAnswers
<1> SUFFICES ASSUME NEW i \in Slots, whole[i]
             PROVE  IsPrefix(out[i], want[i].line) /\ (wire[i] = <<>> => out[i] = want[i].line)
  BY DEF WholeAnswers
<1>1. PICK M \in Seq(OutTok) : want[i].line = out[i] \o M /\ Reads(rs[i], wire[i], M)
  BY DEF WInv, Reading
<1>2. out[i] \in Seq(OutTok)
  BY DEF WInv, RInv, Typed
<1> DEFINE v == out[i]
<1> HIDE DEF v
<1>3. v \in Seq(OutTok)
  BY <1>2 DEF v
<1>4. IsPrefix(v, v \o M)
  BY <1>3, PrefixOf
<1>5. wire[i] = <<>> => M = <<>>
  BY <1>1, ReadsEnd
<1>6. v \o <<>> = v
  BY <1>3
<1> QED
  BY <1>1, <1>4, <1>5, <1>6 DEF v

LEMMA OthersReading ==
  ASSUME NEW i \in Slots, Reading(i), whole'[i] = whole[i],
         rs'[i] = rs[i], wire'[i] = wire[i], want'[i] = want[i], out'[i] = out[i]
  PROVE  Reading(i)'
BY DEF Reading, alone

LEMMA ResetWInv ==
  ASSUME WInv, NEW i \in Slots, Reset(i)
  PROVE  WInv'
<1>1. RInv'
  BY ResetRInv DEF WInv
<1>2. ASSUME NEW j \in Slots PROVE Reading(j)'
  <2>1. CASE j = i
    BY <2>1 DEF Reading, Reset, WInv, RInv, Typed
  <2>2. CASE j # i
    <3>1. whole'[j] = whole[j] /\ rs'[j] = rs[j] /\ wire'[j] = wire[j]
          /\ want'[j] = want[j] /\ out'[j] = out[j]
      BY <2>2 DEF WInv, RInv, Typed, Reset
    <3> QED
      BY <3>1, OthersReading DEF WInv
  <2> QED
    BY <2>1, <2>2
<1> QED
  BY <1>1, <1>2 DEF WInv

LEMMA SendWInv ==
  ASSUME WInv, NEW i \in Slots, RestSend(i)
  PROVE  WInv'
<1>1. PICK a \in Answers :
        /\ wire' = [wire EXCEPT ![i] = @ \o a.bytes]
        /\ want' = [want EXCEPT ![i] = IF wire[i] = <<>> THEN a ELSE NoAnswer]
  BY DEF RestSend
<1>2. /\ rs' = [rs EXCEPT ![i] = Fresh] /\ out' = [out EXCEPT ![i] = <<>>]
      /\ whole' = [whole EXCEPT ![i] = wire[i] = <<>>]
  BY DEF RestSend
<1>3. RInv'
  BY SendRInv DEF WInv
<1>4. ASSUME NEW j \in Slots PROVE Reading(j)'
  <2>1. CASE j = i
    <3>1. /\ rs'[i] = Fresh /\ out'[i] = <<>> /\ wire'[i] = wire[i] \o a.bytes
          /\ want'[i] = IF wire[i] = <<>> THEN a ELSE NoAnswer
          /\ whole'[i] = (wire[i] = <<>>)
      BY <1>1, <1>2 DEF WInv, RInv, Typed
    <3>2. CASE wire[i] = <<>>
      <4>1. a.bytes \in Seq(Token) /\ a.bytes # <<>>
        BY AnswerTidy
      <4>2. wire'[i] = a.bytes /\ want'[i] = a
        BY <3>1, <3>2, <4>1
      <4>3. a # NoAnswer
        BY <4>1 DEF NoAnswer
      <4>4. a.line \in Seq(OutTok) /\ Reads(Fresh, a.bytes, a.line)
        BY AnswerStart DEF Reads
      <4>5. a.line = <<>> \o a.line
        BY <4>4, ConcatEmptySeq
      <4>6. alone(i)'
        BY <4>2, <4>3 DEF alone
      <4>7. want'[i].line = out'[i] \o a.line /\ Reads(rs'[i], wire'[i], a.line)
        BY <3>1, <4>2, <4>4, <4>5
      <4>8. \E M \in Seq(OutTok) : want'[i].line = out'[i] \o M /\ Reads(rs'[i], wire'[i], M)
        BY <4>4, <4>7, Zenon
      <4> QED
        BY <2>1, <4>6, <4>8 DEF Reading
    <3>3. CASE wire[i] # <<>>
      BY <2>1, <3>1, <3>3 DEF Reading
    <3> QED
      BY <3>2, <3>3
  <2>2. CASE j # i
    <3>1. whole'[j] = whole[j] /\ rs'[j] = rs[j] /\ wire'[j] = wire[j]
          /\ want'[j] = want[j] /\ out'[j] = out[j]
      BY <1>1, <1>2, <2>2 DEF WInv, RInv, Typed
    <3> QED
      BY <3>1, OthersReading DEF WInv
  <2> QED
    BY <2>1, <2>2
<1> QED
  BY <1>3, <1>4 DEF WInv

LEMMA RecvWInv ==
  ASSUME WInv, NEW i \in Slots, RestRecv(i)
  PROVE  WInv'
<1> DEFINE w == wire[i]
           g(n) == rest_recv(rs[i], SubSeq(w, 1, n))
           rest(n) == SubSeq(w, n + 1, Len(w))
<1>1. PICK n \in 1 .. Len(w) :
        /\ wire' = [wire EXCEPT ![i] = rest(n)]
        /\ rs' = [rs EXCEPT ![i] = g(n).s]
        /\ out' = IF alone(i) THEN [out EXCEPT ![i] = @ \o g(n).out] ELSE out
        /\ whole' = [whole EXCEPT ![i] = @ /\ Harmless(SubSeq(w, 1, n), rest(n))]
  BY DEF RestRecv
<1>2. want' = want
  BY DEF RestRecv
<1>3. RInv'
  BY RecvRInv DEF WInv
<1>4. w \in Seq(Token) /\ out[i] \in Seq(OutTok)
  BY DEF WInv, RInv, Typed
<1>5. ASSUME NEW j \in Slots PROVE Reading(j)'
  <2>1. CASE j = i
    <3>1. /\ rs'[i] = g(n).s /\ wire'[i] = rest(n) /\ (alone(i) => out'[i] = out[i] \o g(n).out)
          /\ whole'[i] = (whole[i] /\ Harmless(SubSeq(w, 1, n), rest(n)))
      <4> HIDE DEF w, g, rest
      <4> QED
        BY <1>1 DEF WInv, RInv, Typed
    <3>2. SUFFICES ASSUME whole'[i] PROVE Reading(i)'
      BY <2>1 DEF Reading
    <3>3. whole[i] /\ Harmless(SubSeq(w, 1, n), rest(n))
      BY <3>1, <3>2
    <3>4. alone(i) /\ alone(i)'
      BY <1>2, <3>3 DEF WInv, Reading, alone
    <3>5. PICK M \in Seq(OutTok) : want[i].line = out[i] \o M /\ Reads(rs[i], w, M)
      BY <3>3 DEF WInv, Reading
    <3>6. Gets(g(n), rest(n), M)
      <4>1. Reads(rs[i], w, M) /\ Harmless(SubSeq(w, 1, n), SubSeq(w, n + 1, Len(w)))
        BY <3>3, <3>5
      <4> HIDE DEF w
      <4> QED
        BY <1>4, <4>1, ReadsStep
    <3> HIDE DEF w, g, rest
    <3>7. PICK N \in Seq(OutTok) : g(n).out \in Seq(OutTok) /\ M = g(n).out \o N /\ Reads(g(n).s, rest(n), N)
      BY <3>6, Zenon DEF Gets
    <3>8. (out[i] \o g(n).out) \o N = out[i] \o M
      BY <1>4, <3>7, OutAssoc, ZenonT(60)
    <3>9. want'[i].line = out'[i] \o N /\ Reads(rs'[i], wire'[i], N)
      BY <1>2, <3>1, <3>4, <3>5, <3>7, <3>8
    <3>10. \E X \in Seq(OutTok) : want'[i].line = out'[i] \o X /\ Reads(rs'[i], wire'[i], X)
      BY <3>9, Zenon
    <3> QED
      BY <3>4, <3>10 DEF Reading
  <2>2. CASE j # i
    <3>1. whole'[j] = whole[j] /\ rs'[j] = rs[j] /\ wire'[j] = wire[j]
          /\ want'[j] = want[j] /\ out'[j] = out[j]
      <4> HIDE DEF w, g, rest
      <4> QED
        BY <1>1, <1>2, <2>2 DEF WInv, RInv, Typed
    <3> QED
      BY <3>1, OthersReading DEF WInv
  <2> QED
    BY <2>1, <2>2
<1> QED
  BY <1>3, <1>5 DEF WInv

LEMMA InitWInv == RestInit => WInv
<1> SUFFICES ASSUME RestInit PROVE WInv
  OBVIOUS
<1>1. \A i \in Slots : ~whole[i]
  BY DEF RestInit
<1> QED
  BY <1>1, InitRInv DEF WInv, Reading

LEMMA NextWInv == WInv /\ [Next]_vars => WInv'
<1> SUFFICES ASSUME WInv, [Next]_vars PROVE WInv'
  OBVIOUS
<1>0. ASSUME UNCHANGED rvars PROVE WInv'
  <2>1. UNCHANGED <<rs, wire, want, out, whole>>
    BY <1>0 DEF rvars
  <2>2. RInv'
    BY NextRInv DEF WInv
  <2>3. \A i \in Slots : Reading(i)'
    BY <2>1, OthersReading DEF WInv
  <2> QED
    BY <2>2, <2>3 DEF WInv
<1>1. CASE UNCHANGED vars
  BY <1>0, <1>1 DEF vars
<1>2. CASE Next
  <2>1. PICK i \in Slots : RestSend(i) \/ RestRecv(i) \/ Others(i)
    BY <1>2 DEF Next
  <2>2. Others(i) => UNCHANGED rvars \/ Reset(i)
    BY DEF Others
  <2> QED
    BY <2>1, <2>2, <1>0, SendWInv, RecvWInv, ResetWInv
<1> QED
  BY <1>1, <1>2

LEMMA WInvariance == Spec => []WInv
BY InitWInv, NextWInv, PTL DEF Spec

-----------------------------------------------------------------------------
\* The handles and what rest_recv() keeps for each of them have their types,
\* and a handle never takes an answer to be both chunked and of a length given
\* (LEN_SEEN and ENC_SEEN, ws.c:862..879): whatever is read, and however much of
\* it at a time.
THEOREM TypesStay == Spec => []TypeOK
<1>1. HInv /\ WInv => TypeOK
  BY DEF HInv, WInv, RInv, Typed, RState, TypeOK
<1> QED
  BY <1>1, Invariance, WInvariance, PTL

\* An answer that is not mixed with an earlier one gives no more than one line,
\* without any of its header, wherever the reads end: for bodies of any length
\* and for any number of chunks of any size.
THEOREM OneLineOnly == Spec => []OneLine
<1>1. WInv => OneLine
  BY LinedOne DEF WInv
<1> QED
  BY <1>1, WInvariance, PTL

\* What is left of ws.c:844: an answer whose reads are all Harmless, so that each
\* chunk ends a read, comes out as its body and one newline, for bodies of any
\* length and for any number of chunks of any size.  Of a chunk that is read
\* together with what follows it nothing is claimed (EndsInNewline does not hold).
THEOREM AnswersAreWhole == Spec => []WholeAnswers
<1>1. WInv => WholeAnswers
  BY ReadingWhole
<1> QED
  BY <1>1, WInvariance, PTL
=============================================================================
