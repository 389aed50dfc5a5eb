------------------------------- MODULE WsRecv -------------------------------
(***************************************************************************)
(* ws_recv() of src/src/ws.c: the websocket frame decoder.                 *)
(*                                                                         *)
(* The peer sends frames back to back; recv() hands them over in pieces of *)
(* any size.  ws_recv() decodes as many whole headers as it can, moves the *)
(* payload to the front of the caller's buffer (in place), ends a final    *)
(* frame with a newline and keeps up to 14 undecoded bytes in WS->FRML for *)
(* the next call.                                                          *)
(*                                                                         *)
(* Bytes are abstracted to their positions: BUF holds NRD bytes of the     *)
(* stream, the first undecoded one at PP, the output so far is BUF[0..RP). *)
(* The labels again, unpkd and stash of the C function are values of pc.   *)
(* The contents of the stream are a ghost: the last DUE bytes received are  *)
(* those from the first byte of frame NX on.                               *)
(***************************************************************************)
EXTENDS Integers

CONSTANTS
  BufSizes,     \* values of bsz the callers pass
  Frames        \* frames the peer may send

VARIABLES
  \* struct ws_s
  togo,         \* payload bytes of the current frame still to come
  done,         \* undecoded bytes kept in frml
  state,        \* 1 if the output is to be ended by a newline
  frml,         \* header of the current frame, or the bytes kept
  \* a call's parameters and locals
  pc, bsz, nrd, pp,
  rp,           \* length of the output; between calls, what the last returned
  \* ghosts
  top,          \* the bytes of buf, from its first, this call has written to
  nx,           \* the next frame of the stream
  due,          \* bytes received of nx and its successors; if negative,
                \* bytes of the current frame not received yet
  got,          \* payload bytes of the current frame consumed so far
  line          \* what the output's last line holds of a message: nothing
                \* (fresh), a part (open), all but the newline (ended)

wsVars == <<togo, done, state, frml>>
ghosts == <<nx, due, got, line>>
vars == <<togo, done, state, frml, pc, bsz, nrd, pp, rp, top, nx, due, got, line>>

-----------------------------------------------------------------------------
\* sizeof(wsfr_t), the longest header there is
FRML == 14

\* Opcodes ws_recv() tells apart; all others make it abort().
Data == {0, 1, 2}
CLOSE == 8
PING == 9
PONG == 10

\* A frame: lenf is the width of its length field (plen < 126, 126, 127).
Frame == [code : 0..15, finp : BOOLEAN, lenf : {7, 16, 64},
          mask : BOOLEAN, plen : Nat]

\* frml after the undecoded bytes have been copied over it
Stashed == [code |-> 0, finp |-> FALSE, lenf |-> 0, mask |-> FALSE, plen |-> 0]

ASSUME BufSizesAssumption == BufSizes \subseteq {n \in Nat : n > FRML}
ASSUME FramesAssumption == Frames \subseteq Frame

max_z(z1, z2) == IF z1 < z2 THEN z2 ELSE z1

\* A call's locals end with it, but for what it returns.
Return == nrd' = 0 /\ pp' = 0 /\ rp' = rp + state /\ UNCHANGED bsz

-----------------------------------------------------------------------------
(* Mutants: slips that ws_recv() could have.  No specification uses them.  *)

\* offsetof(wsfr_t, plen16) forgotten
HdrLenShort(f) == (IF f.lenf = 16 THEN 2 ELSE IF f.lenf = 64 THEN 8 ELSE 0)
                    + (IF f.mask THEN 4 ELSE 0)

\* the payload is taken to be there in whole
min_zWhole(z1, z2) == z1

\* nrd += ws->done forgotten
RecvAlone ==
  /\ pc = "idle"
  /\ \E b \in BufSizes : \E n \in 1..(b - done) :
       /\ bsz' = b /\ nrd' = n /\ top' = n + done /\ due' = due + n
       /\ pc' = IF n < FRML /\ togo = 0 THEN "stash"
                ELSE IF togo # 0 THEN "unpkd" ELSE "again"
  /\ pp' = 0 /\ rp' = 0
  /\ UNCHANGED <<wsVars, nx, got, line>>

\* the check for a short read comes before nrd += ws->done
RecvEarlyCheck ==
  /\ pc = "idle"
  /\ \E b \in BufSizes : \E n \in 1..(b - done) :
       /\ bsz' = b /\ nrd' = n + done /\ top' = nrd' /\ due' = due + n
       /\ pc' = IF n < FRML /\ togo = 0 THEN "stash"
                ELSE IF togo # 0 THEN "unpkd" ELSE "again"
  /\ pp' = 0 /\ rp' = 0
  /\ UNCHANGED <<wsVars, nx, got, line>>

\* the loop asks for one byte more than it needs
AdvanceLate(pz) ==
  /\ togo' = togo - pz /\ pp' = pp + pz /\ got' = got + pz
  /\ pc' = IF pp + pz + FRML + 1 < nrd THEN "again" ELSE "stash"
  /\ UNCHANGED <<done, frml, bsz, nrd, nx, due>>

\* !ws->togo forgotten: a newline after every read of a final frame
FinalEarly(pz) == frml.finp

\* frml is cleared when a call returns
StashClears ==
  /\ pc = "stash"
  /\ pc' = IF pp > nrd THEN "buggery" ELSE "idle"
  /\ done' = nrd - pp /\ frml' = Stashed
  /\ top' = max_z(top, rp + 1)
  /\ line' = IF state = 1 THEN "fresh" ELSE line
  /\ Return
  /\ UNCHANGED <<togo, state, nx, due, got>>

\* the newline is written after rp += ws->state
StashSwapped ==
  /\ pc = "stash"
  /\ pc' = IF pp > nrd THEN "buggery" ELSE "idle"
  /\ done' = nrd - pp
  /\ frml' = IF nrd - pp > 0 THEN Stashed ELSE frml
  /\ top' = max_z(top, rp + state + 1)
  /\ line' = IF state = 1 THEN "fresh" ELSE line
  /\ Return
  /\ UNCHANGED <<togo, state, nx, due, got>>

\* the newline is left to the next call
StashNoNewline ==
  /\ pc = "stash"
  /\ pc' = IF pp > nrd THEN "buggery" ELSE "idle"
  /\ done' = nrd - pp
  /\ frml' = IF nrd - pp > 0 THEN Stashed ELSE frml
  /\ Return
  /\ UNCHANGED <<togo, state, top, line, nx, due, got>>

-----------------------------------------------------------------------------
\* Bytes up to the payload: offsetof(plen16), + sizeof(plen16) or
\* offsetof(mkey), and the masking key.
HdrLen(f) == (IF f.lenf = 16 THEN 4 ELSE IF f.lenf = 64 THEN 10 ELSE 2)
               + (IF f.mask THEN 4 ELSE 0)

min_z(z1, z2) == IF z1 < z2 THEN z1 ELSE z2

\* The ghost's reaction to a newline (buf[rp] = '\n'; rp += ws->state).
Newline(ln) == IF state = 1 THEN "fresh" ELSE ln

-----------------------------------------------------------------------------
Init ==
  /\ togo = 0 /\ done = 0 /\ state = 0 /\ frml = Stashed
  /\ pc = "idle" /\ bsz = 0 /\ nrd = 0 /\ pp = 0 /\ rp = 0 /\ top = 0
  /\ nx \in Frames /\ due = 0 /\ got = 0 /\ line = "fresh"

\* The prologue: unstash, recv() into what is left of the buffer, and find
\* out where to go on.
Recv ==
  /\ pc = "idle"
  /\ \E b \in BufSizes : \E n \in 1..(b - done) :
       /\ bsz' = b
       /\ nrd' = n + done
       /\ top' = n + done
       /\ due' = due + n
       /\ pc' = IF n + done < FRML /\ togo = 0 THEN "stash"
                ELSE IF togo # 0 THEN "unpkd"
                ELSE "again"
  /\ pp' = 0 /\ rp' = 0
  /\ UNCHANGED <<wsVars, nx, got, line>>

\* recv() or tls_recv() fails: -1, and the callers drop the connection.
RecvFail ==
  /\ pc = "idle"
  /\ pc' = "failed"
  /\ UNCHANGED <<wsVars, bsz, nrd, pp, rp, top, ghosts>>

\* Is the byte at pp the first one of a frame?
AtFrame == nrd - pp = due

\* again: decode the header at pp.  Off a frame boundary it would be made of
\* whatever bytes are there.
Again ==
  /\ pc = "again"
  /\ \E f \in IF AtFrame THEN {nx} ELSE Frames :
       /\ frml' = f
       /\ togo' = f.plen
       /\ pp' = pp + HdrLen(f)
       /\ due' = IF AtFrame THEN due - HdrLen(f) - f.plen ELSE due
  /\ rp' = rp + state
  /\ top' = max_z(top, rp + 1)
  /\ line' = Newline(line)
  /\ got' = 0
  /\ nx' \in IF AtFrame THEN Frames ELSE {nx}
  /\ pc' = "unpkd"
  /\ UNCHANGED <<done, state, bsz, nrd>>

\* unpkd: what all opcodes have in common, pz being the payload at hand.
Advance(pz) ==
  /\ togo' = togo - pz
  /\ pp' = pp + pz
  /\ got' = got + pz
  /\ pc' = IF pp + pz + FRML < nrd THEN "again" ELSE "stash"
  /\ UNCHANGED <<done, frml, bsz, nrd, nx, due>>

\* Is the payload over, and the frame the last of its message?
Final(pz) == togo - pz = 0 /\ frml.finp

UnpkdData ==
  /\ pc = "unpkd"
  /\ frml.code \in Data \cup {CLOSE}
  /\ LET pz == min_z(togo, nrd - pp) IN
       /\ rp' = rp + pz
       /\ top' = max_z(top, rp + pz)
       /\ state' = IF Final(pz) \/ frml.code = CLOSE THEN 1 ELSE 0
       /\ line' = IF frml.code = CLOSE THEN "fresh"
                  ELSE IF Final(pz) THEN "ended" ELSE "open"
       /\ Advance(pz)

\* A ping is answered with what has been received of it, and logged.
UnpkdPing ==
  /\ pc = "unpkd"
  /\ frml.code = PING
  /\ LET pz == min_z(togo, nrd - pp) IN
       /\ rp' = rp + pz
       /\ top' = max_z(top, rp + pz)
       /\ Advance(pz)
  /\ state' = 1
  /\ UNCHANGED line

UnpkdPong ==
  /\ pc = "unpkd"
  /\ frml.code = PONG
  /\ Advance(min_z(togo, nrd - pp))
  /\ state' = 0
  /\ UNCHANGED <<rp, top, line>>

\* HUH?!?!
UnpkdAbort ==
  /\ pc = "unpkd"
  /\ frml.code \notin Data \cup {CLOSE, PING, PONG}
  /\ togo' = togo - min_z(togo, nrd - pp)
  /\ pc' = "huh"
  /\ UNCHANGED <<done, state, frml, bsz, nrd, pp, rp, top, ghosts>>

\* stash: keep the undecoded bytes in frml, write a newline after the output,
\* wherever that ends, and return rp, the newline counted if it is owed;
\* "BUGGERY" if the decoder has run past the bytes received.
Stash ==
  /\ pc = "stash"
  /\ pc' = IF pp > nrd THEN "buggery" ELSE "idle"
  /\ done' = nrd - pp
  /\ frml' = IF nrd - pp > 0 THEN Stashed ELSE frml
  /\ top' = max_z(top, rp + 1)
  /\ line' = Newline(line)
  /\ Return
  /\ UNCHANGED <<togo, state, nx, due, got>>

Step == \/ Again \/ UnpkdData \/ UnpkdPing \/ UnpkdPong \/ UnpkdAbort
        \/ Stash

Next == Recv \/ RecvFail \/ Step

Spec == Init /\ [][Next]_vars

\* A call runs to its end, and the event loop calls again as long as the peer
\* keeps sending.
FairSpec == Spec /\ WF_vars(Step) /\ WF_vars(Recv)
-----------------------------------------------------------------------------
(* Properties *)

\* The types of the variables: no length of ws_recv() ever wraps below zero
\* (the subtractions at ws.c:677-678 are unsigned), and at most a header's
\* worth of bytes is held in the stash.
TypeOK ==
  /\ togo \in Nat /\ done \in 0..FRML /\ state \in {0, 1}
  /\ frml \in Frames \cup {Stashed}
  /\ pc \in {"idle", "again", "unpkd", "stash", "failed", "huh", "buggery"}
  /\ bsz \in Nat /\ nrd \in Nat /\ pp \in Nat /\ rp \in Nat /\ top \in Nat
  /\ nx \in Frames /\ due \in Int /\ got \in Nat
  /\ line \in {"fresh", "open", "ended"}

\* Every header is decoded at the first byte of a frame, whatever way the
\* stream is cut into reads (ws.c:647-674): what is stashed and what is left
\* of the current frame always add up.
InSync == pc = "again" => AtFrame

\* The undecoded bytes fit into frml, which holds sizeof(wsfr_t) bytes
\* (ws.c:723), and the abort() at ws.c:719 is never reached.
StashFits == /\ pc # "buggery"
             /\ pc = "stash" => pp <= nrd /\ nrd - pp <= FRML

\* Across calls, a frame whose payload is incomplete still has its own header
\* in frml, nothing having been stashed over it (ws.c:642-644 relies on it),
\* and no payload byte is skipped or taken twice.
FrameKept ==
  /\ togo > 0 /\ pc = "idle" => done = 0 /\ due = -togo
  /\ togo > 0 /\ pc \in {"idle", "unpkd"} =>
       frml # Stashed /\ got + togo = frml.plen

\* The output is written over bytes already decoded only (ws.c:648-653, 689,
\* 698): the in-place copy never eats its own input, the newline written
\* before a header is decoded overwrites no more than that header, already in
\* frml, and neither the copies nor the header's memcpy() go past what was
\* received, let alone past the buffer.  The last newline is OneByteOver's.
NoClobber ==
  /\ pc = "again" => rp <= pp /\ pp + FRML <= nrd /\ nrd <= bsz
  /\ pc \in {"unpkd", "stash"} => rp <= pp /\ pp <= nrd /\ nrd <= bsz

\* The newline at ws.c:726 is written whether it is owed or not and whether
\* there is room or not.  When a read fills the buffer with payload of a frame
\* begun by an earlier call it lands one byte past the buffer, and the call
\* returns bsz + 1 if the newline is owed.  That is all: no other read writes
\* outside the buffer, and never more than this byte.
OneByteOver ==
  /\ top > bsz => top = bsz + 1 /\ got >= bsz
  /\ rp > bsz => rp = bsz + 1 /\ got >= bsz

\* "we guarantee that full frames end in \n" (ws.c:610): when a call returns
\* the output of a complete message has been ended.
FullFramesEndInNewline == pc = "idle" => line # "ended"

\* A newline never splits a message (the caller logs what is between two
\* newlines as one message, wssnarf.c:167-176).
NoNewlineInsideMessage ==
  pc \in {"again", "stash"} /\ state = 1 => line # "open"

\* The decoding loop ends and, as long as bytes come in, the next header is
\* always decoded eventually, unless the connection is lost or the peer sends
\* an unknown opcode: the 14 bytes held back never hold up the stream.
FramesFlow == []<>(pc = "again") \/ <>(pc \in {"failed", "huh"})
=============================================================================
