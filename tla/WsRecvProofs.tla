---------------------------- MODULE WsRecvProofs ----------------------------
(***************************************************************************)
(* ws_recv() keeps in step with the stream of frames, for every sequence   *)
(* of frames, every way of cutting it into reads and every buffer size.    *)
(***************************************************************************)
EXTENDS WsRecv, TLAPS

\* What is known at each label of ws_recv().
AtIdle == pc = "idle" =>
  /\ line # "ended"
  /\ due = done - togo
  /\ togo > 0 => done = 0 /\ frml \in Frames /\ got + togo = frml.plen

AtAgain == pc = "again" =>
  /\ togo = 0
  /\ AtFrame
  /\ rp <= pp /\ pp + FRML <= nrd /\ nrd <= bsz /\ top = nrd
  /\ line = "ended" => state = 1

AtUnpkd == pc = "unpkd" =>
  /\ frml \in Frames /\ got + togo = frml.plen
  /\ nrd - pp = due + togo
  /\ rp <= pp /\ pp <= nrd /\ nrd <= bsz /\ top = nrd
  /\ rp = pp => got >= pp
  /\ line # "ended"

AtStash == pc = "stash" =>
  /\ togo > 0 => pp = nrd /\ frml \in Frames /\ got + togo = frml.plen
  /\ nrd - pp = due + togo
  /\ rp <= pp /\ pp <= nrd /\ nrd <= bsz /\ nrd - pp <= FRML /\ top = nrd
  /\ rp = pp => got >= pp
  /\ line = "ended" => state = 1

\* The inductive invariant.
IInv == /\ TypeOK
        /\ pc # "buggery"
        /\ AtIdle /\ AtAgain /\ AtUnpkd /\ AtStash /\ OneByteOver

-----------------------------------------------------------------------------
\* A header is at least two bytes long (so that a newline always fits over it)
\* and never longer than wsfr_t (so that 14 bytes are enough to decode one).
LEMMA HdrLenBounds ==
  ASSUME NEW f \in Frames
  PROVE  HdrLen(f) \in 2..FRML /\ f.plen \in Nat /\ f.code \in 0..15
  BY FramesAssumption DEF HdrLen, Frame, FRML

\* The bytes kept in frml are not taken for a header.
LEMMA StashedNoFrame == Stashed \notin Frames
  BY FramesAssumption DEF Stashed, Frame

LEMMA MaxZ ==
  ASSUME NEW a \in Nat, NEW b \in Nat
  PROVE  /\ max_z(a, b) \in Nat /\ (b <= a => max_z(a, b) = a)
         /\ (b > a => max_z(a, b) = b)
  BY DEF max_z

\* The payload at hand is never more than the frame's nor than the buffer's.
LEMMA MinZ ==
  ASSUME NEW a \in Nat, NEW b \in Nat
  PROVE  /\ min_z(a, b) \in Nat /\ min_z(a, b) <= a /\ min_z(a, b) <= b
         /\ min_z(a, b) = a \/ min_z(a, b) = b
  BY DEF min_z

LEMMA InitIInv == Init => IInv
  BY BufSizesAssumption
     DEF Init, IInv, TypeOK, AtIdle, AtAgain, AtUnpkd, AtStash, OneByteOver, FRML

\* The prologue of a call.
LEMMA RecvIInv == IInv /\ Recv => IInv'
<1> SUFFICES ASSUME IInv, Recv PROVE IInv'
  OBVIOUS
<1>0. PICK b \in BufSizes : \E n \in 1..(b - done) :
        /\ bsz' = b /\ nrd' = n + done /\ top' = n + done /\ due' = due + n
        /\ pc' = IF n + done < FRML /\ togo = 0 THEN "stash"
                 ELSE IF togo # 0 THEN "unpkd" ELSE "again"
  BY DEF Recv
<1>1. PICK n \in 1..(b - done) :
        /\ bsz' = b /\ nrd' = n + done /\ top' = n + done /\ due' = due + n
        /\ pc' = IF n + done < FRML /\ togo = 0 THEN "stash"
                 ELSE IF togo # 0 THEN "unpkd" ELSE "again"
  BY <1>0
<1>2. b \in Nat /\ b > FRML /\ n \in Nat /\ n + done <= b
  BY <1>1, BufSizesAssumption DEF IInv, TypeOK, FRML
<1>3. /\ pc = "idle" /\ pp' = 0 /\ rp' = 0
      /\ UNCHANGED <<togo, done, state, frml, nx, got, line>>
  BY DEF Recv, wsVars
<1>4. TypeOK'
  BY <1>1, <1>2, <1>3 DEF IInv, TypeOK
<1>5. AtIdle' /\ AtAgain' /\ AtUnpkd' /\ AtStash' /\ OneByteOver'
  BY <1>1, <1>2, <1>3
     DEF IInv, TypeOK, AtIdle, AtAgain, AtUnpkd, AtStash, AtFrame, OneByteOver,
         FRML
<1> QED BY <1>1, <1>4, <1>5 DEF IInv

LEMMA AgainIInv == IInv /\ Again => IInv'
<1> SUFFICES ASSUME IInv, Again PROVE IInv'
  OBVIOUS
<1>1. AtFrame
  BY DEF IInv, AtAgain, Again
<1>2. /\ frml' = nx /\ togo' = nx.plen /\ pp' = pp + HdrLen(nx)
      /\ due' = due - HdrLen(nx) - nx.plen
      /\ nx' \in Frames /\ got' = 0 /\ rp' = rp + state
      /\ line' = Newline(line) /\ pc = "again" /\ pc' = "unpkd"
      /\ top' = max_z(top, rp + 1)
      /\ UNCHANGED <<done, state, bsz, nrd>>
  BY <1>1 DEF Again
<1>3. HdrLen(nx) \in 2..FRML /\ nx.plen \in Nat
  BY HdrLenBounds DEF IInv, TypeOK
<1>4. line' # "ended" /\ line' \in {"fresh", "open", "ended"}
  BY <1>2 DEF Newline, IInv, AtAgain, TypeOK
<1>5. top' = nrd
  <2>1. rp + 1 \in Nat /\ rp + 1 <= top /\ top = nrd
    BY <1>2 DEF IInv, TypeOK, AtAgain, FRML
  <2> QED BY <1>2, <2>1, MaxZ DEF IInv, TypeOK
<1>6. TypeOK'
  BY <1>2, <1>3, <1>4, <1>5 DEF IInv, TypeOK, FRML
<1>7. AtUnpkd' /\ OneByteOver'
  BY <1>1, <1>2, <1>3, <1>4, <1>5
     DEF IInv, TypeOK, AtAgain, AtUnpkd, AtFrame, OneByteOver, FRML
<1> QED BY <1>2, <1>6, <1>7 DEF IInv, AtIdle, AtAgain, AtStash

\* What Advance(pz) does to a state at unpkd, whatever the opcode.
LEMMA AdvanceIInv ==
  ASSUME IInv, pc = "unpkd", Advance(min_z(togo, nrd - pp)),
         rp' \in Nat, rp' <= rp + min_z(togo, nrd - pp), top' = top,
         state' \in {0, 1},
         line' \in {"fresh", "open", "ended"},
         line' = "ended" => state' = 1
  PROVE  IInv'
<1> DEFINE pz == min_z(togo, nrd - pp)
<1>1. togo \in Nat /\ nrd - pp \in Nat
  BY DEF IInv, TypeOK, AtUnpkd
<1>2. pz \in Nat /\ pz <= togo /\ pz <= nrd - pp /\ (pz = togo \/ pz = nrd - pp)
  BY <1>1, MinZ
<1> HIDE DEF pz
<1>3. /\ togo' = togo - pz /\ pp' = pp + pz /\ got' = got + pz
      /\ pc' = IF pp + pz + FRML < nrd THEN "again" ELSE "stash"
      /\ UNCHANGED <<done, frml, bsz, nrd, nx, due>>
  BY DEF Advance, pz
<1>4. TypeOK'
  BY <1>2, <1>3 DEF IInv, TypeOK, FRML
<1>5. frml \in Frames /\ frml.plen \in Nat
  BY HdrLenBounds DEF IInv, AtUnpkd
<1>6. rp' <= rp + pz
  BY DEF pz
<1>7. AtAgain' /\ AtStash' /\ OneByteOver'
  BY <1>2, <1>3, <1>5, <1>6
     DEF IInv, TypeOK, AtUnpkd, AtAgain, AtStash, AtFrame, OneByteOver, FRML
<1> QED BY <1>3, <1>4, <1>7 DEF IInv, AtIdle, AtUnpkd

LEMMA UnpkdIInv ==
  IInv /\ (UnpkdData \/ UnpkdPing \/ UnpkdPong \/ UnpkdAbort) => IInv'
<1> SUFFICES ASSUME IInv, UnpkdData \/ UnpkdPing \/ UnpkdPong \/ UnpkdAbort
             PROVE  IInv'
  OBVIOUS
<1> DEFINE pz == min_z(togo, nrd - pp)
<1>1. pc = "unpkd" /\ togo \in Nat /\ nrd - pp \in Nat /\ pp \in Nat /\ rp \in Nat
      /\ rp <= pp /\ line # "ended" /\ line \in {"fresh", "open", "ended"}
  BY DEF IInv, TypeOK, AtUnpkd, UnpkdData, UnpkdPing, UnpkdPong, UnpkdAbort
<1>2. pz \in Nat /\ pz <= togo /\ pz <= nrd - pp
  BY <1>1, MinZ
<1> DEFINE out == max_z(top, rp + pz)
<1>3. out = top
  <2>1. top \in Nat /\ rp + pz \in Nat /\ rp + pz <= top
    BY <1>1, <1>2 DEF IInv, TypeOK, AtUnpkd
  <2> QED BY <2>1, MaxZ
<1>4. CASE UnpkdData
  <2>1. Advance(pz) /\ rp' = rp + pz /\ pp' = pp + pz /\ state' \in {0, 1}
        /\ top' = out
    BY <1>4 DEF UnpkdData, Advance
  <2>2. line' \in {"fresh", "open", "ended"} /\ (line' = "ended" => state' = 1)
    BY <1>4 DEF UnpkdData
  <2> QED BY <1>1, <1>2, <1>3, <2>1, <2>2, AdvanceIInv
<1>5. CASE UnpkdPing
  <2>1. Advance(pz) /\ rp' = rp + pz /\ pp' = pp + pz /\ state' = 1 /\ line' = line
        /\ top' = out
    BY <1>5 DEF UnpkdPing, Advance
  <2> QED BY <1>1, <1>2, <1>3, <2>1, AdvanceIInv
<1>6. CASE UnpkdPong
  <2>1. Advance(pz) /\ rp' = rp /\ pp' = pp + pz /\ state' = 0 /\ line' = line
        /\ top' = top
    BY <1>6 DEF UnpkdPong, Advance
  <2> QED BY <1>1, <1>2, <1>3, <2>1, AdvanceIInv
<1>7. CASE UnpkdAbort
  <2>1. togo' = togo - pz /\ pc' = "huh"
        /\ UNCHANGED <<done, state, frml, bsz, nrd, pp, rp, top, nx, due, got,
                       line>>
    BY <1>7 DEF UnpkdAbort, ghosts
  <2> HIDE DEF pz
  <2> QED BY <1>1, <1>2, <2>1
          DEF IInv, TypeOK, AtIdle, AtAgain, AtUnpkd, AtStash, OneByteOver
<1> QED BY <1>4, <1>5, <1>6, <1>7

LEMMA StashIInv == IInv /\ Stash => IInv'
<1> SUFFICES ASSUME IInv, Stash PROVE IInv'
  OBVIOUS
<1>1. /\ pc = "stash" /\ pp <= nrd
      /\ pc' = "idle" /\ done' = nrd - pp
      /\ frml' = IF nrd - pp > 0 THEN Stashed ELSE frml
      /\ nrd' = 0 /\ pp' = 0 /\ rp' = rp + state
      /\ top' = max_z(top, rp + 1)
      /\ UNCHANGED <<togo, state, bsz, nx, due, got>>
  BY DEF IInv, TypeOK, AtStash, Stash, Return
<1>2. line' # "ended" /\ line' \in {"fresh", "open", "ended"}
  BY DEF Stash, Newline, IInv, AtStash, TypeOK
<1>3. top' \in Nat /\ (top' = top \/ (rp = top /\ top' = top + 1))
  <2>1. top \in Nat /\ rp \in Nat /\ rp <= top
    BY <1>1 DEF IInv, TypeOK, AtStash
  <2> QED BY <1>1, <2>1 DEF max_z
<1>4. TypeOK'
  BY <1>1, <1>2, <1>3 DEF IInv, TypeOK, AtStash
<1>5. AtIdle'
  BY <1>1, <1>2 DEF IInv, TypeOK, AtStash, AtIdle
<1>6. OneByteOver'
  BY <1>1, <1>3 DEF IInv, TypeOK, AtStash, OneByteOver
<1> QED BY <1>1, <1>4, <1>5, <1>6 DEF IInv, AtAgain, AtUnpkd, AtStash

LEMMA Inductive == IInv /\ [Next]_vars => IInv'
<1> SUFFICES ASSUME IInv, [Next]_vars PROVE IInv'
  OBVIOUS
<1>1. CASE RecvFail
  BY <1>1 DEF RecvFail, wsVars, ghosts, IInv, TypeOK,
              AtIdle, AtAgain, AtUnpkd, AtStash, OneByteOver
<1>2. CASE UNCHANGED vars
  BY <1>2 DEF vars, IInv, TypeOK, AtIdle, AtAgain, AtUnpkd, AtStash, AtFrame,
              OneByteOver
<1> QED
  BY <1>1, <1>2, RecvIInv, AgainIInv, UnpkdIInv, StashIInv DEF Next, Step

\* The inductive invariant holds throughout.
THEOREM Invariance == Spec => []IInv
  BY InitIInv, Inductive, PTL DEF Spec

-----------------------------------------------------------------------------
\* Every variable of ws_recv() keeps its type; in particular the bytes kept
\* never exceed sizeof(wsfr_t).
THEOREM TypeCorrect == Spec => []TypeOK
  BY Invariance, PTL DEF IInv

\* No header is ever decoded anywhere but at the first byte of a frame.
THEOREM Synchronised == Spec => []InSync
<1>1. IInv => InSync
  BY DEF IInv, AtAgain, InSync
<1> QED BY <1>1, Invariance, PTL

\* The stash never overflows and "BUGGERY" is never printed.
THEOREM StashIsLargeEnough == Spec => []StashFits
<1>1. IInv => StashFits
  BY DEF IInv, AtStash, StashFits
<1> QED BY <1>1, Invariance, PTL

\* A frame that spans several calls is resumed with its own header and at its
\* next byte.
THEOREM FramesResumed == Spec => []FrameKept
<1>1. IInv => FrameKept
  BY StashedNoFrame DEF IInv, TypeOK, AtIdle, AtUnpkd, FrameKept
<1> QED BY <1>1, Invariance, PTL

\* The in-place copy never overwrites a byte that is still to be decoded, and
\* neither it nor the reading of headers goes past the bytes received.
THEOREM CopyIsSafe == Spec => []NoClobber
<1>1. IInv => NoClobber
  BY DEF IInv, AtAgain, AtUnpkd, AtStash, NoClobber
<1> QED BY <1>1, Invariance, PTL

\* One byte past the buffer is the most a call writes and returns, and only
\* after a read that was nothing but payload of a frame begun before it.
THEOREM NewlineMayOverrun == Spec => []OneByteOver
  BY Invariance, PTL DEF IInv

\* A complete message has been ended by a newline when ws_recv() returns.
THEOREM MessagesEnded == Spec => []FullFramesEndInNewline
<1>1. IInv => FullFramesEndInNewline
  BY DEF IInv, AtIdle, FullFramesEndInNewline
<1> QED BY <1>1, Invariance, PTL
=============================================================================
