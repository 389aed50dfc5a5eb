----------------------------- MODULE SnarfProofs ----------------------------
(***************************************************************************)
(* Snarf for up to four sockets, any protocols and any callbacks, that is, *)
(* for all constants with SnarfConstants: the types of the variables, that *)
(* connections are opened into vacant slots and not used after they have   *)
(* been closed, and that Snarf implements Session.                         *)
(*                                                                         *)
(* SlotFresh and CallsHaveSocket are about the moment of a call.  What     *)
(* makes them hold is that a slot's connection goes with its watcher and   *)
(* its session state at any time (Wired, Slots), that prepare() has either *)
(* connected the sockets it has visited or broken the loop (Visited), so   *)
(* that all sockets are connected when the loop polls (Polling), and that  *)
(* libev invokes timers before descriptors, so that rest_cb(), the only    *)
(* callback that hangs up, cannot do so to a pending heartbeat (Calling).  *)
(***************************************************************************)
EXTENDS Snarf, TLAPS

\* The watcher is active as long as there is a connection.
Wired == io = ws

\* A session that has begun has a connection, one that has not, or is over,
\* has none.
Slots == \A i \in Sockets : /\ st[i] \in {"UNK", "FINI"} => ~ws[i]
                            /\ st[i] \in Connected => ws[i]

\* What a label of prepare() says about the socket.
Labels == /\ pc = "UNK" => st[idx] = "UNK"
          /\ pc \in Connected => ws[idx]
          /\ pc = "FINI" => st[idx] = "FINI"

\* The sockets prepare() has already visited.
Visited == pc \in Cases \cup {"switch"} =>
             \A i \in Sockets : i < idx => ws[i] \/ brk

Polling == pc = "poll" => idx = 1 /\ \A i \in Sockets : ws[i]

Calling == pc = "call" =>
             /\ idx = 1
             /\ \A i \in Sockets : st[i] # "FINI"
             /\ \A e \in pend : e.src \in {"io", "timer"} => ws[e.sock]

IInv == /\ SnarfConstants /\ TypeOK /\ Wired /\ Slots /\ Labels /\ Visited /\ Polling /\ Calling

-----------------------------------------------------------------------------
LEMMA InitIInv == SnarfConstants /\ Init => IInv
<1> SUFFICES ASSUME SnarfConstants, Init PROVE IInv
  OBVIOUS
<1>1. TypeOK
  <2>1. 1 \in Sockets /\ Horizon \in Nat
    BY DEF SnarfConstants, IInv, Sockets
  <2>2. st \in [Sockets -> States] /\ part \in [Sockets -> {"none", "kept", "lost"}]
    BY DEF Init, States
  <2>3. idle \in [Sockets -> 0..Horizon] /\ stale \in 0..Horizon
    BY <2>1 DEF Init
  <2>4. ws \in [Sockets -> BOOLEAN] /\ io \in [Sockets -> BOOLEAN]
    BY DEF Init
  <2> QED
    BY <2>1, <2>2, <2>3, <2>4 DEF Init, TypeOK
<1>2. Wired /\ Slots
  BY DEF Init, Wired, Slots, Connected
<1>3. Labels /\ Visited
  BY DEF Init, Labels, Visited, Connected, Sockets
<1>4. Polling /\ Calling
  BY DEF Init, Polling, Calling
<1> QED
  BY <1>1, <1>2, <1>3, <1>4 DEF IInv

\* Constants stay what they are.
LEMMA ConstantsStay == SnarfConstants => SnarfConstants'
  BY DEF SnarfConstants, Sockets, Never

LEMMA SwitchIInv == IInv /\ Switch => IInv'
<1> SUFFICES ASSUME IInv, Switch PROVE IInv'
  OBVIOUS
<1>1. TypeOK'
  BY DEF SnarfConstants, Switch, Goto, IInv, TypeOK, Sockets, Cases, States
<1>2. (Wired /\ Slots)'
  BY DEF SnarfConstants, Switch, Goto, IInv, TypeOK, Wired, Slots, Labels, Connected, Sockets
<1>3. (Labels /\ Visited)'
  BY DEF SnarfConstants, Switch, Goto, IInv, TypeOK, Slots, Labels, Visited, Connected, Sockets, Cases, States
<1>4. (Polling /\ Calling)'
  BY DEF SnarfConstants, Switch, Goto, IInv, TypeOK, Polling, Calling, States
<1> QED
  BY <1>1, <1>2, <1>3, <1>4, ConstantsStay DEF IInv

LEMMA CaseUnkIInv == IInv /\ CaseUnk => IInv'
<1> SUFFICES ASSUME IInv, CaseUnk PROVE IInv'
  OBVIOUS
<1>1. TypeOK'
  BY DEF SnarfConstants, CaseUnk, open_coin, Goto, IInv, TypeOK, Sockets, Cases, States
<1>2. (Wired /\ Slots)'
  BY DEF SnarfConstants, CaseUnk, open_coin, Goto, IInv, TypeOK, Wired, Slots, Labels, Connected, Sockets
<1>3. (Labels /\ Visited)'
  BY DEF SnarfConstants, CaseUnk, open_coin, Goto, IInv, TypeOK, Slots, Labels, Visited, Connected, Sockets, Cases, States
<1>4. (Polling /\ Calling)'
  BY DEF SnarfConstants, CaseUnk, open_coin, Goto, IInv, TypeOK, Slots, Labels, Visited, Polling, Calling, Connected, Sockets, Cases
<1> QED
  BY <1>1, <1>2, <1>3, <1>4, ConstantsStay DEF IInv

LEMMA CaseUnkFailIInv == IInv /\ CaseUnkFail => IInv'
<1> SUFFICES ASSUME IInv, CaseUnkFail PROVE IInv'
  OBVIOUS
<1>1. TypeOK'
  BY DEF SnarfConstants, CaseUnkFail, Goto, IInv, TypeOK, Sockets, Cases, States
<1>2. (Wired /\ Slots)'
  BY DEF SnarfConstants, CaseUnkFail, Goto, IInv, TypeOK, Wired, Slots, Labels, Connected, Sockets
<1>3. (Labels /\ Visited)'
  BY DEF SnarfConstants, CaseUnkFail, Goto, IInv, TypeOK, Slots, Labels, Visited, Connected, Sockets, Cases, States
<1>4. (Polling /\ Calling)'
  BY DEF SnarfConstants, CaseUnkFail, Goto, IInv, TypeOK, Slots, Labels, Visited, Polling, Calling, Connected, Sockets, Cases
<1> QED
  BY <1>1, <1>2, <1>3, <1>4, ConstantsStay DEF IInv

LEMMA CaseConnIInv == IInv /\ CaseConn => IInv'
<1> SUFFICES ASSUME IInv, CaseConn PROVE IInv'
  OBVIOUS
<1>1. TypeOK'
  BY DEF SnarfConstants, CaseConn, Goto, Break, IInv, TypeOK, Sockets, Cases, States
<1>2. (Wired /\ Slots)'
  BY DEF SnarfConstants, CaseConn, Goto, Break, IInv, TypeOK, Wired, Slots, Labels, Connected, Sockets
<1>3. (Labels /\ Visited)'
  BY DEF SnarfConstants, CaseConn, Goto, Break, IInv, TypeOK, Slots, Labels, Visited, Connected, Sockets, Cases, States
<1>4. (Polling /\ Calling)'
  BY DEF SnarfConstants, CaseConn, Goto, Break, IInv, TypeOK, Slots, Labels, Visited, Polling, Calling, Connected, Sockets, Cases
<1> QED
  BY <1>1, <1>2, <1>3, <1>4, ConstantsStay DEF IInv

LEMMA CaseConndIInv == IInv /\ CaseConnd => IInv'
<1> SUFFICES ASSUME IInv, CaseConnd PROVE IInv'
  OBVIOUS
<1>1. TypeOK'
  BY DEF SnarfConstants, CaseConnd, Goto, Dropped, IInv, TypeOK, Sockets, Cases, States
<1>2. (Wired /\ Slots)'
  BY DEF SnarfConstants, CaseConnd, Goto, Dropped, IInv, TypeOK, Wired, Slots, Labels, Connected, Sockets
<1>3. (Labels /\ Visited)'
  BY DEF SnarfConstants, CaseConnd, Goto, Dropped, IInv, TypeOK, Slots, Labels, Visited, Connected, Sockets, Cases, States
<1>4. (Polling /\ Calling)'
  BY DEF SnarfConstants, CaseConnd, Goto, Dropped, IInv, TypeOK, Slots, Labels, Visited, Polling, Calling, Connected, Sockets, Cases
<1> QED
  BY <1>1, <1>2, <1>3, <1>4, ConstantsStay DEF IInv

LEMMA CaseAuthIInv == IInv /\ CaseAuth => IInv'
<1> SUFFICES ASSUME IInv, CaseAuth PROVE IInv'
  OBVIOUS
<1>1. TypeOK'
  <2>1. pc' \in Cases \cup {"switch", "poll", "call", "exited"} /\ idx' \in Sockets
    BY DEF SnarfConstants, CaseAuth, Request, Goto, Break, IInv, TypeOK, Sockets, Cases
  <2>2. st' \in [Sockets -> States]
    BY DEF CaseAuth, Request, IInv, TypeOK, States
  <2> QED
    BY <2>1, <2>2 DEF CaseAuth, IInv, TypeOK
<1>2. (Wired /\ Slots)'
  BY DEF SnarfConstants, CaseAuth, Request, Goto, Break, IInv, TypeOK, Wired, Slots, Labels, Connected, Sockets
<1>3. (Labels /\ Visited)'
  BY DEF SnarfConstants, CaseAuth, Request, Goto, Break, IInv, TypeOK, Slots, Labels, Visited, Connected, Sockets, Cases, States
<1>4. (Polling /\ Calling)'
  BY DEF SnarfConstants, CaseAuth, Request, Goto, Break, IInv, TypeOK, Slots, Labels, Visited, Polling, Calling, Connected, Sockets, Cases
<1> QED
  BY <1>1, <1>2, <1>3, <1>4, ConstantsStay DEF IInv

LEMMA CaseAuthdIInv == IInv /\ CaseAuthd => IInv'
<1> SUFFICES ASSUME IInv, CaseAuthd PROVE IInv'
  OBVIOUS
<1>1. TypeOK'
  BY DEF SnarfConstants, CaseAuthd, Goto, Dropped, IInv, TypeOK, Sockets, Cases, States
<1>2. (Wired /\ Slots)'
  BY DEF SnarfConstants, CaseAuthd, Goto, Dropped, IInv, TypeOK, Wired, Slots, Labels, Connected, Sockets
<1>3. (Labels /\ Visited)'
  BY DEF SnarfConstants, CaseAuthd, Goto, Dropped, IInv, TypeOK, Slots, Labels, Visited, Connected, Sockets, Cases, States
<1>4. (Polling /\ Calling)'
  BY DEF SnarfConstants, CaseAuthd, Goto, Dropped, IInv, TypeOK, Slots, Labels, Visited, Polling, Calling, Connected, Sockets, Cases
<1> QED
  BY <1>1, <1>2, <1>3, <1>4, ConstantsStay DEF IInv

LEMMA CaseJoinIInv == IInv /\ CaseJoin => IInv'
<1> SUFFICES ASSUME IInv, CaseJoin PROVE IInv'
  OBVIOUS
<1>1. TypeOK'
  <2>1. pc' \in Cases \cup {"switch", "poll", "call", "exited"} /\ idx' \in Sockets
    BY DEF SnarfConstants, CaseJoin, Request, Goto, Break, IInv, TypeOK, Sockets, Cases
  <2>2. st' \in [Sockets -> States]
    BY DEF CaseJoin, Request, IInv, TypeOK, States
  <2> QED
    BY <2>1, <2>2 DEF CaseJoin, IInv, TypeOK
<1>2. (Wired /\ Slots)'
  BY DEF SnarfConstants, CaseJoin, Request, Goto, Break, IInv, TypeOK, Wired, Slots, Labels, Connected, Sockets
<1>3. (Labels /\ Visited)'
  BY DEF SnarfConstants, CaseJoin, Request, Goto, Break, IInv, TypeOK, Slots, Labels, Visited, Connected, Sockets, Cases, States
<1>4. (Polling /\ Calling)'
  BY DEF SnarfConstants, CaseJoin, Request, Goto, Break, IInv, TypeOK, Slots, Labels, Visited, Polling, Calling, Connected, Sockets, Cases
<1> QED
  BY <1>1, <1>2, <1>3, <1>4, ConstantsStay DEF IInv

LEMMA CaseJoindIInv == IInv /\ CaseJoind => IInv'
<1> SUFFICES ASSUME IInv, CaseJoind PROVE IInv'
  OBVIOUS
<1>1. TypeOK'
  BY DEF SnarfConstants, CaseJoind, Goto, Break, IInv, TypeOK, Sockets, Cases, States
<1>2. (Wired /\ Slots)'
  BY DEF SnarfConstants, CaseJoind, Goto, Break, IInv, TypeOK, Wired, Slots, Labels, Connected, Sockets
<1>3. (Labels /\ Visited)'
  BY DEF SnarfConstants, CaseJoind, Goto, Break, IInv, TypeOK, Slots, Labels, Visited, Connected, Sockets, Cases, States
<1>4. (Polling /\ Calling)'
  BY DEF SnarfConstants, CaseJoind, Goto, Break, IInv, TypeOK, Slots, Labels, Visited, Polling, Calling, Connected, Sockets, Cases
<1> QED
  BY <1>1, <1>2, <1>3, <1>4, ConstantsStay DEF IInv

LEMMA CaseDiscIInv == IInv /\ CaseDisc => IInv'
<1> SUFFICES ASSUME IInv, CaseDisc PROVE IInv'
  OBVIOUS
<1>1. TypeOK'
  BY DEF SnarfConstants, CaseDisc, fini_coin, Goto, IInv, TypeOK, Sockets, Cases, States
<1>2. (Wired /\ Slots)'
  BY DEF SnarfConstants, CaseDisc, fini_coin, Goto, IInv, TypeOK, Wired, Slots, Labels, Connected, Sockets
<1>3. (Labels /\ Visited)'
  BY DEF SnarfConstants, CaseDisc, fini_coin, Goto, IInv, TypeOK, Slots, Labels, Visited, Connected, Sockets, Cases, States
<1>4. (Polling /\ Calling)'
  BY DEF SnarfConstants, CaseDisc, fini_coin, Goto, IInv, TypeOK, Slots, Labels, Visited, Polling, Calling, Connected, Sockets, Cases
<1> QED
  BY <1>1, <1>2, <1>3, <1>4, ConstantsStay DEF IInv

LEMMA CaseFiniIInv == IInv /\ CaseFini => IInv'
<1> SUFFICES ASSUME IInv, CaseFini PROVE IInv'
  OBVIOUS
<1>1. TypeOK'
  BY DEF SnarfConstants, CaseFini, Break, IInv, TypeOK, Sockets, Cases, States
<1>2. (Wired /\ Slots)'
  BY DEF SnarfConstants, CaseFini, Break, IInv, TypeOK, Wired, Slots, Labels, Connected, Sockets
<1>3. (Labels /\ Visited)'
  BY DEF SnarfConstants, CaseFini, Break, IInv, TypeOK, Slots, Labels, Visited, Connected, Sockets, Cases, States
<1>4. (Polling /\ Calling)'
  BY DEF SnarfConstants, CaseFini, Break, IInv, TypeOK, Slots, Labels, Visited, Polling, Calling, Connected, Sockets, Cases
<1> QED
  BY <1>1, <1>2, <1>3, <1>4, ConstantsStay DEF IInv

LEMMA PollIInv == IInv /\ Poll => IInv'
<1> SUFFICES ASSUME IInv, Poll PROVE IInv'
  OBVIOUS
<1>1. TypeOK'
  BY DEF SnarfConstants, Poll, Ready, Sat, Events, Io, Timer, Signal, Rotate, IInv, TypeOK, Sockets, Cases, States
<1>2. (Wired /\ Slots)'
  BY DEF SnarfConstants, Poll, Ready, Sat, Events, Io, Timer, Signal, Rotate, IInv, TypeOK, Wired, Slots, Labels, Connected, Sockets
<1>3. (Labels /\ Visited)'
  BY DEF SnarfConstants, Poll, Ready, Sat, Events, Io, Timer, Signal, Rotate, IInv, TypeOK, Slots, Labels, Visited, Connected, Sockets, Cases, States
<1>4. (Polling /\ Calling)'
  BY DEF SnarfConstants, Poll, Ready, Sat, Events, Io, Timer, Signal, Rotate, IInv, TypeOK, Slots, Labels, Visited, Polling, Calling, Connected, Sockets, Cases
<1> QED
  BY <1>1, <1>2, <1>3, <1>4, ConstantsStay DEF IInv

-----------------------------------------------------------------------------
\* The clocks, whoever looks at them.
LEMMA LogTypes ==
  ASSUME SnarfConstants, TypeOK, Log \/ \E i \in Sockets : LogActive(i)
  PROVE  idle' \in [Sockets -> 0..Horizon] /\ stale' \in 0..Horizon
<1>1. \A i \in Sockets : Sat(idle[i] + stale) \in 0..Horizon
  BY DEF SnarfConstants, TypeOK, Sat
<1> QED
  BY <1>1 DEF SnarfConstants, Log, LogActive

\* What ws_cb() and sio3_cb() do to the session state.
LEMMA HandleFacts ==
  ASSUME SnarfConstants, TypeOK, NEW i \in Sockets, Handle(i)
  PROVE  /\ st' \in [Sockets -> States]
         /\ \A j \in Sockets : \/ st'[j] = st[j]
                               \/ st[j] \in {"UNK"} \cup Connected /\ st'[j] \in Connected
         /\ brk' \in BOOLEAN /\ torn' \in BOOLEAN
         /\ part' \in [Sockets -> {"none", "kept", "lost"}]
         /\ idle' \in [Sockets -> 0..Horizon] /\ stale' \in 0..Horizon
<1>1. PICK c \in Chunks :
        \/ /\ st[i] \in {"CONND", "AUTHD", "JOIND"}
           /\ Inflated(i, c) /\ UNCHANGED <<st, brk>>
        \/ \E s \in {"CONN", "AUTH", "JOIN"} : \E r \in Answers[s] :
             /\ st[i] = s \/ (st[i] = "UNK" /\ s = "CONN")
             /\ \/ /\ r < 0 /\ brk' = TRUE
                   /\ LogUnr(i, c) /\ Log
                   /\ st' = [st EXCEPT ![i] = s]
                \/ /\ r >= 0
                   /\ st' = [st EXCEPT ![i] = IF r > 0 THEN Upgrade[s] ELSE s]
                   /\ Inflated(i, c) /\ UNCHANGED brk
        \/ /\ st[i] \in {"NODATA", "INTR", "FINI"}
           /\ Discard(i, c) /\ UNCHANGED <<st, brk>>
  BY DEF Handle
<1>2. Inflated(i, c) \/ Discard(i, c) \/ (LogUnr(i, c) /\ Log)
  BY <1>1
<1>3. torn' \in BOOLEAN
  BY <1>2 DEF Inflated, Split, Discard, LogUnr, TypeOK
<1>4. part' \in [Sockets -> {"none", "kept", "lost"}]
  BY <1>2 DEF Inflated, Split, Discard, LogUnr, Dropped, TypeOK
<1>5. idle' \in [Sockets -> 0..Horizon] /\ stale' \in 0..Horizon
  BY <1>2, LogTypes DEF Inflated, Discard, TypeOK
<1>6. brk' \in BOOLEAN
  BY <1>1 DEF TypeOK
<1>7. \/ st' = st
      \/ /\ st[i] \in {"UNK"} \cup Connected
         /\ \E s \in Connected : st' = [st EXCEPT ![i] = s]
  BY <1>1 DEF Upgrade, Connected
<1> QED
  BY <1>3, <1>4, <1>5, <1>6, <1>7 DEF TypeOK, States, Connected

\* Every callback: what is invoked has a connection, and the loop goes on with
\* what is left or with prepare().
LEMMA InvokeFacts ==
  ASSUME IInv, NEW e \in Events, Invoke(e), Return
  PROVE  /\ pc = "call" /\ idx = 1 /\ idx' = 1
         /\ pc' \in {"call", "exited", "switch"}
         /\ pend' = pend \ {e} /\ pend' \subseteq Events
         /\ e.src \in {"io", "timer"} => ws[e.sock]
  BY DEF IInv, TypeOK, Invoke, Return, Calling

\* A callback that hangs up on nobody and starts no session without a connection
\* preserves the invariant.
LEMMA CallbackIInv ==
  ASSUME IInv, NEW e \in Events, Invoke(e), Return, TypeOK',
         UNCHANGED <<ws, io>>,
         \A j \in Sockets : \/ st'[j] = st[j]
                            \/ st'[j] \in {"NODATA", "INTR"}
                            \/ ws[j] /\ st'[j] \in Connected
  PROVE  IInv'
<1>1. (Wired /\ Slots)'
  BY DEF IInv, Wired, Slots, Connected
<1>2. (Labels /\ Visited /\ Polling)'
  BY InvokeFacts DEF SnarfConstants, IInv, Labels, Visited, Polling, Connected, Sockets
<1>3. Calling'
  <2>1. \A j \in Sockets : st'[j] # "FINI"
    BY InvokeFacts DEF IInv, Calling, Connected
  <2> QED
    BY <2>1, InvokeFacts DEF IInv, Calling
<1> QED
  BY <1>1, <1>2, <1>3, ConstantsStay DEF IInv

LEMMA EventFacts ==
  /\ Signal \in Events /\ Rotate \in Events
  /\ \A i \in Sockets : Io(i) \in Events /\ Timer(i) \in Events
  BY DEF Events

LEMMA WsIInv ==
  ASSUME IInv, NEW i \in Sockets, WsCb(i) \/ Sio3Cb(i)
  PROVE  IInv'
<1>1. /\ Invoke(Io(i)) /\ Handle(i) /\ Return
      /\ UNCHANGED <<ws, io, intr>>
  BY DEF WsCb, Sio3Cb
<1>2. ws[i] /\ pc = "call"
  BY <1>1, InvokeFacts, EventFacts DEF Io
<1>3. TypeOK'
  BY <1>1, HandleFacts, InvokeFacts, EventFacts DEF IInv, TypeOK
<1>4. \A j \in Sockets : st'[j] = st[j] \/ (ws[j] /\ st'[j] \in Connected)
  <2>1. \A j \in Sockets : j # i => st'[j] = st[j]
    BY <1>1 DEF Handle, IInv, TypeOK
  <2> QED
    BY <2>1, <1>1, <1>2, HandleFacts DEF IInv
<1> QED
  BY <1>1, <1>3, <1>4, CallbackIInv, EventFacts

LEMMA QuietIInv ==
  ASSUME IInv, NEW i \in Sockets, WsCbFail(i) \/ RestCb(i)
  PROVE  IInv'
<1>1. Invoke(Io(i)) /\ Return /\ Log /\ UNCHANGED <<st, ws, io, intr>>
  BY DEF WsCbFail, RestCb
<1>2. torn' \in BOOLEAN /\ part' \in [Sockets -> {"none", "kept", "lost"}] /\ brk' \in BOOLEAN
  BY DEF WsCbFail, RestCb, Split, IInv, TypeOK
<1>3. TypeOK'
  BY <1>1, <1>2, LogTypes, InvokeFacts, EventFacts DEF IInv, TypeOK
<1> QED
  BY <1>1, <1>3, CallbackIInv, EventFacts

LEMMA HbeatIInv ==
  ASSUME IInv, NEW i \in Sockets, HbeatCb(i)
  PROVE  IInv'
<1>1. Invoke(Timer(i)) /\ Return /\ Log /\ UNCHANGED <<ws, io, brk, part, torn, intr>>
  BY DEF HbeatCb
<1>2. st' = st \/ st' = [st EXCEPT ![i] = "NODATA"]
  BY DEF HbeatCb
<1>3. TypeOK'
  BY <1>1, <1>2, LogTypes, InvokeFacts, EventFacts DEF IInv, TypeOK, States
<1> QED
  BY <1>1, <1>2, <1>3, CallbackIInv, EventFacts DEF IInv, TypeOK

LEMMA SigintIInv == IInv /\ SigintCb => IInv'
<1> SUFFICES ASSUME IInv, SigintCb PROVE IInv'
  OBVIOUS
<1>1. /\ Invoke(Signal) /\ Return /\ Log /\ st' = [i \in Sockets |-> "INTR"] /\ intr' = TRUE
      /\ UNCHANGED <<ws, io, brk, part, torn>>
  BY DEF SigintCb
<1>2. TypeOK'
  BY <1>1, LogTypes, InvokeFacts, EventFacts DEF IInv, TypeOK, States
<1> QED
  BY <1>1, <1>2, CallbackIInv, EventFacts

LEMMA RotateIInv == IInv /\ RotateCb => IInv'
<1> SUFFICES ASSUME IInv, RotateCb PROVE IInv'
  OBVIOUS
<1>1. /\ Invoke(Rotate) /\ Return /\ Log
      /\ UNCHANGED <<st, ws, io, brk, part, torn, intr>>
  BY DEF RotateCb
<1>2. TypeOK'
  BY <1>1, LogTypes, InvokeFacts, EventFacts DEF IInv, TypeOK
<1> QED
  BY <1>1, <1>2, CallbackIInv, EventFacts

\* rest_cb() hangs up: nothing pending needs the connection any more.
LEMMA RestFailIInv ==
  ASSUME IInv, NEW i \in Sockets, RestCbFail(i)
  PROVE  IInv'
<1>1. /\ Invoke(Io(i)) /\ Return
      /\ io' = [io EXCEPT ![i] = FALSE] /\ ws' = [ws EXCEPT ![i] = FALSE]
      /\ st' = [st EXCEPT ![i] = "UNK"] /\ part' = [part EXCEPT ![i] = "none"]
      /\ UNCHANGED <<idle, stale, brk, torn, intr>>
  BY DEF RestCbFail
<1>2. TypeOK'
  BY <1>1, InvokeFacts, EventFacts DEF IInv, TypeOK, States
<1>3. (Wired /\ Slots)'
  BY <1>1 DEF IInv, TypeOK, Wired, Slots, Connected
<1>4. (Labels /\ Visited /\ Polling)'
  BY <1>1, InvokeFacts, EventFacts DEF SnarfConstants, IInv, Labels, Visited, Polling, Connected, Sockets
<1>5. Calling'
  <2>1. \A e \in pend' : e.src \in {"io", "timer"} => e.sock # i
    <3> SUFFICES ASSUME NEW e \in pend', e.src \in {"io", "timer"}, e.sock = i PROVE FALSE
      OBVIOUS
    <3>1. e \in Events /\ e \in pend /\ e # Io(i)
      BY <1>1 DEF Invoke, IInv, TypeOK
    <3>2. e = Timer(i)
      BY <3>1 DEF Events, Io, Timer, Signal, Rotate
    <3> QED
      BY <1>1, <3>1, <3>2 DEF Invoke, Order, Io, Timer
  <2>2. \A j \in Sockets : st'[j] # "FINI"
    BY <1>1, InvokeFacts, EventFacts DEF IInv, TypeOK, Calling
  <2>3. \A e \in pend' : e.src \in {"io", "timer"} => ws'[e.sock]
    <3> SUFFICES ASSUME NEW e \in pend', e.src \in {"io", "timer"} PROVE ws'[e.sock]
      OBVIOUS
    <3>1. e \in pend /\ e \in Events /\ ws[e.sock] /\ e.sock # i
      BY <1>1, <2>1, InvokeFacts, EventFacts DEF IInv, TypeOK, Calling
    <3>2. e.sock \in Sockets
      BY <3>1 DEF Events, Io, Timer, Signal, Rotate
    <3> QED
      BY <1>1, <3>1, <3>2 DEF IInv, TypeOK
  <2> QED
    BY <2>2, <2>3, <1>1, InvokeFacts, EventFacts DEF Calling
<1> QED
  BY <1>2, <1>3, <1>4, <1>5, ConstantsStay DEF IInv

-----------------------------------------------------------------------------
\* The invariant is inductive.
LEMMA NextIInv == IInv /\ [Next]_vars => IInv'
<1> SUFFICES ASSUME IInv, [Next]_vars PROVE IInv'
  OBVIOUS
<1>1. CASE Prepare
  BY <1>1, SwitchIInv, CaseUnkIInv, CaseUnkFailIInv, CaseConnIInv, CaseConndIInv,
     CaseAuthIInv, CaseAuthdIInv, CaseJoinIInv, CaseJoindIInv, CaseDiscIInv,
     CaseFiniIInv DEF Prepare
<1>2. CASE Poll
  BY <1>2, PollIInv
<1>3. CASE Callback
  BY <1>3, WsIInv, QuietIInv, HbeatIInv, SigintIInv, RotateIInv, RestFailIInv DEF Callback
<1>4. CASE UNCHANGED vars
  BY <1>4, ConstantsStay DEF vars, IInv, TypeOK, Wired, Slots, Labels, Visited, Polling, Calling
<1> QED
  BY <1>1, <1>2, <1>3, <1>4 DEF Next, Exited

\* The inductive invariant holds throughout.
THEOREM Invariance == ASSUME SnarfConstants PROVE Spec => []IInv
<1>1. Init => IInv
  BY InitIInv
<1> QED
  BY <1>1, NextIInv, PTL DEF Spec

\* Type correctness of the event loop and of prepare().
THEOREM TypeCorrect ==
  ASSUME SnarfConstants PROVE Spec => []TypeOK
<1>1. IInv => TypeOK
  BY DEF IInv
<1> QED
  BY <1>1, Invariance, PTL

\* open_coin() never overwrites a connection or an active watcher, whatever
\* the protocols and the callbacks of the program.
THEOREM SlotsAreFresh ==
  ASSUME SnarfConstants PROVE Spec => []SlotFresh
<1>1. IInv => SlotFresh
  BY DEF IInv, TypeOK, Wired, Slots, Labels, SlotFresh
<1> QED
  BY <1>1, Invariance, PTL

\* No callback and no case of prepare() is entered with a connection that has
\* been closed.
THEOREM ConnectionsAreOpen ==
  ASSUME SnarfConstants PROVE Spec => []CallsHaveSocket
<1>1. IInv => CallsHaveSocket
  BY DEF IInv, Labels, Calling, CallsHaveSocket
<1> QED
  BY <1>1, Invariance, PTL

\* COIN_ST_FINI is a final state.
THEOREM FiniIsFinal ==
  ASSUME SnarfConstants PROVE Spec => FiniFinal
<1>1. ASSUME IInv, [Next]_vars, NEW i \in Sockets, st[i] = "FINI"
      PROVE  st'[i] = "FINI"
  <2>1. CASE Prepare
    BY <1>1, <2>1 DEF Prepare, Switch, CaseUnk, CaseUnkFail, CaseConn, CaseConnd,
       CaseAuth, CaseAuthd, CaseJoin, Request, CaseJoind, CaseDisc, CaseFini,
       IInv, TypeOK, Slots, Labels, Connected
  <2>2. CASE Callback
    BY <1>1, <2>2 DEF Callback, WsCb, Sio3Cb, WsCbFail, RestCb, RestCbFail, HbeatCb,
       SigintCb, RotateCb, Invoke, IInv, Calling
  <2> QED
    BY <1>1, <2>1, <2>2 DEF Next, Exited, Poll, vars
<1>2. IInv /\ [Next]_vars =>
        [\A i \in Sockets : st[i] = "FINI" => st'[i] = "FINI"]_vars
  BY <1>1
<1> QED
  BY <1>2, Invariance, PTL DEF Spec, FiniFinal

-----------------------------------------------------------------------------
(* Snarf implements Session. *)

\* The states a socket may be in when prepare() is at a label.
Station == [UNK |-> {"UNK"}, CONN |-> {"CONN"}, CONND |-> {"CONN", "CONND"},
            AUTH |-> {"AUTH"}, AUTHD |-> {"AUTH", "AUTHD"}, JOIN |-> {"JOIN"},
            JOIND |-> {"JOIND"}, DISC |-> {"UNK", "CONN", "JOIND", "NODATA", "INTR"},
            FINI |-> {"FINI"}]
Stationed == pc \in Cases => st[idx] \in Station[pc]

LEMMA NextStationed == IInv /\ Stationed /\ [Next]_vars => Stationed'
<1> SUFFICES ASSUME IInv, Stationed, [Next]_vars PROVE Stationed'
  OBVIOUS
<1>t. TypeOK
  BY DEF IInv
<1>1. CASE Switch
  BY <1>1, <1>t DEF Switch, Goto, TypeOK, Stationed, Station, States, Cases
<1>2. CASE CaseUnk \/ CaseUnkFail
  BY <1>2, <1>t DEF CaseUnk, CaseUnkFail, Goto, TypeOK, Stationed, Station, Cases
<1>3. CASE CaseConn \/ CaseConnd
  BY <1>3, <1>t DEF CaseConn, CaseConnd, Goto, Break, TypeOK, Stationed, Station, Cases
<1>4. CASE CaseAuth \/ CaseAuthd
  BY <1>4, <1>t DEF CaseAuth, CaseAuthd, Request, Goto, Break, TypeOK, Stationed, Station, Cases
<1>5. CASE CaseJoin \/ CaseJoind
  BY <1>5, <1>t DEF CaseJoin, CaseJoind, Request, Goto, Break, TypeOK, Stationed, Station, Cases
<1>6. CASE CaseDisc \/ CaseFini
  BY <1>6, <1>t DEF CaseDisc, CaseFini, Goto, Break, TypeOK, Stationed, Station, Cases
<1>7. CASE Poll
  BY <1>7 DEF Poll, Stationed, Cases
<1>8. CASE Callback
  BY <1>8 DEF Callback, WsCb, Sio3Cb, WsCbFail, RestCb, RestCbFail, HbeatCb,
     SigintCb, RotateCb, Return, Stationed, Cases
<1>9. CASE UNCHANGED vars
  BY <1>9 DEF vars, Stationed
<1> QED
  BY <1>1, <1>2, <1>3, <1>4, <1>5, <1>6, <1>7, <1>8, <1>9 DEF Next, Prepare, Exited

LEMMA Stations == ASSUME SnarfConstants PROVE Spec => []Stationed
<1>1. Init => Stationed
  BY DEF Init, Stationed, Cases
<1> QED
  BY <1>1, NextStationed, Invariance, PTL DEF Spec

\* Steps of prepare() are steps of a session.
LEMMA PrepareKeeps ==
  ASSUME IInv, Stationed, Prepare
  PROVE  \/ UNCHANGED <<st, ws>>
         \/ \E i \in Sockets : Promise!Open(i) \/ Promise!Proceed(i) \/ Promise!Over(i)
<1>t. TypeOK /\ Labels /\ Slots /\ idx \in Sockets
  BY DEF IInv, TypeOK
<1>1. CASE Switch \/ CaseConn \/ CaseJoind \/ CaseFini
  BY <1>1 DEF Switch, CaseConn, CaseJoind, CaseFini
<1>2. CASE CaseUnk
  <2>1. Promise!Open(idx)
    BY <1>2, <1>t DEF CaseUnk, open_coin, Labels, Slots, Promise!Open, Promise!Become
  <2> QED
    BY <2>1, <1>t
<1>3. CASE CaseUnkFail
  <2>1. ws' = ws
    BY <1>3, <1>t DEF CaseUnkFail, Labels, Slots, TypeOK
  <2> QED
    BY <2>1, <1>3 DEF CaseUnkFail
<1>4. CASE CaseConnd \/ CaseAuthd
  <2>1. /\ ws[idx] /\ UNCHANGED ws
        /\ \/ st[idx] \in {"CONN", "CONND"} /\ st' = [st EXCEPT ![idx] = "AUTH"]
           \/ st[idx] \in {"AUTH", "AUTHD"} /\ st' = [st EXCEPT ![idx] = "JOIN"]
    BY <1>4, <1>t DEF CaseConnd, CaseAuthd, Stationed, Station, Cases, Labels, Connected
  <2>2. Promise!Proceed(idx)
    BY <2>1 DEF Promise!Proceed, Promise!Become, Promise!Ahead, Promise!Answered, Promise!Back
  <2> QED
    BY <2>2, <1>t
<1>5. CASE CaseAuth \/ CaseJoin
  <2>1. /\ ws[idx] /\ UNCHANGED ws
        /\ \/ UNCHANGED st
           \/ st[idx] = "AUTH" /\ st' = [st EXCEPT ![idx] = "CONND"]
           \/ st[idx] = "JOIN" /\ st' = [st EXCEPT ![idx] = "AUTHD"]
           \/ st[idx] = "JOIN" /\ st' = [st EXCEPT ![idx] = "JOIND"]
    BY <1>5, <1>t DEF CaseAuth, CaseJoin, Request, Stationed, Station, Cases, Labels, Connected
  <2>2. UNCHANGED st \/ Promise!Proceed(idx)
    BY <2>1 DEF Promise!Proceed, Promise!Become, Promise!Ahead, Promise!Answered, Promise!Back
  <2> QED
    BY <2>1, <2>2, <1>t
<1>6. CASE CaseDisc
  <2>1. Promise!Over(idx)
    BY <1>6, <1>t DEF CaseDisc, fini_coin, Stationed, Station, Cases, Promise!Over, Promise!Become
  <2> QED
    BY <2>1, <1>t
<1> QED
  BY <1>1, <1>2, <1>3, <1>4, <1>5, <1>6, Prepare DEF Prepare

\* So are those of the callbacks, all of which have a connection.
LEMMA CallbackKeeps ==
  ASSUME IInv, Callback
  PROVE  \/ UNCHANGED <<st, ws>>
         \/ Promise!Interrupt
         \/ \E i \in Sockets : Promise!Proceed(i) \/ Promise!Silence(i) \/ Promise!Hangup(i)
<1>t. TypeOK /\ Calling /\ Slots /\ DOMAIN st = Sockets
  BY DEF IInv, TypeOK
<1>1. ASSUME NEW i \in Sockets, WsCb(i) \/ Sio3Cb(i)
      PROVE  UNCHANGED <<st, ws>> \/ Promise!Proceed(i)
  <2>1. Invoke(Io(i)) /\ Handle(i) /\ UNCHANGED ws /\ Return
    BY <1>1 DEF WsCb, Sio3Cb
  <2>2. ws[i] /\ st[i] # "UNK"
    BY <2>1, <1>t, InvokeFacts, EventFacts DEF Io, Slots
  <2>3. \/ st' = st
        \/ st[i] = "CONN" /\ st' = [st EXCEPT ![i] = "CONND"]
        \/ st[i] = "AUTH" /\ st' = [st EXCEPT ![i] = "AUTHD"]
        \/ st[i] = "JOIN" /\ st' = [st EXCEPT ![i] = "JOIND"]
    BY <2>1, <2>2, <1>t DEF Handle, Upgrade, TypeOK
  <2> QED
    BY <2>1, <2>2, <2>3 DEF Promise!Proceed, Promise!Become, Promise!Ahead, Promise!Answered, Promise!Back
<1>2. ASSUME NEW i \in Sockets, WsCbFail(i) \/ RestCb(i) PROVE UNCHANGED <<st, ws>>
  BY <1>2 DEF WsCbFail, RestCb
<1>3. ASSUME NEW i \in Sockets, RestCbFail(i) PROVE Promise!Hangup(i)
  <2>1. Invoke(Io(i)) /\ Return /\ Proto[i] = "rest"
    BY <1>3 DEF RestCbFail
  <2>2. ws[i] /\ st[i] # "FINI"
    BY <2>1, <1>t, InvokeFacts, EventFacts DEF Io, Calling
  <2> QED
    BY <1>3, <2>1, <2>2 DEF RestCbFail, Promise!Hangup, Promise!Become
<1>4. ASSUME NEW i \in Sockets, HbeatCb(i)
      PROVE  UNCHANGED <<st, ws>> \/ Promise!Silence(i)
  <2>1. Invoke(Timer(i)) /\ Return /\ UNCHANGED ws
    BY <1>4 DEF HbeatCb
  <2>2. ws[i] /\ st[i] # "FINI"
    BY <2>1, <1>t, InvokeFacts, EventFacts DEF Timer, Calling
  <2>3. st' = st \/ st' = [st EXCEPT ![i] = "NODATA"]
    BY <1>4 DEF HbeatCb
  <2> QED
    BY <2>1, <2>2, <2>3 DEF Promise!Silence, Promise!Become
<1>5. CASE SigintCb
  <2>1. Invoke(Signal) /\ Return /\ UNCHANGED ws /\ st' = [i \in Sockets |-> "INTR"]
    BY <1>5 DEF SigintCb
  <2>2. \A i \in Sockets : st[i] # "FINI"
    BY <2>1, <1>t, InvokeFacts, EventFacts DEF Calling
  <2> QED
    BY <2>1, <2>2, <1>t DEF Promise!Interrupt, Promise!Sockets
<1>6. CASE RotateCb
  BY <1>6 DEF RotateCb
<1> QED
  BY <1>1, <1>2, <1>3, <1>4, <1>5, <1>6, Callback DEF Callback

\* The loop of wssnarf.c with its callbacks keeps the promise of Session: no
\* interleaving takes a socket through states out of order, opens a web socket
\* a second time or drops the connection of a session.
THEOREM KeepsSessions ==
  ASSUME SnarfConstants PROVE Spec => KeepsPromise
<1>1. Init => Promise!Init /\ Stationed
  BY DEF Init, Promise!Init, Promise!Sockets, Stationed, Cases
<1>2. IInv /\ Stationed /\ [Next]_vars =>
        [Promise!Next]_<<st, ws, [i \in Sockets |-> Proto[i] = "rest"]>>
  <2> SUFFICES ASSUME IInv, Stationed, [Next]_vars
               PROVE  Promise!Next \/ UNCHANGED <<st, ws>>
    OBVIOUS
  <2>1. Promise!Sockets = Sockets
    BY DEF IInv, TypeOK, Promise!Sockets
  <2>2. CASE Prepare
    BY <2>1, <2>2, PrepareKeeps DEF Promise!Next
  <2>3. CASE Callback
    BY <2>1, <2>3, CallbackKeeps DEF Promise!Next
  <2>4. CASE Poll \/ Exited \/ UNCHANGED vars
    BY <2>4 DEF Poll, Exited, vars
  <2> QED
    BY <2>2, <2>3, <2>4 DEF Next
<1> QED
  BY <1>1, <1>2, NextStationed, Invariance, PTL DEF Spec, KeepsPromise, Promise!Spec

-----------------------------------------------------------------------------
(* Lines are whole if the program does not wait before it joins. *)

\* A program that is connected and authorised at once, takes no answer to its
\* subscription for a refusal, and gets its messages uncompressed.
Prompt ==
  /\ conn_coin = {1} /\ auth_coin = {1}
  /\ -1 \notin join_coin /\ -1 \notin joind_coin
  /\ \A i \in Sockets : ~Inflate[i]

\* States a prompt program is in within prepare() only.
Transient == {"CONN", "CONND", "AUTH", "AUTHD"}

\* Nothing is read in those, so that case CONND and case AUTHD drop nothing;
\* the head of a line is dropped on sockets only that are to be closed.
Unbroken ==
  /\ ~torn
  /\ \A i \in Sockets : st[i] \in Transient => pc \in Cases /\ i = idx
  /\ \A i \in Sockets : st[i] \in Transient \cup {"UNK"} => part[i] = "none"
  /\ \A i \in Sockets : part[i] = "lost" => Proto[i] # "rest" /\ st[i] \in {"NODATA", "INTR", "FINI"}

LEMMA PrepareUnbroken ==
  ASSUME Prompt, IInv, Stationed, Unbroken, Prepare
  PROVE  Unbroken'
<1>t. /\ st \in [Sockets -> States] /\ part \in [Sockets -> {"none", "kept", "lost"}]
      /\ idx \in Sockets
  BY DEF IInv, TypeOK
<1>s. pc \in Cases => st[idx] \in Station[pc]
  BY DEF Stationed
<1>1. CASE Switch
  BY <1>1, <1>t DEF Switch, Goto, Unbroken, Transient, Cases
<1>2. CASE CaseUnk \/ CaseUnkFail
  BY <1>2, <1>t, <1>s DEF CaseUnk, CaseUnkFail, Goto, Unbroken, Transient, Cases, Station
<1>3. CASE CaseConn \/ CaseConnd
  BY <1>3, <1>t, <1>s DEF CaseConn, CaseConnd, Goto, Dropped, Prompt, Unbroken, Transient, Cases, Station
<1>4. CASE CaseAuth \/ CaseAuthd
  BY <1>4, <1>t, <1>s DEF CaseAuth, CaseAuthd, Request, Goto, Dropped, Prompt, Unbroken, Transient, Cases, Station
<1>5. CASE CaseJoin
  <2>1. /\ UNCHANGED <<part, torn>> /\ st[idx] = "JOIN"
        /\ st' = st \/ st' = [st EXCEPT ![idx] = "JOIND"]
    <3>1. join_coin \subseteq {0, 1}
      BY DEF Prompt, IInv, SnarfConstants
    <3>2. st[idx] = "JOIN"
      BY <1>5, <1>s DEF CaseJoin, Station, Cases
    <3>3. Request(join_coin, "AUTHD", "JOIND") => st' = st \/ st' = [st EXCEPT ![idx] = "JOIND"]
      BY <3>1 DEF Request
    <3> QED
      BY <1>5, <3>2, <3>3 DEF CaseJoin
  <2>2. \A i \in Sockets : st'[i] \notin Transient
    BY <2>1, <1>t DEF Unbroken, Transient
  <2> QED
    BY <2>1, <2>2, <1>t DEF Unbroken, Transient
<1>6. CASE CaseJoind \/ CaseFini
  <2>1. UNCHANGED <<st, part, torn>> /\ st[idx] \in {"JOIND", "FINI"}
    <3>1. CASE CaseJoind
      BY <3>1, <1>s DEF CaseJoind, Station, Cases
    <3>2. CASE CaseFini
      BY <3>2, <1>s DEF CaseFini, Station, Cases
    <3> QED
      BY <3>1, <3>2, <1>6
  <2>2. \A i \in Sockets : st[i] \notin Transient
    BY <2>1 DEF Unbroken, Transient
  <2> QED
    BY <2>1, <2>2 DEF Unbroken
<1>7. CASE CaseDisc
  BY <1>7, <1>t, <1>s DEF CaseDisc, Goto, Unbroken, Transient, Cases, Station
<1> QED
  BY <1>1, <1>2, <1>3, <1>4, <1>5, <1>6, <1>7, Prepare DEF Prepare

LEMMA CallbackUnbroken ==
  ASSUME Prompt, IInv, Unbroken, Callback
  PROVE  Unbroken'
<1>t. /\ st \in [Sockets -> States] /\ part \in [Sockets -> {"none", "kept", "lost"}]
      /\ torn = FALSE /\ pc = "call" /\ \A i \in Sockets : st[i] \notin Transient
  BY DEF IInv, TypeOK, Unbroken, Callback, SigintCb, RotateCb, WsCb, Sio3Cb, WsCbFail,
         RestCb, RestCbFail, HbeatCb, Invoke, Cases
<1>1. ASSUME NEW i \in Sockets, WsCb(i) \/ Sio3Cb(i) PROVE Unbroken'
  <2>1. Invoke(Io(i)) /\ Handle(i) /\ Return /\ Proto[i] # "rest"
    BY <1>1 DEF WsCb, Sio3Cb
  <2>2. st[i] # "UNK"
    BY <2>1, InvokeFacts, EventFacts DEF IInv, Slots, Io
  <2>3. PICK c \in Chunks :
          \/ st[i] \in {"JOIN", "JOIND"} /\ Split(i, c) /\ st' \in {st, [st EXCEPT ![i] = "JOIND"]}
          \/ st[i] \in {"NODATA", "INTR", "FINI"} /\ Discard(i, c) /\ st' = st
    <3>1. joind_coin \subseteq {0, 1} /\ joind_coin = Answers["JOIN"] /\ Upgrade["JOIN"] = "JOIND"
      BY DEF Prompt, IInv, SnarfConstants, Answers, Upgrade
    <3>2. \A c : Inflated(i, c) => Split(i, c)
      BY DEF Inflated, Prompt
    <3>3. \A j : st[j] = "JOIN" => st = [st EXCEPT ![j] = "JOIN"]
      BY <1>t
    <3>4. PICK c \in Chunks :
            \/ st[i] \in {"CONND", "AUTHD", "JOIND"} /\ Inflated(i, c) /\ st' = st
            \/ \E s \in {"CONN", "AUTH", "JOIN"} : \E r \in Answers[s] :
                 /\ st[i] = s \/ (st[i] = "UNK" /\ s = "CONN")
                 /\ \/ r < 0
                    \/ /\ r >= 0 /\ Inflated(i, c)
                       /\ st' = [st EXCEPT ![i] = IF r > 0 THEN Upgrade[s] ELSE s]
            \/ st[i] \in {"NODATA", "INTR", "FINI"} /\ Discard(i, c) /\ st' = st
      BY <2>1 DEF Handle
    <3>5. CASE st[i] = "JOIN"
      <4>1. PICK r \in joind_coin :
              /\ r >= 0 /\ Inflated(i, c)
              /\ st' = [st EXCEPT ![i] = IF r > 0 THEN "JOIND" ELSE "JOIN"]
        <5>1. PICK r \in Answers["JOIN"] :
                \/ r < 0
                \/ /\ r >= 0 /\ Inflated(i, c)
                   /\ st' = [st EXCEPT ![i] = IF r > 0 THEN Upgrade["JOIN"] ELSE "JOIN"]
          BY <3>4, <3>5
        <5> QED
          BY <5>1, <3>1
      <4>2. st' \in {st, [st EXCEPT ![i] = "JOIND"]}
        BY <4>1, <3>3, <3>5
      <4> QED
        BY <4>1, <4>2, <3>2, <3>5
    <3>6. CASE st[i] # "JOIN"
      BY <3>6, <3>4, <3>2, <2>2, <1>t DEF Transient
    <3> QED
      BY <3>5, <3>6
  <2>4. CASE st[i] \in {"JOIN", "JOIND"} /\ Split(i, c) /\ st' \in {st, [st EXCEPT ![i] = "JOIND"]}
    BY <2>4, <1>t DEF Split, Unbroken, Transient
  <2>5. CASE st[i] \in {"NODATA", "INTR", "FINI"} /\ Discard(i, c) /\ st' = st
    BY <2>5, <2>1, <1>t DEF Discard, Unbroken, Transient
  <2> QED
    BY <2>3, <2>4, <2>5
<1>2. ASSUME NEW i \in Sockets, WsCbFail(i) PROVE Unbroken'
  BY <1>2, <1>t DEF WsCbFail, Unbroken
<1>3. ASSUME NEW i \in Sockets, RestCb(i) PROVE Unbroken'
  <2>1. Invoke(Io(i)) /\ Return /\ Proto[i] = "rest" /\ st' = st
    BY <1>3 DEF RestCb
  <2>2. st[i] # "UNK"
    BY <2>1, InvokeFacts, EventFacts DEF IInv, Slots, Io
  <2> QED
    BY <2>1, <2>2, <1>3, <1>t DEF RestCb, Split, Unbroken, Transient
<1>4. ASSUME NEW i \in Sockets, RestCbFail(i) PROVE Unbroken'
  BY <1>4, <1>t DEF RestCbFail, Unbroken, Transient
<1>5. ASSUME NEW i \in Sockets, HbeatCb(i) PROVE Unbroken'
  BY <1>5, <1>t DEF HbeatCb, Unbroken, Transient
<1>6. CASE SigintCb
  BY <1>6, <1>t DEF SigintCb, Unbroken, Transient
<1>7. CASE RotateCb
  BY <1>7, <1>t DEF RotateCb, Unbroken
<1> QED
  BY <1>1, <1>2, <1>3, <1>4, <1>5, <1>6, <1>7, Callback DEF Callback

\* A program that does not wait before it joins (wssnarf.c:734) never logs a
\* line without its head, on any sockets and in any interleaving.
THEOREM PromptLinesAreWhole ==
  ASSUME SnarfConstants, Prompt PROVE Spec => []~torn
<1>1. Init => Stationed /\ Unbroken
  BY DEF Init, Stationed, Cases, Unbroken, Transient
<1>2. IInv /\ Stationed /\ Unbroken /\ [Next]_vars => Unbroken'
  BY PrepareUnbroken, CallbackUnbroken DEF Next, Poll, Exited, vars, Unbroken, Transient, Cases
<1>3. Unbroken => ~torn
  BY DEF Unbroken
<1> QED
  BY <1>1, <1>2, <1>3, NextStationed, Invariance, PTL DEF Spec
=============================================================================
