--------------------------- MODULE ClientsProofs ----------------------------
(***************************************************************************)
(* What SnarfProofs shows for any callbacks carries over to the programs   *)
(* of Clients: a behaviour of Clients is one of Snarf with the constants   *)
(* of the program that is running, which never changes.  That program is   *)
(* a parameter here, so that the theorems hold for every one.              *)
(***************************************************************************)
EXTENDS Clients, TLAPS

CONSTANT this   \* the program that is running

Loop == INSTANCE SnarfProofs WITH
  NS <- Len(this.socks),
  Proto <- [i \in DOMAIN this.socks |-> this.socks[i].proto],
  Heartbeat <- [i \in DOMAIN this.socks |-> this.socks[i].hb],
  MaxInact <- [i \in DOMAIN this.socks |-> this.socks[i].inact],
  Inflate <- [i \in DOMAIN this.socks |-> this.socks[i].infl],
  conn_coin <- this.conn, connd_coin <- this.connd, auth_coin <- this.auth,
  authd_coin <- this.authd, join_coin <- this.join, joind_coin <- this.joind,
  heartbeat <- this.beat

-----------------------------------------------------------------------------
(* The actions of Linked(this) are those of Loop *)

LEMMA SameConstants == Linked(this)!SnarfConstants <=> Loop!SnarfConstants
  BY DEF Linked!SnarfConstants, Linked!Sockets, Linked!Never,
         Loop!SnarfConstants, Loop!Sockets, Loop!Never

LEMMA SameInit == Linked(this)!Init <=> Loop!Init
  BY DEF Linked!Init, Linked!Sockets, Loop!Init, Loop!Sockets

LEMMA SamePoll == Linked(this)!Poll <=> Loop!Poll
  BY DEF Linked!Poll, Linked!Ready, Linked!Signal, Linked!Rotate, Linked!Io,
         Linked!Timer, Linked!Sockets, Linked!Sat,
         Loop!Poll, Loop!Ready, Loop!Signal, Loop!Rotate, Loop!Io,
         Loop!Timer, Loop!Sockets, Loop!Sat

LEMMA SamePrepare == Linked(this)!Prepare <=> Loop!Prepare
<1>1. Linked(this)!Switch <=> Loop!Switch
  BY DEF Linked!Switch, Linked!Goto, Loop!Switch, Loop!Goto
<1>2. Linked(this)!CaseUnk <=> Loop!CaseUnk
  BY DEF Linked!CaseUnk, Linked!open_coin, Linked!Goto, Loop!CaseUnk, Loop!open_coin, Loop!Goto
<1>3. Linked(this)!CaseUnkFail <=> Loop!CaseUnkFail
  BY DEF Linked!CaseUnkFail, Linked!Goto, Loop!CaseUnkFail, Loop!Goto
<1>4. Linked(this)!CaseConn <=> Loop!CaseConn
  BY DEF Linked!CaseConn, Linked!Goto, Linked!Break, Loop!CaseConn, Loop!Goto, Loop!Break
<1>5. Linked(this)!CaseConnd <=> Loop!CaseConnd
  BY DEF Linked!CaseConnd, Linked!Goto, Linked!Dropped, Loop!CaseConnd, Loop!Goto, Loop!Dropped
<1>6. Linked(this)!CaseAuth <=> Loop!CaseAuth
  BY DEF Linked!CaseAuth, Linked!Request, Linked!Goto, Linked!Break,
         Loop!CaseAuth, Loop!Request, Loop!Goto, Loop!Break
<1>7. Linked(this)!CaseAuthd <=> Loop!CaseAuthd
  BY DEF Linked!CaseAuthd, Linked!Goto, Linked!Dropped, Loop!CaseAuthd, Loop!Goto, Loop!Dropped
<1>8. Linked(this)!CaseJoin <=> Loop!CaseJoin
  BY DEF Linked!CaseJoin, Linked!Request, Linked!Goto, Linked!Break,
         Loop!CaseJoin, Loop!Request, Loop!Goto, Loop!Break
<1>9. Linked(this)!CaseJoind <=> Loop!CaseJoind
  BY DEF Linked!CaseJoind, Linked!Goto, Linked!Break, Loop!CaseJoind, Loop!Goto, Loop!Break
<1>10. Linked(this)!CaseDisc <=> Loop!CaseDisc
  BY DEF Linked!CaseDisc, Linked!fini_coin, Linked!Goto, Loop!CaseDisc, Loop!fini_coin, Loop!Goto
<1>11. Linked(this)!CaseFini <=> Loop!CaseFini
  BY DEF Linked!CaseFini, Linked!Break, Loop!CaseFini, Loop!Break
<1> QED
  BY <1>1, <1>2, <1>3, <1>4, <1>5, <1>6, <1>7, <1>8, <1>9, <1>10, <1>11
     DEF Linked!Prepare, Loop!Prepare

LEMMA SameHandle == ASSUME NEW i PROVE Linked(this)!Handle(i) <=> Loop!Handle(i)
  BY DEF Linked!Handle, Linked!Chunks, Linked!Inflated, Linked!Split,
         Linked!LogActive, Linked!LogUnr, Linked!Discard, Linked!Dropped,
         Linked!Answers, Linked!Upgrade, Linked!Log, Linked!Sat,
         Linked!Sockets, Loop!Handle, Loop!Chunks, Loop!Inflated,
         Loop!Split, Loop!LogActive, Loop!LogUnr, Loop!Discard,
         Loop!Dropped, Loop!Answers, Loop!Upgrade, Loop!Log, Loop!Sat,
         Loop!Sockets

LEMMA SameCallback == Linked(this)!Callback <=> Loop!Callback
<1>1. Linked(this)!SigintCb <=> Loop!SigintCb
  BY DEF Linked!SigintCb, Linked!Signal, Linked!Order, Linked!Invoke,
         Linked!Return, Linked!Log, Linked!Sat, Linked!Sockets,
         Loop!SigintCb, Loop!Signal, Loop!Order, Loop!Invoke, Loop!Return,
         Loop!Log, Loop!Sat, Loop!Sockets
<1>2. Linked(this)!RotateCb <=> Loop!RotateCb
  BY DEF Linked!RotateCb, Linked!Rotate, Linked!Order, Linked!Invoke,
         Linked!Return, Linked!Log, Linked!Sat, Linked!Sockets,
         Loop!RotateCb, Loop!Rotate, Loop!Order, Loop!Invoke, Loop!Return,
         Loop!Log, Loop!Sat, Loop!Sockets
<1>3. ASSUME NEW i PROVE Linked(this)!WsCb(i) <=> Loop!WsCb(i)
  BY SameHandle DEF Linked!WsCb, Linked!Io, Linked!Order, Linked!Invoke,
         Linked!Return, Loop!WsCb, Loop!Io, Loop!Order, Loop!Invoke,
         Loop!Return
<1>4. ASSUME NEW i PROVE Linked(this)!Sio3Cb(i) <=> Loop!Sio3Cb(i)
  BY SameHandle DEF Linked!Sio3Cb, Linked!Io, Linked!Order, Linked!Invoke,
         Linked!Return, Loop!Sio3Cb, Loop!Io, Loop!Order, Loop!Invoke,
         Loop!Return
<1>5. ASSUME NEW i PROVE Linked(this)!WsCbFail(i) <=> Loop!WsCbFail(i)
  BY DEF Linked!WsCbFail, Linked!Io, Linked!Invoke, Linked!Return,
         Linked!Log, Linked!Sat, Linked!Sockets, Linked!Order,
         Loop!WsCbFail, Loop!Io, Loop!Invoke, Loop!Return, Loop!Log,
         Loop!Sat, Loop!Sockets, Loop!Order
<1>6. ASSUME NEW i PROVE Linked(this)!RestCb(i) <=> Loop!RestCb(i)
  BY DEF Linked!RestCb, Linked!Chunks, Linked!Split, Linked!Io,
         Linked!Invoke, Linked!Return, Linked!Log, Linked!Sat,
         Linked!Sockets, Linked!Order, Loop!RestCb, Loop!Chunks,
         Loop!Split, Loop!Io, Loop!Invoke, Loop!Return, Loop!Log, Loop!Sat,
         Loop!Sockets, Loop!Order
<1>7. ASSUME NEW i PROVE Linked(this)!RestCbFail(i) <=> Loop!RestCbFail(i)
  BY DEF Linked!RestCbFail, Linked!Io, Linked!Invoke, Linked!Return,
         Linked!Order, Loop!RestCbFail, Loop!Io, Loop!Invoke, Loop!Return,
         Loop!Order
<1>8. ASSUME NEW i PROVE Linked(this)!HbeatCb(i) <=> Loop!HbeatCb(i)
  BY DEF Linked!HbeatCb, Linked!Timer, Linked!Invoke, Linked!Return,
         Linked!Log, Linked!Sat, Linked!Sockets, Linked!Order,
         Loop!HbeatCb, Loop!Timer, Loop!Invoke, Loop!Return, Loop!Log,
         Loop!Sat, Loop!Sockets, Loop!Order
<1> QED
  BY <1>1, <1>2, <1>3, <1>4, <1>5, <1>6, <1>7, <1>8
     DEF Linked!Callback, Loop!Callback, Linked!Sockets, Loop!Sockets

-----------------------------------------------------------------------------
(* Theorems *)

\* The constants the program gives to the loop are such as Snarf speaks of.
LEMMA ThisConstants == ASSUME this \in Programs PROVE Loop!SnarfConstants
  BY ProgramsAssumption, SameConstants

\* A behaviour of Clients is a behaviour of the program's loop.
LEMMA Runs ==
  ASSUME this \in Programs
  PROVE  Spec /\ prog = this => Loop!Spec /\ [](prog = this)
<1>1. Init /\ prog = this => Loop!Init
  BY SameInit DEF Init
<1>2. prog = this /\ [Next]_vars => (prog = this)' /\ [Loop!Next]_(Loop!vars)
  <2> SUFFICES ASSUME prog = this, [Next]_vars
               PROVE  prog' = this /\ [Loop!Next]_(Loop!vars)
    OBVIOUS
  <2>1. CASE Prepare
    BY <2>1, SamePrepare DEF Prepare, Running, Loop!Next
  <2>2. CASE Poll
    BY <2>2, SamePoll DEF Poll, Running, Loop!Next
  <2>3. CASE Callback
    BY <2>3, SameCallback DEF Callback, Running, Loop!Next
  <2>4. CASE Exited \/ UNCHANGED vars
    BY <2>4 DEF Exited, vars, svars, Loop!vars
  <2> QED
    BY <2>1, <2>2, <2>3, <2>4 DEF Next
<1> QED
  BY <1>1, <1>2, PTL DEF Spec, Loop!Spec

\* prepare() and the callbacks keep the types of their variables and to the
\* registered sockets (wssnarf.c:702), in each of the programs.
THEOREM TypeCorrect ==
  ASSUME this \in Programs PROVE Spec /\ prog = this => []TypeOK
<1>1. prog = this /\ Loop!TypeOK => TypeOK
  BY DEF TypeOK, Linked!TypeOK, Linked!Sockets, Linked!States, Linked!Cases, Linked!Events,
         Linked!Signal, Linked!Rotate, Linked!Io, Linked!Timer,
         Loop!TypeOK, Loop!Sockets, Loop!States, Loop!Cases, Loop!Events,
         Loop!Signal, Loop!Rotate, Loop!Io, Loop!Timer
<1>2. Loop!Spec => []Loop!TypeOK
  BY ThisConstants, Loop!TypeCorrect
<1> QED
  BY <1>1, <1>2, Runs, PTL

\* Each of the programs opens connections in vacant slots only (wssnarf.c:713).
THEOREM SlotsAreFresh ==
  ASSUME this \in Programs PROVE Spec /\ prog = this => []SlotFresh
<1>1. prog = this /\ Loop!SlotFresh => SlotFresh
  BY DEF SlotFresh, Linked!SlotFresh, Loop!SlotFresh
<1>2. Loop!Spec => []Loop!SlotFresh
  BY ThisConstants, Loop!SlotsAreFresh
<1> QED
  BY <1>1, <1>2, Runs, PTL

\* In none of the programs is a connection used that has been closed
\* (wssnarf.c:290, 574).
THEOREM ConnectionsAreOpen ==
  ASSUME this \in Programs PROVE Spec /\ prog = this => []CallsHaveSocket
<1>1. prog = this /\ Loop!CallsHaveSocket => CallsHaveSocket
  BY DEF CallsHaveSocket, Linked!CallsHaveSocket, Linked!Connected,
         Loop!CallsHaveSocket, Loop!Connected
<1>2. Loop!Spec => []Loop!CallsHaveSocket
  BY ThisConstants, Loop!ConnectionsAreOpen
<1> QED
  BY <1>1, <1>2, Runs, PTL

\* Each of the programs implements the sessions of Session: prepare()
\* (wssnarf.c:703) and the callbacks take no socket through states out of order.
THEOREM KeepsSessions ==
  ASSUME this \in Programs PROVE Spec /\ prog = this => KeepsPromise
<1> DEFINE R == [i \in DOMAIN prog.socks |-> prog.socks[i].proto = "rest"]
           Q == [i \in Loop!Sockets |-> [i_1 \in DOMAIN this.socks |-> this.socks[i_1].proto][i] = "rest"]
<1>1. Loop!Spec => Loop!KeepsPromise
  BY ThisConstants, Loop!KeepsSessions
<1>2. prog = this => R = Q
  <2>1. DOMAIN this.socks = 1 .. Len(this.socks)
    BY ThisConstants DEF Loop!SnarfConstants, Loop!Sockets
  <2> QED
    BY <2>1 DEF Loop!Sockets
<1>3. Loop!Promise!Init => Promise!Init
  BY DEF Loop!Promise!Init, Promise!Init, Loop!Promise!Sockets, Promise!Sockets
<1>4. prog = this /\ (prog = this)' /\ [Loop!Promise!Next]_<<st, ws, Q>>
      => [Promise!Next]_<<st, ws, R>>
  <2> SUFFICES ASSUME prog = this, prog' = this, [Loop!Promise!Next]_<<st, ws, Q>>
               PROVE  [Promise!Next]_<<st, ws, R>>
    OBVIOUS
  <2>1. R = Q /\ R' = R
    BY <1>2
  <2>2. Loop!Promise!Interrupt <=> Promise!Interrupt
    BY DEF Loop!Promise!Interrupt, Promise!Interrupt, Loop!Promise!Sockets, Promise!Sockets
  <2>3. ASSUME NEW i
        PROVE  /\ Loop!Promise!Open(i) <=> Promise!Open(i)
               /\ Loop!Promise!Proceed(i) <=> Promise!Proceed(i)
               /\ Loop!Promise!Silence(i) <=> Promise!Silence(i)
               /\ Loop!Promise!Over(i) <=> Promise!Over(i)
    BY DEF Loop!Promise!Open, Promise!Open, Loop!Promise!Proceed, Promise!Proceed,
           Loop!Promise!Silence, Promise!Silence, Loop!Promise!Over, Promise!Over,
           Loop!Promise!Become, Promise!Become, Loop!Promise!Ahead, Promise!Ahead,
           Loop!Promise!Answered, Promise!Answered, Loop!Promise!Back, Promise!Back
  <2>4. ASSUME NEW i PROVE Loop!Promise!Hangup(i) <=> Promise!Hangup(i)
    BY <2>1 DEF Loop!Promise!Hangup, Promise!Hangup, Loop!Promise!Become, Promise!Become
  <2>5. Loop!Promise!Next => Promise!Next
    BY <2>1, <2>2, <2>3, <2>4 DEF Loop!Promise!Next, Promise!Next, Loop!Promise!Sockets, Promise!Sockets
  <2> QED
    BY <2>1, <2>5
<1>5. Loop!KeepsPromise => Loop!Promise!Init /\ [][Loop!Promise!Next]_<<st, ws, Q>>
  BY DEF Loop!KeepsPromise, Loop!Promise!Spec
<1>6. Promise!Init /\ [][Promise!Next]_<<st, ws, R>> => KeepsPromise
  BY DEF KeepsPromise, Promise!Spec
<1> HIDE DEF R, Q
<1> QED
  BY <1>1, <1>3, <1>4, <1>5, <1>6, Runs, PTL

-----------------------------------------------------------------------------
(* What depends on the program *)

\* Answers to subscriptions are not looked at by those that connect at once, and
\* but one program counts its subscriptions.
LEMMA Peculiar ==
  ASSUME this \in Programs
  PROVE  /\ this.conn = {1} => this.joind = {1}
         /\ this.counts => this = fast
<1> DEFINE Usual(p) == p.joind = {1} /\ ~p.counts
<1>1. \A p \in {bncwss, hitwss, gemini, btsp, bitmex, bitso} : Usual(p)
  <2>1. \A socks : Usual(Trivial(socks))
    BY DEF Trivial
  <2> QED
    BY <2>1 DEF bncwss, hitwss, gemini, btsp, bitmex, bitso
<1>2. \A p \in {bitfin, trtwss, blinkwss, luno, kaiko, deribit} : Usual(p)
  BY DEF bitfin, trtwss, blinkwss, luno, kaiko, deribit, Trivial
<1>3. \A p \in {ff, cbix, huobi} : Usual(p)
  BY DEF ff, cbix, huobi, Trivial
<1>4. Usual(coin) /\ Usual(plxwss)
  BY DEF coin, plxwss, Trivial
<1>5. Usual(cexwss) /\ Usual(spacebtc) /\ Usual(paymium)
  BY DEF cexwss, spacebtc, paymium, Trivial
<1>6. Usual(coinfl)
  BY DEF coinfl, Trivial
<1>7. fast.joind = {1}
  BY DEF fast, Trivial
<1>8. any1.conn # {1} /\ ~any1.counts
  <2>1. any1.conn = -1..1 /\ ~any1.counts
    BY DEF any1
  <2>2. 0 \in -1..1 /\ 0 \notin {1}
    OBVIOUS
  <2> QED
    BY <2>1, <2>2
<1>9. any2.conn # {1} /\ ~any2.counts
  <2>1. any2.conn = {-1, 1} /\ ~any2.counts
    BY DEF any2, Trivial
  <2>2. -1 \in {-1, 1} /\ -1 \notin {1}
    OBVIOUS
  <2> QED
    BY <2>1, <2>2
<1>10. this \in Exchanges \cup {any1, any2}
  BY ProgramsAssumption
<1> HIDE DEF Usual
<1>11. Usual(this) \/ this = fast \/ this = any1 \/ this = any2
  BY <1>1, <1>2, <1>3, <1>4, <1>5, <1>6, <1>10 DEF Exchanges
<1> QED
  BY <1>7, <1>8, <1>9, <1>11 DEF Usual

\* The programs that do not wait before they join (wssnarf.c:734) and get their
\* messages uncompressed never log a line without its head.
THEOREM LinesStayWhole ==
  ASSUME this \in Programs PROVE Spec /\ prog = this => []LinesAreWhole
<1> DEFINE P == /\ this.conn = {1} /\ this.auth = {1} /\ -1 \notin this.join
                /\ \A i \in DOMAIN this.socks : ~this.socks[i].infl
<1>1. CASE P
  <2>1. Loop!Prompt
    <3>1. DOMAIN this.socks = 1 .. Len(this.socks)
      BY ThisConstants DEF Loop!SnarfConstants, Loop!Sockets
    <3> QED
      BY <1>1, <3>1, Peculiar DEF Loop!Prompt, Loop!Sockets
  <2>2. Loop!Spec => []~torn
    BY <2>1, ThisConstants, Loop!PromptLinesAreWhole
  <2>3. ~torn => LinesAreWhole
    BY DEF LinesAreWhole, WholeLines
  <2> QED
    BY <2>2, <2>3, Runs, PTL
<1>2. CASE ~P
  <2>1. prog = this => LinesAreWhole
    BY <1>2 DEF LinesAreWhole
  <2> QED
    BY <2>1, Runs, PTL
<1> QED
  BY <1>1, <1>2

\* The subscriptions of fast.c: in the first round of prepare() each socket that
\* can be opened is joined, the second after the first.  That the first could
\* not be opened breaks the loop.
Before == {"UNK", "CONN", "CONND", "AUTH", "AUTHD", "JOIN"}
Turns ==
  /\ joins \in {<<>>, <<1>>, <<2>>, <<1, 2>>}
  /\ st[1] \in Before => /\ idx = 1 /\ pc \in Loop!Cases \cup {"switch"}
                         /\ joins = <<>> /\ st[2] = "UNK"
  /\ st[2] \in Before => /\ pc \in Loop!Cases \cup {"switch"} /\ joins \in {<<>>, <<1>>}
                         /\ idx = 1 => st[2] = "UNK"
  /\ joins = <<2>> => brk
  /\ joins = <<>> => st[1] \in Before \/ brk \/ (pc = "FINI" /\ idx = 1)

\* What fast.c is like.
LEMMA Fast ==
  ASSUME this = fast
  PROVE  /\ Loop!Sockets = {1, 2} /\ Len(this.socks) = 2
         /\ \A i \in {1, 2} : [k \in DOMAIN this.socks |-> this.socks[k].proto][i] = "ws"
         /\ this.conn = {1} /\ this.auth = {1} /\ this.join = {1} /\ this.counts = TRUE
<1>1. this.socks = <<Sock("ws", TRUE, 1), Sock("ws", FALSE, 2)>>
  BY DEF fast, Trivial
<1>3. this.conn = {1} /\ this.auth = {1} /\ this.join = {1} /\ this.counts = TRUE
  BY DEF fast, Trivial
<1>4. Len(this.socks) = 2 /\ DOMAIN this.socks = {1, 2}
  <2> DEFINE a == Sock("ws", TRUE, 1)
             b == Sock("ws", FALSE, 2)
  <2> HIDE DEF a, b
  <2>1. Len(<<a, b>>) = 2 /\ DOMAIN <<a, b>> = 1..2
    OBVIOUS
  <2>2. 1..2 = {1, 2}
    OBVIOUS
  <2> QED
    BY <1>1, <2>1, <2>2 DEF a, b
<1>5. \A i \in {1, 2} : this.socks[i].proto = "ws"
  <2> DEFINE a == Sock("ws", TRUE, 1)
             b == Sock("ws", FALSE, 2)
  <2>1. a.proto = "ws" /\ b.proto = "ws"
    BY DEF Sock
  <2>2. this.socks = <<a, b>>
    BY <1>1
  <2> HIDE DEF a, b
  <2>3. this.socks[1] = a /\ this.socks[2] = b
    BY <2>2
  <2>4. \A i \in {1, 2} : i = 1 \/ i = 2
    OBVIOUS
  <2> QED
    BY <2>1, <2>3, <2>4
<1>6. Loop!Sockets = {1, 2}
  BY <1>4 DEF Loop!Sockets
<1> QED
  BY <1>3, <1>4, <1>5, <1>6

LEMMA OneTwo == Append(<<1>>, 2) = <<1, 2>>
<1> DEFINE a == Append(<<1>>, 2)
<1>1. a \in Seq(Nat) /\ DOMAIN a = 1..2
  OBVIOUS
<1>2. \A i \in 1..2 : a[i] = <<1, 2>>[i]
  OBVIOUS
<1>3. a = [i \in 1..2 |-> a[i]] /\ <<1, 2>> = [i \in 1..2 |-> <<1, 2>>[i]]
  BY <1>1
<1> QED
  BY <1>2, <1>3, Zenon

LEMMA PrepareTurns ==
  ASSUME this = fast, prog = this, Loop!IInv, Loop!Stationed, Turns, Loop!Prepare, CountJoin(this)
  PROVE  Turns'
<1>t. /\ st \in [{1, 2} -> Loop!States] /\ idx \in {1, 2} /\ brk \in BOOLEAN
  BY Fast DEF Loop!IInv, Loop!TypeOK
<1>s. pc \in Loop!Cases => st[idx] \in Loop!Station[pc]
  BY DEF Loop!Stationed
<1>b. ASSUME NEW b, Loop!Break(b)
      PROVE  IF idx = 1 THEN pc' = "switch" /\ idx' = 2
             ELSE pc' = (IF b THEN "exited" ELSE "poll") /\ idx' = 1
  <2>1. Len(this.socks) = 2
    BY Fast
  <2> QED
    BY <1>b, <1>t, <2>1 DEF Loop!Break
<1>1. CASE Loop!Switch
  BY <1>1, <1>t DEF Loop!Switch, Loop!Goto, Loop!States, Loop!Cases, CountJoin, Turns, Before
<1>2. CASE Loop!CaseUnk
  BY <1>2, <1>t, <1>s DEF Loop!CaseUnk, Loop!Goto, Loop!Cases, Loop!Station, CountJoin, Turns, Before
<1>3. CASE Loop!CaseUnkFail
  BY <1>3, <1>t, <1>s DEF Loop!CaseUnkFail, Loop!Goto, Loop!Cases, Loop!Station, CountJoin, Turns, Before
<1>4. CASE Loop!CaseConn
  BY <1>4, <1>t, <1>s, Fast DEF Loop!CaseConn, Loop!Goto, Loop!Cases, Loop!Station, CountJoin, Turns, Before
<1>5. CASE Loop!CaseConnd
  BY <1>5, <1>t, <1>s DEF Loop!CaseConnd, Loop!Goto, Loop!Cases, Loop!Station, CountJoin, Turns, Before
<1>6. CASE Loop!CaseAuth
  <2>1. Loop!Goto("AUTHD") /\ UNCHANGED <<st, brk>>
    BY <1>6, <1>t, Fast DEF Loop!CaseAuth, Loop!Request
  <2> QED
    BY <1>6, <2>1, <1>t, <1>s DEF Loop!CaseAuth, Loop!Goto, Loop!Cases, Loop!Station, CountJoin, Turns, Before
<1>7. CASE Loop!CaseAuthd
  BY <1>7, <1>t, <1>s DEF Loop!CaseAuthd, Loop!Goto, Loop!Cases, Loop!Station, CountJoin, Turns, Before
<1>8. CASE Loop!CaseJoin
  <2>1. pc = "JOIN" /\ Loop!Goto("JOIND") /\ st' = [st EXCEPT ![idx] = "JOIND"] /\ UNCHANGED brk
    BY <1>8, <1>t, Fast DEF Loop!CaseJoin, Loop!Request
  <2>2. st[idx] = "JOIN"
    BY <2>1, <1>s DEF Loop!Station, Loop!Cases
  <2>3. joins' = Append(joins, idx)
    BY <2>1, Fast DEF CountJoin
  <2>4. CASE idx = 1
    <3>1. joins = <<>> /\ st[2] = "UNK"
      BY <2>2, <2>4 DEF Turns, Before
    <3>2. joins' = <<1>>
      BY <2>3, <2>4, <3>1
    <3> QED
      BY <2>1, <2>4, <3>1, <3>2, <1>t DEF Loop!Goto, Loop!Cases, Turns, Before
  <2>5. CASE idx = 2
    <3>1. joins \in {<<>>, <<1>>} /\ st[1] \notin Before /\ (joins = <<>> => brk)
      BY <2>1, <2>2, <2>5 DEF Turns, Before
    <3>2. (joins' = <<2>> /\ brk) \/ joins' = <<1, 2>>
      <4>1. Append(<<>>, 2) = <<2>>
        OBVIOUS
      <4> QED
        BY <2>3, <2>5, <3>1, <4>1, OneTwo
    <3>3. joins' # <<>> /\ (joins' = <<2>> => brk)
      BY <3>2
    <3> QED
      BY <2>1, <2>5, <3>1, <3>2, <3>3, <1>t DEF Loop!Goto, Loop!Cases, Turns, Before
  <2> QED
    BY <2>4, <2>5, <1>t
<1>9. CASE Loop!CaseJoind
  BY <1>9, <1>t, <1>s, <1>b DEF Loop!CaseJoind, Loop!Goto, Loop!Cases, Loop!Station, CountJoin, Turns, Before
<1>10. CASE Loop!CaseDisc
  BY <1>10, <1>t, <1>s DEF Loop!CaseDisc, Loop!Goto, Loop!Cases, Loop!Station, CountJoin, Turns, Before
<1>11. CASE Loop!CaseFini
  BY <1>11, <1>t, <1>s, <1>b DEF Loop!CaseFini, Loop!Cases, Loop!Station, CountJoin, Turns, Before
<1> QED
  BY <1>1, <1>2, <1>3, <1>4, <1>5, <1>6, <1>7, <1>8, <1>9, <1>10, <1>11 DEF Loop!Prepare

LEMMA CallbackTurns ==
  ASSUME this = fast, Loop!IInv, Turns, Loop!Callback, UNCHANGED joins
  PROVE  Turns'
<1>t. /\ st \in [{1, 2} -> Loop!States] /\ pc = "call"
      /\ st[1] \notin Before /\ st[2] \notin Before
  <2>1. pc = "call"
    BY DEF Loop!Callback, Loop!SigintCb, Loop!RotateCb, Loop!WsCb, Loop!Sio3Cb,
           Loop!WsCbFail, Loop!RestCb, Loop!RestCbFail, Loop!HbeatCb, Loop!Invoke
  <2> QED
    BY <2>1, Fast DEF Turns, Loop!IInv, Loop!TypeOK, Loop!Cases
<1>1. brk => brk'
  BY SMTT(60), ZenonT(60) DEF Loop!Callback, Loop!SigintCb, Loop!RotateCb, Loop!WsCb, Loop!Sio3Cb, Loop!Handle,
         Loop!WsCbFail, Loop!RestCb, Loop!RestCbFail, Loop!HbeatCb
<1>2. \A i \in {1, 2} : st'[i] \notin Before
  <2>1. ASSUME NEW i \in {1, 2}, Loop!WsCb(i) \/ Loop!Sio3Cb(i) PROVE st' = st
    BY <2>1, <1>t DEF Loop!WsCb, Loop!Sio3Cb, Loop!Handle, Before
  <2>2. ASSUME NEW i \in {1, 2}, Loop!RestCbFail(i) PROVE FALSE
    BY <2>2, Fast DEF Loop!RestCbFail
  <2>3. ASSUME NEW i \in {1, 2}, Loop!WsCbFail(i) \/ Loop!RestCb(i) PROVE st' = st
    BY <2>3 DEF Loop!WsCbFail, Loop!RestCb
  <2>4. ASSUME NEW i \in {1, 2}, Loop!HbeatCb(i)
        PROVE  st' \in {st, [st EXCEPT ![i] = "NODATA"]}
    BY <2>4 DEF Loop!HbeatCb
  <2>5. CASE Loop!SigintCb
    BY <2>5, Fast DEF Loop!SigintCb, Before
  <2>6. CASE Loop!RotateCb
    BY <2>6, <1>t DEF Loop!RotateCb
  <2> QED
    BY <2>1, <2>2, <2>3, <2>4, <2>5, <2>6, <1>t, Fast DEF Loop!Callback, Before
<1> QED
  BY <1>t, <1>1, <1>2 DEF Turns

\* fast.c makes no more requests than it has sockets and mixes none up, so long
\* as the loop is not to be left (fast.c:191); the other programs do not count.
THEOREM JoinsAreInTurn ==
  ASSUME this \in Programs PROVE Spec /\ prog = this => []JoinsInTurn
<1>1. CASE this.counts
  <2>1. this = fast
    BY <1>1, Peculiar
  <2>2. Init /\ prog = this => Turns
    BY <2>1, Fast DEF Init, Linked!Init, Linked!Sockets, Turns, Before
  <2>3. prog = this /\ Loop!IInv /\ Loop!Stationed /\ Turns /\ [Next]_vars => Turns'
    <3> SUFFICES ASSUME prog = this, Loop!IInv, Loop!Stationed, Turns, [Next]_vars PROVE Turns'
      OBVIOUS
    <3>1. CASE Prepare
      BY <3>1, <2>1, SamePrepare, PrepareTurns DEF Prepare, Running
    <3>2. CASE Poll
      BY <3>2, SamePoll DEF Poll, Running, Loop!Poll, Loop!Cases, Turns
    <3>3. CASE Callback
      BY <3>3, <2>1, SameCallback, CallbackTurns DEF Callback, Running
    <3>4. CASE Exited \/ UNCHANGED vars
      BY <3>4 DEF Exited, vars, svars, Turns
    <3> QED
      BY <3>1, <3>2, <3>3, <3>4 DEF Next
  <2>4. prog = this /\ Turns => JoinsInTurn
    <3> SUFFICES ASSUME prog = this, Turns PROVE JoinsInTurn
      OBVIOUS
    <3>1. CASE joins = <<>> \/ joins = <<1>> \/ joins = <<1, 2>>
      BY <3>1, <2>1, Fast DEF JoinsInTurn
    <3>2. CASE joins = <<2>> /\ brk
      BY <3>2, <2>1, Fast DEF JoinsInTurn
    <3> QED
      BY <3>1, <3>2 DEF Turns
  <2>5. Loop!Spec => []Loop!IInv /\ []Loop!Stationed
    BY ThisConstants, Loop!Invariance, Loop!Stations
  <2> QED
    BY <2>2, <2>3, <2>4, <2>5, Runs, PTL DEF Spec
<1>2. CASE ~this.counts
  <2>1. Init => joins = <<>>
    BY DEF Init
  <2>2. prog = this /\ joins = <<>> /\ [Next]_vars => (joins = <<>>)'
    BY <1>2 DEF Next, Prepare, Poll, Callback, Exited, Running, CountJoin, vars
  <2>3. prog = this /\ joins = <<>> => JoinsInTurn
    <3>1. Len(this.socks) \in Nat
      BY ThisConstants DEF Loop!SnarfConstants
    <3> QED
      BY <3>1 DEF JoinsInTurn
  <2> QED
    BY <2>1, <2>2, <2>3, Runs, PTL DEF Spec
<1> QED
  BY <1>1, <1>2
=============================================================================
