------------------------------- MODULE Snarf --------------------------------
(***************************************************************************)
(* The snarfer of src/src/wssnarf.c: up to four connections, each with its *)
(* own session state, driven by one libev loop.                            *)
(*                                                                         *)
(* The loop calls prepare() before it polls, then the callbacks of all     *)
(* watchers that have become pending.  prepare() is one big switch with    *)
(* fall-throughs over the session state of one socket after the other: pc  *)
(* is the case label it is at and idx the socket.  A callback is one step. *)
(* What a program of the family supplies (conn_coin() and friends) is      *)
(* abstracted to the set of values it may return; see Clients for the      *)
(* programs.                                                               *)
(*                                                                         *)
(* Time is kept relative: stale is how far tsp, the cached clock, lags     *)
(* behind the real one, idle[i] = tsp - last_act[i].  Both saturate.       *)
(***************************************************************************)
EXTENDS Integers

CONSTANTS
  NS,           \* number of registered sockets
  Proto,        \* protocol of a socket: "ws", "sio3", "rest"
  Heartbeat,    \* does a socket have a heartbeat timer?
  MaxInact,     \* seconds a socket may be silent
  Inflate,      \* are a socket's messages compressed?
  Horizon,      \* bound of stale and idle, larger than any finite MaxInact
  \* values the program's callbacks may return: their signs
  conn_coin, connd_coin, auth_coin, authd_coin, join_coin, joind_coin,
  heartbeat

VARIABLES
  st,           \* session state of a socket
  ws,           \* is there a connection, ctx->ws[i] # NULL?
  io,           \* is the socket's watcher active?
  idle, stale,  \* the clocks, see above
  pc, idx,      \* where the loop and prepare() are
  brk,          \* ev_break() has been called
  pend,         \* pending events
  \* ghosts
  part,         \* the unfinished line of a socket: there is none, its head is
                \* in sbuf (kept), or its head has been dropped (lost)
  torn,         \* a line has been logged without its head
  intr          \* C-c or SIGPIPE has been handled

vars == <<st, ws, io, idle, stale, pc, idx, brk, pend, part, torn, intr>>

Sockets == 1..NS

\* max_inact <= 0 is replaced by 1e48
Never == Horizon + 1

\* The constants of a program: what its main() registers, and return values.
SnarfConstants ==
  /\ NS \in 1..4
  /\ Proto \in [Sockets -> {"ws", "sio3", "rest"}]
  /\ Heartbeat \in [Sockets -> BOOLEAN]
  /\ Inflate \in [Sockets -> BOOLEAN]
  /\ Horizon \in Nat
  /\ MaxInact \in [Sockets -> (1 .. Horizon - 1) \cup {Never}]
  /\ \A ret \in {conn_coin, connd_coin, auth_coin, authd_coin,
                join_coin, joind_coin, heartbeat} : ret \subseteq -1..1

\* coin_st_t
States == {"UNK", "CONN", "CONND", "AUTH", "AUTHD", "JOIN", "JOIND",
           "NODATA", "INTR", "FINI"}
Cases == {"UNK", "CONN", "CONND", "AUTH", "AUTHD", "JOIN", "JOIND",
          "DISC", "FINI"}

\* Watchers that can become pending.  libev feeds what poll() reports before
\* it feeds the timers and the periodics, runs the signals' pipe first, and
\* invokes what was fed last first.
Io(i) == [src |-> "io", sock |-> i]
Timer(i) == [src |-> "timer", sock |-> i]
Signal == [src |-> "signal", sock |-> 0]
Rotate == [src |-> "rotate", sock |-> 0]
Order == [signal |-> 1, rotate |-> 2, timer |-> 3, io |-> 4]
Events == {Signal, Rotate} \cup {Io(i) : i \in Sockets}
                           \cup {Timer(i) : i \in Sockets}

Sat(n) == IF n > Horizon THEN Horizon ELSE n

-----------------------------------------------------------------------------
Init ==
  /\ st = [i \in Sockets |-> "UNK"]
  /\ ws = [i \in Sockets |-> FALSE]
  /\ io = [i \in Sockets |-> FALSE]
  /\ idle = [i \in Sockets |-> 0] /\ stale = 0
  /\ pc = "switch" /\ idx = 1 /\ brk = FALSE /\ pend = {}
  /\ part = [i \in Sockets |-> "none"] /\ torn = FALSE
  /\ intr = FALSE

-----------------------------------------------------------------------------
(* prepare() *)

\* Mutant of Break: the loop runs one socket too far.
BreakPast(broken) ==
  IF idx <= NS THEN pc' = "switch" /\ idx' = idx + 1
  ELSE pc' = (IF broken THEN "exited" ELSE "poll") /\ idx' = 1

\* break: on to the next socket, and after the last one back to libev, which
\* polls unless the loop has been broken.
Break(broken) ==
  IF idx < NS THEN pc' = "switch" /\ idx' = idx + 1
  ELSE pc' = (IF broken THEN "exited" ELSE "poll") /\ idx' = 1

\* fall through to another case
Goto(c) == pc' = c /\ UNCHANGED idx

\* ctx->sbuf[idx].n = INI_GBOF
Dropped(p) == IF p = "kept" THEN "lost" ELSE p

Switch ==
  /\ pc = "switch"
  /\ Goto(IF st[idx] \in {"NODATA", "INTR"} THEN "DISC" ELSE st[idx])
  /\ UNCHANGED <<st, ws, io, idle, stale, brk, pend, part, torn, intr>>

\* ws_open(), and a watcher for the descriptor
open_coin ==
  /\ ws' = [ws EXCEPT ![idx] = TRUE]
  /\ io' = [io EXCEPT ![idx] = TRUE]

\* ev_io_stop() and ws_close()
fini_coin ==
  /\ io' = [io EXCEPT ![idx] = FALSE]
  /\ ws' = [ws EXCEPT ![idx] = FALSE]

\* open_coin() succeeds
CaseUnk ==
  /\ pc = "UNK"
  /\ open_coin
  /\ st' = [st EXCEPT ![idx] = "CONN"]
  /\ idle' = [idle EXCEPT ![idx] = 0]
  /\ part' = [part EXCEPT ![idx] = "none"]
  /\ Goto("CONN")
  /\ UNCHANGED <<stale, brk, pend, torn, intr>>

\* Mutant of CaseUnkFail: wait for the next iteration and try again.
CaseUnkRetry ==
  /\ pc = "UNK"
  /\ ws' = [ws EXCEPT ![idx] = FALSE]
  /\ Break(brk)
  /\ UNCHANGED <<st, io, idle, stale, brk, pend, part, torn, intr>>

\* open_coin() cannot connect
CaseUnkFail ==
  /\ pc = "UNK"
  /\ ws' = [ws EXCEPT ![idx] = FALSE]
  /\ Goto("DISC")
  /\ UNCHANGED <<st, io, idle, stale, brk, pend, part, torn, intr>>

CaseConn ==
  /\ pc = "CONN"
  /\ \E r \in conn_coin :
       \/ r < 0 /\ Goto("DISC")
       \/ r = 0 /\ Break(brk)
       \/ r > 0 /\ Goto("CONND")
  /\ UNCHANGED <<st, ws, io, idle, stale, brk, pend, part, torn, intr>>

CaseConnd ==
  /\ pc = "CONND"
  /\ part' = [part EXCEPT ![idx] = Dropped(@)]
  /\ st' = [st EXCEPT ![idx] = "AUTH"]
  /\ Goto("AUTH")
  /\ UNCHANGED <<ws, io, idle, stale, brk, pend, torn, intr>>

\* auth_coin() and join_coin(): a request is made, and has to wait for the
\* peer's answer if it returns 0.
Request(ret, back, next) ==
  \E r \in ret :
     \/ /\ r < 0 /\ Break(brk)
        /\ st' = [st EXCEPT ![idx] = back]
     \/ /\ r = 0 /\ Break(brk)
        /\ UNCHANGED st
     \/ /\ r > 0 /\ Goto(next)
        /\ st' = IF next = "JOIND" THEN [st EXCEPT ![idx] = next] ELSE st

CaseAuth ==
  /\ pc = "AUTH"
  /\ IF Proto[idx] = "rest" THEN Goto("AUTHD") /\ UNCHANGED st
     ELSE Request(auth_coin, "CONND", "AUTHD")
  /\ UNCHANGED <<ws, io, idle, stale, brk, pend, part, torn, intr>>

CaseAuthd ==
  /\ pc = "AUTHD"
  /\ part' = [part EXCEPT ![idx] = Dropped(@)]
  /\ st' = [st EXCEPT ![idx] = "JOIN"]
  /\ Goto("JOIN")
  /\ UNCHANGED <<ws, io, idle, stale, brk, pend, torn, intr>>

\* Mutant of CaseJoin: the state is not set, the next round joins again.
CaseJoinAgain ==
  /\ pc = "JOIN"
  /\ IF Proto[idx] = "rest" THEN Goto("JOIND") ELSE \E r \in join_coin :
       IF r > 0 THEN Goto("JOIND") ELSE Break(brk)
  /\ UNCHANGED <<st, ws, io, idle, stale, brk, pend, part, torn, intr>>

CaseJoin ==
  /\ pc = "JOIN"
  /\ IF Proto[idx] = "rest"
       THEN Goto("JOIND") /\ st' = [st EXCEPT ![idx] = "JOIND"]
       ELSE Request(join_coin, "AUTHD", "JOIND")
  /\ UNCHANGED <<ws, io, idle, stale, brk, pend, part, torn, intr>>

\* check if there's messages from the channel
CaseJoind ==
  /\ pc = "JOIND"
  /\ IF Proto[idx] = "rest" \/ idle[idx] < MaxInact[idx] THEN Break(brk)
     ELSE Goto("DISC")
  /\ UNCHANGED <<st, ws, io, idle, stale, brk, pend, part, torn, intr>>

\* disc: disconnect and unroll
CaseDisc ==
  /\ pc = "DISC"
  /\ fini_coin
  /\ st' = [st EXCEPT ![idx] = "FINI"]
  /\ Goto("FINI")
  /\ UNCHANGED <<idle, stale, brk, pend, part, torn, intr>>

CaseFini ==
  /\ pc = "FINI"
  /\ brk' = TRUE
  /\ Break(TRUE)
  /\ UNCHANGED <<st, ws, io, idle, stale, pend, part, torn, intr>>

Prepare == \/ Switch \/ CaseUnk \/ CaseUnkFail \/ CaseConn \/ CaseConnd
           \/ CaseAuth \/ CaseAuthd \/ CaseJoin \/ CaseJoind \/ CaseDisc
           \/ CaseFini

-----------------------------------------------------------------------------
(* libev *)

Ready == {Signal, Rotate} \cup {Io(i) : i \in {j \in Sockets : io[j]}}
                          \cup {Timer(i) : i \in {j \in Sockets : Heartbeat[j]}}

\* The loop sleeps until something happens.  Timers fire seconds apart.
Poll ==
  /\ pc = "poll"
  /\ pend' \in (SUBSET Ready) \ {{}}
  /\ \E d \in IF \E i \in Sockets : Timer(i) \in pend' THEN {1} ELSE {0, 1} :
       stale' = Sat(stale + d)
  /\ pc' = "call"
  /\ UNCHANGED <<st, ws, io, idle, idx, brk, part, torn, intr>>

\* Invoke one of the pending events that were fed last.
Invoke(e) ==
  /\ pc = "call"
  /\ e \in pend
  /\ \A f \in pend : Order[e.src] <= Order[f.src]
  /\ pend' = pend \ {e}
  /\ UNCHANGED idx

\* Back from a callback: after the last one the next iteration starts with
\* prepare() unless the loop has been broken.
Return ==
  pc' = IF pend' # {} THEN "call" ELSE IF brk' THEN "exited" ELSE "switch"

-----------------------------------------------------------------------------
(* Callbacks *)

\* loghim() and logwss() look at the clock.
Log == /\ stale' = 0
       /\ idle' = [i \in Sockets |-> Sat(idle[i] + stale)]

\* logwss() followed by last_act[i] = *tsp
LogActive(i) ==
  /\ stale' = 0
  /\ idle' = [j \in Sockets |-> IF j = i THEN 0 ELSE Sat(idle[j] + stale)]

\* What recv() may bring: the end of a line or not, and a line left unfinished
\* or not.
Chunks == [eol : BOOLEAN, tail : BOOLEAN]

\* Mutant of Split: what is left is not kept.
SplitDrops(i, c) ==
  /\ torn' = (torn \/ (c.eol /\ part[i] = "lost"))
  /\ part' = [part EXCEPT ![i] = IF c.tail THEN "lost" ELSE IF c.eol THEN "none" ELSE @]

\* The lines in sbuf are logged, what is left is kept.
Split(i, c) ==
  /\ torn' = (torn \/ (c.eol /\ part[i] = "lost"))
  /\ part' = [part EXCEPT ![i] = IF c.eol THEN (IF c.tail THEN "kept" ELSE "none")
                                 ELSE IF c.tail /\ @ = "none" THEN "kept" ELSE @]

\* logunr: the bytes read are counted twice, what is left in sbuf from earlier
\* reads may be logged along.
LogUnr(i, c) ==
  /\ torn' \in {torn \/ (c.eol /\ part[i] = "lost"), TRUE}
  /\ UNCHANGED part

\* weird: everything in sbuf is dropped.
Discard(i, c) ==
  /\ part' = [part EXCEPT ![i] = IF c.eol THEN (IF c.tail THEN "lost" ELSE "none")
                                 ELSE IF c.tail THEN "lost" ELSE Dropped(@)]
  /\ UNCHANGED <<torn, idle, stale>>

\* The peer's answer in a state that waits for one: the predicate to ask and
\* the state to advance to.
Answers == [CONN |-> connd_coin, AUTH |-> authd_coin, JOIN |-> joind_coin]
Upgrade == [CONN |-> "CONND", AUTH |-> "AUTHD", JOIN |-> "JOIND"]

\* log: inflate, where ws_cb() has to and if it can, and log
Inflated(i, c) ==
  \/ Split(i, c) /\ LogActive(i)
  \/ Inflate[i] /\ Proto[i] = "ws" /\ Discard(i, c)

\* The switch that ws_cb() and sio3_cb() share.
Handle(i) ==
  \E c \in Chunks :
    \/ /\ st[i] \in {"CONND", "AUTHD", "JOIND"}
       /\ Inflated(i, c)
       /\ UNCHANGED <<st, brk>>
    \/ \E s \in {"CONN", "AUTH", "JOIN"} : \E r \in Answers[s] :
         /\ st[i] = s \/ (st[i] = "UNK" /\ s = "CONN")
         /\ \/ /\ r < 0
               /\ brk' = TRUE
               /\ LogUnr(i, c) /\ Log
               /\ st' = [st EXCEPT ![i] = s]
            \/ /\ r >= 0
               /\ st' = [st EXCEPT ![i] = IF r > 0 THEN Upgrade[s] ELSE s]
               /\ Inflated(i, c)
               /\ UNCHANGED brk
    \/ /\ st[i] \in {"NODATA", "INTR", "FINI"}
       /\ Discard(i, c)
       /\ UNCHANGED <<st, brk>>

WsCb(i) ==
  /\ Invoke(Io(i)) /\ Proto[i] = "ws"
  /\ Handle(i)
  /\ UNCHANGED <<ws, io, intr>>
  /\ Return

Sio3Cb(i) ==
  /\ Invoke(Io(i)) /\ Proto[i] = "sio3"
  /\ Handle(i)
  /\ UNCHANGED <<ws, io, intr>>
  /\ Return

\* Mutant of WsCbFail: hang up and start over, as rest_cb() does.
WsCbFailRetry(i) ==
  /\ Invoke(Io(i)) /\ Proto[i] # "rest"
  /\ io' = [io EXCEPT ![i] = FALSE]
  /\ ws' = [ws EXCEPT ![i] = FALSE]
  /\ st' = [st EXCEPT ![i] = "UNK"]
  /\ UNCHANGED <<idle, stale, brk, part, torn, intr>>
  /\ Return

\* unroll: ws_recv() fails in ws_cb() or sio3_cb()
WsCbFail(i) ==
  /\ Invoke(Io(i)) /\ Proto[i] # "rest"
  /\ brk' = TRUE
  /\ Log
  /\ UNCHANGED <<st, ws, io, part, torn, intr>>
  /\ Return

RestCb(i) ==
  /\ Invoke(Io(i)) /\ Proto[i] = "rest"
  /\ \E c \in Chunks : Split(i, c)
  /\ Log
  /\ UNCHANGED <<st, ws, io, brk, intr>>
  /\ Return

\* Mutant of RestCbFail: the watcher is not stopped.
RestCbLeaves(i) ==
  /\ Invoke(Io(i)) /\ Proto[i] = "rest"
  /\ ws' = [ws EXCEPT ![i] = FALSE]
  /\ st' = [st EXCEPT ![i] = "UNK"]
  /\ part' = [part EXCEPT ![i] = "none"]
  /\ UNCHANGED <<io, idle, stale, brk, torn, intr>>
  /\ Return

\* rest_recv() fails: hang up, to be reconnected by prepare()
RestCbFail(i) ==
  /\ Invoke(Io(i)) /\ Proto[i] = "rest"
  /\ io' = [io EXCEPT ![i] = FALSE]
  /\ ws' = [ws EXCEPT ![i] = FALSE]
  /\ st' = [st EXCEPT ![i] = "UNK"]
  /\ part' = [part EXCEPT ![i] = "none"]
  /\ UNCHANGED <<idle, stale, brk, torn, intr>>
  /\ Return

\* Mutant of HbeatCb: silence is left to prepare().
HbeatCbTrusts(i) ==
  /\ Invoke(Timer(i))
  /\ Log
  /\ \E r \in heartbeat :
       st' = IF r < 0 THEN [st EXCEPT ![i] = "NODATA"] ELSE st
  /\ UNCHANGED <<ws, io, brk, part, torn, intr>>
  /\ Return

HbeatCb(i) ==
  /\ Invoke(Timer(i))
  /\ Log
  /\ \E r \in heartbeat :
       st' = IF r < 0 \/ idle'[i] > MaxInact[i]
             THEN [st EXCEPT ![i] = "NODATA"] ELSE st
  /\ UNCHANGED <<ws, io, brk, part, torn, intr>>
  /\ Return

\* Mutant of SigintCb: the first socket is skipped.
SigintCbRest ==
  /\ Invoke(Signal)
  /\ Log
  /\ st' = [i \in Sockets |-> IF i = 1 THEN st[i] ELSE "INTR"]
  /\ intr' = TRUE
  /\ UNCHANGED <<ws, io, brk, part, torn>>
  /\ Return

SigintCb ==
  /\ Invoke(Signal)
  /\ Log
  /\ st' = [i \in Sockets |-> "INTR"]
  /\ intr' = TRUE
  /\ UNCHANGED <<ws, io, brk, part, torn>>
  /\ Return

\* midnight_cb() and sighup_cb(): rotate_outfile(), see LogFile
RotateCb ==
  /\ Invoke(Rotate)
  /\ Log
  /\ UNCHANGED <<st, ws, io, brk, part, torn, intr>>
  /\ Return

Callback == \/ SigintCb \/ RotateCb
            \/ \E i \in Sockets : \/ WsCb(i) \/ Sio3Cb(i) \/ WsCbFail(i)
                                  \/ RestCb(i) \/ RestCbFail(i) \/ HbeatCb(i)

\* ev_run() has returned and main() with it.
Exited == pc = "exited" /\ UNCHANGED vars

Next == Prepare \/ Poll \/ Callback \/ Exited

Spec == Init /\ [][Next]_vars

PollTimer(i) == Poll /\ Timer(i) \in pend'

-----------------------------------------------------------------------------
(* Properties *)

\* Labels of prepare() that hand ctx->ws[idx] to somebody.
Connected == {"CONN", "CONND", "AUTH", "AUTHD", "JOIN", "JOIND"}

\* The types of the variables; prepare() (wssnarf.c:702) visits registered
\* sockets only, and a case of its switch is entered with a matching state.
TypeOK ==
  /\ st \in [Sockets -> States]
  /\ ws \in [Sockets -> BOOLEAN] /\ io \in [Sockets -> BOOLEAN]
  /\ idle \in [Sockets -> 0..Horizon] /\ stale \in 0..Horizon
  /\ pc \in Cases \cup {"switch", "poll", "call", "exited"}
  /\ idx \in Sockets
  /\ brk \in BOOLEAN /\ torn \in BOOLEAN /\ intr \in BOOLEAN
  /\ pend \subseteq Events
  /\ part \in [Sockets -> {"none", "kept", "lost"}]

\* When prepare() opens a connection (wssnarf.c:713) the slot is vacant: no
\* connection is leaked and no active watcher is initialised over, although
\* rest_cb() and fini_coin() vacate slots at different times.
SlotFresh == pc = "UNK" => ~ws[idx] /\ ~io[idx]

\* Nobody is called with a connection that has been closed: the callbacks of
\* libev use ctx->ws[idx] without a check (ws_recv() at wssnarf.c:290,
\* heartbeat() at 574), and so does prepare() from case COIN_ST_CONN on.
CallsHaveSocket ==
  /\ pc = "call" => \A e \in pend : e.src \in {"io", "timer"} => ws[e.sock]
  /\ pc \in Connected => ws[idx]

\* Once sockets are FINI, the "final state" (wssnarf.c:48), they stay so.
FiniFinal ==
  [][\A i \in Sockets : st[i] = "FINI" => st'[i] = "FINI"]_vars

\* What the loop, prepare() (wssnarf.c:703) and the callbacks do to the sockets,
\* in all their interleavings, are sessions: states in order, web sockets opened
\* once, and a connection as long as a session needs one.
Promise == INSTANCE Session WITH rest <- [i \in Sockets |-> Proto[i] = "rest"]
KeepsPromise == Promise!Spec
=============================================================================
