------------------------------ MODULE Clients -------------------------------
(***************************************************************************)
(* The programs that are linked with src/src/wssnarf.c, one per exchange:  *)
(* the sockets their main() registers, and what the functions they supply  *)
(* to the event loop may return.  A function a program does not define is  *)
(* the weak one of wssnarf.c.  A behaviour is a behaviour of Snarf for one *)
(* of the programs.                                                        *)
(*                                                                         *)
(* Spans of time are scaled: 30 seconds of silence are 1, 60 and more 2.   *)
(***************************************************************************)
EXTENDS Integers, Sequences

CONSTANTS
  Programs,     \* programs to look at
  Horizon       \* bound of the clocks, see Snarf

VARIABLES
  prog,         \* the program that is running
  joins,        \* ghost: the sockets join_coin() was called for, if it counts
  st, ws, io, idle, stale, pc, idx, brk, pend, part, torn, intr

svars == <<st, ws, io, idle, stale, pc, idx, brk, pend, part, torn, intr>>
vars == <<prog, joins, svars>>

Never == Horizon + 1

-----------------------------------------------------------------------------
(* add_wssnarf(): a protocol, whether there is a heartbeat, and the silence *)
(* allowed, where 0.0 stands for no limit.                                  *)

Sock(proto, hb, inact) ==
  [proto |-> proto, hb |-> hb, inact |-> IF inact = 0 THEN Never ELSE inact, infl |-> FALSE]
Inflating(s) == [s EXCEPT !.infl = TRUE]

\* conn_coin() and the others as wssnarf.c defines them
Trivial(socks) ==
  [socks |-> socks, conn |-> {1}, connd |-> {1}, auth |-> {1}, authd |-> {1},
   join |-> {1}, joind |-> {1}, beat |-> {0}, counts |-> FALSE]

\* Those that only subscribe: with the URL, without waiting for an answer, or
\* waiting for whatever comes first.
bncwss == Trivial(<<Sock("ws", TRUE, 2)>>)
hitwss == Trivial(<<Sock("ws", TRUE, 1)>>)
gemini == Trivial(<<Sock("ws", TRUE, 1)>>)
btsp == Trivial(<<Sock("ws", FALSE, 1)>>)
bitmex == Trivial(<<Sock("ws", FALSE, 1)>>)
bitso == Trivial(<<Sock("ws", TRUE, 1)>>)
bitfin == [Trivial(<<Sock("ws", FALSE, 1)>>) EXCEPT !.join = {0}]
trtwss == [Trivial(<<Sock("ws", TRUE, 1)>>) EXCEPT !.join = {0}]
blinkwss == [Trivial(<<Sock("ws", TRUE, 2)>>) EXCEPT !.join = {0}]
luno == [Trivial(<<Sock("ws", TRUE, 1)>>) EXCEPT !.join = {0}]
kaiko == [Trivial(<<Sock("ws", TRUE, 1)>>) EXCEPT !.join = {0}]
deribit == [Trivial(<<Sock("ws", TRUE, 1)>>) EXCEPT !.join = {0}]

\* The subscriptions are lines of a file, which may be unreadable.
ff == [Trivial(<<Inflating(Sock("ws", TRUE, 1))>>) EXCEPT !.join = {-1, 0}]

\* Two web sockets: cbix.c leaves it to the URLs, fast.c tells its sockets by
\* the number of calls, the first for quotes and the second for trades.
cbix == [Trivial(<<Sock("ws", TRUE, 2), Sock("ws", TRUE, 0)>>) EXCEPT !.join = {0}]
fast == [Trivial(<<Sock("ws", TRUE, 1), Sock("ws", FALSE, 2)>>) EXCEPT !.counts = TRUE]

\* A web socket, and a REST service that is asked for another instrument with
\* every heartbeat, with a pause after the last.
coin == [Trivial(<<Sock("ws", TRUE, 2), Sock("rest", TRUE, 0)>>)
           EXCEPT !.join = {0}, !.beat = {0, 1}]
plxwss == [Trivial(<<Sock("ws", FALSE, 1), Sock("rest", TRUE, 0)>>)
             EXCEPT !.auth = {0}, !.beat = {0, 1}]

\* Those that wait for the answer to a request before they subscribe.
cexwss == [Trivial(<<Sock("ws", TRUE, 1)>>) EXCEPT !.auth = {-1, 0}, !.join = {0}]
huobi == [Trivial(<<Sock("ws", TRUE, 1)>>) EXCEPT !.auth = {0}]
spacebtc == [Trivial(<<Sock("sio3", TRUE, 2)>>) EXCEPT !.auth = {0}, !.join = {0}]
paymium == [Trivial(<<Sock("sio3", TRUE, 0)>>) EXCEPT !.auth = {0}, !.join = {0}]

\* A greeting with a nonce, a signature of it, and a verdict.
coinfl == [Trivial(<<Sock("ws", TRUE, 1)>>)
             EXCEPT !.conn = {0}, !.connd = {-1, 1}, !.auth = {-1, 0},
                    !.authd = {-1, 1}, !.join = {0}]

Exchanges == {bncwss, hitwss, gemini, btsp, bitmex, bitso, bitfin, trtwss, blinkwss,
              luno, kaiko, deribit, ff, cbix, fast, coin, plxwss, cexwss, huobi,
              spacebtc, paymium, coinfl}

\* No program in particular: what wssnarf.h lets a program return, for a web
\* socket that is inflated, and for one beside a REST service.
any1 == [socks |-> <<Inflating(Sock("ws", TRUE, 1))>>,
         conn |-> -1..1, connd |-> -1..1, auth |-> -1..1, authd |-> -1..1,
         join |-> -1..1, joind |-> -1..1, beat |-> -1..1, counts |-> FALSE]
any2 == [Trivial(<<Sock("ws", FALSE, 1), Sock("rest", TRUE, 0)>>)
           EXCEPT !.conn = {-1, 1}, !.auth = {0, 1}, !.join = -1..1, !.beat = {-1, 0}]

-----------------------------------------------------------------------------
(* The snarfer linked with a program *)

Linked(p) == INSTANCE Snarf WITH
  NS <- Len(p.socks),
  Proto <- [i \in DOMAIN p.socks |-> p.socks[i].proto],
  Heartbeat <- [i \in DOMAIN p.socks |-> p.socks[i].hb],
  MaxInact <- [i \in DOMAIN p.socks |-> p.socks[i].inact],
  Inflate <- [i \in DOMAIN p.socks |-> p.socks[i].infl],
  conn_coin <- p.conn, connd_coin <- p.connd, auth_coin <- p.auth,
  authd_coin <- p.authd, join_coin <- p.join, joind_coin <- p.joind,
  heartbeat <- p.beat

\* The programs are such as Snarf, and what is proved of it, speaks of.
ASSUME ProgramsAssumption ==
  /\ Horizon \in Nat /\ Horizon > 2
  /\ Programs \subseteq Exchanges \cup {any1, any2}
  /\ \A p \in Programs : Linked(p)!SnarfConstants

Init == prog \in Programs /\ joins = <<>> /\ \E p \in Programs : prog = p /\ Linked(p)!Init

\* static size_t i of join_coin() in fast.c
CountJoin(p) ==
  joins' = IF p.counts /\ pc = "JOIN" THEN Append(joins, idx) ELSE joins

Running(p) == prog = p /\ UNCHANGED prog

Prepare == \E p \in Programs : Running(p) /\ Linked(p)!Prepare /\ CountJoin(p)
Poll == \E p \in Programs : Running(p) /\ Linked(p)!Poll /\ UNCHANGED joins
PollTimer(i) == \E p \in Programs : /\ i \in DOMAIN p.socks /\ Running(p)
                                    /\ Linked(p)!PollTimer(i) /\ UNCHANGED joins
Callback == \E p \in Programs : Running(p) /\ Linked(p)!Callback /\ UNCHANGED joins
Exited == pc = "exited" /\ UNCHANGED vars

Next == Prepare \/ Poll \/ Callback \/ Exited

\* Where the loop waits for a peer: no socket is ever non-blocking, so that
\* ws_open() may stay in connect(), SSL_connect() or the handshake, requests,
\* heartbeats and pongs in a send, ws_close() in SSL_shutdown() and, with a record
\* begun and not ended, a callback in SSL_read().
MayBlock ==
  \/ pc \in {"UNK", "AUTH", "JOIN", "DISC"}
  \/ pc = "call" /\ \A e \in pend : e.src \in {"io", "timer"}

\* The program does not stop amidst prepare() or a callback but where it waits for
\* a peer, and a heartbeat's timer repeats.  Nothing is assumed of peers, signals
\* and midnight: what may block may do so for good.
Fairness ==
  /\ WF_vars(~MayBlock /\ Prepare) /\ WF_vars(~MayBlock /\ Callback)
  /\ \A i \in 1..2 : SF_vars(PollTimer(i))

Spec == Init /\ [][Next]_vars /\ Fairness

-----------------------------------------------------------------------------
(* Properties *)

\* The types of the variables; prepare() (wssnarf.c:702) visits registered
\* sockets only.
TypeOK == \A p \in Programs : prog = p => Linked(p)!TypeOK

\* open_coin() (wssnarf.c:713) finds its slot vacant, whichever program it is.
SlotFresh == \A p \in Programs : prog = p => Linked(p)!SlotFresh

\* No callback and no case of prepare() is handed a connection that has been
\* closed (wssnarf.c:290, 574), whichever program it is.
CallsHaveSocket == \A p \in Programs : prog = p => Linked(p)!CallsHaveSocket

\* What the loop, prepare() (wssnarf.c:703) and the callbacks do to the sockets
\* of a program are sessions as in Session.
Promise == INSTANCE Session
             WITH rest <- [i \in DOMAIN prog.socks |-> prog.socks[i].proto = "rest"]
KeepsPromise == Promise!Spec

\* Every line that is logged is a complete one: "will be called with every
\* complete message buffer" (wssnarf.h:66).
WholeLines == ~torn

\* After C-c, which is to "quit the whole shebang" (wssnarf.c:587), no
\* connection is opened any more.
NoConnectAfterInterrupt ==
  [][intr => \A i \in DOMAIN ws : ws'[i] => ws[i]]_vars

\* A program that does not wait before it joins, and gets what it reads as it
\* is, logs complete lines only (wssnarf.c:734).
LinesAreWhole ==
  (/\ prog.conn = {1} /\ prog.auth = {1} /\ -1 \notin prog.join
   /\ \A i \in DOMAIN prog.socks : ~prog.socks[i].infl)
  => WholeLines

\* "Error: more join requests than sockets" (fast.c:200) never appears, and the
\* sockets are joined to what they are for unless the loop is being left
\* because the first one could not be opened.
JoinsInTurn ==
  /\ Len(joins) <= Len(prog.socks)
  /\ brk \/ \A k \in DOMAIN joins : joins[k] = k

\* C-c (wssnarf.c:583) gets every program out of the event loop, unless that is
\* stuck in a call that a peer does not let return; closing the connections may be
\* such a call.
InterruptExits == <>[]MayBlock \/ (intr ~> pc = "exited")

\* A silent peer gets noticed if a heartbeat ticks for it, in any state, or for
\* another socket and the program does not wait for the peer (wssnarf.c:575,
\* 773).  That leaves btsp.c, bitmex.c and bitfin.c without a watchdog, and
\* plxwss.c until its first answer.  And it holds for silence between reads only:
\* a peer that falls silent amidst a handshake or a TLS record stops the loop
\* (MayBlock for good), and no heartbeat ticks any more.
Watched(i) ==
  /\ i \in DOMAIN prog.socks
  /\ prog.socks[i].inact # Never
  /\ \/ prog.socks[i].hb
     \/ /\ \E j \in DOMAIN prog.socks : prog.socks[j].hb
        /\ prog.conn = {1} /\ prog.auth = {1} /\ prog.join = {1}
Heard(i) == \E p \in Programs :
              /\ i \in DOMAIN p.socks /\ prog = p
              /\ Linked(p)!WsCb(i) \/ Linked(p)!Sio3Cb(i)
Watchdog == \A i \in 1..2 :
              Watched(i) => \/ <>[]MayBlock
                            \/ <>(pc = "exited")
                            \/ []<><<Heard(i)>>_vars
=============================================================================
