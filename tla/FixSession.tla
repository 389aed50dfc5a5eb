----------------------------- MODULE FixSession -----------------------------
(***************************************************************************)
(* The FIX clients src/src/okfix.c, btcc.c and derifix.c: log on, subscribe *)
(* once the peer has let us in, note down what it says, log out on C-c.    *)
(* The three differ in how many requests a subscription takes and in       *)
(* whether they send heartbeats.                                           *)
(*                                                                         *)
(* The peer is external: what it sends is a stream of messages, of which   *)
(* beef_cb() gets as many as have arrived when it reads.                   *)
(***************************************************************************)
EXTENDS Integers, Sequences

CONSTANTS
  Requests,     \* messages it takes to subscribe to everyone
  Heartbeats,   \* is there a heartbeat timer?
  Cuts,         \* may recv() return with a message cut off?
  MaxIn,        \* bound on the number of messages the peer sends per connection
  MaxOut,       \* bound on the number of messages sent per connection
  MaxConn       \* bound on the number of connections

ASSUME FixAssumption ==
  /\ Requests \in Nat /\ Heartbeats \in BOOLEAN /\ Cuts \in BOOLEAN
  /\ MaxIn \in Nat /\ MaxOut \in Nat /\ MaxConn \in Nat

VARIABLES
  st,           \* session state
  sc,           \* are we connected?
  seq,          \* the sequence number to go with the next message
  susp,         \* seconds to sleep before the next connection
  pc,           \* where main() and libev are
  pend,         \* pending events
  unloop,       \* has the loop been told to end?
  \* the peer
  inq,          \* messages under way to us
  nin,          \* number of messages sent to us
  cut,          \* the stream is amidst a message
  hung,         \* the peer has hung up
  out,          \* messages sent on this connection
  \* ghosts
  nconn,        \* number of connections
  let_in        \* the peer's last word was a logon

sess == <<st, sc, seq, susp, out>>
loop == <<pc, pend, unloop>>
peer == <<inq, nin, cut, hung>>
vars == <<sess, loop, peer, nconn, let_in>>

\* Message types: logon, logout, logout out of session time, quotes, requests,
\* heartbeat, and one that is not supported.
Inbound == {"A", "5", "5w", "W", "0", "?"}
Outbound == {"A", "5", "V", "0"}
Message == [typ : Outbound, num : Nat]
Order == [signal |-> 1, timer |-> 2, io |-> 3]

Init ==
  /\ st = "UNK" /\ sc = FALSE /\ seq = 1 /\ susp = 0 /\ out = <<>>
  /\ pc = "open" /\ pend = {} /\ unloop = FALSE
  /\ inq = <<>> /\ nin = 0 /\ cut = FALSE /\ hung = FALSE
  /\ nconn = 0 /\ let_in = FALSE

-----------------------------------------------------------------------------
\* fix_render() numbers n messages of a type, starting with number s.
fix_render(typ, n, s) == [k \in 1..n |-> [typ |-> typ, num |-> s + k - 1]]

\* Mutant of fix_hello: numbers go on where the last connection left off.
fix_helloOn ==
  /\ out' = fix_render("A", 1, seq)
  /\ seq' = seq + 1

\* fix_reset() and a logon
fix_hello ==
  /\ out' = fix_render("A", 1, 1)
  /\ seq' = 2

Send(typ, n) ==
  /\ out' = out \o fix_render(typ, n, seq)
  /\ seq' = seq + n

fix_gdbye == Send("5", 1)
fix_hbeat == Send("0", 1)
\* subscribe to everyone: quotes, trades, instrument by instrument
fix_subsc == Send("V", Requests)

-----------------------------------------------------------------------------
(* main() *)

Open ==
  /\ pc = "open" /\ nconn < MaxConn
  /\ sc' = TRUE
  /\ fix_hello
  /\ pc' = "poll" /\ unloop' = FALSE
  /\ inq' = <<>> /\ nin' = 0 /\ cut' = FALSE /\ hung' = FALSE
  /\ nconn' = nconn + 1 /\ let_in' = FALSE
  /\ UNCHANGED <<st, susp, pend>>

OpenFail ==
  /\ pc = "open"
  /\ pc' = "exited"
  /\ UNCHANGED <<sess, pend, unloop, peer, nconn, let_in>>

\* Mutant of Close: the connection is not forgotten.
CloseLeaves ==
  /\ pc = "close"
  /\ out' = <<>>
  /\ pc' = IF st # "UNK" THEN "open" ELSE "exited"
  /\ UNCHANGED <<st, sc, seq, susp, pend, unloop, peer, nconn, let_in>>

\* The loop has ended: close the connection, sleep, and start over unless the
\* session state is UNK.
Close ==
  /\ pc = "close"
  /\ sc' = FALSE
  /\ out' = <<>>
  /\ pc' = IF st # "UNK" THEN "open" ELSE "exited"
  /\ UNCHANGED <<st, seq, susp, pend, unloop, peer, nconn, let_in>>

-----------------------------------------------------------------------------
(* The peer and libev *)

\* The first thing the peer says is whether we are let in, the last thing that
\* we are logged out.
PeerSend ==
  /\ sc /\ ~hung /\ nin < MaxIn
  /\ nin = 0 \/ let_in
  /\ \E m \in IF nin = 0 THEN {"A", "5", "5w"} ELSE Inbound :
       /\ inq' = Append(inq, m)
       /\ let_in' = (m = "A" \/ (let_in /\ m \notin {"5", "5w"}))
  /\ nin' = nin + 1
  /\ UNCHANGED <<sess, loop, cut, hung, nconn>>

PeerHangup ==
  /\ sc /\ ~hung /\ hung' = TRUE
  /\ let_in' = FALSE
  /\ UNCHANGED <<sess, loop, inq, nin, cut, nconn>>

Readable == inq # <<>> \/ hung
Ready == {e \in {"signal", "timer", "io"} :
            /\ e = "timer" => Heartbeats /\ Len(out) < MaxOut
            /\ e = "io" => Readable}

Poll ==
  /\ pc = "poll"
  /\ pend' \in (SUBSET Ready) \ {{}}
  /\ pc' = "call"
  /\ UNCHANGED <<sess, unloop, peer, nconn, let_in>>

\* Callbacks are invoked signals first, descriptors last; the loop ends after
\* the last one that is pending.
Invoke(e) ==
  /\ pc = "call"
  /\ e \in pend
  /\ \A f \in pend : Order[e] <= Order[f]
  /\ pend' = pend \ {e}

Return ==
  pc' = IF pend' # {} THEN "call" ELSE IF unloop' THEN "close" ELSE "poll"

-----------------------------------------------------------------------------
(* Callbacks *)

SigintCb ==
  /\ Invoke("signal")
  /\ fix_gdbye
  /\ unloop' = TRUE
  /\ st' = "UNK"
  /\ UNCHANGED <<sc, susp, peer, nconn, let_in>>
  /\ Return

HbeatCb ==
  /\ Invoke("timer")
  /\ fix_hbeat
  /\ UNCHANGED <<st, sc, susp, unloop, peer, nconn, let_in>>
  /\ Return

\* Mutant of fix_parse: the last message counts.
fix_parseLast(buf) == buf[Len(buf)]

\* fix_parse() returns the type of the first message in a buffer, or "" if the
\* buffer does not start with the head of a message.
fix_parse(buf) == buf[1]

\* Mutant of Beef: suspensions add up.
BeefAdds(t) ==
  \/ /\ t = "A"
     /\ fix_subsc
     /\ st' = IF Requests > 0 THEN "SUB" ELSE "ON"
     /\ UNCHANGED susp
  \/ /\ t \in {"5", "5w"}
     /\ st' = "OFF"
     /\ susp' = IF t = "5w" THEN susp + 60 ELSE susp
     /\ UNCHANGED <<seq, out>>
  \/ /\ t \in {"W", "0", "?", ""}
     /\ UNCHANGED <<st, seq, susp, out>>

\* What beef_cb() does about a message of type t.
Beef(t) ==
  \/ /\ t = "A"
     /\ fix_subsc
     /\ st' = IF Requests > 0 THEN "SUB" ELSE "ON"
     /\ UNCHANGED susp
  \/ /\ t \in {"5", "5w"}
     /\ st' = "OFF"
     /\ susp' = IF t = "5w" THEN 60 ELSE 0
     /\ UNCHANGED <<seq, out>>
  \/ /\ t \in {"W", "0", "?", ""}
     /\ UNCHANGED <<st, seq, susp, out>>

\* k messages are read, of the last one only the beginning if c: the rest of it
\* starts the next read.  A message is not cut twice.
BeefCb ==
  /\ Invoke("io") /\ inq # <<>>
  /\ \E k \in 1..Len(inq) : \E c \in IF Cuts THEN BOOLEAN ELSE {FALSE} :
       /\ inq' = IF c THEN SubSeq(inq, k, Len(inq)) ELSE SubSeq(inq, k + 1, Len(inq))
       /\ cut' = c
       /\ k = 1 /\ cut => ~c
       /\ \E head \in IF cut THEN {""} ELSE IF c /\ k = 1 THEN {"", inq[1]} ELSE {inq[1]} :
            Beef(fix_parse([SubSeq(inq, 1, k) EXCEPT ![1] = head]))
  /\ UNCHANGED <<sc, unloop, nin, hung, nconn, let_in>>
  /\ Return

\* Mutant of BeefFail: the session is merely off when the peer has hung up.
BeefFailOff ==
  /\ Invoke("io") /\ inq = <<>> /\ hung
  /\ st' = "OFF"
  /\ unloop' = TRUE
  /\ UNCHANGED <<sc, seq, susp, out, peer, nconn, let_in>>
  /\ Return

\* unroll: the peer has hung up
BeefFail ==
  /\ Invoke("io") /\ inq = <<>> /\ hung
  /\ st' = "UNK"
  /\ unloop' = TRUE
  /\ UNCHANGED <<sc, seq, susp, out, peer, nconn, let_in>>
  /\ Return

\* main() has returned, or the bound on connections is reached.
Exited ==
  /\ pc = "exited" \/ (pc = "open" /\ nconn = MaxConn)
  /\ UNCHANGED vars

Main == Open \/ OpenFail \/ Close
Callback == SigintCb \/ HbeatCb \/ BeefCb \/ BeefFail

Next == Main \/ PeerSend \/ PeerHangup \/ Poll \/ Callback \/ Exited

Spec == Init /\ [][Next]_vars

\* The program runs, and poll() reports a descriptor that stays readable.
PollIo == Poll /\ "io" \in pend'
FairSpec == Spec /\ WF_vars(Close) /\ WF_vars(Callback) /\ SF_vars(PollIo)

-----------------------------------------------------------------------------
(* Properties *)

\* The types of the variables; a logout in good time does not leave a
\* suspension behind (okfix.c:375).
TypeOK ==
  /\ st \in {"UNK", "ON", "SUB", "OFF"}
  /\ sc \in BOOLEAN /\ seq \in Nat \ {0} /\ susp \in {0, 60}
  /\ out \in Seq(Message)
  /\ pc \in {"open", "poll", "call", "close", "exited"}
  /\ pend \subseteq {"signal", "timer", "io"} /\ unloop \in BOOLEAN
  /\ inq \in Seq(Inbound) /\ nin \in 0..MaxIn
  /\ cut \in BOOLEAN /\ hung \in BOOLEAN
  /\ nconn \in 0..MaxConn /\ let_in \in BOOLEAN

\* On every connection the peer gets a logon first and messages numbered from 1
\* without gaps, whichever callbacks send them (fix.c:87, okfix.c:211).
Sequenced ==
  /\ sc => out # <<>>
  /\ \A k \in DOMAIN out : out[k].num = k /\ (out[k].typ = "A" <=> k = 1)

\* assert(sc) at okfix.c:316: nothing is read when there is no connection.
Connected == pc \in {"poll", "call", "close"} <=> sc

\* main() connects again after C-c only: when a message is read in the same
\* iteration beef_cb() overwrites the state that sigint_cb() has left for main()
\* to end.  A connection that is lost ends the program, also when the peer has
\* logged us out and main() is to sleep until the session begins (okfix.c:401,
\* :408 and the loop of main()).
ReconnectsInterrupted ==
  pc = "close" /\ st # "UNK" => \E k \in DOMAIN out : out[k].typ = "5"

\* Once the peer has let us in we "Subscribe to OKCoin data feeds for INSTR"
\* (okfix.yuck:3), unless the session is over before that; provided that no
\* read ever ends amidst a message, for beef_cb() parses reads, not messages: a
\* logon that is cut, or follows the rest of a cut message, is "message
\* buggered" (okfix.c:338), and the client waits for good.
Subscribes ==
  []~cut => (let_in ~> (st = "SUB" \/ ~let_in \/ ~sc))
=============================================================================
