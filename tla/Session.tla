------------------------------ MODULE Session -------------------------------
(***************************************************************************)
(* What the snarfer of src/src/wssnarf.c promises about sessions, without  *)
(* its loop, clocks and buffers: the states of coin_st_t a socket goes     *)
(* through, in which order, and when it has a connection.  Web sockets are *)
(* opened once and never again; a REST socket whose peer hangs up starts   *)
(* over, in whatever state it is unless it is finished.                    *)
(***************************************************************************)
VARIABLES
  st,           \* session state of a socket
  ws,           \* does it have a connection?
  rest          \* is it a REST socket?

Sockets == DOMAIN st

Init == st = [i \in Sockets |-> "UNK"] /\ ws = [i \in Sockets |-> FALSE]

Become(i, s) == st' = [st EXCEPT ![i] = s]

Open(i) ==
  /\ st[i] = "UNK" /\ ~ws[i]
  /\ Become(i, "CONN")
  /\ ws' = [ws EXCEPT ![i] = TRUE]

\* A session gets on by itself, by way of authentication, ...
Ahead == [CONN |-> {"AUTH"}, CONND |-> {"AUTH"}, AUTH |-> {"JOIN"},
          AUTHD |-> {"JOIN"}, JOIN |-> {"JOIND"}, JOIND |-> {}]
\* ... or by the peer's answer, or goes one step back when it is refused.
Answered == [CONN |-> {"CONND"}, CONND |-> {}, AUTH |-> {"AUTHD"},
             AUTHD |-> {}, JOIN |-> {"JOIND"}, JOIND |-> {}]
Back == [CONN |-> {}, CONND |-> {}, AUTH |-> {"CONND"},
         AUTHD |-> {}, JOIN |-> {"AUTHD"}, JOIND |-> {}]

Proceed(i) ==
  /\ ws[i] /\ st[i] \in DOMAIN Ahead
  /\ \E s \in Ahead[st[i]] \cup Answered[st[i]] \cup Back[st[i]] : Become(i, s)
  /\ UNCHANGED ws

\* The heartbeat finds that nothing has come in for too long.
Silence(i) ==
  /\ ws[i] /\ st[i] # "FINI"
  /\ Become(i, "NODATA")
  /\ UNCHANGED ws

\* C-c
Interrupt ==
  /\ \A i \in Sockets : st[i] # "FINI"
  /\ st' = [i \in Sockets |-> "INTR"]
  /\ UNCHANGED ws

Hangup(i) ==
  /\ rest[i] /\ ws[i] /\ st[i] # "FINI"
  /\ Become(i, "UNK")
  /\ ws' = [ws EXCEPT ![i] = FALSE]

\* A session is over: it has not come up, has fallen silent or was interrupted.
Over(i) ==
  /\ st[i] \in {"UNK", "CONN", "JOIND", "NODATA", "INTR"}
  /\ Become(i, "FINI")
  /\ ws' = [ws EXCEPT ![i] = FALSE]

Next ==
  /\ \/ Interrupt
     \/ \E i \in Sockets : Open(i) \/ Proceed(i) \/ Silence(i) \/ Hangup(i) \/ Over(i)
  /\ UNCHANGED rest

Spec == Init /\ [][Next]_<<st, ws, rest>>
=============================================================================
