------------------------------ MODULE LogFile -------------------------------
(***************************************************************************)
(* The log file of a snarfer (src/src/wssnarf.c): it is opened when the    *)
(* program starts, every message is written to it, and at midnight or upon *)
(* SIGHUP it is closed, renamed after the time of day and opened afresh.   *)
(* The program may be killed at any time, between the steps of a rotation  *)
(* too, and be started again.                                              *)
(*                                                                         *)
(* A record is a number, records are numbered in the order they come in.   *)
(* A file is a sequence of records; one that does not exist is empty.      *)
(***************************************************************************)
EXTENDS Integers, Sequences

CONSTANTS
  SameSecond,   \* may two rotations fall into the same second?
  OpenFails,    \* may open() fail?
  MaxRec,       \* bound on the number of records
  MaxNow        \* bound on the clock

ASSUME LogFileAssumption ==
  /\ SameSecond \in BOOLEAN /\ OpenFails \in BOOLEAN
  /\ MaxRec \in Nat /\ MaxNow \in Nat

VARIABLES
  files,        \* the contents of the files
  logfd,        \* is logfd a valid descriptor?
  pos,          \* its offset
  pc,           \* where the program is
  new,          \* the name rotate_outfile() has come up with
  now, last,    \* the time in seconds, now and at the latest rotation
  nrec,         \* number of records so far
  written       \* records that write() has taken (ghost)

vars == <<files, logfd, pos, pc, new, now, last, nrec, written>>

\* The log file proper, and a file for every second: "prices" and
\* "prices-host-2017-08-01T00:00:00".
logfile == -1
Stamps == 0..MaxNow
Names == {logfile} \cup Stamps

Init ==
  /\ files = [f \in Names |-> <<>>]
  /\ logfd = FALSE /\ pos = 0
  /\ pc = "down" /\ new = 0
  /\ now = 0 /\ last = -1
  /\ nrec = 0 /\ written = {}

Tick ==
  /\ now < MaxNow /\ now' = now + 1
  /\ UNCHANGED <<files, logfd, pos, pc, new, last, nrec, written>>

\* Mutant of open_outfile: the offset is left at the beginning.
open_outfileStart ==
  /\ logfd' = TRUE /\ pos' = 0

\* open() and lseek() to the end
open_outfile ==
  \/ logfd' = TRUE /\ pos' = Len(files[logfile])
  \/ OpenFails /\ logfd' = FALSE /\ pos' = 0

\* write() puts a record at the offset.
Put(f, p, r) == [k \in 1..(IF p < Len(f) THEN Len(f) ELSE p + 1) |->
                   IF k = p + 1 THEN r ELSE f[k]]

\* loghim() and the body of logwss(): what write() returns is ignored.
Write ==
  /\ nrec < MaxRec /\ nrec' = nrec + 1
  /\ IF logfd
     THEN /\ files' = [files EXCEPT ![logfile] = Put(@, pos, nrec + 1)]
          /\ pos' = pos + 1
          /\ written' = written \cup {nrec + 1}
     ELSE UNCHANGED <<files, pos, written>>

make_wssnarf ==
  /\ pc = "down" /\ pc' = "run"
  /\ open_outfile
  /\ UNCHANGED <<files, new, now, last, nrec, written>>

loghim ==
  /\ pc = "run"
  /\ Write
  /\ UNCHANGED <<logfd, pc, new, now, last>>

\* Mutant of RotateClose: the name is a second ahead.
RotateCloseAhead ==
  /\ pc = "run" /\ pc' = "closed"
  /\ SameSecond \/ now > last
  /\ new' = now + 1 /\ last' = now
  /\ Write
  /\ logfd' = FALSE
  /\ UNCHANGED now

\* rotate_outfile(): settle on a name, leave a note and close the file
RotateClose ==
  /\ pc = "run" /\ pc' = "closed"
  /\ SameSecond \/ now > last
  /\ new' = now /\ last' = now
  /\ Write
  /\ logfd' = FALSE
  /\ UNCHANGED now

\* Mutant of RotateRename: the file is copied over and left in place.
RotateCopy ==
  /\ pc = "closed" /\ pc' = "renamed"
  /\ files' = [files EXCEPT ![new] = files[logfile]]
  /\ UNCHANGED <<logfd, pos, new, now, last, nrec, written>>

\* rename(), which replaces a file of the new name, or fails
RotateRename ==
  /\ pc = "closed" /\ pc' = "renamed"
  /\ \/ files' = [files EXCEPT ![new] = files[logfile], ![logfile] = <<>>]
     \/ UNCHANGED files
  /\ UNCHANGED <<logfd, pos, new, now, last, nrec, written>>

RotateOpen ==
  /\ pc = "renamed" /\ pc' = "run"
  /\ open_outfile
  /\ UNCHANGED <<files, new, now, last, nrec, written>>

\* The program is killed, or ends with free_wssnarf().
Kill ==
  /\ pc # "down" /\ pc' = "down"
  /\ logfd' = FALSE
  /\ UNCHANGED <<files, pos, new, now, last, nrec, written>>

Next == \/ Tick \/ make_wssnarf \/ loghim
        \/ RotateClose \/ RotateRename \/ RotateOpen \/ Kill

Spec == Init /\ [][Next]_vars

-----------------------------------------------------------------------------
\* The types of the variables: the offset of logfd and the names of the archives
\* that rotate_outfile() (wssnarf.c:195) makes up stay within their bounds.
TypeOK ==
  /\ files \in [Names -> Seq(1..MaxRec)]
  /\ logfd \in BOOLEAN /\ pos \in 0..MaxRec
  /\ pc \in {"down", "run", "closed", "renamed"}
  /\ new \in Stamps /\ now \in Stamps /\ last \in -1..MaxNow
  /\ nrec \in 0..MaxRec /\ written \subseteq 1..nrec

\* What has once been written is there for good ("collect trade and quote data
\* for offline use", README.md:8), whenever the program is killed or its log is
\* rotated.
NothingLost ==
  \A r \in written : \E f \in Names : \E k \in DOMAIN files[f] : files[f][k] = r

\* The archives in the order of their names, and the log file behind them, are
\* the records in the order they came in, none of them twice: rotate_outfile()
\* is not to leave anything behind and not to file anything under a wrong name.
Older(f, g) == f # logfile /\ (g = logfile \/ f < g)
InOrder ==
  \A f, g \in Names : \A k \in DOMAIN files[f] : \A l \in DOMAIN files[g] :
     files[f][k] < files[g][l] <=> Older(f, g) \/ (f = g /\ k < l)
=============================================================================
