---------------------------- MODULE LogFileProofs ---------------------------
(***************************************************************************)
(* LogFile keeps what has been written, for any number of records, of      *)
(* rotations and of restarts, provided that no two rotations fall into the *)
(* same second.                                                            *)
(*                                                                         *)
(* That takes two facts: logfd is at the end of the log file while it is   *)
(* open (AtEnd), or else a record would be overwritten, and the name that  *)
(* rename() moves the log file to is vacant (Vacant), or else an archive   *)
(* would be replaced.                                                      *)
(***************************************************************************)
EXTENDS LogFile, SequenceTheorems, TLAPS

AtEnd == logfd => pos = Len(files[logfile])

Vacant == /\ \A f \in Stamps : f > last => files[f] = <<>>
          /\ pc = "closed" => new = last /\ files[new] = <<>>

\* No record is ahead of its time, and there are not more of them than came in.
Numbered == \A f \in Names : /\ Len(files[f]) <= nrec
                             /\ \A k \in DOMAIN files[f] : files[f][k] <= nrec

\* While the program is down or amidst a rotation there is no descriptor.
Closed == pc # "run" => ~logfd

IInv == /\ TypeOK /\ AtEnd /\ Vacant /\ Numbered /\ Closed
        /\ NothingLost /\ InOrder

-----------------------------------------------------------------------------
\* A function over an initial segment is a sequence.
LEMMA FunIsSeq ==
  ASSUME NEW S, NEW n \in Nat, NEW g \in [1..n -> S]
  PROVE  g \in Seq(S)
  OBVIOUS

\* A record that is put at the end of a file leaves the others where they are.
LEMMA PutAtEnd ==
  ASSUME NEW f \in Seq(1..MaxRec), NEW r \in 1..MaxRec
  PROVE  /\ Put(f, Len(f), r) \in Seq(1..MaxRec)
         /\ DOMAIN Put(f, Len(f), r) = 1 .. Len(f) + 1
         /\ Len(Put(f, Len(f), r)) = Len(f) + 1
         /\ Put(f, Len(f), r)[Len(f) + 1] = r
         /\ \A k \in 1..Len(f) : Put(f, Len(f), r)[k] = f[k]
<1>1. Len(f) \in Nat /\ f \in [1..Len(f) -> 1..MaxRec]
  BY LenProperties
<1>2. Put(f, Len(f), r) = [k \in 1 .. Len(f) + 1 |-> IF k = Len(f) + 1 THEN r ELSE f[k]]
  BY <1>1 DEF Put
<1>3. Put(f, Len(f), r) \in [1 .. Len(f) + 1 -> 1..MaxRec]
  BY <1>1, <1>2
<1>4. Put(f, Len(f), r) \in Seq(1..MaxRec)
  <2> DEFINE S == 1..MaxRec
             n == Len(f) + 1
  <2>1. n \in Nat /\ Put(f, Len(f), r) \in [1..n -> S]
    BY <1>1, <1>3
  <2> HIDE DEF S, n
  <2>2. Put(f, Len(f), r) \in Seq(S)
    BY <2>1, FunIsSeq
  <2> QED
    BY <2>2 DEF S
<1> QED
  BY <1>1, <1>2, <1>3, <1>4, LenProperties

LEMMA NamesFacts == logfile \in Names /\ logfile \notin Stamps /\ Stamps \subseteq Names
  BY LogFileAssumption DEF Names, Stamps, logfile

LEMMA InitIInv == Init => IInv
<1> SUFFICES ASSUME Init PROVE IInv
  OBVIOUS
<1>1. files \in [Names -> Seq(1..MaxRec)]
  BY EmptySeq DEF Init
<1>2. TypeOK
  <2>1. 0 \in Stamps /\ 0 \in 0..MaxRec /\ -1 \in -1..MaxNow
    BY LogFileAssumption DEF Stamps
  <2> QED
    BY <1>1, <2>1 DEF Init, TypeOK
<1>3. AtEnd /\ Vacant /\ Closed
  BY LogFileAssumption DEF Init, AtEnd, Vacant, Closed, Names, Stamps
<1>4. Numbered /\ NothingLost /\ InOrder
  BY DEF Init, Numbered, NothingLost, InOrder
<1> QED
  BY <1>2, <1>3, <1>4 DEF IInv

\* The clock, make_wssnarf(), RotateOpen and Kill leave the files alone.
LEMMA QuietIInv ==
  ASSUME IInv, Tick \/ make_wssnarf \/ RotateOpen \/ Kill
  PROVE  IInv'
<1>1. UNCHANGED <<files, new, last, nrec, written>>
  BY DEF Tick, make_wssnarf, RotateOpen, Kill
<1>2. Len(files[logfile]) \in 0..MaxRec
  BY NamesFacts, LenProperties, LogFileAssumption DEF IInv, TypeOK, Numbered
<1>3. TypeOK'
  <2>1. now' \in Stamps
    BY LogFileAssumption DEF IInv, TypeOK, Tick, make_wssnarf, RotateOpen, Kill, Stamps
  <2>2. pos' \in 0..MaxRec
    BY <1>2, LogFileAssumption
       DEF IInv, TypeOK, Tick, make_wssnarf, RotateOpen, Kill, open_outfile
  <2>3. logfd' \in BOOLEAN /\ pc' \in {"down", "run", "closed", "renamed"}
    BY DEF IInv, TypeOK, Tick, make_wssnarf, RotateOpen, Kill, open_outfile
  <2> QED
    BY <1>1, <2>1, <2>2, <2>3 DEF IInv, TypeOK
<1>4. (AtEnd /\ Vacant /\ Closed)'
  BY <1>1 DEF IInv, AtEnd, Vacant, Closed, Tick, make_wssnarf, RotateOpen, Kill,
              open_outfile
<1>5. (Numbered /\ NothingLost /\ InOrder)'
  BY <1>1 DEF IInv, Numbered, NothingLost, InOrder
<1> QED
  BY <1>3, <1>4, <1>5 DEF IInv

\* A record is written, by loghim() or on behalf of a rotation.
LEMMA WriteKeeps ==
  ASSUME IInv, Write
  PROVE  /\ files' \in [Names -> Seq(1..MaxRec)]
         /\ pos' \in 0..MaxRec /\ nrec' \in 0..MaxRec /\ written' \subseteq 1..nrec'
         /\ logfd => pos' = Len(files'[logfile])
         /\ \A f \in Stamps : files'[f] = files[f]
         /\ (Numbered /\ NothingLost /\ InOrder)'
<1> DEFINE log == files[logfile]
<1>0. /\ logfile \in Names /\ nrec \in 0..MaxRec /\ nrec < MaxRec /\ nrec' = nrec + 1
      /\ files \in [Names -> Seq(1..MaxRec)] /\ MaxRec \in Nat
      /\ \A f \in Names : DOMAIN files[f] = 1..Len(files[f]) /\ Len(files[f]) \in Nat
  BY NamesFacts, LenProperties, LogFileAssumption DEF IInv, TypeOK, Write
<1>1. CASE ~logfd
  <2>1. UNCHANGED <<files, pos, written>>
    BY <1>1 DEF Write
  <2> QED
    BY <1>0, <1>1, <2>1 DEF IInv, TypeOK, Numbered, NothingLost, InOrder
<1>2. CASE logfd
  <2>1. /\ files' = [files EXCEPT ![logfile] = Put(log, Len(log), nrec + 1)]
        /\ pos' = Len(log) + 1 /\ written' = written \cup {nrec + 1}
    BY <1>2 DEF Write, IInv, AtEnd
  <2>2. /\ log \in Seq(1..MaxRec) /\ nrec + 1 \in 1..MaxRec
        /\ Len(log) \in Nat /\ Len(log) <= nrec
    BY <1>0 DEF IInv, Numbered
  <2> DEFINE log2 == Put(log, Len(log), nrec + 1)
  <2>3. /\ log2 \in Seq(1..MaxRec) /\ DOMAIN log2 = 1 .. Len(log) + 1
        /\ Len(log2) = Len(log) + 1 /\ log2[Len(log) + 1] = nrec + 1
        /\ \A k \in 1..Len(log) : log2[k] = log[k]
    BY <2>2, PutAtEnd
  <2> HIDE DEF log2
  <2>4. /\ files' = [files EXCEPT ![logfile] = log2]
        /\ files'[logfile] = log2 /\ \A f \in Names \ {logfile} : files'[f] = files[f]
    BY <2>1, <1>0 DEF log2
  <2>5. /\ files' \in [Names -> Seq(1..MaxRec)]
        /\ pos' \in 0..MaxRec /\ nrec' \in 0..MaxRec /\ written' \subseteq 1..nrec'
        /\ pos' = Len(files'[logfile])
        /\ \A f \in Stamps : files'[f] = files[f]
    BY <1>0, <2>1, <2>2, <2>3, <2>4, NamesFacts DEF IInv, TypeOK
  <2> DEFINE Fresh(h, m) == h = logfile /\ m = Len(log) + 1
  <2>a. \A h \in Names : \A m \in DOMAIN files'[h] :
          /\ Fresh(h, m) => files'[h][m] = nrec + 1
          /\ ~Fresh(h, m) => m \in DOMAIN files[h] /\ files'[h][m] = files[h][m]
    <3> SUFFICES ASSUME NEW h \in Names, NEW m \in DOMAIN files'[h]
                 PROVE  /\ Fresh(h, m) => files'[h][m] = nrec + 1
                        /\ ~Fresh(h, m) => m \in DOMAIN files[h] /\ files'[h][m] = files[h][m]
      OBVIOUS
    <3>1. CASE h = logfile
      BY <1>0, <2>2, <2>3, <2>4, <3>1
    <3>2. CASE h # logfile
      BY <2>4, <3>2
    <3> QED
      BY <3>1, <3>2
  <2>b. \A h \in Names : \A m \in DOMAIN files[h] :
          /\ m \in DOMAIN files'[h] /\ ~Fresh(h, m)
          /\ files[h][m] \in Int /\ files[h][m] <= nrec
    <3> SUFFICES ASSUME NEW h \in Names, NEW m \in DOMAIN files[h]
                 PROVE  /\ m \in DOMAIN files'[h] /\ ~Fresh(h, m)
                        /\ files[h][m] \in Int /\ files[h][m] <= nrec
      OBVIOUS
    <3>1. m \in 1..Len(files[h]) /\ files[h] \in Seq(1..MaxRec)
      BY <1>0
    <3>2. files[h][m] \in 1..MaxRec
      BY <3>1, ElementOfSeq
    <3>3. m \in DOMAIN files'[h] /\ ~Fresh(h, m)
      BY <1>0, <2>2, <2>3, <2>4, <3>1
    <3> QED
      BY <3>2, <3>3 DEF IInv, Numbered
  <2>c. logfile \in Names /\ Len(log) + 1 \in DOMAIN files'[logfile]
    BY <1>0, <2>2, <2>3, <2>4
  <2>6. Numbered'
    <3>1. \A h \in Names : \A m \in DOMAIN files'[h] : files'[h][m] <= nrec'
      BY <1>0, <2>a, <2>b
    <3>2. \A h \in Names : Len(files'[h]) <= nrec'
      <4> SUFFICES ASSUME NEW h \in Names PROVE Len(files'[h]) <= nrec'
        OBVIOUS
      <4>1. CASE h = logfile
        BY <1>0, <2>2, <2>3, <2>4, <4>1
      <4>2. CASE h # logfile
        BY <1>0, <2>4, <4>2 DEF IInv, Numbered
      <4> QED
        BY <4>1, <4>2
    <3> QED
      BY <3>1, <3>2 DEF Numbered
  <2>7. NothingLost'
    <3> SUFFICES ASSUME NEW r \in written'
                 PROVE  \E f \in Names : \E k \in DOMAIN files'[f] : files'[f][k] = r
      BY DEF NothingLost
    <3>1. CASE r = nrec + 1
      BY <2>a, <2>c, <3>1
    <3>2. CASE r \in written
      <4>1. PICK f \in Names : \E k \in DOMAIN files[f] : files[f][k] = r
        BY <3>2 DEF IInv, NothingLost
      <4>2. PICK k \in DOMAIN files[f] : files[f][k] = r
        BY <4>1
      <4> QED
        BY <2>a, <2>b, <4>2
    <3> QED
      BY <2>1, <3>1, <3>2
  <2>8. InOrder'
    <3> SUFFICES ASSUME NEW f \in Names, NEW g \in Names,
                        NEW k \in DOMAIN files'[f], NEW l \in DOMAIN files'[g]
                 PROVE  files'[f][k] < files'[g][l] <=> Older(f, g) \/ (f = g /\ k < l)
      BY DEF InOrder, Older
    <3>2. CASE ~Fresh(f, k) /\ ~Fresh(g, l)
      BY <2>a, <3>2 DEF IInv, InOrder
    <3>3. CASE Fresh(f, k)
      <4>1. files'[f][k] = nrec + 1 /\ ~Older(f, g)
        BY <2>a, <3>3 DEF Older
      <4>2. files'[g][l] \in Int /\ files'[g][l] <= nrec + 1
        <5>1. CASE Fresh(g, l)
          BY <1>0, <2>a, <5>1
        <5>2. CASE ~Fresh(g, l)
          <6>1. files'[g][l] \in Int /\ files'[g][l] <= nrec
            BY <2>a, <2>b, <5>2
          <6> QED
            BY <1>0, <6>1
        <5> QED
          BY <5>1, <5>2
      <4>3. f = g => l <= k
        BY <2>2, <2>3, <2>4, <3>3
      <4>4. l \in Int /\ k \in Int
        BY <1>0, <2>5, LenProperties
      <4> QED
        BY <1>0, <4>1, <4>2, <4>3, <4>4
    <3>4. CASE ~Fresh(f, k) /\ Fresh(g, l)
      <4>1. files'[g][l] = nrec + 1 /\ files'[f][k] \in Int /\ files'[f][k] <= nrec
        BY <2>a, <2>b, <3>4
      <4>2. CASE f = g
        BY <1>0, <2>2, <2>3, <2>4, <3>4, <4>1, <4>2
      <4>3. CASE f # g
        BY <1>0, <3>4, <4>1, <4>3 DEF Older
      <4> QED
        BY <4>2, <4>3
    <3> QED
      BY <3>2, <3>3, <3>4
  <2> QED
    BY <2>5, <2>6, <2>7, <2>8
<1> QED
  BY <1>1, <1>2

LEMMA loghimIInv ==
  ASSUME IInv, loghim
  PROVE  IInv'
<1>1. pc = "run" /\ Write /\ UNCHANGED <<logfd, pc, new, now, last>>
  BY DEF loghim
<1>2. TypeOK'
  BY <1>1, WriteKeeps DEF IInv, TypeOK
<1>3. (AtEnd /\ Vacant /\ Closed)'
  BY <1>1, WriteKeeps DEF IInv, AtEnd, Vacant, Closed
<1> QED
  BY <1>1, <1>2, <1>3, WriteKeeps DEF IInv

LEMMA RotateCloseIInv ==
  ASSUME ~SameSecond, IInv, RotateClose
  PROVE  IInv'
<1>1. /\ pc' = "closed" /\ now > last /\ new' = now /\ last' = now /\ ~logfd' /\ now' = now
      /\ Write /\ logfd' = FALSE
  BY DEF RotateClose
<1>2. TypeOK'
  <2>1. now \in -1..MaxNow
    BY LogFileAssumption DEF IInv, TypeOK, Stamps
  <2> QED
    BY <1>1, <2>1, WriteKeeps DEF IInv, TypeOK
<1>3. (AtEnd /\ Vacant /\ Closed)'
  BY <1>1, WriteKeeps, LogFileAssumption DEF IInv, TypeOK, AtEnd, Vacant, Closed, Stamps
<1> QED
  BY <1>1, <1>2, <1>3, WriteKeeps DEF IInv

LEMMA RotateRenameIInv ==
  ASSUME ~SameSecond, IInv, RotateRename
  PROVE  IInv'
<1>0. /\ pc = "closed" /\ pc' = "renamed"
      /\ new \in Stamps /\ new = last /\ files[new] = <<>> /\ ~logfd
      /\ UNCHANGED <<logfd, pos, new, now, last, nrec, written>>
      /\ files \in [Names -> Seq(1..MaxRec)] /\ logfile \in Names /\ new \in Names
      /\ logfile # new
  BY NamesFacts DEF RotateRename, IInv, TypeOK, Vacant, Closed
<1>1. CASE UNCHANGED files
  BY <1>0, <1>1 DEF IInv, TypeOK, AtEnd, Vacant, Numbered, Closed, NothingLost, InOrder
<1>2. CASE files' = [files EXCEPT ![new] = files[logfile], ![logfile] = <<>>]
  <2>1. /\ files'[new] = files[logfile] /\ files'[logfile] = <<>>
        /\ \A f \in Names \ {new, logfile} : files'[f] = files[f]
        /\ files' \in [Names -> Seq(1..MaxRec)]
    BY <1>0, <1>2, EmptySeq
  <2>2. TypeOK'
    BY <1>0, <2>1 DEF IInv, TypeOK
  <2>3. (AtEnd /\ Vacant /\ Closed)'
    BY <1>0, <2>1, NamesFacts, LogFileAssumption DEF IInv, TypeOK, AtEnd, Vacant, Closed, Stamps
  <2>4. DOMAIN files'[logfile] = {} /\ Len(files'[logfile]) = 0
    BY <2>1
  <2>5. Numbered'
    BY <1>0, <2>1, <2>4, LogFileAssumption DEF IInv, TypeOK, Numbered
  <2>6. NothingLost'
    <3> SUFFICES ASSUME NEW r \in written
                 PROVE  \E f \in Names : \E k \in DOMAIN files'[f] : files'[f][k] = r
      BY <1>0 DEF NothingLost
    <3>1. PICK f \in Names : \E k \in DOMAIN files[f] : files[f][k] = r
      BY DEF IInv, NothingLost
    <3>2. f # new
      BY <1>0, <3>1
    <3>3. CASE f = logfile
      BY <1>0, <2>1, <3>1, <3>3
    <3>4. CASE f # logfile
      BY <2>1, <3>1, <3>2, <3>4
    <3> QED
      BY <3>3, <3>4
  <2>7. \A f \in Names : f \notin {new, logfile} /\ files[f] # <<>> => f \in Stamps /\ f < new
    BY <1>0, LogFileAssumption DEF IInv, TypeOK, Vacant, Names, Stamps
  <2>8. InOrder'
    <3> SUFFICES ASSUME NEW f \in Names, NEW g \in Names,
                        NEW k \in DOMAIN files'[f], NEW l \in DOMAIN files'[g]
                 PROVE  files'[f][k] < files'[g][l] <=> Older(f, g) \/ (f = g /\ k < l)
      BY DEF InOrder, Older
    <3> DEFINE Was(h) == IF h = new THEN logfile ELSE h
    <3>1. \A h \in Names : \A m \in DOMAIN files'[h] :
            h # logfile /\ Was(h) \in Names /\ files'[h] = files[Was(h)] /\ m \in DOMAIN files[Was(h)]
      BY <1>0, <2>1, <2>4
    <3>2. files'[f][k] < files'[g][l] <=> Older(Was(f), Was(g)) \/ (Was(f) = Was(g) /\ k < l)
      BY <3>1 DEF IInv, InOrder
    <3>3. \A h \in Names : \A m \in DOMAIN files'[h] : h # new => h \in Stamps /\ h < new
      BY <2>7, <3>1
    <3>4. Older(Was(f), Was(g)) <=> Older(f, g)
      <4>1. f # logfile /\ g # logfile /\ (f # new => f < new) /\ (g # new => g < new)
        BY <3>1, <3>3
      <4>2. f \in Int /\ g \in Int /\ new \in Int
        BY <1>0, LogFileAssumption DEF Names, Stamps, logfile
      <4> QED
        BY <4>1, <4>2 DEF Older
    <3>5. Was(f) = Was(g) <=> f = g
      BY <3>1
    <3> QED
      BY <3>2, <3>4, <3>5
  <2> QED
    BY <2>2, <2>3, <2>5, <2>6, <2>8 DEF IInv
<1> QED
  BY <1>1, <1>2 DEF RotateRename

-----------------------------------------------------------------------------
LEMMA NextIInv ==
  ASSUME ~SameSecond
  PROVE  IInv /\ [Next]_vars => IInv'
<1> SUFFICES ASSUME IInv, [Next]_vars PROVE IInv'
  OBVIOUS
<1>1. CASE UNCHANGED vars
  BY <1>1 DEF vars, IInv, TypeOK, AtEnd, Vacant, Numbered, Closed, NothingLost, InOrder
<1> QED
  BY <1>1, QuietIInv, loghimIInv, RotateCloseIInv, RotateRenameIInv DEF Next

\* The inductive invariant holds throughout if rotations are seconds apart.
THEOREM Invariance == ASSUME ~SameSecond PROVE Spec => []IInv
  BY InitIInv, NextIInv, PTL DEF Spec

\* The variables keep their types: the offset and the names stay within their
\* bounds, whenever the program is killed.
THEOREM TypeCorrect == ASSUME ~SameSecond PROVE Spec => []TypeOK
<1>1. IInv => TypeOK
  BY DEF IInv
<1> QED
  BY <1>1, Invariance, PTL

\* Whatever was written stays on disk, wherever the program is killed, how often
\* rename() and open() fail.
THEOREM RecordsAreKept == ASSUME ~SameSecond PROVE Spec => []NothingLost
<1>1. IInv => NothingLost
  BY DEF IInv
<1> QED
  BY <1>1, Invariance, PTL

\* The archives tell the records in their order.
THEOREM ArchivesAreOrdered == ASSUME ~SameSecond PROVE Spec => []InOrder
<1>1. IInv => InOrder
  BY DEF IInv
<1> QED
  BY <1>1, Invariance, PTL
=============================================================================
