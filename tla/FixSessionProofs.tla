-------------------------- MODULE FixSessionProofs --------------------------
(***************************************************************************)
(* The messages of a FIX client are numbered from 1 without gaps on every  *)
(* connection, for any number of messages either way, any number of        *)
(* connections and any way the peer's stream is cut into reads.            *)
(*                                                                         *)
(* What links the messages sent to the counter of fix.c is that the next   *)
(* number is one more than there are messages, as long as we are connected *)
(* (Counted); the counter is left alone between connections and it is the  *)
(* fix_reset() in fix_hello() that establishes it anew.                    *)
(***************************************************************************)
EXTENDS FixSession, SequenceTheorems, TLAPS

Counted == IF sc THEN seq = Len(out) + 1 ELSE out = <<>>

IInv == TypeOK /\ Sequenced /\ Connected /\ Counted

-----------------------------------------------------------------------------
\* A function over an initial segment is a sequence.
LEMMA FunIsSeq ==
  ASSUME NEW S, NEW n \in Nat, NEW g \in [1..n -> S]
  PROVE  g \in Seq(S)
  OBVIOUS

\* What fix_render() returns.
LEMMA Rendered ==
  ASSUME NEW t \in Outbound, NEW n \in Nat, NEW s \in Nat \ {0}
  PROVE  /\ fix_render(t, n, s) \in Seq(Message)
         /\ Len(fix_render(t, n, s)) = n
         /\ \A k \in 1..n : /\ fix_render(t, n, s)[k].typ = t
                            /\ fix_render(t, n, s)[k].num = s + k - 1
<1>1. fix_render(t, n, s) \in [1..n -> Message]
  BY DEF fix_render, Message
<1>2. fix_render(t, n, s) \in Seq(Message)
  BY <1>1, FunIsSeq
<1>3. Len(fix_render(t, n, s)) = n
  BY <1>1, <1>2, LenProperties
<1> QED
  BY <1>2, <1>3 DEF fix_render

\* Messages other than a logon continue the sequence.
LEMMA SendContinues ==
  ASSUME TypeOK, Sequenced, sc, seq = Len(out) + 1,
         NEW t \in Outbound \ {"A"}, NEW n \in Nat, Send(t, n)
  PROVE  /\ out' \in Seq(Message) /\ seq' \in Nat \ {0} /\ seq' = Len(out') + 1
         /\ out' # <<>>
         /\ \A k \in DOMAIN out' : out'[k].num = k /\ (out'[k].typ = "A" <=> k = 1)
<1> DEFINE r == fix_render(t, n, seq)
<1>1. /\ r \in Seq(Message) /\ Len(r) = n
      /\ \A k \in 1..n : r[k].typ = t /\ r[k].num = seq + k - 1
  <2>1. seq \in Nat \ {0} /\ t \in Outbound
    BY DEF TypeOK
  <2> QED
    BY <2>1, Rendered, ZenonT(30)
<1>2. out' = out \o r /\ seq' = seq + n
  BY DEF Send
<1> HIDE DEF r
<1>3. /\ out' \in Seq(Message) /\ Len(out') = Len(out) + n
      /\ \A k \in 1 .. Len(out) + n : out'[k] = IF k <= Len(out) THEN out[k] ELSE r[k - Len(out)]
  <2>1. out \in Seq(Message)
    BY DEF TypeOK
  <2> HIDE DEF Message
  <2>2. /\ out \o r \in Seq(Message) /\ Len(out \o r) = Len(out) + Len(r)
        /\ \A k \in 1 .. Len(out) + Len(r) :
             (out \o r)[k] = IF k <= Len(out) THEN out[k] ELSE r[k - Len(out)]
    BY <1>1, <2>1, ConcatProperties
  <2> QED
    BY <1>1, <1>2, <2>2
<1>4. Len(out) \in Nat /\ Len(out) > 0 /\ DOMAIN out = 1..Len(out)
  BY LenProperties, EmptySeq DEF TypeOK, Sequenced
<1>5. DOMAIN out' = 1 .. Len(out) + n
  BY <1>3, LenProperties
<1>6. ASSUME NEW k \in DOMAIN out'
      PROVE  out'[k].num = k /\ (out'[k].typ = "A" <=> k = 1)
  <2>1. CASE k <= Len(out)
    BY <1>3, <1>4, <1>5, <2>1 DEF Sequenced
  <2>2. CASE ~(k <= Len(out))
    <3>1. k - Len(out) \in 1..n /\ k \in Nat /\ k # 1
      BY <1>4, <1>5, <2>2
    <3>2. out'[k].typ = t /\ out'[k].num = seq + (k - Len(out)) - 1
      BY <1>1, <1>3, <1>5, <2>2, <3>1
    <3> QED
      BY <1>4, <3>1, <3>2
  <2> QED
    BY <2>1, <2>2
<1>7. out' # <<>>
  BY <1>3, <1>4, EmptySeq
<1> QED
  BY <1>2, <1>3, <1>4, <1>6, <1>7

LEMMA InitIInv == Init => IInv
<1> SUFFICES ASSUME Init PROVE IInv
  OBVIOUS
<1>1. out \in Seq(Message) /\ inq \in Seq(Inbound)
  BY EmptySeq DEF Init
<1>2. TypeOK
  <2>1. 0 \in 0..MaxIn /\ 0 \in 0..MaxConn /\ 1 \in Nat \ {0}
    BY FixAssumption
  <2> QED
    BY <1>1, <2>1, Zenon DEF Init, TypeOK
<1> QED
  BY <1>2 DEF Init, IInv, Sequenced, Connected, Counted

LEMMA OpenIInv ==
  ASSUME IInv, Open
  PROVE  IInv'
<1>1. /\ out' = fix_render("A", 1, 1) /\ seq' = 2 /\ sc' = TRUE /\ pc' = "poll"
      /\ inq' = <<>> /\ nin' = 0 /\ cut' = FALSE /\ hung' = FALSE /\ unloop' = FALSE
      /\ nconn' = nconn + 1 /\ nconn < MaxConn /\ let_in' = FALSE
      /\ UNCHANGED <<st, susp, pend>>
  BY DEF Open, fix_hello
<1>2. /\ out' \in Seq(Message) /\ Len(out') = 1 /\ DOMAIN out' = {1} /\ out' # <<>>
      /\ out'[1].typ = "A" /\ out'[1].num = 1
  <2>1. "A" \in Outbound
    BY DEF Outbound
  <2>2. /\ out' \in Seq(Message) /\ Len(out') = 1
        /\ out'[1].typ = "A" /\ out'[1].num = 1 + 1 - 1
    <3> DEFINE r == fix_render("A", 1, 1)
    <3>1. r \in [1..1 -> Message]
      BY <2>1 DEF fix_render, Message
    <3>2. r \in Seq(Message)
      BY <3>1, FunIsSeq
    <3>3. Len(r) = 1
      BY <3>1, <3>2, LenProperties
    <3>4. r[1].typ = "A" /\ r[1].num = 1 + 1 - 1
      BY DEF fix_render
    <3> HIDE DEF r
    <3>5. out' = r
      BY <1>1 DEF r
    <3> QED
      BY <3>2, <3>3, <3>4, <3>5, Zenon
  <2>3. DOMAIN out' = 1..1
    BY <2>2, LenProperties
  <2>4. out' # <<>>
    BY <2>2, EmptySeq
  <2> QED
    BY <2>2, <2>3, <2>4
<1>3. inq' \in Seq(Inbound)
  BY <1>1, EmptySeq
<1>4. TypeOK'
  <2>1. 0 \in 0..MaxIn /\ 2 \in Nat \ {0}
    BY FixAssumption
  <2>2. nconn' \in 0..MaxConn
    BY <1>1, FixAssumption DEF IInv, TypeOK
  <2> QED
    BY <1>1, <1>2, <1>3, <2>1, <2>2, Zenon DEF IInv, TypeOK
<1>5. Sequenced' /\ Connected'
  BY <1>1, <1>2 DEF Sequenced, Connected
<1>6. Counted'
  <2>1. 2 = 1 + 1
    OBVIOUS
  <2> QED
    BY <1>1, <1>2, <2>1, Zenon DEF Counted
<1> QED
  BY <1>4, <1>5, <1>6 DEF IInv

\* main(), the peer and libev apart from Open: nothing is sent.
LEMMA QuietIInv ==
  ASSUME IInv, OpenFail \/ PeerSend \/ PeerHangup \/ Poll
  PROVE  IInv'
<1>1. UNCHANGED sess /\ (pc' \in {"poll", "call", "close"} <=> pc \in {"poll", "call", "close"})
  BY DEF OpenFail, PeerSend, PeerHangup, Poll, loop, sess
<1>2. inq' \in Seq(Inbound) /\ nin' \in 0..MaxIn
  <2>1. CASE PeerSend
    <3>1. PICK m \in Inbound : inq' = Append(inq, m)
      BY <2>1 DEF PeerSend, Inbound
    <3>2. inq' \in Seq(Inbound)
      BY <3>1, AppendProperties DEF IInv, TypeOK
    <3>3. nin' \in 0..MaxIn
      BY <2>1, FixAssumption DEF IInv, TypeOK, PeerSend
    <3> QED
      BY <3>2, <3>3
  <2>2. CASE OpenFail \/ PeerHangup \/ Poll
    BY <2>2, Zenon DEF IInv, TypeOK, OpenFail, PeerHangup, Poll, peer
  <2> QED
    BY <2>1, <2>2
<1>3. TypeOK'
  <2>1. pend' \subseteq {"signal", "timer", "io"}
    BY DEF IInv, TypeOK, OpenFail, PeerSend, PeerHangup, Poll, loop, Ready
  <2>2. pc' \in {"open", "poll", "call", "close", "exited"}
    BY DEF IInv, TypeOK, OpenFail, PeerSend, PeerHangup, Poll, loop
  <2>3. unloop' \in BOOLEAN /\ cut' \in BOOLEAN /\ nconn' \in 0..MaxConn
    BY Zenon DEF IInv, TypeOK, OpenFail, PeerSend, PeerHangup, Poll, loop, peer
  <2>4. hung' \in BOOLEAN /\ let_in' \in BOOLEAN
    BY Zenon DEF IInv, TypeOK, OpenFail, PeerSend, PeerHangup, Poll, peer
  <2> QED
    BY <1>1, <1>2, <2>1, <2>2, <2>3, <2>4, Zenon DEF IInv, TypeOK, sess
<1> QED
  BY <1>1, <1>3 DEF IInv, Sequenced, Connected, Counted, sess

LEMMA CloseIInv ==
  ASSUME IInv, Close
  PROVE  IInv'
<1>1. out' \in Seq(Message) /\ DOMAIN out' = {}
  BY EmptySeq DEF Close
<1>2. TypeOK'
  BY <1>1 DEF IInv, TypeOK, Close, peer
<1> QED
  BY <1>1, <1>2 DEF IInv, Sequenced, Connected, Counted, Close

\* Callbacks: the loop goes on, connected.
LEMMA InvokeFacts ==
  ASSUME IInv, NEW e, Invoke(e), Return
  PROVE  /\ pc = "call" /\ sc /\ seq = Len(out) + 1
         /\ pc' \in {"poll", "call", "close"}
         /\ pend' \subseteq {"signal", "timer", "io"}
  BY DEF IInv, TypeOK, Connected, Counted, Invoke, Return

LEMMA SignalIInv ==
  ASSUME IInv, SigintCb \/ HbeatCb
  PROVE  IInv'
<1>1. /\ \E e : Invoke(e)
      /\ Return /\ (Send("5", 1) \/ Send("0", 1))
      /\ UNCHANGED <<sc, susp, peer, nconn, let_in>>
      /\ st' \in {st, "UNK"} /\ unloop' \in {unloop, TRUE}
  BY DEF SigintCb, HbeatCb, fix_gdbye, fix_hbeat
<1>2. /\ pc = "call" /\ sc /\ seq = Len(out) + 1
      /\ pc' \in {"poll", "call", "close"} /\ pend' \subseteq {"signal", "timer", "io"}
  BY <1>1, InvokeFacts
<1>3. /\ out' \in Seq(Message) /\ seq' \in Nat \ {0} /\ seq' = Len(out') + 1 /\ out' # <<>>
      /\ \A k \in DOMAIN out' : out'[k].num = k /\ (out'[k].typ = "A" <=> k = 1)
  BY <1>1, <1>2, SendContinues DEF IInv, Outbound
<1>4. TypeOK'
  BY <1>1, <1>2, <1>3 DEF IInv, TypeOK, peer
<1> QED
  BY <1>1, <1>2, <1>3, <1>4 DEF IInv, Sequenced, Connected, Counted

\* Whatever type a message is taken for, numbering goes on.
LEMMA BeefContinues ==
  ASSUME IInv, sc, NEW t, Beef(t)
  PROVE  /\ out' \in Seq(Message) /\ seq' \in Nat \ {0} /\ seq' = Len(out') + 1
         /\ out' # <<>>
         /\ \A k \in DOMAIN out' : out'[k].num = k /\ (out'[k].typ = "A" <=> k = 1)
         /\ st' \in {"UNK", "ON", "SUB", "OFF"} /\ susp' \in {0, 60}
<1>1. CASE Send("V", Requests) /\ st' = (IF Requests > 0 THEN "SUB" ELSE "ON") /\ UNCHANGED susp
  BY <1>1, SendContinues, FixAssumption DEF IInv, Counted, TypeOK, Outbound
<1>2. CASE st' = "OFF" /\ susp' \in {0, 60} /\ UNCHANGED <<seq, out>>
  BY <1>2 DEF IInv, Counted, TypeOK, Sequenced
<1>3. CASE UNCHANGED <<st, seq, susp, out>>
  BY <1>3 DEF IInv, Counted, TypeOK, Sequenced
<1> QED
  BY <1>1, <1>2, <1>3 DEF Beef, fix_subsc

LEMMA BeefCbIInv ==
  ASSUME IInv, BeefCb
  PROVE  IInv'
<1>1. /\ Invoke("io") /\ Return /\ inq # <<>>
      /\ UNCHANGED <<sc, unloop, nin, hung, nconn, let_in>>
  BY DEF BeefCb
<1>2. /\ pc = "call" /\ sc
      /\ pc' \in {"poll", "call", "close"} /\ pend' \subseteq {"signal", "timer", "io"}
  BY <1>1, InvokeFacts
<1>3. PICK k \in 1..Len(inq) : \E c \in IF Cuts THEN BOOLEAN ELSE {FALSE} :
        /\ inq' = IF c THEN SubSeq(inq, k, Len(inq)) ELSE SubSeq(inq, k + 1, Len(inq))
        /\ cut' = c
        /\ \E t : Beef(t)
  BY DEF BeefCb
<1>4. inq' \in Seq(Inbound)
  <2>1. Len(inq) \in Nat /\ \A j \in 1..Len(inq) : inq[j] \in Inbound
    BY LenProperties DEF IInv, TypeOK
  <2>2. SubSeq(inq, k, Len(inq)) \in Seq(Inbound)
    BY <2>1, SubSeqProperties
  <2>3. SubSeq(inq, k + 1, Len(inq)) \in Seq(Inbound)
    BY <2>1, SubSeqProperties
  <2> QED
    BY <1>3, <2>2, <2>3
<1>5. cut' \in BOOLEAN
  BY <1>3
<1>6. PICK t : Beef(t)
  BY <1>3
<1>7. /\ out' \in Seq(Message) /\ seq' \in Nat \ {0} /\ seq' = Len(out') + 1 /\ out' # <<>>
      /\ \A j \in DOMAIN out' : out'[j].num = j /\ (out'[j].typ = "A" <=> j = 1)
      /\ st' \in {"UNK", "ON", "SUB", "OFF"} /\ susp' \in {0, 60}
  BY <1>2, <1>6, BeefContinues
<1>8. TypeOK'
  BY <1>1, <1>2, <1>4, <1>5, <1>7 DEF IInv, TypeOK
<1> QED
  BY <1>1, <1>2, <1>7, <1>8 DEF IInv, Sequenced, Connected, Counted

LEMMA BeefFailIInv ==
  ASSUME IInv, BeefFail
  PROVE  IInv'
<1>1. /\ Invoke("io") /\ Return /\ st' = "UNK" /\ unloop' = TRUE
      /\ UNCHANGED <<sc, seq, susp, out, peer, nconn, let_in>>
  BY DEF BeefFail
<1>2. /\ pc = "call" /\ sc
      /\ pc' \in {"poll", "call", "close"} /\ pend' \subseteq {"signal", "timer", "io"}
  BY <1>1, InvokeFacts
<1>3. TypeOK'
  BY <1>1, <1>2 DEF IInv, TypeOK, peer
<1> QED
  BY <1>1, <1>2, <1>3 DEF IInv, Sequenced, Connected, Counted

-----------------------------------------------------------------------------
LEMMA NextIInv == IInv /\ [Next]_vars => IInv'
<1> SUFFICES ASSUME IInv, [Next]_vars PROVE IInv'
  OBVIOUS
<1>1. CASE UNCHANGED vars
  BY <1>1 DEF vars, sess, loop, peer, IInv, TypeOK, Sequenced, Connected, Counted
<1> QED
  BY <1>1, OpenIInv, QuietIInv, CloseIInv, SignalIInv, BeefCbIInv, BeefFailIInv
     DEF Next, Main, Callback, Exited

\* The inductive invariant holds throughout.
THEOREM Invariance == Spec => []IInv
  BY InitIInv, NextIInv, PTL DEF Spec

\* The variables keep their types.
THEOREM TypeCorrect == Spec => []TypeOK
<1>1. IInv => TypeOK
  BY DEF IInv
<1> QED
  BY <1>1, Invariance, PTL

\* Messages are numbered as FIX asks for, on every connection.
THEOREM MessagesAreSequenced == Spec => []Sequenced
<1>1. IInv => Sequenced
  BY DEF IInv
<1> QED
  BY <1>1, Invariance, PTL

\* assert(sc) in beef_cb() never fails, and main() does not lose a connection.
THEOREM AssertionHolds == Spec => []Connected
<1>1. IInv => Connected
  BY DEF IInv
<1> QED
  BY <1>1, Invariance, PTL

-----------------------------------------------------------------------------
(***************************************************************************)
(* Connecting again takes C-c: the loop has been told to end either by     *)
(* sigint_cb(), which has sent a logout before, or by beef_cb() when the   *)
(* peer has hung up; nothing is called after that, so main() finds the     *)
(* state as beef_cb() has left it.                                         *)
(***************************************************************************)
Bye == \E k \in DOMAIN out : out[k].typ = "5"

EndsFor ==
  /\ pc = "close" => unloop
  /\ unloop /\ pc \in {"call", "poll", "close"} => Bye \/ (pc = "close" /\ st = "UNK")

\* What has been sent stays sent.
LEMMA SendKeepsBye ==
  ASSUME IInv, sc, NEW t \in Outbound \ {"A"}, NEW n \in Nat, Send(t, n)
  PROVE  /\ Bye => Bye'
         /\ t = "5" /\ n = 1 => Bye'
<1> DEFINE r == fix_render(t, n, seq)
<1>1. seq \in Nat \ {0} /\ seq = Len(out) + 1 /\ out \in Seq(Message) /\ t \in Outbound
  BY DEF IInv, TypeOK, Counted
<1>2. r \in Seq(Message) /\ Len(r) = n /\ \A k \in 1..n : r[k].typ = t
  BY <1>1, Rendered
<1>3. out' = out \o r
  BY DEF Send
<1> HIDE DEF r, Message
<1>4. /\ out \o r \in Seq(Message) /\ Len(out \o r) = Len(out) + n
      /\ \A k \in 1 .. Len(out) + n :
           (out \o r)[k] = IF k <= Len(out) THEN out[k] ELSE r[k - Len(out)]
  BY <1>1, <1>2, ConcatProperties
<1>5. Len(out) \in Nat /\ DOMAIN out = 1..Len(out) /\ DOMAIN out' = 1 .. Len(out) + n
  BY <1>1, <1>3, <1>4, LenProperties
<1>6. ASSUME Bye PROVE Bye'
  <2>1. PICK k \in DOMAIN out : out[k].typ = "5"
    BY <1>6 DEF Bye
  <2>2. k \in DOMAIN out' /\ out'[k] = out[k]
    BY <1>3, <1>4, <1>5
  <2> QED
    BY <2>1, <2>2 DEF Bye
<1>7. ASSUME t = "5", n = 1 PROVE Bye'
  <2>1. Len(out) + 1 \in DOMAIN out'
    BY <1>5, <1>7
  <2>2. out'[Len(out) + 1] = r[1]
    BY <1>3, <1>4, <1>5, <1>7
  <2>3. r[1].typ = "5"
    BY <1>2, <1>7
  <2> QED
    BY <2>1, <2>2, <2>3 DEF Bye
<1> QED
  BY <1>6, <1>7

\* After the callback of the descriptor none is left.
LEMMA IoIsLast ==
  ASSUME IInv, Invoke("io"), Return
  PROVE  pend' = {} /\ pc' = (IF unloop' THEN "close" ELSE "poll")
<1>1. \A f \in pend : f = "io"
  BY DEF IInv, TypeOK, Invoke, Order
<1>2. pend' = {}
  BY <1>1 DEF Invoke
<1> QED
  BY <1>2 DEF Return

LEMMA NextEndsFor == IInv /\ EndsFor /\ [Next]_vars => EndsFor'
<1> SUFFICES ASSUME IInv, EndsFor, [Next]_vars PROVE EndsFor'
  OBVIOUS
<1>1. CASE UNCHANGED vars
  BY <1>1 DEF vars, sess, loop, EndsFor, Bye
<1>2. CASE Open \/ OpenFail \/ Close
  BY <1>2 DEF Open, OpenFail, Close, EndsFor, IInv, TypeOK
<1>3. CASE PeerSend \/ PeerHangup \/ Poll
  BY <1>3 DEF PeerSend, PeerHangup, Poll, sess, loop, EndsFor, Bye
<1>4. CASE SigintCb
  <2>1. Send("5", 1) /\ unloop' = TRUE /\ pc = "call" /\ sc
    BY <1>4 DEF SigintCb, fix_gdbye, Invoke, IInv, Connected
  <2>2. Bye'
    BY <2>1, SendKeepsBye DEF Outbound
  <2> QED
    BY <2>1, <2>2 DEF EndsFor
<1>5. CASE HbeatCb
  <2>1. Send("0", 1) /\ unloop' = unloop /\ pc = "call" /\ sc /\ Return
    BY <1>5 DEF HbeatCb, fix_hbeat, Invoke, IInv, Connected
  <2>2. Bye => Bye'
    BY <2>1, SendKeepsBye DEF Outbound
  <2>3. pc' \in {"call", "poll", "close"} /\ (pc' = "close" => unloop')
    BY <2>1 DEF Return
  <2> QED
    BY <2>1, <2>2, <2>3 DEF EndsFor
<1>6. CASE BeefCb
  <2>1. Invoke("io") /\ Return /\ unloop' = unloop /\ pc = "call" /\ sc
    BY <1>6 DEF BeefCb, Invoke, IInv, Connected
  <2>2. PICK t : Beef(t)
    BY <1>6 DEF BeefCb
  <2>3. Bye => Bye'
    <3>1. CASE Send("V", Requests)
      BY <2>1, <3>1, SendKeepsBye, FixAssumption DEF Outbound
    <3>2. CASE out' = out
      BY <3>2 DEF Bye
    <3> QED
      BY <2>2, <3>1, <3>2 DEF Beef, fix_subsc
  <2>4. pc' = (IF unloop' THEN "close" ELSE "poll")
    BY <2>1, IoIsLast
  <2> QED
    BY <2>1, <2>3, <2>4 DEF EndsFor
<1>7. CASE BeefFail
  <2>1. Invoke("io") /\ Return /\ unloop' = TRUE /\ st' = "UNK"
    BY <1>7 DEF BeefFail
  <2>2. pc' = "close"
    BY <2>1, IoIsLast
  <2> QED
    BY <2>1, <2>2 DEF EndsFor
<1>8. CASE Exited
  BY <1>8, <1>1 DEF Exited
<1> QED
  BY <1>1, <1>2, <1>3, <1>4, <1>5, <1>6, <1>7, <1>8 DEF Next, Main, Callback

\* main() never connects again because a connection was lost, only after C-c:
\* there is a logout among the messages sent whenever it is about to.
THEOREM ReconnectTakesInterrupt == Spec => []ReconnectsInterrupted
<1>1. Init => EndsFor
  BY DEF Init, EndsFor
<1>2. EndsFor => ReconnectsInterrupted
  BY DEF EndsFor, ReconnectsInterrupted, Bye
<1> QED
  BY <1>1, <1>2, NextEndsFor, Invariance, PTL DEF Spec
=============================================================================
