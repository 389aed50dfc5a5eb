-------------------------------- MODULE Rest --------------------------------
(***************************************************************************)
(* REST over a handle, rest_send() and rest_recv() of src/src/ws.c, beside *)
(* the other handles of the process.  A program sends its requests by the  *)
(* clock (heartbeat() of coin.c and plxwss.c), whether or not the previous *)
(* answer is complete, and recv() cuts the answers where it likes.         *)
(*                                                                         *)
(* Answers are sequences of tokens, each of them one byte to the code.     *)
(* What the code searches for is a pair of tokens, so that a read can end  *)
(* within it.                                                              *)
(***************************************************************************)
EXTENDS Handles, SequencesExt

CONSTANTS
  Lengths,      \* bodies announced by Content-Length: their lengths
  Chunkings,    \* bodies in chunks: the chunks' lengths, the last one first
  MaxAnswers    \* bound: answers under way

ASSUME RestAssumption ==
  /\ Lengths \subseteq Nat
  /\ Chunkings \subseteq Seq(Nat \ {0})

VARIABLES
  rs,           \* of a handle: HDR_SEEN, LEN_SEEN, ENC_SEEN and togo
  wire,         \* what the server has sent and nobody has read
  \* ghosts
  want,         \* the answer to the last request, if nothing else was under way
  out,          \* if so, what rest_recv() has returned since
  whole         \* and no read has ended, or gone on, where it must not

rvars == <<rs, wire, want, out, whole>>
vars == <<hvars, rvars>>

-----------------------------------------------------------------------------
(* Answers *)

Tok(t, n) == [t |-> t, n |-> n]
NL == Tok("newline", 0)
CRLF == Tok("crlf", 0)

Len2(n) == <<Tok("len", n), Tok("len+", n)>>
Enc2 == <<Tok("enc", 0), Tok("enc+", 0)>>
Eoh2 == <<Tok("eoh", 0), Tok("eoh+", 0)>>
Size2(n) == <<Tok("size", n), Tok("size+", n)>>
Data(k, n) == [j \in 1..n |-> Tok("data", 10 * k + j)]

\* Parts of a message, the last one first, in front of its end: what is left of
\* the message when j of them are.
Rear(parts, end) ==
  LET f[j \in 0 .. Len(parts)] == IF j = 0 THEN end ELSE parts[j] \o f[j - 1] IN f

ByLength(n) ==
  [bytes |-> <<Tok("header", 0)>> \o Len2(n) \o Eoh2 \o Data(1, n),
   line |-> Append(Data(1, n), NL)]
Chunks(ns) ==
  Rear([j \in DOMAIN ns |-> Append(Size2(ns[j]) \o Data(j, ns[j]), CRLF)], Append(Size2(0), CRLF))
Bodies(ns) == Rear([j \in DOMAIN ns |-> Data(j, ns[j])], <<NL>>)
ByChunks(ns) ==
  [bytes |-> <<Tok("header", 0)>> \o Enc2 \o Eoh2 \o Chunks(ns)[Len(ns)],
   line |-> Bodies(ns)[Len(ns)]]

Answers == {ByLength(n) : n \in Lengths} \cup {ByChunks(ns) : ns \in Chunkings}
NoAnswer == [bytes |-> <<>>, line |-> <<>>]

\* nothing else was under way when the last request was sent
alone(i) == want[i] # NoAnswer

-----------------------------------------------------------------------------
(* rest_recv() *)

Fresh == [hdr |-> FALSE, len |-> FALSE, enc |-> FALSE, togo |-> 0]

Second == [len |-> "len+", enc |-> "enc+", eoh |-> "eoh+", size |-> "size+"]

\* xmemmem(): where in r the first whole t is, 0 if there is none
xmemmem(r, t) ==
  LET at == {k \in 1 .. Len(r) - 1 : r[k].t = t /\ r[k + 1].t = Second[t]}
  IN IF at = {} THEN 0 ELSE CHOOSE k \in at : \A j \in at : k <= j

\* see if we need to snarf headers first
Snarf(s, r) ==
  IF s.len \/ s.enc \/ s.hdr THEN s
  ELSE IF xmemmem(r, "len") # 0
  THEN [s EXCEPT !.len = TRUE, !.togo = r[xmemmem(r, "len")].n]
  ELSE IF xmemmem(r, "enc") # 0 THEN [s EXCEPT !.enc = TRUE, !.togo = 0]
  ELSE s

\* Mutant of ByLen: a body that is complete waits for more.
ByLenMore(s, q) ==
  IF Len(q) <= s.togo THEN [s |-> [s EXCEPT !.togo = @ - Len(q)], out |-> q]
  ELSE [s |-> Fresh, out |-> Append(SubSeq(q, 1, s.togo), NL)]

\* LEN_SEEN: up to togo bytes, and a newline behind the last one
ByLen(s, q) ==
  IF Len(q) < s.togo THEN [s |-> [s EXCEPT !.togo = @ - Len(q)], out |-> q]
  ELSE [s |-> Fresh, out |-> Append(SubSeq(q, 1, s.togo), NL)]

\* Mutant of InChunk: a read is taken to end with the chunk or within it.
InChunkPast(s, q) ==
  IF Len(q) # s.togo THEN [s |-> [s EXCEPT !.togo = @ - Len(q)], out |-> q]
  ELSE [s |-> [s EXCEPT !.togo = 0], out |-> q]

\* the rest of a chunk; what follows it in this read is dropped
InChunk(s, q) ==
  IF Len(q) < s.togo THEN [s |-> [s EXCEPT !.togo = @ - Len(q)], out |-> q]
  ELSE [s |-> [s EXCEPT !.togo = 0], out |-> SubSeq(q, 1, s.togo)]

\* ENC_SEEN: strtoul() skips white space; the last chunk, and whatever is not
\* the size of a chunk, ends the message.
ByEnc(s, q) ==
  LET k == IF q # <<>> /\ q[1] = CRLF THEN 2 ELSE 1
      sized == k < Len(q) /\ xmemmem(SubSeq(q, k, k + 1), "size") # 0 /\ q[k].n > 0
  IN IF s.togo > 0 THEN InChunk(s, q)
     ELSE IF sized THEN InChunk([s EXCEPT !.togo = q[k].n], SubSeq(q, k + 2, Len(q)))
     ELSE [s |-> Fresh, out |-> <<NL>>]

Body(s, q) ==
  IF s.len THEN ByLen(s, q) ELSE IF s.enc THEN ByEnc(s, q) ELSE [s |-> s, out |-> q]

\* The new state and what is left in the caller's buffer, for a read of r.
\* The header's end only counts when something follows it.
rest_recv(s, r) ==
  LET t == Snarf(s, r)
      k == xmemmem(r, "eoh")
      q == SubSeq(r, k + 2, Len(r))
  IN IF t.hdr THEN Body(t, r)
     ELSE IF k = 0 THEN [s |-> t, out |-> <<>>]
     ELSE Body([t EXCEPT !.hdr = q # <<>>], q)

\* A read that does the message no harm: it does not end within what the code
\* searches for nor right behind the header, unless there is nothing else, does
\* not go on past a chunk, and is more than the end of one.  Going on past a chunk
\* is nothing unusual, a short answer in chunks comes in one read: see
\* EndsInNewline.
Harmless(r, rest) ==
  /\ Last(r).t \notin {"len", "enc", "eoh", "size"}
  /\ Last(r).t = "eoh+" => rest = <<>>
  /\ \A k \in 2 .. Len(r) - 1 : r[k] # CRLF
  /\ r # <<CRLF>>
-----------------------------------------------------------------------------
(* Actions *)

Reset(i) ==
  /\ rs' = [rs EXCEPT ![i] = Fresh]
  /\ wire' = [wire EXCEPT ![i] = <<>>]
  /\ want' = [want EXCEPT ![i] = NoAnswer]
  /\ out' = [out EXCEPT ![i] = <<>>]
  /\ whole' = [whole EXCEPT ![i] = FALSE]

RestInit ==
  /\ Init
  /\ rs = [i \in Slots |-> Fresh] /\ wire = [i \in Slots |-> <<>>]
  /\ want = [i \in Slots |-> NoAnswer] /\ out = [i \in Slots |-> <<>>]
  /\ whole = [i \in Slots |-> FALSE]

\* Mutant of RestSend: the state is left to the end of the message.
RestSendOn(i) ==
  /\ RestRequest(i)
  /\ Len(SelectSeq(wire[i], LAMBDA x : x.t = "header")) < MaxAnswers
  /\ \E a \in Answers :
       /\ wire' = [wire EXCEPT ![i] = @ \o a.bytes]
       /\ want' = [want EXCEPT ![i] = IF wire[i] = <<>> THEN a ELSE NoAnswer]
  /\ out' = [out EXCEPT ![i] = <<>>]
  /\ whole' = [whole EXCEPT ![i] = wire[i] = <<>>]
  /\ UNCHANGED rs

\* rest_send(), and the server's answer, to be read whenever
RestSend(i) ==
  /\ RestRequest(i)
  /\ Len(SelectSeq(wire[i], LAMBDA x : x.t = "header")) < MaxAnswers
  /\ \E a \in Answers :
       /\ wire' = [wire EXCEPT ![i] = @ \o a.bytes]
       /\ want' = [want EXCEPT ![i] = IF wire[i] = <<>> THEN a ELSE NoAnswer]
  /\ rs' = [rs EXCEPT ![i] = Fresh]
  /\ out' = [out EXCEPT ![i] = <<>>]
  /\ whole' = [whole EXCEPT ![i] = wire[i] = <<>>]

\* rest_recv() of a handle with something to read; reads end anywhere
RestRecv(i) ==
  /\ h[i] = "rest"
  /\ \E n \in 1 .. Len(wire[i]) :
       LET r == SubSeq(wire[i], 1, n)
           rest == SubSeq(wire[i], n + 1, Len(wire[i]))
           got == rest_recv(rs[i], r)
       IN /\ wire' = [wire EXCEPT ![i] = rest]
          /\ rs' = [rs EXCEPT ![i] = got.s]
          /\ out' = IF alone(i) THEN [out EXCEPT ![i] = @ \o got.out] ELSE out
          /\ whole' = [whole EXCEPT ![i] = @ /\ Harmless(r, rest)]
  /\ used' = Nobody
  /\ UNCHANGED <<h, gb, heap, lost, oom, want>>

\* Calls on web sockets, and those that fail, leave REST handles alone.
Others(i) ==
  \/ /\ \/ WsOpenOom(i) \/ WsOpenLost(i) \/ WsOpenRefused(i)
        \/ \E bsz \in Payloads : WsSend(i, bsz) \/ WsSendOom(i, bsz)
     /\ UNCHANGED rvars
  \/ (WsOpen(i) \/ WsClose(i)) /\ Reset(i)

Next == \E i \in Slots : RestSend(i) \/ RestRecv(i) \/ Others(i)

Spec == RestInit /\ [][Next]_vars

-----------------------------------------------------------------------------
(* Properties *)

TypeOK ==
  /\ HandlesTypeOK
  /\ rs \in [Slots -> [hdr : BOOLEAN, len : BOOLEAN, enc : BOOLEAN, togo : Nat]]
  /\ \A i \in Slots : rs[i].len => ~rs[i].enc

\* What is left of the guarantee at ws.c:844: an answer that is not mixed with an
\* earlier one and whose reads are all Harmless comes out as its body and one
\* newline behind it, whatever state earlier answers have left the handle in.  For
\* an answer with a Content-Length reads of any size will do, if none ends within
\* its header's fields; in one with chunks each chunk has to end a read.
WholeAnswers ==
  \A i \in Slots : whole[i] =>
    /\ IsPrefix(out[i], want[i].line)
    /\ wire[i] = <<>> => out[i] = want[i].line

\* `we guarantee that a whole message ends in \n' (ws.c:844): an answer that was
\* not mixed with an earlier one and has been read to its end has given a line
\* with a newline behind it.  The code does not keep that: what follows a chunk in
\* the same read is dropped (ws.c:918-921), the last chunk and with it the newline
\* included.
EndsInNewline ==
  \A i \in Slots : alone(i) /\ wire[i] = <<>> => out[i] # <<>> /\ Last(out[i]) = NL

\* However it is read, an answer that is not mixed with an earlier one gives no
\* more than one line, and none of the header gets into it.
OneLine ==
  \A i \in Slots : alone(i) =>
    \A k \in DOMAIN out[i] :
      /\ out[i][k].t \in {"data", "size", "size+", "crlf", "newline"}
      /\ out[i][k] = NL => k = Len(out[i])
=============================================================================
