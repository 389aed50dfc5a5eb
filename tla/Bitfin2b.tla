------------------------------ MODULE Bitfin2b ------------------------------
(***************************************************************************)
(* src/src/bitfin2b.c: turn a log of bitfinex' web socket into the common  *)
(* format.  Data lines refer to their channel by a number, the lines that  *)
(* confirm subscriptions say what instrument and what kind of data that    *)
(* is, and the program keeps this in two tables.                           *)
(*                                                                         *)
(* A line is a record: [typ |-> "subscribed", channel, id, ins], or        *)
(* [typ |-> "book", id, levels], [typ |-> "ticker", id, bid, ask, bsz,     *)
(* asz], [typ |-> "te", id, lvl, qty] (and "tu"), [typ |-> "hb", id].      *)
(* The tables come and go as one record t, [subins, subtys, subids].       *)
(***************************************************************************)
EXTENDS Books

CONSTANT Slots     \* number of entries of the tables, 256

\* the conversion to btf_chid_t
chid(x) == x % Slots

Subt(channel) ==
  CASE channel = "book" -> "BOK" [] channel = "ticker" -> "TOP"
    [] channel = "trades" -> "TRA" [] OTHER -> "UNK"

\* Mutant of subscr: the type of a channel is kept when it is used again.
subscrKeeps(t, l) ==
  IF Subt(l.channel) = "UNK" THEN t
  ELSE [t EXCEPT !.subins[chid(l.id)] = l.ins,
                 !.subtys[chid(l.id)] = IF @ = "UNK" THEN Subt(l.channel) ELSE @]

\* confirmations of other channels are skipped
subscr(t, l) ==
  IF Subt(l.channel) = "UNK" THEN t
  ELSE [t EXCEPT !.subins[chid(l.id)] = l.ins,
                 !.subtys[chid(l.id)] = Subt(l.channel)]

\* Mutant of evtbok: the count of orders is printed, not their quantity.
evtbokCount(i, levels) ==
  [k \in DOMAIN levels |-> Quote(i, levels[k].lvl, levels[k].cnt)]

\* A level is its price, the count of orders and their quantity.  If the count
\* is 0 the quantity is not looked at, what is printed is 0 or the quantity of
\* the level before it, and the rest of the line is not reached.
evtbok(i, levels) ==
  LET zero == {k \in DOMAIN levels : levels[k].cnt = 0}
      last == IF zero = {} THEN Len(levels)
              ELSE CHOOSE k \in zero : \A j \in zero : k <= j
  IN  [k \in 1..last |->
        Quote(i, levels[k].lvl,
              IF levels[k].cnt > 0 THEN levels[k].qty
              ELSE IF k = 1 THEN 0 ELSE levels[k - 1].qty)]

evttop(i, l) == <<Top(i, l.bid, l.bsz), Top(i, l.ask, l.asz)>>

\* only executions are printed, not their updates nor the initial trades
evttra(i, l) == IF l.typ = "te" THEN <<Trade(i, l.lvl, l.qty)>> ELSE <<>>

\* What a line is taken for depends on the table.  Heartbeats have too few
\* commas for anything.
events(t, l) ==
  LET i == t.subins[chid(l.id)]
      ty == t.subtys[chid(l.id)]
  IN  CASE ty = "BOK" /\ l.typ = "book" -> evtbok(i, l.levels)
        [] ty = "TOP" /\ l.typ = "ticker" -> evttop(i, l)
        [] ty = "TRA" -> evttra(i, l)
        [] ty \in {"BOK", "TOP"} /\ l.typ \notin {"hb", IF ty = "BOK" THEN "book" ELSE "ticker"}
             -> <<Garbled(i)>>
        [] OTHER -> <<>>

procln(t, l) ==
  IF l.typ = "subscribed" THEN [tab |-> subscr(t, l), out |-> <<>>]
  ELSE [tab |-> t, out |-> events(t, l)]
=============================================================================
