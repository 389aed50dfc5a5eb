------------------------------- MODULE Btcc2b -------------------------------
(***************************************************************************)
(* src/src/btcc2b.c: btcc, over FIX.  A market data message has a list of  *)
(* entries, each a bid (0), an ask (1), a trade (2) or something else.     *)
(* An entry may name its instrument; one that does not is about the one    *)
(* that was named last.                                                    *)
(*                                                                         *)
(* A line is a record [typ, ins, entries]: ins is the instrument named     *)
(* ahead of the entries or None, an entry is [ety, ins, price, qty], where *)
(* what is missing is None.                                                *)
(***************************************************************************)
EXTENDS Books, FiniteSetsExt

CONSTANT Deep   \* the instruments with real depth data: X..... and ...U..

Etys == {"0", "1", "2"}

\* The side of the flavour's name.  A trade has none: TRA.
EntrySide(ety) == CASE ety = "0" -> "bid" [] ety = "1" -> "ask" [] OTHER -> "tra"

\* The instruments named in a message, in the order of the text.
InNames(l) == <<l.ins>> \o [k \in DOMAIN l.entries |-> l.entries[k].ins]

Named(l) == {k \in DOMAIN InNames(l) : InNames(l)[k] # None}

\* Mutant of InOf: entries do not name their instrument.
InOfFirst(l, k) == InNames(l)[Min(Named(l))]

\* in: the first instrument of the message, and then that of the latest entry
\* that is not skipped for its type and that names one
InOf(l, k) ==
  LET by == {j \in 1..k : l.entries[j].ety \in Etys /\ l.entries[j].ins # None}
  IN  IF by = {} THEN InNames(l)[Min(Named(l))] ELSE l.entries[Max(by)].ins

\* The flavour's digit: instruments without depth have tops only.
Digit(typ, i, ety) ==
  CASE ety = "2" -> "0"
    [] ety # "2" /\ i \notin Deep -> "1"
    [] ety # "2" /\ i \in Deep -> IF typ = "X" THEN "3" ELSE "2"

\* Mutant of route_quote: entries without a price are printed.
route_quoteAll(l) ==
  IF Named(l) = {} THEN <<>>
  ELSE [k \in DOMAIN l.entries |->
          LET e == l.entries[k]
          IN  IF e.ety \notin Etys THEN Nothing
              ELSE [ins |-> InOf(l, k), fl |-> Digit(l.typ, InOf(l, k), e.ety),
                    lvl |-> <<EntrySide(e.ety), e.price>>, qty |-> e.qty]]

\* Entries of other types and those without a price are skipped, a quantity
\* may be missing.
route_quote(l) ==
  IF Named(l) = {} THEN <<>>
  ELSE [k \in DOMAIN l.entries |->
          LET e == l.entries[k]
          IN  IF e.ety \notin Etys \/ e.price = None THEN Nothing
              ELSE [ins |-> InOf(l, k), fl |-> Digit(l.typ, InOf(l, k), e.ety),
                    lvl |-> <<EntrySide(e.ety), e.price>>, qty |-> e.qty]]

\* full and incremental refreshs; the others are session messages
procln(l) == IF l.typ \in {"W", "X"} THEN route_quote(l) ELSE <<>>
=============================================================================
