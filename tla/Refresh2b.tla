----------------------------- MODULE Refresh2b ------------------------------
(***************************************************************************)
(* The converters whose lines name their instrument, so that no tables are *)
(* needed: src/src/hit2b.c (hitbtc), trt2b.c (the rock), ok2b.c (okcoin,   *)
(* FIX) and cex2b.c (cex).  A line holds the whole book of an instrument   *)
(* or changes to it.  All but ok2b.c have the JSON of a line taken apart    *)
(* into an array of tokens first, 4096 of them in hit2b.c and trt2b.c and  *)
(* 65536 in cex2b.c; of a line that needs more nothing is printed at all.  *)
(*                                                                         *)
(* A line is a record: [typ, ins] and its levels, [lvl, qty] each, with    *)
(* the sides apart where the program expects them apart.                   *)
(***************************************************************************)
EXTENDS Books

CONSTANT Room      \* number of levels and trades the array of tokens is good for

Quotes(i, levels) == [k \in DOMAIN levels |-> Quote(i, levels[k].lvl, levels[k].qty)]

\* Mutant of hit_procln: a full refresh does not clear the book.
hit_proclnOn(l) ==
  IF l.typ \in {"full", "incr"} /\ Len(l.levels) + Len(l.trades) <= Room
  THEN Quotes(l.ins, l.levels) \o [k \in DOMAIN l.trades |-> Trade(l.ins, l.trades[k].lvl, l.trades[k].qty)]
  ELSE <<>>

\* hit2b.c: full and incremental refreshs look the same but for the clear
hit_procln(l) ==
  IF l.typ \in {"full", "incr"} /\ Len(l.levels) + Len(l.trades) <= Room
  THEN (IF l.typ = "full" THEN <<Clear(l.ins)>> ELSE <<>>)
       \o Quotes(l.ins, l.levels)
       \o [k \in DOMAIN l.trades |-> Trade(l.ins, l.trades[k].lvl, l.trades[k].qty)]
  ELSE <<>>

\* trt2b.c: the whole book, asks first
proc_obk(l) == <<Clear(l.ins)>> \o Quotes(l.ins, l.asks) \o Quotes(l.ins, l.bids)

\* trt2b.c: a change of one level
proc_odf(l) == <<Quote(l.ins, l.lvl, l.qty)>>

trt_procln(l) ==
  CASE l.typ = "orderbook" /\ Len(l.asks) + Len(l.bids) <= Room -> proc_obk(l)
    [] l.typ = "orderbook_diff" -> proc_odf(l)
    [] OTHER -> <<>>

\* ok2b.c: entries that are neither bids nor asks, or lack a price or a
\* quantity, are skipped
route_quote(l, rstp) ==
  (IF rstp THEN <<Clear(l.ins)>> ELSE <<>>)
  \o [k \in DOMAIN l.entries |->
        LET e == l.entries[k]
        IN  IF e.ety \in {"0", "1"} /\ e.lvl # None /\ e.qty # None
            THEN Quote(l.ins, e.lvl, e.qty) ELSE Nothing]

ok_procln(l) ==
  CASE l.typ = "W" -> route_quote(l, TRUE)
    [] l.typ = "X" -> route_quote(l, FALSE)
    [] OTHER -> <<>>

\* cex2b.c: bids and asks of data that have a time
cex_procln(l) ==
  IF l.typ = "data" /\ Len(l.bids) + Len(l.asks) <= Room
  THEN Quotes(l.ins, l.bids) \o Quotes(l.ins, l.asks)
  ELSE <<>>
=============================================================================
