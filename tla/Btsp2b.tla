------------------------------- MODULE Btsp2b -------------------------------
(***************************************************************************)
(* src/src/btsp2b.c: bitstamp.  A line belongs to a channel whose name     *)
(* says what it is about: order_book has the best levels of the book,      *)
(* diff_order_book the levels that have changed.                           *)
(*                                                                         *)
(* The JSON of a line is taken apart into an array of 4096 tokens; of one   *)
(* that needs more nothing is printed.                                     *)
(*                                                                         *)
(* A line is a record [chan, ins, bids, asks], the sides being sequences   *)
(* of [price, qty].                                                        *)
(***************************************************************************)
EXTENDS Books

CONSTANTS
  Known,        \* the instruments that there is a name for
  Room          \* number of levels the array of tokens is good for

\* The name printed: all others share one, ??????.
snarf_ins(i) == IF i \in Known THEN i ELSE None

\* trades and orders are recognised and left alone, names of other channels
\* are not recognised
snarf_chan(c) ==
  CASE c = "order_book" -> "BOOK"
    [] c = "diff_order_book" -> "DIFF"
    [] c = "live_trades" -> "TRAS"
    [] c = "live_orders" -> "ORDS"
    [] OTHER -> "UNK"

\* One side: the first level of a book is its top.
Side(i, ch, sd, levels) ==
  [k \in DOMAIN levels |->
     LET l == <<sd, levels[k].price>>
     IN  IF k = 1 /\ ch = "BOOK" THEN Top(i, l, levels[k].qty) ELSE Quote(i, l, levels[k].qty)]

\* bids first
procln(l) ==
  LET ch == snarf_chan(l.chan)
      i == snarf_ins(l.ins)
  IN  IF ch \in {"BOOK", "DIFF"} /\ Len(l.bids) + Len(l.asks) <= Room
      THEN Side(i, ch, "bid", l.bids) \o Side(i, ch, "ask", l.asks)
      ELSE <<>>
=============================================================================
