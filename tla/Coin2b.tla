------------------------------- MODULE Coin2b -------------------------------
(***************************************************************************)
(* src/src/coin2b.c: coinbase.  The exchange tells what becomes of every   *)
(* single order, the program prints by how much that changes the level the *)
(* order is at (flavours BID3 and ASK3).  It keeps nothing between lines.  *)
(*                                                                         *)
(* A line is a record [typ, ins, side, price, size]; size is None where    *)
(* the line has neither size nor remaining_size.                           *)
(***************************************************************************)
EXTENDS Books, Integers

Delta(i, l, d) == [ins |-> i, fl |-> "3", lvl |-> l, qty |-> d]

\* only the first character is looked at: no other type of the exchange's
\* begins with an o, a d or an m
snarf_type(typ) ==
  CASE typ = "open" -> "OPEN"
    [] typ = "done" -> "DONE"
    [] typ = "match" -> "MTCH"
    [] OTHER -> "UNK"

snarf_side(side) == IF side = "buy" THEN "bid" ELSE "ask"

\* Mutant of procln: a match adds to the level of the maker.
proclnAdds(l) ==
  LET ty == snarf_type(l.typ)
  IN  IF ty = "UNK" \/ l.size \in {None, 0} THEN <<>>
      ELSE <<Delta(l.ins, <<snarf_side(l.side), l.price>>,
                   IF ty = "DONE" THEN -l.size ELSE l.size)>>

\* Types that are not known are skipped, and so are lines without a quantity.
procln(l) ==
  LET ty == snarf_type(l.typ)
  IN  IF ty = "UNK" \/ l.size \in {None, 0} THEN <<>>
      ELSE <<Delta(l.ins, <<snarf_side(l.side), l.price>>,
                   IF ty = "OPEN" THEN l.size ELSE -l.size)>>
=============================================================================
