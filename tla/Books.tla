------------------------------- MODULE Books --------------------------------
(***************************************************************************)
(* The common format that the *2b programs turn the raw streams of the     *)
(* snarfers into, and the books tools that read it.                        *)
(*                                                                         *)
(* A line of output is a record: the instrument, the flavour, the price    *)
(* level and the quantity.  Of the flavour's name (BID2, A1, tra0, clr0)   *)
(* the side goes into the level, the digit says what the line is about:    *)
(* 0 is a trade, 1 the top of the book, 2 the quantity at a level.         *)
(* Times are left out.                                                     *)
(***************************************************************************)
EXTENDS Naturals, Sequences, FiniteSets

CONSTANTS
  Instruments,  \* the instruments of an exchange
  Prices,       \* prices
  MaxQty,       \* bound on quantities
  None          \* no instrument, no level

Sides == {"bid", "ask"}
Levels == Sides \X Prices
Qty == 0..MaxQty

ASSUME BooksAssumption ==
  /\ None \notin Instruments \cup Levels \cup Qty
  /\ IsFiniteSet(Prices) /\ MaxQty \in Nat \ {0}

Quote(i, l, q) == [ins |-> i, fl |-> "2", lvl |-> l, qty |-> q]
Top(i, l, q) == [ins |-> i, fl |-> "1", lvl |-> l, qty |-> q]
Trade(i, l, q) == [ins |-> i, fl |-> "0", lvl |-> l, qty |-> q]
Clear(i) == [ins |-> i, fl |-> "clr0", lvl |-> None, qty |-> 0]

\* An item of a line for which nothing is printed.
Nothing == [ins |-> None, fl |-> "", lvl |-> None, qty |-> 0]

\* What a program prints that takes a line for something it is not.
Garbled(i) == [ins |-> i, fl |-> "?", lvl |-> None, qty |-> 0]

\* The books tools: level 2 quotes replace the quantity at their level, a
\* quantity of 0 removes it, clr0 removes all levels of the instrument.  The
\* last line about a level decides.
Touches(r, i, l) == r.ins = i /\ (r.fl = "clr0" \/ (r.fl = "2" /\ r.lvl = l))

Apply(books, out) ==
  [i \in Instruments |-> [l \in Levels |->
    LET hits == {k \in DOMAIN out : Touches(out[k], i, l)}
    IN  IF hits = {} THEN books[i][l]
        ELSE out[CHOOSE k \in hits : \A j \in hits : j <= k].qty]]
=============================================================================
