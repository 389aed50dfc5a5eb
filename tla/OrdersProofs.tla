---------------------------- MODULE OrdersProofs ----------------------------
(***************************************************************************)
(* The books at home are right about the exchanges of Orders, for any      *)
(* number of instruments, prices, order ids and sizes.                     *)
(*                                                                         *)
(* OInv is inductive: the two properties, and Typed, which knows besides   *)
(* the types that only coinbase has orders and that what rests in its book *)
(* has a price.  For coinbase, depth is a number of lots: one order's      *)
(* event changes it by as much as that order's share (LotsSplit,           *)
(* DepthStep), which is what coin2b prints (CoinPrints).  For bitstamp,    *)
(* each level that is told is printed once (SortedIs, BtspPrints), for     *)
(* btcc each entry with its instrument (RouteQuote, EntryHits).            *)
(***************************************************************************)
EXTENDS Orders, FiniteSetTheorems, WellFoundedInduction, TLAPS

-----------------------------------------------------------------------------
(* Lots *)

\* All lots of the orders in S, of which x has f[x].
LotsOf(S, f) == UNION {{x} \X (1 .. f[x]) : x \in S}

LEMMA LotsFinite ==
  ASSUME NEW S, IsFiniteSet(S), NEW f, \A x \in S : f[x] \in Nat
  PROVE  IsFiniteSet(LotsOf(S, f))
<1> DEFINE T == {{x} \X (1 .. f[x]) : x \in S}
           g == [x \in S |-> {x} \X (1 .. f[x])]
<1>1. IsFiniteSet(T)
  <2>1. g \in Surjection(S, T)
    BY DEF Surjection
  <2> QED
    BY <2>1, FS_Surjection
<1>2. ASSUME NEW Q \in T PROVE IsFiniteSet(Q)
  <2>1. PICK x \in S : Q = {x} \X (1 .. f[x])
    OBVIOUS
  <2>2. IsFiniteSet({x})
    BY FS_Singleton
  <2>3. f[x] \in Int /\ 1 \in Int
    OBVIOUS
  <2>4. IsFiniteSet(1 .. f[x])
    BY <2>3, FS_Interval
  <2> QED
    BY <2>1, <2>2, <2>4, FS_Product
<1> HIDE DEF T
<1>3. IsFiniteSet(UNION T)
  BY <1>1, <1>2, FS_UNION
<1> QED
  BY <1>3 DEF T, LotsOf

\* The lots of one order and those of the others.
LEMMA LotsSplit ==
  ASSUME NEW S, IsFiniteSet(S), NEW f, \A x \in S : f[x] \in Nat, NEW o \in S
  PROVE  /\ Cardinality(LotsOf(S, f)) = Cardinality(LotsOf(S \ {o}, f)) + f[o]
         /\ Cardinality(LotsOf(S, f)) \in Nat /\ Cardinality(LotsOf(S \ {o}, f)) \in Nat
<1> DEFINE A == LotsOf(S \ {o}, f)
           B == {o} \X (1 .. f[o])
<1>1. LotsOf(S, f) = A \cup B
  BY DEF LotsOf
<1>2. A \cap B = {}
  BY DEF LotsOf
<1>3. IsFiniteSet(S \ {o})
  BY FS_RemoveElement
<1>4. IsFiniteSet(A) /\ IsFiniteSet(LotsOf(S, f))
  BY <1>3, LotsFinite
<1>5. IsFiniteSet(B) /\ Cardinality(B) = f[o]
  <2>1. IsFiniteSet({o}) /\ Cardinality({o}) = 1
    BY FS_Singleton
  <2>2. IsFiniteSet(1 .. f[o]) /\ Cardinality(1 .. f[o]) = f[o]
    BY FS_Interval
  <2>3. IsFiniteSet(B) /\ Cardinality(B) = 1 * f[o]
    BY <2>1, <2>2, FS_Product
  <2> QED
    BY <2>3
<1>6. Cardinality(A) \in Nat /\ Cardinality(LotsOf(S, f)) \in Nat /\ Cardinality(B) \in Nat
  BY <1>4, <1>5, FS_CardinalityType
<1> HIDE DEF A, B
<1>7. Cardinality(A \cup B) = Cardinality(A) + Cardinality(B) - Cardinality(A \cap B)
  BY <1>4, <1>5, FS_Union
<1>8. Cardinality({}) = 0
  BY FS_EmptySet
<1>9. Cardinality(A \cap B) = 0
  BY <1>2, <1>8
<1>10. Cardinality(A \cup B) = Cardinality(A) + f[o]
  BY <1>5, <1>6, <1>7, <1>9
<1>11. Cardinality(LotsOf(S, f)) = Cardinality(A) + f[o]
  BY <1>1, <1>10
<1> QED
  BY <1>6, <1>11 DEF A

\* When one order's lots change, all lots change by as many.
LEMMA OneChanges ==
  ASSUME NEW S, IsFiniteSet(S), NEW f, \A x \in S : f[x] \in Nat,
         NEW g, \A x \in S : g[x] \in Nat, NEW o \in S, \A x \in S \ {o} : g[x] = f[x]
  PROVE  /\ Cardinality(LotsOf(S, g)) = Cardinality(LotsOf(S, f)) + (g[o] - f[o])
         /\ Cardinality(LotsOf(S, f)) \in Nat
<1>1. LotsOf(S \ {o}, g) = LotsOf(S \ {o}, f)
  BY DEF LotsOf
<1>2. /\ Cardinality(LotsOf(S, g)) = Cardinality(LotsOf(S \ {o}, g)) + g[o]
      /\ Cardinality(LotsOf(S, g)) \in Nat /\ Cardinality(LotsOf(S \ {o}, g)) \in Nat
  BY LotsSplit
<1>3. /\ Cardinality(LotsOf(S, f)) = Cardinality(LotsOf(S \ {o}, f)) + f[o]
      /\ Cardinality(LotsOf(S, f)) \in Nat /\ Cardinality(LotsOf(S \ {o}, f)) \in Nat
  BY LotsSplit
<1> QED
  BY <1>1, <1>2, <1>3

-----------------------------------------------------------------------------
(* The inductive invariant *)

Order ==
  {Unplaced, Gone} \cup
  [st : {"received", "open"}, ins : Instruments, lvl : Sides \X (Prices \cup {None}), rem : Nat]

\* A top or a trade.
Tops == {None} \cup (Prices \X (Qty \cup {None}))

\* Only coinbase has orders, and what rests in its book has a price.
Typed ==
  /\ prog \in Programs /\ conn \in BOOLEAN
  /\ ords \in [Ids -> Order]
  /\ \A o \in Ids : ords[o].st = "open" => ords[o].lvl \in Levels
  /\ prog # "coin" => \A o \in Ids : ords[o] = Unplaced
  /\ book \in [Instruments -> [Levels -> Qty]]
  /\ repl \in [Instruments -> [Levels -> Int]]
  /\ top \in [Instruments -> [Flavours -> Tops]]
  /\ told \in [Instruments -> [Flavours -> Tops]]
  /\ sure \in [Instruments -> SUBSET Levels]

OInv == Typed /\ DepthFollows /\ TopsFollow

\* The fields of orders.
LEMMA OrderFields ==
  ASSUME NEW x \in Order
  PROVE  /\ x.st \in {"none", "gone", "received", "open"}
         /\ x.st \in {"received", "open"} =>
              /\ x.ins \in Instruments /\ x.lvl \in Sides \X (Prices \cup {None}) /\ x.rem \in Nat
              /\ x \in [st : {"received", "open"}, ins : Instruments,
                        lvl : Sides \X (Prices \cup {None}), rem : Nat]
         /\ x \in {Unplaced, Gone} => x.st \in {"none", "gone"}
<1>1. Unplaced.st = "none" /\ Gone.st = "gone"
  BY DEF Unplaced, Gone
<1> QED
  BY <1>1 DEF Order

LEMMA ShareType ==
  ASSUME NEW x \in Order, NEW i, NEW l
  PROVE  Share(x, i, l) \in Nat
BY OrderFields DEF Share

LEMMA TypedOK == OInv => TypeOK
<1> SUFFICES ASSUME OInv PROVE TypeOK
  OBVIOUS
<1>1. \A o \in Ids :
       \/ ords[o] \in {Unplaced, Gone}
       \/ /\ ords[o].st \in {"received", "open"} /\ ords[o].ins \in Instruments
          /\ ords[o].lvl \in Sides \X (Prices \cup {None}) /\ ords[o].rem \in Nat
  BY DEF OInv, Typed, Order
<1>2. \A i \in Instruments, l \in Levels : repl[i][l] \in Int
  BY DEF OInv, Typed
<1>3. \A x \in {top, told} : \A i \in Instruments, f \in Flavours :
       x[i][f] = None \/ x[i][f] \in Prices \X (Qty \cup {None})
  BY DEF OInv, Typed, Tops
<1> QED
  BY <1>1, <1>2, <1>3 DEF OInv, Typed, TypeOK

LEMMA InitOInv == Init => OInv
<1> SUFFICES ASSUME Init PROVE OInv
  OBVIOUS
<1>1. Unplaced \in Order /\ Unplaced.st = "none"
  BY DEF Order, Unplaced
<1>2. 0 \in Qty /\ 0 \in Int
  BY BooksAssumption DEF Qty
<1>3. None \in Tops
  BY DEF Tops
<1>4. Typed
  BY <1>1, <1>2, <1>3 DEF Init, Typed, NoTops
<1>5. DepthFollows
  <2> SUFFICES ASSUME NEW i \in Instruments, NEW l \in sure[i] PROVE repl[i][l] = Depth(i, l)
    BY DEF DepthFollows
  <2>1. l \in Levels /\ repl[i][l] = 0 /\ book[i][l] = 0
    BY <1>4 DEF Typed, Init
  <2>2. CASE prog = "coin"
    <3>1. \A o \in Ids : Share(ords[o], i, l) = 0
      BY <1>1 DEF Share, Init
    <3>2. UNION {{o} \X (1 .. Share(ords[o], i, l)) : o \in Ids} = {}
      BY <3>1
    <3> QED
      BY <2>1, <2>2, <3>2, FS_EmptySet DEF Depth
  <2>3. CASE prog # "coin"
    BY <2>1, <2>3 DEF Depth
  <2> QED
    BY <2>2, <2>3
<1>6. TopsFollow
  BY DEF Init, TopsFollow
<1> QED
  BY <1>4, <1>5, <1>6 DEF OInv

-----------------------------------------------------------------------------
(* coinbase *)

LEMMA TakeNothing ==
  ASSUME Typed, Take(<<>>)
  PROVE  repl' = repl /\ top' = top
<1> DEFINE hits(i, f) == {k \in DOMAIN <<>> :
                           <<>>[k].fl \in {"0", "1"} /\ <<>>[k].ins = i /\ <<>>[k].lvl[1] = f}
<1>1. top' = [i \in Instruments |-> [f \in Flavours |-> top[i][f]]]
  BY DEF Take
<1>2. top' = top
  BY <1>1 DEF Typed
<1>3. Apply(repl, <<>>) = repl
  <2>1. Apply(repl, <<>>) = [i \in Instruments |-> [l \in Levels |-> repl[i][l]]]
    BY DEF Apply
  <2> QED
    BY <2>1 DEF Typed
<1>4. repl' = repl
  BY <1>3 DEF Take
<1> QED
  BY <1>2, <1>4

LEMMA TakeDelta ==
  ASSUME Typed, prog = "coin", NEW i \in Instruments, NEW l \in Levels, NEW d \in Int,
         Take(<<Coin!Delta(i, l, d)>>)
  PROVE  /\ \A j \in Instruments, k \in Levels :
              repl'[j][k] = repl[j][k] + (IF j = i /\ k = l THEN d ELSE 0)
         /\ repl' \in [Instruments -> [Levels -> Int]]
         /\ top' = top
<1> DEFINE out == <<Coin!Delta(i, l, d)>>
<1>1. out # <<>> /\ out[1] = Coin!Delta(i, l, d) /\ DOMAIN out = {1}
  OBVIOUS
<1>2. out[1].ins = i /\ out[1].lvl = l /\ out[1].qty = d /\ out[1].fl = "3"
  BY <1>1 DEF Coin!Delta
<1>3. Take(out)
  OBVIOUS
<1> HIDE DEF out
<1>4. repl' = [repl EXCEPT ![i][l] = @ + d]
  BY <1>1, <1>2, <1>3 DEF Take
<1>5. repl[i] \in [Levels -> Int] /\ repl[i][l] + d \in Int
  BY DEF Typed
<1>6. repl' = [repl EXCEPT ![i] = [repl[i] EXCEPT ![l] = repl[i][l] + d]]
  BY <1>4
<1>7. repl' \in [Instruments -> [Levels -> Int]]
  BY <1>5, <1>6 DEF Typed
<1>8. \A j \in Instruments, k \in Levels :
        repl'[j][k] = repl[j][k] + (IF j = i /\ k = l THEN d ELSE 0)
  <2> TAKE j \in Instruments, k \in Levels
  <2>1. repl[j][k] \in Int
    BY DEF Typed
  <2>2. CASE j = i
    <3>1. repl'[j] = [repl[i] EXCEPT ![l] = repl[i][l] + d]
      BY <1>6, <2>2 DEF Typed
    <3> QED
      BY <1>5, <2>1, <2>2, <3>1
  <2>3. CASE j # i
    BY <1>6, <2>1, <2>3 DEF Typed
  <2> QED
    BY <2>2, <2>3
<1>9. top' = top
  <2> DEFINE hits(j, f) == {k \in DOMAIN out : out[k].fl \in {"0", "1"} /\ out[k].ins = j /\ out[k].lvl[1] = f}
             val(j, f) == IF hits(j, f) = {} THEN top[j][f]
                          ELSE <<out[Max(hits(j, f))].lvl[2], out[Max(hits(j, f))].qty>>
  <2>2. top' = [j \in Instruments |-> [f \in Flavours |-> val(j, f)]]
    BY <1>3, Zenon DEF Take
  <2>3. \A j, f : val(j, f) = top[j][f]
    <3>1. \A j, f : hits(j, f) = {}
      BY <1>1, <1>2
    <3> QED
      BY <3>1
  <2> HIDE DEF val
  <2>1. top' = [j \in Instruments |-> [f \in Flavours |-> top[j][f]]]
    BY <2>2, <2>3
  <2> QED
    BY <2>1 DEF Typed
<1> QED
  BY <1>7, <1>8, <1>9

\* What coin2b prints.
LEMMA CoinPrints ==
  ASSUME prog = "coin", NEW i, NEW l \in Sides \X (Prices \cup {None}), NEW size
  PROVE  /\ \A typ \in {"received", "change"} : procln(Line(typ, i, l, size)) = <<>>
         /\ size \in {None, 0} =>
              \A typ \in {"open", "done", "match"} : procln(Line(typ, i, l, size)) = <<>>
         /\ size \notin {None, 0} =>
              /\ procln(Line("open", i, l, size)) = <<Coin!Delta(i, l, size)>>
              /\ \A typ \in {"done", "match"} : procln(Line(typ, i, l, size)) = <<Coin!Delta(i, l, -size)>>
<1>1. <<Coin!snarf_side(IF l[1] = "bid" THEN "buy" ELSE "sell"), l[2]>> = l
  BY DEF Coin!snarf_side, Sides
<1>2. ASSUME NEW typ
      PROVE  /\ Line(typ, i, l, size).typ = typ /\ Line(typ, i, l, size).ins = i
             /\ Line(typ, i, l, size).size = size
             /\ <<Coin!snarf_side(Line(typ, i, l, size).side), Line(typ, i, l, size).price>> = l
  BY <1>1 DEF Line
<1>3. ASSUME NEW typ
      PROVE  procln(Line(typ, i, l, size)) =
               IF Coin!snarf_type(typ) = "UNK" \/ size \in {None, 0} THEN <<>>
               ELSE <<Coin!Delta(i, l, IF Coin!snarf_type(typ) = "OPEN" THEN size ELSE -size)>>
  <2> DEFINE ln == Line(typ, i, l, size)
  <2>1. /\ ln.typ = typ /\ ln.ins = i /\ ln.size = size
        /\ <<Coin!snarf_side(ln.side), ln.price>> = l
    BY <1>2
  <2> HIDE DEF ln
  <2>2. procln(ln) = Coin!procln(ln)
    BY DEF procln
  <2>3. procln(ln) =
               IF Coin!snarf_type(typ) = "UNK" \/ size \in {None, 0} THEN <<>>
               ELSE <<Coin!Delta(i, l, IF Coin!snarf_type(typ) = "OPEN" THEN size ELSE -size)>>
    BY <2>1, <2>2, Zenon DEF Coin!procln
  <2> QED
    BY <2>3 DEF ln
<1>4. /\ Coin!snarf_type("received") = "UNK" /\ Coin!snarf_type("change") = "UNK"
      /\ Coin!snarf_type("open") = "OPEN" /\ Coin!snarf_type("done") = "DONE"
      /\ Coin!snarf_type("match") = "MTCH"
  BY DEF Coin!snarf_type
<1> QED
  BY <1>3, <1>4

\* The books change with the order that changes.
LEMMA DepthStep ==
  ASSUME Typed, prog = "coin", prog' = prog, ords' \in [Ids -> Order], NEW o \in Ids,
         \A x \in Ids \ {o}, i \in Instruments, l \in Levels : Share(ords'[x], i, l) = Share(ords[x], i, l),
         NEW i \in Instruments, NEW l \in Levels
  PROVE  /\ Depth(i, l)' = Depth(i, l) + (Share(ords'[o], i, l) - Share(ords[o], i, l))
         /\ Depth(i, l) \in Nat
<1> DEFINE f == [x \in Ids |-> Share(ords[x], i, l)]
           g == [x \in Ids |-> Share(ords'[x], i, l)]
<1>1. Depth(i, l) = Cardinality(LotsOf(Ids, f)) /\ Depth(i, l)' = Cardinality(LotsOf(Ids, g))
  BY DEF Depth, LotsOf
<1>2. (\A x \in Ids : f[x] \in Nat) /\ (\A x \in Ids : g[x] \in Nat)
  BY ShareType DEF Typed
<1>3. \A x \in Ids \ {o} : g[x] = f[x]
  OBVIOUS
<1>4. g[o] = Share(ords'[o], i, l) /\ f[o] = Share(ords[o], i, l)
  OBVIOUS
<1> HIDE DEF f, g
<1>5. IsFiniteSet(Ids)
  BY OrdersAssumption
<1>6. /\ Cardinality(LotsOf(Ids, g)) = Cardinality(LotsOf(Ids, f)) + (g[o] - f[o])
      /\ Cardinality(LotsOf(Ids, f)) \in Nat
  BY <1>2, <1>3, <1>5, OneChanges
<1> QED
  BY <1>1, <1>4, <1>6

\* An event changes the level of order o by d, and its line says e: by d, or
\* else the line is not right.
Tells(o, typ, size, right, d, e) ==
  /\ right \in BOOLEAN /\ d \in Int /\ e \in Int
  /\ Event(typ, o, size, right)
  /\ procln(Line(typ, ords[o].ins, ords[o].lvl, size)) =
       IF e = 0 THEN <<>> ELSE <<Coin!Delta(ords[o].ins, ords[o].lvl, e)>>
  /\ e # 0 => ords[o].lvl \in Levels
  /\ right => e = d

\* Home follows such an event, or the level counts no more.
LEMMA EventFollows ==
  ASSUME OInv, prog = "coin", NEW o \in Ids, ords[o].ins \in Instruments,
         NEW typ, NEW size, NEW right, NEW d, NEW e, Tells(o, typ, size, right, d, e),
         \A i \in Instruments, l \in Levels :
           /\ Depth(i, l)' = Depth(i, l) + (IF i = ords[o].ins /\ l = ords[o].lvl THEN d ELSE 0)
           /\ Depth(i, l) \in Nat,
         ords' \in [Ids -> Order], \A x \in Ids : ords'[x].st = "open" => ords'[x].lvl \in Levels
  PROVE  OInv'
<1> USE DEF Tells
<1> DEFINE i0 == ords[o].ins
           l0 == ords[o].lvl
<1>1. prog' = prog /\ conn' = conn /\ book' = book /\ told' = told
  BY DEF Event
<1>2. /\ top' = top /\ repl' \in [Instruments -> [Levels -> Int]]
      /\ \A j \in Instruments, k \in Levels :
           repl'[j][k] = repl[j][k] + (IF conn /\ j = i0 /\ k = l0 THEN e ELSE 0)
  <2>1. CASE ~conn
    BY <2>1 DEF Event, Log, home, OInv, Typed
  <2>2. CASE conn /\ e = 0
    <3>1. Take(<<>>)
      BY <2>2 DEF Event, Log
    <3>2. repl' = repl /\ top' = top
      BY <3>1, TakeNothing DEF OInv
    <3> QED
      BY <2>2, <3>2 DEF OInv, Typed
  <2>3. CASE conn /\ e # 0
    <3>1. Take(<<Coin!Delta(i0, l0, e)>>)
      BY <2>3 DEF Event, Log
    <3>2. l0 \in Levels /\ i0 \in Instruments /\ Typed
      BY <2>3 DEF OInv
    <3> HIDE DEF i0, l0
    <3> QED
      BY <2>3, <3>1, <3>2, TakeDelta
  <2> QED
    BY <2>1, <2>2, <2>3
<1>3. sure' = IF conn /\ right THEN sure ELSE [sure EXCEPT ![i0] = @ \ {l0}]
  BY DEF Event
<1>4. sure' \in [Instruments -> SUBSET Levels]
  BY <1>3 DEF OInv, Typed
<1>5. Typed'
  BY <1>1, <1>2, <1>4 DEF OInv, Typed
<1>6. DepthFollows'
  <2> SUFFICES ASSUME NEW i \in Instruments, NEW l \in sure'[i] PROVE repl'[i][l] = Depth(i, l)'
    BY DEF DepthFollows
  <2>1. l \in Levels /\ l \in sure[i] /\ (i = i0 /\ l = l0 => conn /\ right)
    BY <1>3, <1>4 DEF OInv, Typed
  <2>2. repl[i][l] = Depth(i, l)
    BY <2>1 DEF OInv, DepthFollows
  <2>3. /\ Depth(i, l)' = Depth(i, l) + (IF i = i0 /\ l = l0 THEN d ELSE 0)
        /\ Depth(i, l) \in Nat
    BY <2>1
  <2>4. repl'[i][l] = repl[i][l] + (IF conn /\ i = i0 /\ l = l0 THEN e ELSE 0)
    BY <1>2, <2>1
  <2>5. i = i0 /\ l = l0 => e = d
    BY <2>1
  <2> DEFINE dep == Depth(i, l)
  <2> HIDE DEF i0, l0, dep
  <2>6. repl[i][l] = dep /\ dep \in Nat /\ Depth(i, l)' = dep + (IF i = i0 /\ l = l0 THEN d ELSE 0)
    BY <2>2, <2>3 DEF dep
  <2> QED
    BY <2>1, <2>4, <2>5, <2>6
<1>7. TopsFollow'
  BY <1>1, <1>2 DEF OInv, TopsFollow
<1> QED
  BY <1>5, <1>6, <1>7 DEF OInv

\* An order keeps its instrument and level when its quantity or state changes.
LEMMA OrderTurns ==
  ASSUME NEW x \in Order, x.st \in {"received", "open"}, NEW q \in Nat
  PROVE  /\ [x EXCEPT !.rem = q] \in Order
         /\ [x EXCEPT !.rem = q].st = x.st /\ [x EXCEPT !.rem = q].ins = x.ins
         /\ [x EXCEPT !.rem = q].lvl = x.lvl /\ [x EXCEPT !.rem = q].rem = q
         /\ [x EXCEPT !.st = "open"] \in Order
         /\ [x EXCEPT !.st = "open"].st = "open" /\ [x EXCEPT !.st = "open"].ins = x.ins
         /\ [x EXCEPT !.st = "open"].lvl = x.lvl /\ [x EXCEPT !.st = "open"].rem = x.rem
<1> DEFINE R == [st : {"received", "open"}, ins : Instruments,
                 lvl : Sides \X (Prices \cup {None}), rem : Nat]
<1>1. x \in R
  BY OrderFields
<1>2. [x EXCEPT !.rem = q] \in R /\ [x EXCEPT !.st = "open"] \in R
  BY <1>1
<1> QED
  BY <1>1, <1>2 DEF Order

LEMMA GoneOrder == Gone \in Order /\ Gone.st = "gone" /\ Unplaced.st = "none"
BY DEF Order, Gone, Unplaced

LEMMA CoinOnly ==
  ASSUME Typed, NEW o \in Ids, ords[o].st \in {"received", "open"}
  PROVE  /\ prog = "coin" /\ ords[o] \in Order /\ ords[o].ins \in Instruments
         /\ ords[o].lvl \in Sides \X (Prices \cup {None}) /\ ords[o].rem \in Nat
         /\ ords[o].st = "open" => ords[o].lvl \in Levels
<1>1. ords[o] \in Order
  BY DEF Typed
<1>2. prog # "coin" => ords[o].st = "none"
  BY GoneOrder DEF Typed
<1> QED
  BY <1>1, <1>2, OrderFields DEF Typed

LEMMA MatchOInv ==
  ASSUME OInv, NEW t \in Ids, NEW o \in Ids, NEW q \in Lots, Match(t, o, q)
  PROVE  OInv'
<1>1. /\ ords[t].st = "received" /\ ords[o].st = "open" /\ t # o
      /\ q <= ords[t].rem /\ q <= ords[o].rem /\ q \in Nat \ {0} /\ prog' = prog
  BY OrdersAssumption DEF Match, Incoming, Resting, Event
<1>2. Typed
  BY DEF OInv
<1>3. /\ prog = "coin" /\ ords[o] \in Order /\ ords[o].ins \in Instruments
      /\ ords[o].lvl \in Sides \X (Prices \cup {None}) /\ ords[o].rem \in Nat /\ ords[o].lvl \in Levels
  BY <1>1, <1>2, CoinOnly
<1>4. ords[t] \in Order /\ ords[t].rem \in Nat
  BY <1>1, <1>2, CoinOnly
<1>5. /\ ords' = [ords EXCEPT ![t].rem = @ - q, ![o].rem = @ - q]
      /\ Event("match", o, q, TRUE)
  BY DEF Match
<1>6. /\ ords'[t] = [ords[t] EXCEPT !.rem = ords[t].rem - q]
      /\ ords'[o] = [ords[o] EXCEPT !.rem = ords[o].rem - q]
      /\ \A x \in Ids \ {t, o} : ords'[x] = ords[x]
      /\ DOMAIN ords' = Ids
  BY <1>1, <1>2, <1>5 DEF Typed
<1>7. ords[t].rem - q \in Nat /\ ords[o].rem - q \in Nat
  BY <1>1, <1>3, <1>4
<1> DEFINE qt == ords[t].rem - q
           qo == ords[o].rem - q
<1>16. qt \in Nat /\ qo \in Nat /\ ords'[t] = [ords[t] EXCEPT !.rem = qt] /\ ords'[o] = [ords[o] EXCEPT !.rem = qo]
  BY <1>6, <1>7
<1> HIDE DEF qt, qo
<1>17. ords'[t] \in Order /\ ords'[t].st = ords[t].st
  <2>1. [ords[t] EXCEPT !.rem = qt] \in Order /\ [ords[t] EXCEPT !.rem = qt].st = ords[t].st
    BY <1>1, <1>4, <1>16, OrderTurns
  <2> QED
    BY <2>1, <1>16, Zenon
<1>18. /\ ords'[o] \in Order /\ ords'[o].st = ords[o].st /\ ords'[o].lvl = ords[o].lvl
       /\ ords'[o].ins = ords[o].ins /\ ords'[o].rem = qo
  <2> DEFINE y == [ords[o] EXCEPT !.rem = qo]
  <2>1. y \in Order /\ y.st = ords[o].st /\ y.lvl = ords[o].lvl /\ y.ins = ords[o].ins /\ y.rem = qo
    <3> DEFINE x == ords[o]
    <3>1. x \in Order /\ x.st \in {"received", "open"} /\ qo \in Nat
      BY <1>1, <1>3, <1>16
    <3> HIDE DEF x
    <3>2. LET z == [x EXCEPT !.rem = qo]
          IN  z \in Order /\ z.st = x.st /\ z.ins = x.ins /\ z.lvl = x.lvl /\ z.rem = qo
      BY <3>1, OrderTurns
    <3> QED
      BY <3>2 DEF x
  <2> HIDE DEF y
  <2> QED
    BY <2>1, <1>16, Zenon DEF y
<1>8. /\ ords'[t] \in Order /\ ords'[t].st = "received"
      /\ ords'[o] \in Order /\ ords'[o].st = "open" /\ ords'[o].lvl = ords[o].lvl
      /\ ords'[o].ins = ords[o].ins /\ ords'[o].rem = ords[o].rem - q
  BY <1>1, <1>17, <1>18 DEF qo
<1>9. ords' \in [Ids -> Order]
  <2>1. \A x \in Ids : ords'[x] \in Order
    BY <1>2, <1>6, <1>8 DEF Typed
  <2>2. ords' = [x \in Ids |-> ords'[x]]
    BY <1>2, <1>5 DEF Typed
  <2> QED
    BY <2>1, <2>2
<1>10. \A x \in Ids \ {o}, i \in Instruments, l \in Levels : Share(ords'[x], i, l) = Share(ords[x], i, l)
  BY <1>1, <1>6, <1>8 DEF Share
<1>11. \A i \in Instruments, l \in Levels :
         Share(ords'[o], i, l) - Share(ords[o], i, l) = IF i = ords[o].ins /\ l = ords[o].lvl THEN -q ELSE 0
  BY <1>1, <1>3, <1>8 DEF Share
<1>12. \A i \in Instruments, l \in Levels :
         /\ Depth(i, l)' = Depth(i, l) + (IF i = ords[o].ins /\ l = ords[o].lvl THEN -q ELSE 0)
         /\ Depth(i, l) \in Nat
  <2> TAKE i \in Instruments, l \in Levels
  <2>1. /\ Depth(i, l)' = Depth(i, l) + (Share(ords'[o], i, l) - Share(ords[o], i, l))
        /\ Depth(i, l) \in Nat
    BY <1>1, <1>2, <1>3, <1>9, <1>10, DepthStep
  <2> QED
    BY <2>1, <1>11
<1>13. procln(Line("match", ords[o].ins, ords[o].lvl, q)) =
         IF -q = 0 THEN <<>> ELSE <<Coin!Delta(ords[o].ins, ords[o].lvl, -q)>>
  <2>1. q \notin {None, 0} /\ -q # 0
    BY <1>1, OrdersAssumption
  <2>2. procln(Line("match", ords[o].ins, ords[o].lvl, q)) = <<Coin!Delta(ords[o].ins, ords[o].lvl, -q)>>
    BY <1>3, <2>1, CoinPrints
  <2> QED
    BY <2>1, <2>2
<1>14. \A x \in Ids : ords'[x].st = "open" => ords'[x].lvl \in Levels
  <2> TAKE x \in Ids
  <2>1. CASE x = o
    BY <1>3, <1>8, <2>1
  <2>2. CASE x = t
    BY <1>8, <2>2
  <2>3. CASE x \notin {t, o}
    <3>1. ords'[x] = ords[x]
      BY <1>6, <2>3
    <3>2. ords[x].st = "open" => ords[x].lvl \in Levels
      BY <1>2 DEF Typed
    <3> QED
      BY <3>1, <3>2
  <2> QED
    BY <2>1, <2>2, <2>3
<1> DEFINE d == -q
<1>15. Tells(o, "match", q, TRUE, d, d)
  <2>1. -q \in Int
    BY <1>1
  <2> QED
    BY <1>3, <1>5, <1>13, <2>1 DEF Tells
<1>19. \A i \in Instruments, l \in Levels :
         /\ Depth(i, l)' = Depth(i, l) + (IF i = ords[o].ins /\ l = ords[o].lvl THEN d ELSE 0)
         /\ Depth(i, l) \in Nat
  BY <1>12
<1> DEFINE right == TRUE
           typ == "match"
<1>20. Tells(o, typ, q, right, d, d)
  BY <1>15
<1> HIDE DEF d, right, typ
<1>21. prog = "coin" /\ ords[o].ins \in Instruments
  BY <1>3
<1> QED
  BY <1>9, <1>14, <1>19, <1>20, <1>21, EventFollows

\* The order becomes y, which changes its level by d.
Becomes(o, y, d) ==
  /\ ords[o].st \in {"received", "open"} /\ y \in Order
  /\ ords' = [ords EXCEPT ![o] = y]
  /\ y.st = "open" => y.lvl \in Levels
  /\ \A i \in Instruments, l \in Levels :
       Share(y, i, l) - Share(ords[o], i, l) = IF i = ords[o].ins /\ l = ords[o].lvl THEN d ELSE 0

\* The events of one order alone.
LEMMA OneOInv ==
  ASSUME OInv, NEW o \in Ids, NEW y, NEW typ, NEW size, NEW right, NEW d, NEW e,
         Becomes(o, y, d), Tells(o, typ, size, right, d, e)
  PROVE  OInv'
<1> USE DEF Becomes
<1>1. Typed /\ prog' = prog
  BY DEF OInv, Event, Tells
<1>2. prog = "coin" /\ ords[o].ins \in Instruments
  BY <1>1, CoinOnly
<1>3. ords'[o] = y /\ \A x \in Ids \ {o} : ords'[x] = ords[x]
  BY <1>1 DEF Typed
<1>4. ords' \in [Ids -> Order]
  BY <1>1 DEF Typed
<1>5. \A x \in Ids : ords'[x].st = "open" => ords'[x].lvl \in Levels
  BY <1>1, <1>3 DEF Typed
<1>6. \A x \in Ids \ {o}, i \in Instruments, l \in Levels : Share(ords'[x], i, l) = Share(ords[x], i, l)
  BY <1>3
<1>7. \A i \in Instruments, l \in Levels :
        /\ Depth(i, l)' = Depth(i, l) + (IF i = ords[o].ins /\ l = ords[o].lvl THEN d ELSE 0)
        /\ Depth(i, l) \in Nat
  <2> TAKE i \in Instruments, l \in Levels
  <2>1. /\ Depth(i, l)' = Depth(i, l) + (Share(ords'[o], i, l) - Share(ords[o], i, l))
        /\ Depth(i, l) \in Nat
    BY <1>1, <1>2, <1>4, <1>6, DepthStep
  <2> QED
    BY <2>1, <1>3
<1> QED
  BY <1>2, <1>4, <1>5, <1>7, EventFollows

LEMMA RestOInv ==
  ASSUME OInv, NEW o \in Ids, Rest(o)
  PROVE  OInv'
<1> DEFINE x == ords[o]
           y == [x EXCEPT !.st = "open"]
<1>1. x.st = "received" /\ x.rem > 0 /\ x.lvl[2] # None /\ Event("open", o, x.rem, TRUE)
  BY DEF Rest, Incoming
<1>2. /\ prog = "coin" /\ x \in Order /\ x.ins \in Instruments
      /\ x.lvl \in Sides \X (Prices \cup {None}) /\ x.rem \in Nat
  BY <1>1, CoinOnly DEF OInv
<1>3. x.lvl \in Levels
  BY <1>1, <1>2 DEF Levels
<1>4. ords' = [ords EXCEPT ![o] = y]
  BY DEF Rest
<1>5. y \in Order /\ y.st = "open" /\ y.ins = x.ins /\ y.lvl = x.lvl /\ y.rem = x.rem
  BY <1>1, <1>2, OrderTurns
<1>6. x.rem \notin {None, 0}
  BY <1>1, <1>2, OrdersAssumption
<1>7. procln(Line("open", x.ins, x.lvl, x.rem)) =
        IF x.rem = 0 THEN <<>> ELSE <<Coin!Delta(x.ins, x.lvl, x.rem)>>
  BY <1>2, <1>6, CoinPrints
<1> HIDE DEF y
<1>8. \A i \in Instruments, l \in Levels :
        Share(y, i, l) - Share(x, i, l) = IF i = x.ins /\ l = x.lvl THEN x.rem ELSE 0
  BY <1>1, <1>2, <1>5 DEF Share
<1>9. x.rem \in Int
  BY <1>2
<1> DEFINE d == x.rem
<1>10. Becomes(o, y, d)
  BY <1>1, <1>3, <1>4, <1>5, <1>8 DEF Becomes
<1>11. Tells(o, "open", d, TRUE, d, d)
  BY <1>1, <1>3, <1>7, <1>9 DEF Tells
<1> HIDE DEF d
<1> QED
  BY <1>10, <1>11, OneOInv

LEMMA DoneOInv ==
  ASSUME OInv, NEW o \in Ids, Done(o)
  PROVE  OInv'
<1> DEFINE x == ords[o]
           d == IF x.rem = 0 THEN 0 ELSE -x.rem
<1>1. x.st = "open" /\ Event("done", o, x.rem, TRUE) /\ ords' = [ords EXCEPT ![o] = Gone]
  BY DEF Done
<1>2. /\ prog = "coin" /\ x \in Order /\ x.ins \in Instruments
      /\ x.lvl \in Sides \X (Prices \cup {None}) /\ x.rem \in Nat /\ x.lvl \in Levels
  BY <1>1, CoinOnly DEF OInv
<1>3. x.rem # None
  BY <1>2, OrdersAssumption
<1>4. procln(Line("done", x.ins, x.lvl, x.rem)) = IF d = 0 THEN <<>> ELSE <<Coin!Delta(x.ins, x.lvl, d)>>
  <2>1. CASE x.rem = 0
    <3>1. procln(Line("done", x.ins, x.lvl, 0)) = <<>>
      BY <1>2, CoinPrints
    <3> QED
      BY <2>1, <3>1
  <2>2. CASE x.rem # 0
    <3>1. d = -x.rem /\ d # 0
      BY <1>2, <2>2
    <3>2. procln(Line("done", x.ins, x.lvl, x.rem)) = <<Coin!Delta(x.ins, x.lvl, -x.rem)>>
      BY <1>2, <1>3, <2>2, CoinPrints
    <3> QED
      BY <3>1, <3>2
  <2> QED
    BY <2>1, <2>2
<1>5. \A i \in Instruments, l \in Levels :
        Share(Gone, i, l) - Share(x, i, l) = IF i = x.ins /\ l = x.lvl THEN d ELSE 0
  BY <1>1, <1>2, GoneOrder DEF Share
<1>6. d \in Int
  BY <1>2
<1>7. Becomes(o, Gone, d)
  BY <1>1, <1>5, GoneOrder DEF Becomes
<1>8. Tells(o, "done", x.rem, TRUE, d, d)
  BY <1>1, <1>2, <1>4, <1>6 DEF Tells
<1> HIDE DEF d
<1> QED
  BY <1>7, <1>8, OneOInv

LEMMA KillOInv ==
  ASSUME OInv, NEW o \in Ids, Kill(o)
  PROVE  OInv'
<1> DEFINE x == ords[o]
           size == IF x.lvl[2] = None THEN None ELSE x.rem
           e == IF x.lvl[2] = None \/ x.rem = 0 THEN 0 ELSE -x.rem
<1>1. x.st = "received" /\ Event("done", o, size, x.rem = 0) /\ ords' = [ords EXCEPT ![o] = Gone]
  BY DEF Kill, Incoming
<1>2. /\ prog = "coin" /\ x \in Order /\ x.ins \in Instruments
      /\ x.lvl \in Sides \X (Prices \cup {None}) /\ x.rem \in Nat
  BY <1>1, CoinOnly DEF OInv
<1>3. x.rem # None
  BY <1>2, OrdersAssumption
<1>4. procln(Line("done", x.ins, x.lvl, size)) = IF e = 0 THEN <<>> ELSE <<Coin!Delta(x.ins, x.lvl, e)>>
  <2>1. CASE x.lvl[2] = None
    <3>1. size = None /\ e = 0
      BY <2>1
    <3> QED
      BY <1>2, <3>1, CoinPrints
  <2>2. CASE x.lvl[2] # None /\ x.rem = 0
    <3>1. size = 0 /\ e = 0
      BY <2>2
    <3> QED
      BY <1>2, <3>1, CoinPrints
  <2>3. CASE x.lvl[2] # None /\ x.rem # 0
    <3>1. size = x.rem /\ e = -x.rem /\ e # 0 /\ size \notin {None, 0}
      BY <1>2, <1>3, <2>3
    <3>2. procln(Line("done", x.ins, x.lvl, size)) = <<Coin!Delta(x.ins, x.lvl, -size)>>
      BY <1>2, <3>1, CoinPrints
    <3> QED
      BY <3>1, <3>2
  <2> QED
    BY <2>1, <2>2, <2>3
<1>5. \A i \in Instruments, l \in Levels :
        Share(Gone, i, l) - Share(x, i, l) = IF i = x.ins /\ l = x.lvl THEN 0 ELSE 0
  BY <1>1, <1>2, GoneOrder DEF Share
<1>6. e \in Int /\ (e # 0 => x.lvl \in Levels) /\ (x.rem = 0 => e = 0)
  BY <1>2 DEF Levels
<1> DEFINE right == x.rem = 0
<1>7. right \in BOOLEAN /\ 0 \in Int
  OBVIOUS
<1>8. Becomes(o, Gone, 0)
  BY <1>1, <1>5, GoneOrder DEF Becomes
<1>9. Event("done", o, size, right) /\ (right => e = 0)
  BY <1>1, <1>6
<1> HIDE DEF e, size, right
<1>10. Tells(o, "done", size, right, 0, e)
  BY <1>4, <1>6, <1>7, <1>9 DEF Tells
<1> QED
  BY <1>8, <1>10, OneOInv

LEMMA ResizeOInv ==
  ASSUME OInv, NEW o \in Ids, NEW q \in Lots, Resize(o, q)
  PROVE  OInv'
<1> DEFINE x == ords[o]
           y == [x EXCEPT !.rem = q]
           d == IF x.st = "open" THEN q - x.rem ELSE 0
<1>1. /\ x.st \in {"received", "open"} /\ Event("change", o, None, x.st = "received")
      /\ ords' = [ords EXCEPT ![o] = y] /\ q \in Nat
  BY OrdersAssumption DEF Resize, Incoming
<1>2. /\ prog = "coin" /\ x \in Order /\ x.ins \in Instruments
      /\ x.lvl \in Sides \X (Prices \cup {None}) /\ x.rem \in Nat
      /\ x.st = "open" => x.lvl \in Levels
  BY <1>1, CoinOnly DEF OInv
<1>3. y \in Order /\ y.st = x.st /\ y.ins = x.ins /\ y.lvl = x.lvl /\ y.rem = q
  BY <1>1, <1>2, OrderTurns
<1>4. procln(Line("change", x.ins, x.lvl, None)) = <<>>
  BY <1>2, CoinPrints
<1> HIDE DEF y
<1>5. \A i \in Instruments, l \in Levels :
        Share(y, i, l) - Share(x, i, l) = IF i = x.ins /\ l = x.lvl THEN d ELSE 0
  BY <1>1, <1>2, <1>3 DEF Share
<1>6. d \in Int /\ (x.st = "received" => 0 = d) /\ (x.st = "received") \in BOOLEAN /\ 0 \in Int
  BY <1>1, <1>2
<1>7. procln(Line("change", x.ins, x.lvl, None)) = IF 0 = 0 THEN <<>> ELSE <<Coin!Delta(x.ins, x.lvl, 0)>>
  BY <1>4
<1>8. 0 # 0 => x.lvl \in Levels
  OBVIOUS
<1> DEFINE right == x.st = "received"
<1>9. Event("change", o, None, right) /\ (right => 0 = d) /\ right \in BOOLEAN
  BY <1>1, <1>6
<1> HIDE DEF d, right
<1>10. Becomes(o, y, d)
  BY <1>1, <1>2, <1>3, <1>5 DEF Becomes
<1>11. Tells(o, "change", None, right, d, 0)
  BY <1>6, <1>7, <1>8, <1>9 DEF Tells
<1> QED
  BY <1>10, <1>11, OneOInv

LEMMA ReceiveOInv ==
  ASSUME OInv, NEW o \in Ids, NEW i \in Products, NEW l \in Sides \X (Prices \cup {None}), NEW q \in Lots,
         Receive(o, i, l, q)
  PROVE  OInv'
<1> DEFINE y == [st |-> "received", ins |-> i, lvl |-> l, rem |-> q]
<1>1. /\ prog = "coin" /\ ords[o] = Unplaced /\ ords' = [ords EXCEPT ![o] = y]
      /\ Log(Line("received", i, l, q)) /\ UNCHANGED <<prog, conn, book, sure, told>>
  BY DEF Receive
<1>2. Typed
  BY DEF OInv
<1>3. y \in Order
  BY OrdersAssumption DEF Order
<1>4. repl' = repl /\ top' = top
  <2>1. procln(Line("received", i, l, q)) = <<>>
    BY <1>1, CoinPrints
  <2>2. CASE conn
    BY <1>1, <1>2, <2>1, <2>2, TakeNothing DEF Log
  <2>3. CASE ~conn
    BY <1>1, <2>3 DEF Log, home
  <2> QED
    BY <2>2, <2>3
<1>5. /\ ords' \in [Ids -> Order] /\ ords'[o] = y /\ \A x \in Ids \ {o} : ords'[x] = ords[x]
  BY <1>1, <1>2, <1>3 DEF Typed
<1>6. Typed'
  BY <1>1, <1>2, <1>4, <1>5 DEF Typed
<1>7. DepthFollows'
  <2> SUFFICES ASSUME NEW j \in Instruments, NEW k \in sure[j] PROVE repl'[j][k] = Depth(j, k)'
    BY <1>1 DEF DepthFollows
  <2>1. k \in Levels /\ repl[j][k] = Depth(j, k)
    BY <1>2 DEF Typed, OInv, DepthFollows
  <2>2. \A x \in Ids \ {o}, j2 \in Instruments, k2 \in Levels : Share(ords'[x], j2, k2) = Share(ords[x], j2, k2)
    BY <1>5
  <2>3. Share(ords'[o], j, k) = 0 /\ Share(ords[o], j, k) = 0
    BY <1>1, <1>5, GoneOrder DEF Share
  <2>4. prog' = prog
    BY <1>1
  <2>5. /\ Depth(j, k)' = Depth(j, k) + (Share(ords'[o], j, k) - Share(ords[o], j, k))
        /\ Depth(j, k) \in Nat
    BY <1>1, <1>2, <1>5, <2>1, <2>2, <2>4, DepthStep
  <2> QED
    BY <1>4, <2>1, <2>3, <2>5
<1>8. TopsFollow'
  BY <1>1, <1>4 DEF OInv, TopsFollow
<1> QED
  BY <1>6, <1>7, <1>8 DEF OInv

-----------------------------------------------------------------------------
(* bitstamp: the levels of a line *)

\* How many prices are at least as good as p.
RankIn(px, s, p) == Cardinality({r \in px : IF s = "bid" THEN r >= p ELSE r <= p})

\* Ranks number the prices: the ones that are as good as one of two prices are
\* some of those that are as good as the other, and so all of them if the two
\* have the same rank.
LEMMA Ranks ==
  ASSUME NEW px \in SUBSET Nat, IsFiniteSet(px), NEW s
  PROVE  /\ \A p \in px : RankIn(px, s, p) \in 1 .. Cardinality(px)
         /\ \A p, q \in px : RankIn(px, s, p) = RankIn(px, s, q) => p = q
         /\ \A k \in 1 .. Cardinality(px) : \E p \in px : RankIn(px, s, p) = k
<1> DEFINE R(p) == {r \in px : IF s = "bid" THEN r >= p ELSE r <= p}
           n == Cardinality(px)
           rank == [p \in px |-> RankIn(px, s, p)]
<1>1. n \in Nat
  BY FS_CardinalityType
<1>2. \A p \in px : p \in R(p) /\ R(p) \in SUBSET px
  OBVIOUS
<1>3. \A p, q \in px : (R(p) \subseteq R(q) \/ R(q) \subseteq R(p)) /\ (R(p) = R(q) => p = q)
  <2> TAKE p, q \in px
  <2>1. p \in Nat /\ q \in Nat /\ \A r \in px : r \in Nat
    OBVIOUS
  <2>2. CASE s = "bid"
    <3>1. R(p) = {r \in px : r >= p} /\ R(q) = {r \in px : r >= q}
      BY <2>2
    <3> HIDE DEF R
    <3>2. R(p) = R(q) => p = q
      <4>1. SUFFICES ASSUME R(p) = R(q) PROVE p = q
        OBVIOUS
      <4>2. p >= q /\ q >= p
        BY <2>1, <3>1, <4>1
      <4> QED
        BY <2>1, <4>2
    <3>3. CASE p >= q
      <4>1. \A r \in px : r >= p => r >= q
        BY <2>1, <3>3
      <4>2. R(p) \subseteq R(q)
        BY <3>1, <4>1
      <4> QED
        BY <3>2, <4>2
    <3>4. CASE q >= p
      <4>1. \A r \in px : r >= q => r >= p
        BY <2>1, <3>4
      <4>2. R(q) \subseteq R(p)
        BY <3>1, <4>1
      <4> QED
        BY <3>2, <4>2
    <3> QED
      BY <2>1, <3>3, <3>4
  <2>3. CASE s # "bid"
    <3>1. R(p) = {r \in px : r <= p} /\ R(q) = {r \in px : r <= q}
      BY <2>3
    <3> HIDE DEF R
    <3>2. R(p) = R(q) => p = q
      <4>1. SUFFICES ASSUME R(p) = R(q) PROVE p = q
        OBVIOUS
      <4>2. p <= q /\ q <= p
        BY <2>1, <3>1, <4>1
      <4> QED
        BY <2>1, <4>2
    <3>3. CASE p <= q
      <4>1. \A r \in px : r <= p => r <= q
        BY <2>1, <3>3
      <4>2. R(p) \subseteq R(q)
        BY <3>1, <4>1
      <4> QED
        BY <3>2, <4>2
    <3>4. CASE q <= p
      <4>1. \A r \in px : r <= q => r <= p
        BY <2>1, <3>4
      <4>2. R(q) \subseteq R(p)
        BY <3>1, <4>1
      <4> QED
        BY <3>2, <4>2
    <3> QED
      BY <2>1, <3>3, <3>4
  <2> QED
    BY <2>2, <2>3
<1>4. \A p \in px : RankIn(px, s, p) = Cardinality(R(p))
  BY DEF RankIn
<1> HIDE DEF R
<1>5. \A p \in px : IsFiniteSet(R(p)) /\ Cardinality(R(p)) \in 1 .. n
  <2> TAKE p \in px
  <2>1. IsFiniteSet(R(p)) /\ Cardinality(R(p)) <= n
    BY <1>2, FS_Subset
  <2>2. Cardinality(R(p)) \in Nat
    BY <2>1, FS_CardinalityType
  <2>3. Cardinality(R(p)) # 0
    BY <1>2, <2>1, FS_EmptySet
  <2> QED
    BY <1>1, <2>1, <2>2, <2>3
<1>6. \A p, q \in px : R(p) \subseteq R(q) /\ Cardinality(R(p)) = Cardinality(R(q)) => R(p) = R(q)
  <2> SUFFICES ASSUME NEW p \in px, NEW q \in px, R(p) \subseteq R(q), Cardinality(R(p)) = Cardinality(R(q))
               PROVE  R(p) = R(q)
    OBVIOUS
  <2>1. IsFiniteSet(R(q)) /\ R(p) \in SUBSET R(q)
    BY <1>5
  <2> QED
    BY <2>1, FS_Subset
<1>7. \A p, q \in px : RankIn(px, s, p) = RankIn(px, s, q) => p = q
  BY <1>3, <1>4, <1>6
<1>8. \A p \in px : RankIn(px, s, p) \in 1 .. n
  BY <1>4, <1>5
<1>9. rank \in Injection(px, 1 .. n)
  <2>1. rank \in [px -> 1 .. n]
    BY <1>8
  <2>2. \A p, q \in px : rank[p] = rank[q] => p = q
    BY <1>7
  <2> HIDE DEF rank
  <2> QED
    BY <2>1, <2>2 DEF Injection, IsInjective
<1>10. IsFiniteSet(1 .. n) /\ Cardinality(1 .. n) = n
  BY <1>1, FS_Interval
<1>11. rank \in Surjection(px, 1 .. n)
  <2> HIDE DEF rank
  <2>1. Cardinality(px) = Cardinality(1 .. n) <=> rank \in Surjection(px, 1 .. n)
    BY <1>9, <1>10, FS_Injection
  <2> QED
    BY <1>10, <2>1
<1>12. \A k \in 1 .. n : \E p \in px : rank[p] = k
  <2> HIDE DEF rank
  <2> QED
    BY <1>11 DEF Surjection
<1>13. \A k \in 1 .. n : \E p \in px : RankIn(px, s, p) = k
  BY <1>12
<1> QED
  BY <1>7, <1>8, <1>13

PricesAt(L, s) == {l[2] : l \in {k \in L : k[1] = s}}

\* The levels of one side, each once, with their quantities.
IsSide(z, L, s, b) ==
  /\ \E n \in Nat : DOMAIN z = 1 .. n
  /\ z = [k \in DOMAIN z |-> z[k]]
  /\ \A k \in DOMAIN z : <<s, z[k].price>> \in L /\ z[k].qty = b[<<s, z[k].price>>]
  /\ \A l \in L : l[1] = s => \E k \in DOMAIN z : z[k].price = l[2]
  /\ \A j, k \in DOMAIN z : z[j].price = z[k].price => j = k

LEMMA SortedIs ==
  ASSUME NEW L \in SUBSET Levels, NEW s \in Sides, NEW b
  PROVE  IsSide(Sorted(L, s, b), L, s, b)
<1> DEFINE px == PricesAt(L, s)
           n == Cardinality(px)
           at(k) == CHOOSE r \in px : RankIn(px, s, r) = k
           z == Sorted(L, s, b)
<1>1. px \in SUBSET Prices /\ \A p \in px : <<s, p>> \in L
  BY DEF PricesAt, Levels
<1>2. \A l \in L : l[1] = s => l[2] \in px
  BY DEF PricesAt
<1>3. px \in SUBSET Nat /\ IsFiniteSet(px)
  BY <1>1, BooksAssumption, OrdersAssumption, FS_Subset
<1>4. n \in Nat
  BY <1>3, FS_CardinalityType
<1>5. z = [k \in 1 .. n |-> [price |-> at(k), qty |-> b[<<s, at(k)>>]]]
  BY DEF Sorted, PricesAt, RankIn
<1> HIDE DEF px, z
<1>6. \A k \in 1 .. n : at(k) \in px /\ RankIn(px, s, at(k)) = k
  <2> TAKE k \in 1 .. n
  <2>1. \E p \in px : RankIn(px, s, p) = k
    BY <1>3, Ranks
  <2> QED
    BY <2>1
<1>7. \A p \in px : RankIn(px, s, p) \in 1 .. n /\ at(RankIn(px, s, p)) = p
  <2> TAKE p \in px
  <2>1. RankIn(px, s, p) \in 1 .. n
    BY <1>3, Ranks
  <2>2. \A q \in px : RankIn(px, s, q) = RankIn(px, s, p) => q = p
    BY <1>3, Ranks
  <2> QED
    BY <2>1, <2>2
<1> HIDE DEF at, n
<1>8. DOMAIN z = 1 .. n /\ \A k \in 1 .. n : z[k].price = at(k) /\ z[k].qty = b[<<s, at(k)>>]
  BY <1>5
<1>9. z = [k \in DOMAIN z |-> z[k]]
  BY <1>5
<1>10. \A k \in DOMAIN z : <<s, z[k].price>> \in L /\ z[k].qty = b[<<s, z[k].price>>]
  BY <1>1, <1>6, <1>8
<1>11. \A l \in L : l[1] = s => \E k \in DOMAIN z : z[k].price = l[2]
  <2> SUFFICES ASSUME NEW l \in L, l[1] = s PROVE \E k \in DOMAIN z : z[k].price = l[2]
    OBVIOUS
  <2>1. RankIn(px, s, l[2]) \in 1 .. n /\ at(RankIn(px, s, l[2])) = l[2]
    BY <1>2, <1>7
  <2> QED
    BY <1>8, <2>1
<1>12. \A j, k \in DOMAIN z : z[j].price = z[k].price => j = k
  <2>1. \A j, k \in 1 .. n : at(j) = at(k) => j = k
    <3> TAKE j, k \in 1 .. n
    <3>1. RankIn(px, s, at(j)) = j /\ RankIn(px, s, at(k)) = k
      BY <1>6
    <3> QED
      BY <3>1
  <2> TAKE j, k \in DOMAIN z
  <2>2. j \in 1 .. n /\ k \in 1 .. n /\ z[j].price = at(j) /\ z[k].price = at(k)
    BY <1>8
  <2> QED
    BY <2>1, <2>2
<1>13. IsSide(z, L, s, b)
  BY <1>4, <1>8, <1>9, <1>10, <1>11, <1>12 DEF IsSide
<1> QED
  BY <1>13 DEF z

\* What is printed for the j-th level of side s of a line about the levels L.
Item(chan, i, L, b, s, j) ==
  [ins |-> Btsp!snarf_ins(i), fl |-> IF j = 1 /\ chan = "order_book" THEN "1" ELSE "2",
   lvl |-> <<s, Sorted(L, s, b)[j].price>>, qty |-> Sorted(L, s, b)[j].qty]

\* The output has these and nothing else.
Items(o, chan, i, L, b) ==
  /\ \E n \in Nat : DOMAIN o = 1 .. n
  /\ \A k \in DOMAIN o : \E s \in Sides : \E j \in DOMAIN Sorted(L, s, b) : o[k] = Item(chan, i, L, b, s, j)
  /\ \A s \in Sides : \A j \in DOMAIN Sorted(L, s, b) : \E k \in DOMAIN o : o[k] = Item(chan, i, L, b, s, j)

LEMMA Joined ==
  ASSUME NEW X, NEW p \in Seq(X), NEW q \in Seq(X)
  PROVE  /\ DOMAIN p = 1 .. Len(p) /\ DOMAIN q = 1 .. Len(q)
         /\ Len(p) \in Nat /\ Len(q) \in Nat
         /\ DOMAIN (p \o q) = 1 .. (Len(p) + Len(q))
         /\ \A k \in 1 .. Len(p) : (p \o q)[k] = p[k]
         /\ \A k \in 1 .. Len(q) : (p \o q)[Len(p) + k] = q[k]
OBVIOUS

LEMMA BtspPrints ==
  ASSUME prog = "btsp", NEW i, NEW L \in SUBSET Levels, NEW b,
         NEW chan \in {"order_book", "diff_order_book"}, Parsed(Channel(chan, i, L, b))
  PROVE  Items(procln(Channel(chan, i, L, b)), chan, i, L, b)
<1> DEFINE ln == Channel(chan, i, L, b)
           ch == Btsp!snarf_chan(chan)
           nm == Btsp!snarf_ins(i)
           side(s) == Btsp!Side(nm, ch, s, Sorted(L, s, b))
           it(s, j) == Item(chan, i, L, b, s, j)
           dom(s) == DOMAIN Sorted(L, s, b)
<1>1. ch \in {"BOOK", "DIFF"} /\ (ch = "BOOK" <=> chan = "order_book")
  BY DEF Btsp!snarf_chan
<1>2. procln(ln) = side("bid") \o side("ask")
  <2>1. ln.chan = chan /\ ln.ins = i /\ ln.bids = Sorted(L, "bid", b) /\ ln.asks = Sorted(L, "ask", b)
    BY DEF Channel
  <2>2. Len(ln.bids) + Len(ln.asks) <= Room
    BY DEF Parsed
  <2> HIDE DEF ln
  <2>3. procln(ln) = Btsp!procln(ln)
    BY DEF procln
  <2> QED
    BY <1>1, <2>1, <2>2, <2>3 DEF Btsp!procln
<1>3. ASSUME NEW s \in Sides
      PROVE  side(s) = [j \in dom(s) |-> it(s, j)]
  <2>1. side(s) = [j \in dom(s) |->
           IF j = 1 /\ ch = "BOOK" THEN Top(nm, <<s, Sorted(L, s, b)[j].price>>, Sorted(L, s, b)[j].qty)
           ELSE Quote(nm, <<s, Sorted(L, s, b)[j].price>>, Sorted(L, s, b)[j].qty)]
    BY Zenon DEF Btsp!Side, Btsp!Top, Btsp!Quote, Top, Quote
  <2>2. ASSUME NEW j \in dom(s)
        PROVE  (IF j = 1 /\ ch = "BOOK" THEN Top(nm, <<s, Sorted(L, s, b)[j].price>>, Sorted(L, s, b)[j].qty)
                ELSE Quote(nm, <<s, Sorted(L, s, b)[j].price>>, Sorted(L, s, b)[j].qty)) = it(s, j)
    <3>1. CASE j = 1 /\ ch = "BOOK"
      BY <1>1, <3>1 DEF Top, Item
    <3>2. CASE ~(j = 1 /\ ch = "BOOK")
      BY <1>1, <3>2 DEF Quote, Item
    <3> QED
      BY <3>1, <3>2
  <2> HIDE DEF it, ch, nm, dom, side
  <2> QED
    BY <2>1, <2>2
<1>4. \A s \in Sides : \E n \in Nat : dom(s) = 1 .. n
  BY SortedIs DEF IsSide
<1> DEFINE X == UNION {{it(s, j) : j \in dom(s)} : s \in Sides}
           p == side("bid")
           q == side("ask")
<1>5. "bid" \in Sides /\ "ask" \in Sides /\ \A s \in Sides : s = "bid" \/ s = "ask"
  BY DEF Sides
<1>6. ASSUME NEW s \in Sides
      PROVE  side(s) \in Seq(X) /\ DOMAIN side(s) = dom(s) /\ \A j \in dom(s) : side(s)[j] = it(s, j)
  <2>1. PICK n \in Nat : dom(s) = 1 .. n
    BY <1>4
  <2>2. \A j \in dom(s) : it(s, j) \in X
    OBVIOUS
  <2> HIDE DEF X, it, dom, side
  <2>3. side(s) \in [1 .. n -> X]
    BY <1>3, <2>1, <2>2
  <2>4. side(s) \in Seq(X)
    BY <2>3
  <2> QED
    BY <1>3, <2>4
<1> HIDE DEF X, it, dom, side, ln
<1>7. p \in Seq(X) /\ DOMAIN p = dom("bid") /\ \A j \in dom("bid") : p[j] = it("bid", j)
  BY <1>5, <1>6
<1>8. q \in Seq(X) /\ DOMAIN q = dom("ask") /\ \A j \in dom("ask") : q[j] = it("ask", j)
  BY <1>5, <1>6
<1> DEFINE o == p \o q
<1>9. procln(ln) = o
  BY <1>2
<1>10. /\ dom("bid") = 1 .. Len(p) /\ dom("ask") = 1 .. Len(q) /\ Len(p) \in Nat /\ Len(q) \in Nat
       /\ DOMAIN o = 1 .. (Len(p) + Len(q))
       /\ \A k \in 1 .. Len(p) : o[k] = it("bid", k)
       /\ \A k \in 1 .. Len(q) : o[Len(p) + k] = it("ask", k)
  <2> HIDE DEF p, q
  <2>1. /\ DOMAIN p = 1 .. Len(p) /\ DOMAIN q = 1 .. Len(q)
        /\ Len(p) \in Nat /\ Len(q) \in Nat
        /\ DOMAIN (p \o q) = 1 .. (Len(p) + Len(q))
        /\ \A k \in 1 .. Len(p) : (p \o q)[k] = p[k]
        /\ \A k \in 1 .. Len(q) : (p \o q)[Len(p) + k] = q[k]
    <3>1. p \in Seq(X) /\ q \in Seq(X)
      BY <1>7, <1>8
    <3> QED
      BY <3>1, Joined
  <2> HIDE DEF o
  <2> QED
    BY <1>7, <1>8, <2>1 DEF o
<1> HIDE DEF p, q, o
<1> DEFINE np == Len(p)
           nq == Len(q)
<1>11. np \in Nat /\ nq \in Nat /\ dom("bid") = 1 .. np /\ dom("ask") = 1 .. nq /\ DOMAIN o = 1 .. (np + nq)
       /\ (\A k \in 1 .. np : o[k] = it("bid", k)) /\ \A k \in 1 .. nq : o[np + k] = it("ask", k)
  BY <1>10
<1> HIDE DEF np, nq
<1>12. ASSUME NEW k \in DOMAIN o PROVE \E s \in Sides : \E j \in dom(s) : o[k] = it(s, j)
  <2>1. CASE k \in 1 .. np
    BY <1>5, <1>11, <2>1
  <2>2. CASE k \notin 1 .. np
    <3>1. k - np \in 1 .. nq /\ np + (k - np) = k
      BY <1>11, <2>2
    <3>2. o[k] = it("ask", k - np)
      BY <1>11, <3>1
    <3> QED
      BY <1>5, <1>11, <3>1, <3>2
  <2> QED
    BY <2>1, <2>2
<1>13. ASSUME NEW s \in Sides, NEW j \in dom(s) PROVE \E k \in DOMAIN o : o[k] = it(s, j)
  <2>1. CASE s = "bid"
    <3>1. j \in 1 .. np /\ j \in DOMAIN o
      BY <1>11, <2>1
    <3> QED
      BY <1>11, <2>1, <3>1
  <2>2. CASE s = "ask"
    <3>1. j \in 1 .. nq /\ np + j \in DOMAIN o
      BY <1>11, <2>2
    <3> QED
      BY <1>11, <2>2, <3>1
  <2> QED
    BY <1>5, <2>1, <2>2
<1>14. \E n \in Nat : DOMAIN o = 1 .. n
  BY <1>11
<1>15. Items(o, chan, i, L, b)
  BY <1>12, <1>13, <1>14 DEF Items, it, dom
<1> QED
  BY <1>9, <1>15 DEF ln

-----------------------------------------------------------------------------
(* bitstamp: what home makes of it *)

\* A non-empty set of naturals has a least element.
LEMMA MinExists ==
  ASSUME NEW T \in SUBSET Nat, T # {}
  PROVE  \E x \in T : \A y \in T : x <= y
<1>1. PICK x \in T : \A y \in T : ~(<<y, x>> \in OpToRel(<, Nat))
  BY NatLessThanWellFounded, WFMin
<1>2. \A y \in T : ~(y < x)
  BY <1>1 DEF OpToRel
<1> QED
  BY <1>2

\* A non-empty set of indices has a greatest element.
LEMMA LastIn ==
  ASSUME NEW n \in Nat, NEW T \in SUBSET (1 .. n), T # {}
  PROVE  Max(T) \in T /\ (CHOOSE k \in T : \A j \in T : j <= k) \in T
<1> DEFINE U == {n - k : k \in T}
<1>1. U \in SUBSET Nat /\ U # {}
  <2>1. \A k \in T : n - k \in Nat
    OBVIOUS
  <2> QED
    BY <2>1
<1>2. PICK u \in U : \A v \in U : u <= v
  BY <1>1, MinExists
<1>3. PICK x \in T : u = n - x
  OBVIOUS
<1>4. \A y \in T : y <= x /\ x >= y
  <2> TAKE y \in T
  <2>1. n - y \in U
    OBVIOUS
  <2> QED
    BY <2>1, <1>2, <1>3
<1>5. (\E k \in T : \A y \in T : y <= k) /\ \E k \in T : \A y \in T : k >= y
  BY <1>4
<1> QED
  BY <1>5 DEF Max

NoneFresh == None \notin Instruments /\ None \notin Levels /\ None \notin Qty
LEMMA NoneIsNew == NoneFresh
BY BooksAssumption DEF NoneFresh

\* The fields of an item.
ItemIs(r, chan, i, L, b, s, j) ==
  /\ r.ins \in {i, None} /\ (r.ins = i <=> i \in Known)
  /\ r.fl = IF j = 1 /\ chan = "order_book" THEN "1" ELSE "2"
  /\ r.lvl = <<s, Sorted(L, s, b)[j].price>> /\ r.lvl \in L /\ r.lvl \in Levels
  /\ r.qty = Sorted(L, s, b)[j].qty /\ r.qty = b[r.lvl] /\ r.lvl[1] = s

LEMMA ItemFields ==
  ASSUME NEW chan, NEW i \in Instruments, NEW L \in SUBSET Levels, NEW b, NEW s \in Sides,
         NEW j \in DOMAIN Sorted(L, s, b)
  PROVE  ItemIs(Item(chan, i, L, b, s, j), chan, i, L, b, s, j)
<1> DEFINE r == Item(chan, i, L, b, s, j)
           e == Sorted(L, s, b)[j]
<1>1. <<s, e.price>> \in L /\ e.qty = b[<<s, e.price>>]
  BY SortedIs DEF IsSide
<1>2. /\ r.ins = Btsp!snarf_ins(i) /\ r.fl = IF j = 1 /\ chan = "order_book" THEN "1" ELSE "2"
      /\ r.lvl = <<s, e.price>> /\ r.qty = e.qty
  BY DEF Item
<1>3. Btsp!snarf_ins(i) = IF i \in Known THEN i ELSE None
  BY DEF Btsp!snarf_ins
<1>4. i # None
  BY NoneIsNew DEF NoneFresh
<1> HIDE DEF r, e
<1>5. /\ r.ins \in {i, None} /\ (r.ins = i <=> i \in Known) /\ r.lvl \in L /\ r.lvl \in Levels
      /\ r.qty = b[r.lvl] /\ r.lvl[1] = s
  BY <1>1, <1>2, <1>3, <1>4
<1> QED
  BY <1>2, <1>5 DEF r, e, ItemIs

\* Apply(): the quantities of the items, all others as they were.
Applied(A, chan, i, L, b) ==
  /\ A \in [Instruments -> [Levels -> Int]]
  /\ \A x \in Instruments, l \in Levels :
       /\ A[x][l] = repl[x][l] \/ (x = i /\ l \in L /\ A[x][l] = b[l])
       /\ ~(x = i /\ i \in Known) => A[x][l] = repl[x][l]
  /\ i \in Known => \A l \in L :
       chan = "diff_order_book" \/ l[2] # Sorted(L, l[1], b)[1].price => A[i][l] = b[l]

LEMMA BtspApply ==
  ASSUME Typed, NEW i \in Instruments, NEW L \in SUBSET Levels, NEW b \in [Levels -> Qty],
         NEW chan \in {"order_book", "diff_order_book"}, NEW o, Items(o, chan, i, L, b)
  PROVE  Applied(Apply(repl, o), chan, i, L, b)
<1> DEFINE hits(x, l) == {k \in DOMAIN o : Touches(o[k], x, l)}
           A == Apply(repl, o)
           val(x, l) == IF hits(x, l) = {} THEN repl[x][l]
                        ELSE o[CHOOSE k \in hits(x, l) : \A j \in hits(x, l) : j <= k].qty
<1>1. A = [x \in Instruments |-> [l \in Levels |-> val(x, l)]]
  BY DEF Apply
<1>2. PICK n \in Nat : DOMAIN o = 1 .. n
  BY DEF Items
<1>3. ASSUME NEW k \in DOMAIN o
      PROVE  /\ o[k].ins \in {i, None} /\ (o[k].ins = i <=> i \in Known)
             /\ o[k].fl \in {"1", "2"} /\ o[k].lvl \in L /\ o[k].qty = b[o[k].lvl]
  <2>1. PICK s \in Sides : \E j \in DOMAIN Sorted(L, s, b) : o[k] = Item(chan, i, L, b, s, j)
    BY DEF Items
  <2>2. PICK j \in DOMAIN Sorted(L, s, b) : o[k] = Item(chan, i, L, b, s, j)
    BY <2>1
  <2> DEFINE r == Item(chan, i, L, b, s, j)
  <2>0. ItemIs(r, chan, i, L, b, s, j)
    BY ItemFields
  <2>3. /\ r.ins \in {i, None} /\ (r.ins = i <=> i \in Known)
        /\ r.fl = (IF j = 1 /\ chan = "order_book" THEN "1" ELSE "2")
        /\ r.lvl \in L /\ r.qty = b[r.lvl]
    BY <2>0, Zenon DEF ItemIs
  <2> HIDE DEF r
  <2> QED
    BY <2>2, <2>3 DEF r
<1>4. ASSUME NEW x \in Instruments, NEW l \in Levels, NEW k \in hits(x, l)
      PROVE  x = i /\ i \in Known /\ l \in L /\ o[k].qty = b[l]
  BY <1>3, NoneIsNew DEF Touches, NoneFresh
<1>5. ASSUME NEW x \in Instruments, NEW l \in Levels, hits(x, l) # {}
      PROVE  x = i /\ i \in Known /\ l \in L /\ val(x, l) = b[l]
  <2> DEFINE T == hits(x, l)
             m == CHOOSE k \in T : \A j \in T : j <= k
  <2>1. T \in SUBSET (1 .. n)
    BY <1>2
  <2>2. m \in T
    <3> HIDE DEF T
    <3> QED
      BY <1>5, <2>1, LastIn DEF T
  <2>3. val(x, l) = o[m].qty
    BY <1>5
  <2> HIDE DEF m, val
  <2> QED
    BY <1>4, <2>2, <2>3
<1>6. ASSUME NEW l \in L, i \in Known, chan = "diff_order_book" \/ l[2] # Sorted(L, l[1], b)[1].price
      PROVE  hits(i, l) # {}
  <2>1. l[1] \in Sides /\ l \in Levels /\ l = <<l[1], l[2]>>
    BY DEF Levels
  <2> DEFINE s == l[1]
  <2>0. s \in Sides /\ l = <<s, l[2]>> /\ (chan = "diff_order_book" \/ l[2] # Sorted(L, s, b)[1].price)
    BY <1>6, <2>1
  <2> HIDE DEF s
  <2>8. IsSide(Sorted(L, s, b), L, s, b)
    BY <2>0, SortedIs
  <2>2. PICK j \in DOMAIN Sorted(L, s, b) : Sorted(L, s, b)[j].price = l[2]
    BY <2>0, <2>8 DEF IsSide
  <2>3. PICK k \in DOMAIN o : o[k] = Item(chan, i, L, b, s, j)
    BY <2>0, <2>2 DEF Items
  <2> DEFINE r == Item(chan, i, L, b, s, j)
  <2>9. ItemIs(r, chan, i, L, b, s, j)
    BY <2>0, ItemFields
  <2>4. /\ (r.ins = i <=> i \in Known)
        /\ r.fl = (IF j = 1 /\ chan = "order_book" THEN "1" ELSE "2")
        /\ r.lvl = <<s, Sorted(L, s, b)[j].price>>
    BY <2>9, Zenon DEF ItemIs
  <2>5. ~(j = 1 /\ chan = "order_book")
    BY <2>0, <2>2
  <2> HIDE DEF r
  <2>6. r.ins = i /\ r.fl = "2" /\ r.lvl = l
    BY <1>6, <2>0, <2>2, <2>4, <2>5
  <2>7. Touches(o[k], i, l)
    BY <2>3, <2>6 DEF Touches, r
  <2> QED
    BY <2>7
<1>7. \A x \in Instruments, l \in Levels : hits(x, l) = {} => val(x, l) = repl[x][l]
  OBVIOUS
<1>8. \A x \in Instruments, l \in Levels : val(x, l) = repl[x][l] \/ (x = i /\ i \in Known /\ l \in L /\ val(x, l) = b[l])
  BY <1>5, <1>7
<1> HIDE DEF val, hits
<1>9. \A x \in Instruments, l \in Levels : val(x, l) \in Int
  <2>1. \A q \in Qty : q \in Int
    BY DEF Qty
  <2>2. \A x \in Instruments, l \in Levels : repl[x][l] \in Int /\ b[l] \in Int
    BY <2>1 DEF Typed
  <2> QED
    BY <1>8, <2>2
<1>10. A \in [Instruments -> [Levels -> Int]] /\ \A x \in Instruments, l \in Levels : A[x][l] = val(x, l)
  <2> HIDE DEF A
  <2> QED
    BY <1>1, <1>9
<1>11. \A x \in Instruments, l \in Levels :
              /\ A[x][l] = repl[x][l] \/ (x = i /\ l \in L /\ A[x][l] = b[l])
              /\ ~(x = i /\ i \in Known) => A[x][l] = repl[x][l]
  BY <1>8, <1>10
<1>12. i \in Known => \A l \in L :
         chan = "diff_order_book" \/ l[2] # Sorted(L, l[1], b)[1].price => A[i][l] = b[l]
  BY <1>5, <1>6, <1>10
<1>13. Applied(A, chan, i, L, b)
  <2> HIDE DEF A
  <2> QED
    BY <1>10, <1>11, <1>12, Zenon DEF Applied
<1> QED
  BY <1>13

\* The tops that order_book tells.
TopsAfter(chan, i, L, b) ==
  /\ top' \in [Instruments -> [Flavours -> Tops]]
  /\ \A x \in Instruments, f \in Flavours :
       top'[x][f] = IF x = i /\ i \in Known /\ chan = "order_book" /\ f \in Sides /\ Sorted(L, f, b) # <<>>
                    THEN <<Sorted(L, f, b)[1].price, Sorted(L, f, b)[1].qty>> ELSE top[x][f]

LEMMA BtspTops ==
  ASSUME Typed, prog = "btsp", NEW i \in Instruments, NEW L \in SUBSET Levels, NEW b \in [Levels -> Qty],
         NEW chan \in {"order_book", "diff_order_book"}, NEW o, Items(o, chan, i, L, b), Take(o)
  PROVE  repl' = Apply(repl, o) /\ TopsAfter(chan, i, L, b)
<1> DEFINE hits(x, f) == {k \in DOMAIN o : o[k].fl \in {"0", "1"} /\ o[k].ins = x /\ o[k].lvl[1] = f}
           val(x, f) == IF hits(x, f) = {} THEN top[x][f]
                        ELSE <<o[Max(hits(x, f))].lvl[2], o[Max(hits(x, f))].qty>>
           tells(x, f) == x = i /\ i \in Known /\ chan = "order_book" /\ f \in Sides /\ Sorted(L, f, b) # <<>>
           best(f) == <<Sorted(L, f, b)[1].price, Sorted(L, f, b)[1].qty>>
<1>1. repl' = Apply(repl, o)
  BY DEF Take
<1>2. top' = [x \in Instruments |-> [f \in Flavours |-> val(x, f)]]
  BY DEF Take
<1>3. PICK n \in Nat : DOMAIN o = 1 .. n
  BY DEF Items
<1>4. ASSUME NEW x \in Instruments, NEW f \in Flavours, NEW k \in hits(x, f)
      PROVE  tells(x, f) /\ <<o[k].lvl[2], o[k].qty>> = best(f)
  <2>1. PICK s \in Sides : \E j \in DOMAIN Sorted(L, s, b) : o[k] = Item(chan, i, L, b, s, j)
    BY DEF Items
  <2>2. PICK j \in DOMAIN Sorted(L, s, b) : o[k] = Item(chan, i, L, b, s, j)
    BY <2>1
  <2> DEFINE r == Item(chan, i, L, b, s, j)
  <2>0. ItemIs(r, chan, i, L, b, s, j)
    BY ItemFields
  <2>3. /\ r.ins \in {i, None} /\ (r.ins = i <=> i \in Known)
        /\ r.fl = (IF j = 1 /\ chan = "order_book" THEN "1" ELSE "2")
        /\ r.lvl = <<s, Sorted(L, s, b)[j].price>> /\ r.qty = Sorted(L, s, b)[j].qty /\ r.lvl[1] = s
    BY <2>0, Zenon DEF ItemIs
  <2> HIDE DEF r
  <2>4. r.fl \in {"0", "1"} /\ r.ins = x /\ r.lvl[1] = f
    BY <2>2 DEF r
  <2>5. x = i /\ i \in Known /\ j = 1 /\ chan = "order_book" /\ s = f
    BY <2>3, <2>4, NoneIsNew DEF NoneFresh
  <2>6. Sorted(L, f, b) # <<>>
    BY <2>2, <2>5
  <2>7. r.lvl[2] = Sorted(L, f, b)[1].price /\ r.qty = Sorted(L, f, b)[1].qty
    BY <2>3, <2>5
  <2> QED
    BY <2>2, <2>5, <2>6, <2>7 DEF r
<1>5. ASSUME NEW x \in Instruments, NEW f \in Flavours, tells(x, f)
      PROVE  hits(x, f) # {}
  <2>1. 1 \in DOMAIN Sorted(L, f, b)
    <3>1. IsSide(Sorted(L, f, b), L, f, b)
      BY <1>5, SortedIs
    <3> DEFINE z == Sorted(L, f, b)
    <3>2. PICK m \in Nat : DOMAIN z = 1 .. m
      BY <3>1 DEF IsSide
    <3>3. z = [k \in 1 .. m |-> z[k]] /\ z # <<>>
      BY <1>5, <3>1, <3>2 DEF IsSide
    <3> HIDE DEF z
    <3>4. m # 0
      <4>1. SUFFICES ASSUME m = 0 PROVE FALSE
        OBVIOUS
      <4>2. 1 .. m = {}
        BY <4>1
      <4>3. z \in Seq({}) /\ Len(z) = 0
        BY <3>3, <4>1, <4>2
      <4> QED
        BY <3>3, <4>3
    <3> QED
      BY <3>2, <3>4 DEF z
  <2>2. PICK k \in DOMAIN o : o[k] = Item(chan, i, L, b, f, 1)
    BY <1>5, <2>1 DEF Items
  <2> DEFINE r == Item(chan, i, L, b, f, 1)
  <2>5. ItemIs(r, chan, i, L, b, f, 1)
    BY <1>5, <2>1, ItemFields
  <2>3. /\ (r.ins = i <=> i \in Known) /\ r.lvl[1] = f
        /\ r.fl = (IF 1 = 1 /\ chan = "order_book" THEN "1" ELSE "2")
    BY <2>5, Zenon DEF ItemIs
  <2> HIDE DEF r
  <2>4. r.ins = x /\ r.fl = "1" /\ r.lvl[1] = f
    BY <1>5, <2>3
  <2> QED
    BY <2>2, <2>4 DEF r
<1>6. ASSUME NEW x \in Instruments, NEW f \in Flavours
      PROVE  val(x, f) = IF tells(x, f) THEN best(f) ELSE top[x][f]
  <2>1. CASE hits(x, f) = {}
    <3>1. ~tells(x, f)
      BY <1>5, <2>1
    <3> QED
      BY <2>1, <3>1
  <2>2. CASE hits(x, f) # {}
    <3> DEFINE T == hits(x, f)
               m == Max(T)
    <3>1. T \in SUBSET (1 .. n)
      BY <1>3
    <3>2. m \in T
      <4> HIDE DEF T
      <4> QED
        BY <2>2, <3>1, LastIn DEF T
    <3>3. val(x, f) = <<o[m].lvl[2], o[m].qty>>
      BY <2>2
    <3> HIDE DEF m, val
    <3>4. tells(x, f) /\ <<o[m].lvl[2], o[m].qty>> = best(f)
      BY <1>4, <3>2
    <3> QED
      BY <3>3, <3>4
  <2> QED
    BY <2>1, <2>2
<1>7. ASSUME NEW x \in Instruments, NEW f \in Flavours
      PROVE  val(x, f) \in Tops
  <2>1. CASE tells(x, f)
    <3>1. f \in Sides /\ Sorted(L, f, b) # <<>>
      BY <2>1
    <3>2. PICK k \in DOMAIN o : k \in hits(x, f)
      BY <1>5, <2>1
    <3>3. <<o[k].lvl[2], o[k].qty>> = best(f)
      BY <1>4, <3>2
    <3>4. o[k].lvl \in Levels /\ o[k].qty \in Qty
      <4>1. PICK s \in Sides : \E j \in DOMAIN Sorted(L, s, b) : o[k] = Item(chan, i, L, b, s, j)
        BY DEF Items
      <4>2. PICK j \in DOMAIN Sorted(L, s, b) : o[k] = Item(chan, i, L, b, s, j)
        BY <4>1
      <4> DEFINE r == Item(chan, i, L, b, s, j)
      <4>5. ItemIs(r, chan, i, L, b, s, j)
        BY ItemFields
      <4>3. r.lvl \in Levels /\ r.qty = b[r.lvl]
        BY <4>5, Zenon DEF ItemIs
      <4> HIDE DEF r
      <4>4. r.qty \in Qty
        BY <4>3
      <4> QED
        BY <4>2, <4>3, <4>4 DEF r
    <3>5. o[k].lvl[2] \in Prices
      BY <3>4 DEF Levels
    <3>6. best(f) \in Prices \X (Qty \cup {None})
      BY <3>3, <3>4, <3>5
    <3> HIDE DEF val, tells, best
    <3> QED
      BY <1>6, <2>1, <3>6 DEF Tops
  <2>2. CASE ~tells(x, f)
    <3>1. top[x][f] \in Tops
      BY DEF Typed
    <3> HIDE DEF val, tells, best
    <3> QED
      BY <1>6, <2>2, <3>1
  <2> QED
    BY <2>1, <2>2
<1> HIDE DEF val
<1>8. top' \in [Instruments -> [Flavours -> Tops]] /\ \A x \in Instruments, f \in Flavours : top'[x][f] = val(x, f)
  BY <1>2, <1>7
<1>9. \A x \in Instruments, f \in Flavours : top'[x][f] = IF tells(x, f) THEN best(f) ELSE top[x][f]
  <2> HIDE DEF tells, best
  <2> QED
    BY <1>6, <1>8
<1> QED
  BY <1>1, <1>8, <1>9 DEF TopsAfter

-----------------------------------------------------------------------------
(* bitstamp: the actions *)

\* What home makes of a line of btsp2b's two channels with levels.
Home(chan, i, L, b) ==
  /\ repl' \in [Instruments -> [Levels -> Int]]
  /\ \A x \in Instruments, l \in Levels :
       /\ repl'[x][l] = repl[x][l] \/ (x = i /\ l \in L /\ repl'[x][l] = b[l])
       /\ ~(x = i /\ i \in Known) => repl'[x][l] = repl[x][l]
  /\ i \in Known => \A l \in L :
       chan = "diff_order_book" \/ l[2] # Sorted(L, l[1], b)[1].price => repl'[i][l] = b[l]
  /\ TopsAfter(chan, i, L, b)

LEMMA HomeTakes ==
  ASSUME Typed, prog = "btsp", conn, NEW i \in Instruments, NEW L \in SUBSET Levels,
         NEW b \in [Levels -> Qty], NEW chan \in {"order_book", "diff_order_book"},
         Log(Channel(chan, i, L, b)), Parsed(Channel(chan, i, L, b))
  PROVE  Home(chan, i, L, b)
<1> DEFINE o == procln(Channel(chan, i, L, b))
<1>1. Items(o, chan, i, L, b)
  BY BtspPrints DEF o
<1>2. Take(o)
  BY DEF Log
<1> HIDE DEF o
<1> DEFINE A == Apply(repl, o)
<1>3. repl' = A /\ TopsAfter(chan, i, L, b)
  BY <1>1, <1>2, BtspTops
<1>4. Applied(A, chan, i, L, b)
  BY <1>1, BtspApply
<1> HIDE DEF A
<1> QED
  BY <1>3, <1>4, Zenon DEF Home, Applied

\* Home has the same tops if each of them is the same.
LEMMA SameTops ==
  ASSUME NEW x \in [Instruments -> [Flavours -> Tops]], NEW y \in [Instruments -> [Flavours -> Tops]],
         \A i \in Instruments, f \in Flavours : x[i][f] = y[i][f]
  PROVE  x = y
<1>1. ASSUME NEW i \in Instruments PROVE x[i] = y[i]
  <2>1. x[i] \in [Flavours -> Tops] /\ y[i] \in [Flavours -> Tops]
    OBVIOUS
  <2> QED
    BY <2>1
<1> QED
  BY <1>1

\* A line that is too long tells nothing.
LEMMA TooLong ==
  ASSUME Typed, prog = "btsp", NEW ln, Log(ln), ~Parsed(ln)
  PROVE  repl' = repl /\ top' = top
<1>1. CASE conn
  <2>1. procln(ln) = <<>>
    <3>1. procln(ln) = Btsp!procln(ln)
      BY DEF procln
    <3> QED
      BY <3>1 DEF Btsp!procln, Parsed
  <2>2. Take(<<>>)
    BY <1>1, <2>1 DEF Log
  <2> QED
    BY <2>2, TakeNothing
<1>2. CASE ~conn
  BY <1>2 DEF Log, home
<1> QED
  BY <1>1, <1>2

LEMMA DiffOInv ==
  ASSUME OInv, NEW i \in Instruments, NEW b \in [Levels -> Qty], Diff(i, b)
  PROVE  OInv'
<1> DEFINE L == {l \in Levels : b[l] # book[i][l]}
           c == "diff_order_book"
           seen == conn /\ Parsed(Channel(c, i, L, b))
<1>1. /\ prog = "btsp" /\ prog' = prog /\ conn' = conn /\ ords' = ords /\ told' = told
      /\ book' = [book EXCEPT ![i] = b]
      /\ Log(Channel(c, i, L, b))
      /\ sure' = [sure EXCEPT ![i] = IF seen /\ i \in Named THEN @ \cup L ELSE @ \ L]
  BY DEF Diff
<1>2. Typed /\ DepthFollows /\ TopsFollow /\ Named = Known
  BY <1>1 DEF OInv, Named
<1>3. L \in SUBSET Levels /\ \A l \in Levels \ L : b[l] = book[i][l]
  OBVIOUS
<1> HIDE DEF L
<1>4. /\ book' \in [Instruments -> [Levels -> Qty]] /\ book'[i] = b
      /\ \A x \in Instruments \ {i} : book'[x] = book[x]
  BY <1>1, <1>2 DEF Typed
<1>5. /\ sure' \in [Instruments -> SUBSET Levels]
      /\ sure'[i] = IF seen /\ i \in Known THEN sure[i] \cup L ELSE sure[i] \ L
      /\ \A x \in Instruments \ {i} : sure'[x] = sure[x]
  BY <1>1, <1>2, <1>3 DEF Typed
<1>6. /\ repl' \in [Instruments -> [Levels -> Int]] /\ top' = top
      /\ \A x \in Instruments, l \in Levels : repl'[x][l] = repl[x][l] \/ (x = i /\ l \in L /\ repl'[x][l] = b[l])
      /\ seen /\ i \in Known => \A l \in L : repl'[i][l] = b[l]
  <2>1. CASE seen
    <3> HIDE DEF c
    <3>1. c \in {"order_book", "diff_order_book"} /\ c = "diff_order_book"
      BY DEF c
    <3>2. Home(c, i, L, b)
      BY <1>1, <1>2, <1>3, <2>1, <3>1, HomeTakes
    <3>3. /\ repl' \in [Instruments -> [Levels -> Int]]
          /\ \A x \in Instruments, l \in Levels : repl'[x][l] = repl[x][l] \/ (x = i /\ l \in L /\ repl'[x][l] = b[l])
          /\ i \in Known => \A l \in L : repl'[i][l] = b[l]
          /\ top' \in [Instruments -> [Flavours -> Tops]]
      BY <3>1, <3>2, Zenon DEF Home, TopsAfter
    <3>4. \A x \in Instruments, f \in Flavours : top'[x][f] = top[x][f]
      BY <3>1, <3>2 DEF Home, TopsAfter
    <3>5. top \in [Instruments -> [Flavours -> Tops]]
      BY <1>2 DEF Typed
    <3>6. top' = top
      BY <3>3, <3>4, <3>5, SameTops
    <3> QED
      BY <3>3, <3>6
  <2>2. CASE ~seen
    <3>1. repl' = repl /\ top' = top
      <4>1. CASE ~conn
        BY <1>1, <4>1 DEF Log, home
      <4>2. CASE ~Parsed(Channel(c, i, L, b))
        BY <1>1, <1>2, <4>2, TooLong
      <4> QED
        BY <2>2, <4>1, <4>2 DEF seen
    <3> HIDE DEF seen
    <3> QED
      BY <1>2, <2>2, <3>1 DEF Typed
  <2> QED
    BY <2>1, <2>2
<1> HIDE DEF seen
<1>7. Typed'
  BY <1>1, <1>2, <1>4, <1>5, <1>6 DEF Typed
<1>8. DepthFollows'
  <2> SUFFICES ASSUME NEW x \in Instruments, NEW l \in sure'[x] PROVE repl'[x][l] = book'[x][l]
    BY <1>1 DEF DepthFollows, Depth
  <2>1. l \in Levels
    BY <1>5
  <2>2. l \in sure[x] => repl[x][l] = book[x][l]
    BY <1>1, <1>2 DEF DepthFollows, Depth
  <2>3. CASE x # i
    BY <1>4, <1>5, <1>6, <2>1, <2>2, <2>3
  <2>4. CASE x = i /\ l \in L
    BY <1>4, <1>5, <1>6, <2>4
  <2>5. CASE x = i /\ l \notin L
    BY <1>3, <1>4, <1>5, <1>6, <2>1, <2>2, <2>5
  <2> QED
    BY <2>3, <2>4, <2>5
<1>9. TopsFollow'
  BY <1>1, <1>2, <1>6 DEF TopsFollow
<1> QED
  BY <1>7, <1>8, <1>9 DEF OInv


\* Nothing changes at home, and nothing that is told of it.
LEMMA SameOInv ==
  ASSUME OInv, prog' = prog, conn' \in BOOLEAN, ords' = ords, book' = book, repl' = repl, top' = top,
         sure' = sure, told' = told
  PROVE  OInv'
<1>1. Typed'
  BY DEF OInv, Typed
<1>2. DepthFollows'
  BY DEF OInv, DepthFollows, Depth
<1>3. TopsFollow'
  BY DEF OInv, TopsFollow
<1> QED
  BY <1>1, <1>2, <1>3 DEF OInv

\* The whole book, in a line that can be parsed.
SnapshotLine(i) == Channel("order_book", i, {l \in Levels : book[i][l] > 0}, book[i])

LEMMA SnapshotSkipped ==
  ASSUME OInv, NEW i \in Instruments, Snapshot(i), ~Parsed(SnapshotLine(i))
  PROVE  OInv'
<1>1. /\ prog = "btsp" /\ conn /\ prog' = prog /\ conn' = conn /\ ords' = ords /\ book' = book
      /\ Log(SnapshotLine(i)) /\ sure' = sure /\ told' = told
  BY DEF Snapshot, exchange, SnapshotLine
<1>2. Typed /\ conn' \in BOOLEAN
  BY <1>1 DEF OInv, Typed
<1>3. repl' = repl /\ top' = top
  BY <1>1, <1>2, TooLong
<1> QED
  BY <1>1, <1>2, <1>3, SameOInv

LEMMA SnapshotOInv ==
  ASSUME OInv, NEW i \in Instruments, Snapshot(i), Parsed(SnapshotLine(i))
  PROVE  OInv'
<1> DEFINE b == book[i]
           L == {l \in Levels : b[l] > 0}
           c == "order_book"
           ln == Channel(c, i, L, b)
           best == [s \in Sides |-> IF s = "bid" THEN ln.bids ELSE ln.asks]
           filled == {s \in Sides : best[s] # <<>>}
           tops == {<<s, best[s][1].price>> : s \in filled}
<1>1. /\ prog = "btsp" /\ conn /\ prog' = prog /\ conn' = conn /\ ords' = ords /\ book' = book
      /\ Log(ln) /\ Parsed(ln)
  BY DEF Snapshot, exchange, SnapshotLine
<1>2. /\ i \in Named =>
           /\ sure' = [sure EXCEPT ![i] = @ \cup (L \ tops)]
           /\ told' = [told EXCEPT ![i] = [f \in Flavours |->
                IF f \in filled THEN <<best[f][1].price, best[f][1].qty>> ELSE @[f]]]
      /\ i \notin Named => sure' = sure /\ told' = told
  BY <1>1 DEF Snapshot
<1>3. Typed /\ DepthFollows /\ TopsFollow /\ Named = Known
  BY <1>1 DEF OInv, Named
<1>4. b \in [Levels -> Qty] /\ L \in SUBSET Levels /\ c \in {"order_book", "diff_order_book"}
  BY <1>3 DEF Typed
<1>5. \A s \in Sides : best[s] = Sorted(L, s, b)
  <2>1. ln.bids = Sorted(L, "bid", b) /\ ln.asks = Sorted(L, "ask", b)
    BY DEF Channel
  <2> HIDE DEF ln
  <2> QED
    BY <2>1 DEF Sides
<1>6. filled = {s \in Sides : Sorted(L, s, b) # <<>>}
  <2> HIDE DEF best
  <2> QED
    BY <1>5
<1>7. tops = {<<s, Sorted(L, s, b)[1].price>> : s \in filled}
  <2> HIDE DEF best
  <2>1. \A s \in filled : s \in Sides
    OBVIOUS
  <2> HIDE DEF filled
  <2> QED
    BY <1>5, <2>1
<1>8. Home(c, i, L, b)
  <2> HIDE DEF b, L, c
  <2>1. Log(Channel(c, i, L, b)) /\ Parsed(Channel(c, i, L, b))
    BY <1>1
  <2> QED
    BY <1>1, <1>3, <1>4, <2>1, HomeTakes
<1>9. ASSUME NEW l \in L \ tops
      PROVE  l[2] # Sorted(L, l[1], b)[1].price
  <2> DEFINE s == l[1]
  <2>1. l \in L /\ l = <<s, l[2]>> /\ s \in Sides
    BY <1>4 DEF Levels
  <2> HIDE DEF s, L, b, filled, tops
  <2>2. IsSide(Sorted(L, s, b), L, s, b)
    BY <1>4, <2>1, SortedIs
  <2> DEFINE z == Sorted(L, s, b)
  <2>3. PICK k \in DOMAIN z : z[k].price = l[2]
    BY <2>1, <2>2 DEF IsSide, s
  <2>4. z # <<>>
    BY <2>3
  <2>5. s \in filled
    BY <1>6, <2>1, <2>4
  <2>6. <<s, z[1].price>> \in tops
    BY <1>7, <2>5
  <2>7. l # <<s, z[1].price>>
    BY <1>9, <2>6
  <2>8. l[2] # z[1].price
    BY <2>1, <2>7
  <2> QED
    BY <2>8 DEF s
<1> HIDE DEF filled, tops, best, ln
<1>10. /\ repl' \in [Instruments -> [Levels -> Int]]
       /\ \A x \in Instruments, l \in Levels :
            /\ repl'[x][l] = repl[x][l] \/ (x = i /\ l \in L /\ repl'[x][l] = b[l])
            /\ ~(x = i /\ i \in Known) => repl'[x][l] = repl[x][l]
       /\ i \in Known => \A l \in L \ tops : repl'[i][l] = b[l]
  <2> HIDE DEF c, L, b
  <2>1. i \in Known => \A l \in L :
          c = "diff_order_book" \/ l[2] # Sorted(L, l[1], b)[1].price => repl'[i][l] = b[l]
    BY <1>8, Zenon DEF Home
  <2>2. /\ repl' \in [Instruments -> [Levels -> Int]]
        /\ \A x \in Instruments, l \in Levels :
             /\ repl'[x][l] = repl[x][l] \/ (x = i /\ l \in L /\ repl'[x][l] = b[l])
             /\ ~(x = i /\ i \in Known) => repl'[x][l] = repl[x][l]
    BY <1>8, Zenon DEF Home
  <2> QED
    BY <1>9, <2>1, <2>2
<1>11. /\ top' \in [Instruments -> [Flavours -> Tops]]
       /\ \A x \in Instruments, f \in Flavours :
            top'[x][f] = IF x = i /\ i \in Known /\ f \in filled
                         THEN <<Sorted(L, f, b)[1].price, Sorted(L, f, b)[1].qty>> ELSE top[x][f]
  <2> HIDE DEF L, b
  <2>1. /\ top' \in [Instruments -> [Flavours -> Tops]]
        /\ \A x \in Instruments, f \in Flavours :
             top'[x][f] = IF x = i /\ i \in Known /\ c = "order_book" /\ f \in Sides /\ Sorted(L, f, b) # <<>>
                          THEN <<Sorted(L, f, b)[1].price, Sorted(L, f, b)[1].qty>> ELSE top[x][f]
    BY <1>8, Zenon DEF Home, TopsAfter
  <2> QED
    BY <1>6, <2>1
<1>12. /\ sure' \in [Instruments -> SUBSET Levels]
       /\ \A x \in Instruments : sure'[x] \subseteq sure[x] \cup (IF x = i /\ i \in Known THEN L \ tops ELSE {})
  <2> HIDE DEF L
  <2>1. CASE i \in Known
    <3> DEFINE N == L \ tops
               S == sure[i] \cup N
    <3>1. sure' = [sure EXCEPT ![i] = S]
      BY <1>2, <1>3, <2>1
    <3>2. N \in SUBSET Levels /\ S \in SUBSET Levels /\ sure \in [Instruments -> SUBSET Levels]
      BY <1>3, <1>4 DEF Typed
    <3> HIDE DEF N, S
    <3>3. /\ sure' \in [Instruments -> SUBSET Levels] /\ sure'[i] = S
          /\ \A x \in Instruments \ {i} : sure'[x] = sure[x]
      BY <3>1, <3>2
    <3>4. S = sure[i] \cup N
      BY DEF S
    <3> QED
      BY <2>1, <3>3, <3>4 DEF N
  <2>2. CASE i \notin Known
    BY <1>2, <1>3, <2>2 DEF Typed
  <2> QED
    BY <2>1, <2>2
<1>13. top' = told'
  <2>1. top = told
    BY <1>3 DEF Typed, TopsFollow
  <2>2. CASE i \notin Known
    <3>1. \A x \in Instruments, f \in Flavours : top'[x][f] = top[x][f]
      BY <1>11, <2>2
    <3>2. top \in [Instruments -> [Flavours -> Tops]]
      BY <1>3 DEF Typed
    <3>3. top' = top
      BY <1>11, <3>1, <3>2, SameTops
    <3> QED
      BY <1>2, <1>3, <2>1, <2>2, <3>3
  <2>3. CASE i \in Known
    <3> DEFINE new == [f \in Flavours |->
                 IF f \in filled THEN <<best[f][1].price, best[f][1].qty>> ELSE told[i][f]]
    <3>1. told' = [told EXCEPT ![i] = new]
      BY <1>2, <1>3, <2>3
    <3>2. \A f \in filled : f \in Sides
      BY DEF filled
    <3>3. \A f \in Flavours : new[f] = top'[i][f]
      <4> TAKE f \in Flavours
      <4>1. CASE f \in filled
        BY <1>5, <1>11, <2>3, <3>2, <4>1
      <4>2. CASE f \notin filled
        BY <1>11, <2>1, <2>3, <4>2
      <4> QED
        BY <4>1, <4>2
    <3>4. new = top'[i]
      <4>1. top'[i] = [f \in Flavours |-> top'[i][f]]
        BY <1>11
      <4>2. new = [f \in Flavours |-> new[f]]
        OBVIOUS
      <4> HIDE DEF new
      <4> QED
        BY <3>3, <4>1, <4>2
    <3> HIDE DEF new
    <3>5. told \in [Instruments -> [Flavours -> Tops]]
      BY <1>3 DEF Typed
    <3>6. told' \in [Instruments -> [Flavours -> Tops]]
      BY <1>11, <3>1, <3>4, <3>5
    <3>7. ASSUME NEW x \in Instruments, NEW f \in Flavours
          PROVE  told'[x][f] = top'[x][f]
      <4>1. CASE x = i
        BY <3>1, <3>4, <3>5, <4>1
      <4>2. CASE x # i
        BY <1>11, <2>1, <3>1, <3>5, <4>2
      <4> QED
        BY <4>1, <4>2
    <3>8. told' = top'
      BY <1>11, <3>6, <3>7, SameTops
    <3> QED
      BY <3>8
  <2> QED
    BY <2>2, <2>3
<1>14. Typed'
  BY <1>1, <1>3, <1>10, <1>11, <1>12, <1>13 DEF Typed
<1>15. DepthFollows'
  <2> SUFFICES ASSUME NEW x \in Instruments, NEW l \in sure'[x] PROVE repl'[x][l] = book[x][l]
    BY <1>1 DEF DepthFollows, Depth
  <2>1. l \in Levels /\ (l \in sure[x] \/ (x = i /\ i \in Known /\ l \in L \ tops))
    BY <1>12
  <2>2. l \in sure[x] => repl[x][l] = book[x][l]
    BY <1>1, <1>3 DEF DepthFollows, Depth
  <2> QED
    BY <1>10, <2>1, <2>2
<1>16. TopsFollow'
  BY <1>13 DEF TopsFollow
<1> QED
  BY <1>14, <1>15, <1>16 DEF OInv

LEMMA AsideOInv ==
  ASSUME OInv, NEW i \in Instruments, Aside(i)
  PROVE  OInv'
<1>1. /\ prog = "btsp" /\ conn
      /\ prog' = prog /\ conn' = conn /\ ords' = ords /\ book' = book /\ sure' = sure /\ told' = told
  BY DEF Aside, exchange
<1>2. PICK c \in {"live_trades", "live_orders", "?"} : Log(Channel(c, i, Levels, [l \in Levels |-> 1]))
  BY DEF Aside
<1> DEFINE ln == Channel(c, i, Levels, [l \in Levels |-> 1])
<1>3. ln.chan = c
  BY DEF Channel
<1> HIDE DEF ln
<1>4. procln(ln) = <<>>
  <2>1. Btsp!snarf_chan(c) \notin {"BOOK", "DIFF"}
    BY DEF Btsp!snarf_chan
  <2>2. procln(ln) = Btsp!procln(ln)
    BY <1>1 DEF procln
  <2> QED
    BY <1>3, <2>1, <2>2 DEF Btsp!procln
<1>5. Take(<<>>)
  <2>1. Take(procln(ln))
    BY <1>1, <1>2 DEF Log, ln
  <2> QED
    BY <1>4, <2>1
<1>6. Typed /\ conn' \in BOOLEAN
  BY <1>1 DEF OInv, Typed
<1>7. repl' = repl /\ top' = top
  BY <1>5, <1>6, TakeNothing
<1> QED
  BY <1>1, <1>6, <1>7, SameOInv

-----------------------------------------------------------------------------
(* btcc *)

\* What is printed for a message: the k-th entry is about the instrument ins[k].
Quoted(out, ln, ins) ==
  /\ DOMAIN out = 1 .. 2
  /\ \A k \in 1 .. 2 :
       out[k] = IF ln.entries[k].ety \notin Btcc!Etys \/ ln.entries[k].price = None THEN Btcc!Nothing
                ELSE [ins |-> ins[k], fl |-> Btcc!Digit(ln.typ, ins[k], ln.entries[k].ety),
                      lvl |-> <<Btcc!EntrySide(ln.entries[k].ety), ln.entries[k].price>>,
                      qty |-> ln.entries[k].qty]

\* A message with two entries.
Message(ln, ins) ==
  /\ DOMAIN ins = 1 .. 2 /\ DOMAIN ln.entries = 1 .. 2
  /\ \A k \in 1 .. 2 :
       /\ ins[k] \in Instruments
       /\ ln.entries[k].price \in Prices \cup {None} /\ ln.entries[k].qty \in Qty \cup {None}

\* A printed entry is a top or a trade of an instrument and side if and only if
\* the exchange has told it as one.
LEMMA EntryHits ==
  ASSUME NEW out, NEW ln, NEW ins, Quoted(out, ln, ins), NEW k \in 1 .. 2, NEW i \in Instruments,
         NEW f \in Flavours
  PROVE  LET e == ln.entries[k]
             hit == out[k].fl \in {"0", "1"} /\ out[k].ins = i /\ out[k].lvl[1] = f
         IN  /\ hit <=> ins[k] = i /\ (i \in Deep => f = "tra") /\ e.ety = Ety[f] /\ e.price # None
             /\ hit => out[k].lvl[2] = e.price /\ out[k].qty = e.qty
<1> DEFINE e == ln.entries[k]
           ty == e.ety
           hit == out[k].fl \in {"0", "1"} /\ out[k].ins = i /\ out[k].lvl[1] = f
<1>1. f \in {"bid", "ask", "tra"}
  BY DEF Flavours, Sides
<1>2. Ety["bid"] = "0" /\ Ety["ask"] = "1" /\ Ety["tra"] = "2"
  BY DEF Ety
<1>3. CASE ty \notin Btcc!Etys \/ e.price = None
  <2>1. out[k] = Btcc!Nothing
    BY <1>3 DEF Quoted
  <2>2. out[k].fl = ""
    <3>1. Btcc!Nothing.fl = ""
      BY DEF Btcc!Nothing
    <3> QED
      BY <2>1, <3>1, Zenon
  <2>3. ty \in {"0", "1", "2"} => e.price = None
    BY <1>3 DEF Btcc!Etys
  <2> HIDE DEF e, ty
  <2>4. ~(ty = Ety[f] /\ e.price # None)
    BY <1>1, <1>2, <2>3
  <2> QED
    BY <2>2, <2>4 DEF e, ty
<1>4. CASE ty \in Btcc!Etys /\ e.price # None
  <2> DEFINE r == [ins |-> ins[k], fl |-> Btcc!Digit(ln.typ, ins[k], ty),
                   lvl |-> <<Btcc!EntrySide(ty), e.price>>, qty |-> e.qty]
             dg == Btcc!Digit(ln.typ, ins[k], ty)
             sd == Btcc!EntrySide(ty)
  <2>1. out[k] = r
    BY <1>4 DEF Quoted
  <2>2. r.ins = ins[k] /\ r.fl = dg /\ r.lvl[1] = sd /\ r.lvl[2] = e.price /\ r.qty = e.qty
    OBVIOUS
  <2>3. ty \in {"0", "1", "2"}
    BY <1>4 DEF Btcc!Etys
  <2> HIDE DEF r, e, ty
  <2>4. sd = IF ty = "0" THEN "bid" ELSE IF ty = "1" THEN "ask" ELSE "tra"
    BY <2>3 DEF Btcc!EntrySide
  <2>5. dg = IF ty = "2" THEN "0" ELSE IF ins[k] \notin Deep THEN "1" ELSE IF ln.typ = "X" THEN "3" ELSE "2"
    BY DEF Btcc!Digit
  <2> HIDE DEF sd, dg
  <2>6. sd = f <=> ty = Ety[f]
    BY <1>1, <1>2, <2>3, <2>4
  <2>7. dg \in {"0", "1"} <=> (ty = "2" \/ ins[k] \notin Deep)
    BY <2>5
  <2>8. sd = f => (ty = "2" <=> f = "tra")
    BY <1>1, <2>3, <2>4
  <2>9. hit <=> dg \in {"0", "1"} /\ ins[k] = i /\ sd = f
    BY <2>1, <2>2
  <2> HIDE DEF hit
  <2>10. hit <=> ins[k] = i /\ (i \in Deep => f = "tra") /\ ty = Ety[f] /\ e.price # None
    BY <1>4, <2>6, <2>7, <2>8, <2>9 DEF e, ty
  <2> QED
    BY <2>1, <2>2, <2>10 DEF hit, e, ty
<1> QED
  BY <1>3, <1>4

LEMMA ToldOInv ==
  ASSUME OInv, NEW ln, NEW ins, Message(ln, ins), Quoted(procln(ln), ln, ins), Told(ln, ins)
  PROVE  OInv'
<1> DEFINE out == procln(ln)
           was(i, f) == {k \in DOMAIN out : out[k].fl \in {"0", "1"} /\ out[k].ins = i /\ out[k].lvl[1] = f}
           hits(i, f) == {k \in DOMAIN ins :
                            /\ ins[k] = i /\ (i \in Deep => f = "tra")
                            /\ ln.entries[k].ety = Ety[f] /\ ln.entries[k].price # None}
           val(i, f) == IF was(i, f) = {} THEN top[i][f]
                        ELSE <<out[Max(was(i, f))].lvl[2], out[Max(was(i, f))].qty>>
           new(i, f) == IF hits(i, f) = {} THEN told[i][f]
                        ELSE <<ln.entries[Max(hits(i, f))].price, ln.entries[Max(hits(i, f))].qty>>
<1>1. /\ prog = "btcc" /\ conn /\ Log(ln)
      /\ prog' = prog /\ conn' = conn /\ ords' = ords /\ book' = book /\ sure' = sure
  BY DEF Told, exchange
<1>2. told' = [i \in Instruments |-> [f \in Flavours |-> new(i, f)]]
  BY DEF Told
<1>3. repl' = repl /\ top' = [i \in Instruments |-> [f \in Flavours |-> val(i, f)]]
  BY <1>1 DEF Log, Take
<1>4. Typed /\ top = told
  BY DEF OInv, Typed, TopsFollow
<1>5. DOMAIN out = 1 .. 2 /\ DOMAIN ins = 1 .. 2
  BY DEF Quoted, Message
<1>6. ASSUME NEW i \in Instruments, NEW f \in Flavours
      PROVE  was(i, f) = hits(i, f) /\ val(i, f) = new(i, f) /\ new(i, f) \in Tops
  <2> DEFINE hit(k) == out[k].fl \in {"0", "1"} /\ out[k].ins = i /\ out[k].lvl[1] = f
             due(k) == ins[k] = i /\ (i \in Deep => f = "tra") /\ ln.entries[k].ety = Ety[f] /\ ln.entries[k].price # None
  <2>1. ASSUME NEW k \in 1 .. 2
        PROVE  /\ hit(k) <=> due(k)
               /\ hit(k) => out[k].lvl[2] = ln.entries[k].price /\ out[k].qty = ln.entries[k].qty
    <3> HIDE DEF out
    <3>1. Quoted(out, ln, ins)
      BY DEF out
    <3> QED
      BY <3>1, EntryHits
  <2> DEFINE W == was(i, f)
             H == hits(i, f)
  <2>2. (\A k \in W : k \in 1 .. 2 /\ hit(k)) /\ \A k \in 1 .. 2 : hit(k) => k \in W
    BY <1>5
  <2>3. (\A k \in H : k \in 1 .. 2 /\ due(k)) /\ \A k \in 1 .. 2 : due(k) => k \in H
    BY <1>5
  <2> HIDE DEF W, H, hit, due
  <2>4. W = H
    BY <2>1, <2>2, <2>3
  <2>5. CASE H = {}
    <3>1. val(i, f) = top[i][f] /\ new(i, f) = told[i][f]
      BY <2>4, <2>5 DEF W, H
    <3>2. told[i][f] \in Tops
      BY <1>4 DEF Typed
    <3> QED
      BY <1>4, <2>4, <3>1, <3>2 DEF W, H
  <2>6. CASE H # {}
    <3> DEFINE m == Max(H)
    <3>1. H \in SUBSET (1 .. 2) /\ 2 \in Nat
      BY <2>3
    <3>2. m \in H
      BY <2>6, <3>1, LastIn
    <3>3. val(i, f) = <<out[m].lvl[2], out[m].qty>> /\ new(i, f) = <<ln.entries[m].price, ln.entries[m].qty>>
      BY <2>4, <2>6 DEF W, H
    <3> HIDE DEF m, val, new
    <3>4. m \in 1 .. 2 /\ due(m) /\ out[m].lvl[2] = ln.entries[m].price /\ out[m].qty = ln.entries[m].qty
      BY <2>1, <2>3, <3>2
    <3>5. ln.entries[m].price \in Prices /\ ln.entries[m].qty \in Qty \cup {None}
      BY <3>4 DEF Message, due
    <3>6. new(i, f) \in Tops
      BY <3>3, <3>5 DEF Tops
    <3> QED
      BY <2>4, <3>3, <3>4, <3>6 DEF W, H
  <2> QED
    BY <2>5, <2>6
<1> HIDE DEF val, new, was, hits
<1>7. told' \in [Instruments -> [Flavours -> Tops]]
  BY <1>2, <1>6
<1>8. top' = told'
  <2>1. \A i \in Instruments, f \in Flavours : val(i, f) = new(i, f)
    BY <1>6
  <2> QED
    BY <1>2, <1>3, <2>1
<1>9. Typed'
  BY <1>1, <1>3, <1>4, <1>7, <1>8 DEF Typed
<1>10. DepthFollows'
  BY <1>1, <1>3 DEF OInv, DepthFollows, Depth
<1>11. TopsFollow'
  BY <1>8 DEF TopsFollow
<1> QED
  BY <1>9, <1>10, <1>11 DEF OInv

\* btcc2b finds the instrument of an entry: its own, or else the one that is
\* named ahead of the entries.
LEMMA RouteQuote ==
  ASSUME prog = "btcc", NEW ln, NEW ins, ln.typ \in {"W", "X"}, DOMAIN ln.entries = 1 .. 2,
         Btcc!Named(ln) # {},
         \A k \in 1 .. 2 : ln.entries[k].ety \in Btcc!Etys => Btcc!InOf(ln, k) = ins[k]
  PROVE  Quoted(procln(ln), ln, ins)
<1> DEFINE quote(k) ==
             IF ln.entries[k].ety \notin Btcc!Etys \/ ln.entries[k].price = None THEN Btcc!Nothing
             ELSE [ins |-> Btcc!InOf(ln, k), fl |-> Btcc!Digit(ln.typ, Btcc!InOf(ln, k), ln.entries[k].ety),
                   lvl |-> <<Btcc!EntrySide(ln.entries[k].ety), ln.entries[k].price>>,
                   qty |-> ln.entries[k].qty]
           wanted(k) ==
             IF ln.entries[k].ety \notin Btcc!Etys \/ ln.entries[k].price = None THEN Btcc!Nothing
             ELSE [ins |-> ins[k], fl |-> Btcc!Digit(ln.typ, ins[k], ln.entries[k].ety),
                   lvl |-> <<Btcc!EntrySide(ln.entries[k].ety), ln.entries[k].price>>,
                   qty |-> ln.entries[k].qty]
<1>1. procln(ln) = Btcc!procln(ln)
  BY DEF procln
<1>2. procln(ln) = [k \in DOMAIN ln.entries |-> quote(k)]
  BY <1>1 DEF Btcc!procln, Btcc!route_quote
<1>3. \A k \in 1 .. 2 : quote(k) = wanted(k)
  OBVIOUS
<1>4. procln(ln) = [k \in 1 .. 2 |-> quote(k)]
  BY <1>2
<1> HIDE DEF quote
<1>5. DOMAIN procln(ln) = 1 .. 2 /\ \A k \in 1 .. 2 : procln(ln)[k] = wanted(k)
  BY <1>3, <1>4
<1> QED
  BY <1>5 DEF Quoted


\* The fields of an entry, with an instrument or without.
EntryIs(e, i) ==
  /\ e.ety \in {"0", "1", "2", "4"} /\ e.ins = i
  /\ e.price \in Prices \cup {None} /\ e.qty \in Qty \cup {None}

LEMMA EntryFields ==
  ASSUME NEW e \in Entries
  PROVE  EntryIs(e, e.ins) /\ EntryIs([e EXCEPT !.ins = None], None) /\ e.ins \in Instruments
<1> DEFINE p == CHOOSE p \in Prices : TRUE
<1>1. p \in Prices
  BY OrdersAssumption
<1>2. MaxQty \in Qty
  BY BooksAssumption DEF Qty
<1> HIDE DEF p
<1>3. e \in [ety : {"0", "1", "2", "4"}, ins : Instruments, price : {None, p}, qty : {None, MaxQty}]
  BY DEF Entries, p
<1> QED
  BY <1>1, <1>2, <1>3 DEF EntryIs

\* The instruments named ahead of the entries and by them.
LEMMA NamesOfTwo ==
  ASSUME NEW ln, NEW a, NEW b, ln.entries = <<a, b>>
  PROVE  /\ DOMAIN ln.entries = 1 .. 2 /\ ln.entries[1] = a /\ ln.entries[2] = b
         /\ DOMAIN Btcc!InNames(ln) = 1 .. 3
         /\ Btcc!InNames(ln)[1] = ln.ins /\ Btcc!InNames(ln)[2] = a.ins /\ Btcc!InNames(ln)[3] = b.ins
<1> DEFINE w == [k \in DOMAIN ln.entries |-> ln.entries[k].ins]
           X == {ln.ins, a.ins, b.ins}
           v == <<ln.ins>>
<1>1. DOMAIN ln.entries = 1 .. 2 /\ ln.entries[1] = a /\ ln.entries[2] = b
  OBVIOUS
<1>2. w = [k \in 1 .. 2 |-> ln.entries[k].ins]
  BY <1>1
<1>3. w[1] = a.ins /\ w[2] = b.ins
  BY <1>1
<1> HIDE DEF w
<1>4. w \in [1 .. 2 -> X]
  <2>1. \A k \in 1 .. 2 : ln.entries[k].ins \in X
    BY <1>1
  <2> HIDE DEF X
  <2> QED
    BY <1>2, <2>1
<1>5. v \in Seq(X) /\ Len(v) = 1 /\ v[1] = ln.ins
  OBVIOUS
<1> HIDE DEF X, v
<1>6. w \in Seq(X) /\ Len(w) = 2
  <2>1. PICK n \in Nat : n = 2
    OBVIOUS
  <2>2. w \in [1 .. n -> X]
    BY <1>4, <2>1
  <2>3. w \in Seq(X)
    BY <2>2
  <2>4. DOMAIN w = 1 .. n /\ DOMAIN w = 1 .. Len(w) /\ Len(w) \in Nat
    BY <2>2, <2>3
  <2> QED
    BY <2>1, <2>3, <2>4
<1>7. /\ DOMAIN (v \o w) = 1 .. 3
      /\ (v \o w)[1] = v[1] /\ (v \o w)[2] = w[1] /\ (v \o w)[3] = w[2]
  <2>1. /\ DOMAIN v = 1 .. Len(v) /\ DOMAIN w = 1 .. Len(w)
        /\ Len(v) \in Nat /\ Len(w) \in Nat
        /\ DOMAIN (v \o w) = 1 .. (Len(v) + Len(w))
        /\ \A k \in 1 .. Len(v) : (v \o w)[k] = v[k]
        /\ \A k \in 1 .. Len(w) : (v \o w)[Len(v) + k] = w[k]
    <3>1. v \in Seq(X) /\ w \in Seq(X)
      BY <1>5, <1>6
    <3> QED
      BY <3>1, Joined
  <2>2. Len(v) = 1 /\ Len(w) = 2
    BY <1>5, <1>6
  <2> DEFINE z == v \o w
  <2> HIDE DEF z
  <2>3. DOMAIN z = 1 .. 3 /\ \A k \in 1 .. 1 : z[k] = v[k]
    BY <2>1, <2>2 DEF z
  <2>4. \A k \in 1 .. 2 : z[1 + k] = w[k]
    BY <2>1, <2>2 DEF z
  <2>5. z[1 + 1] = w[1] /\ z[1 + 2] = w[2] /\ z[1] = v[1]
    BY <2>3, <2>4
  <2> QED
    BY <2>3, <2>5 DEF z
<1>8. Btcc!InNames(ln) = v \o w
  BY DEF Btcc!InNames, v, w
<1> QED
  BY <1>1, <1>3, <1>5, <1>7, <1>8

LEMMA RefreshOInv ==
  ASSUME OInv, NEW i \in Instruments, NEW e1 \in Entries, NEW e2 \in Entries, Refresh(i, e1, e2)
  PROVE  OInv'
<1> DEFINE a == [e1 EXCEPT !.ins = None]
           b == [e2 EXCEPT !.ins = None]
           ln == [typ |-> "W", ins |-> i, entries |-> <<a, b>>]
           ins == <<i, i>>
<1>1. Told(ln, ins)
  BY DEF Refresh
<1>2. EntryIs(a, None) /\ EntryIs(b, None)
  BY EntryFields
<1>3. ln.typ = "W" /\ ln.ins = i /\ ln.entries = <<a, b>>
  OBVIOUS
<1>4. DOMAIN ins = 1 .. 2 /\ ins[1] = i /\ ins[2] = i
  OBVIOUS
<1> HIDE DEF a, b, ln, ins
<1>5. /\ DOMAIN ln.entries = 1 .. 2 /\ ln.entries[1] = a /\ ln.entries[2] = b
      /\ DOMAIN Btcc!InNames(ln) = 1 .. 3
      /\ Btcc!InNames(ln)[1] = ln.ins /\ Btcc!InNames(ln)[2] = a.ins /\ Btcc!InNames(ln)[3] = b.ins
  BY <1>3, NamesOfTwo
<1>6. a.ins = None /\ b.ins = None /\ i # None
  BY <1>2, NoneIsNew DEF EntryIs, NoneFresh
<1>7. Message(ln, ins)
  <2>1. ASSUME NEW k \in 1 .. 2
        PROVE  /\ ins[k] \in Instruments
               /\ ln.entries[k].price \in Prices \cup {None} /\ ln.entries[k].qty \in Qty \cup {None}
    <3>1. k = 1 \/ k = 2
      OBVIOUS
    <3> QED
      BY <1>2, <1>4, <1>5, <3>1 DEF EntryIs
  <2> QED
    BY <1>4, <1>5, <2>1 DEF Message
<1>8. Btcc!Named(ln) = {1}
  <2> DEFINE N == Btcc!InNames(ln)
  <2>1. Btcc!Named(ln) = {k \in DOMAIN N : N[k] # None}
    BY DEF Btcc!Named
  <2> HIDE DEF N
  <2>2. DOMAIN N = 1 .. 3 /\ N[1] = i /\ N[2] = None /\ N[3] = None
    BY <1>3, <1>5, <1>6 DEF N
  <2> QED
    BY <1>6, <2>1, <2>2
<1>9. ASSUME NEW k \in 1 .. 2
      PROVE  Btcc!InOf(ln, k) = ins[k]
  <2> DEFINE by == {j \in 1 .. k : ln.entries[j].ety \in Btcc!Etys /\ ln.entries[j].ins # None}
  <2>1. by = {}
    <3>1. \A j \in 1 .. k : j = 1 \/ j = 2
      OBVIOUS
    <3>2. \A j \in 1 .. k : ln.entries[j].ins = None
      BY <1>5, <1>6, <3>1
    <3> QED
      BY <3>2
  <2>2. Btcc!InOf(ln, k) = Btcc!InNames(ln)[Btcc!Min(Btcc!Named(ln))]
    BY <2>1 DEF Btcc!InOf
  <2>3. Btcc!Min({1}) = 1
    BY DEF Btcc!Min
  <2>4. Btcc!InOf(ln, k) = i
    BY <1>3, <1>5, <1>8, <2>2, <2>3
  <2>5. k = 1 \/ k = 2
    OBVIOUS
  <2> QED
    BY <1>4, <2>4, <2>5
<1>10. Quoted(procln(ln), ln, ins)
  <2>1. prog = "btcc" /\ ln.typ \in {"W", "X"} /\ Btcc!Named(ln) # {}
    BY <1>1, <1>3, <1>8 DEF Told
  <2> QED
    BY <1>5, <1>9, <2>1, RouteQuote
<1> QED
  BY <1>1, <1>7, <1>10, ToldOInv

LEMMA IncrementOInv ==
  ASSUME OInv, NEW e1 \in Entries, NEW e2 \in Entries, Increment(e1, e2)
  PROVE  OInv'
<1> DEFINE ln == [typ |-> "X", ins |-> None, entries |-> <<e1, e2>>]
           ins == <<e1.ins, e2.ins>>
<1>1. Told(ln, ins)
  BY DEF Increment
<1>2. EntryIs(e1, e1.ins) /\ EntryIs(e2, e2.ins) /\ e1.ins \in Instruments /\ e2.ins \in Instruments
  BY EntryFields
<1>3. ln.typ = "X" /\ ln.ins = None /\ ln.entries = <<e1, e2>>
  OBVIOUS
<1>4. DOMAIN ins = 1 .. 2 /\ ins[1] = e1.ins /\ ins[2] = e2.ins
  OBVIOUS
<1> HIDE DEF ln, ins
<1>5. /\ DOMAIN ln.entries = 1 .. 2 /\ ln.entries[1] = e1 /\ ln.entries[2] = e2
      /\ DOMAIN Btcc!InNames(ln) = 1 .. 3
      /\ Btcc!InNames(ln)[1] = ln.ins /\ Btcc!InNames(ln)[2] = e1.ins /\ Btcc!InNames(ln)[3] = e2.ins
  BY <1>3, NamesOfTwo
<1>6. e1.ins # None /\ e2.ins # None
  BY <1>2, NoneIsNew DEF NoneFresh
<1>7. \A k \in 1 .. 2 : ins[k] = ln.entries[k].ins /\ ins[k] # None /\ ins[k] \in Instruments
  <2> TAKE k \in 1 .. 2
  <2>1. k = 1 \/ k = 2
    OBVIOUS
  <2> QED
    BY <1>2, <1>4, <1>5, <1>6, <2>1
<1>8. Message(ln, ins)
  <2>1. ASSUME NEW k \in 1 .. 2
        PROVE  ln.entries[k].price \in Prices \cup {None} /\ ln.entries[k].qty \in Qty \cup {None}
    <3>1. k = 1 \/ k = 2
      OBVIOUS
    <3> QED
      BY <1>2, <1>5, <3>1 DEF EntryIs
  <2> QED
    BY <1>4, <1>5, <1>7, <2>1 DEF Message
<1>9. Btcc!Named(ln) # {}
  <2> DEFINE N == Btcc!InNames(ln)
  <2>1. Btcc!Named(ln) = {k \in DOMAIN N : N[k] # None}
    BY DEF Btcc!Named
  <2>2. 2 \in DOMAIN N /\ N[2] # None
    BY <1>5, <1>6
  <2> HIDE DEF N
  <2> QED
    BY <2>1, <2>2
<1>10. ASSUME NEW k \in 1 .. 2, ln.entries[k].ety \in Btcc!Etys
       PROVE  Btcc!InOf(ln, k) = ins[k]
  <2> DEFINE by == {j \in 1 .. k : ln.entries[j].ety \in Btcc!Etys /\ ln.entries[j].ins # None}
             m == Btcc!Max(by)
  <2>1. k \in by /\ \A j \in by : j \in Nat /\ j <= k
    BY <1>7, <1>10
  <2>2. Btcc!InOf(ln, k) = ln.entries[m].ins
    BY <2>1 DEF Btcc!InOf
  <2>3. m = k
    <3> HIDE DEF by
    <3>1. m = CHOOSE x \in by : \A y \in by : x >= y
      BY DEF Btcc!Max
    <3>2. \A y \in by : k >= y
      BY <2>1
    <3>3. m \in by /\ \A y \in by : m >= y
      BY <2>1, <3>1, <3>2
    <3> HIDE DEF m
    <3>4. m >= k /\ m <= k /\ m \in Nat
      BY <2>1, <3>3
    <3> QED
      BY <3>4
  <2> QED
    BY <1>7, <2>2, <2>3
<1>11. Quoted(procln(ln), ln, ins)
  <2>1. prog = "btcc" /\ ln.typ \in {"W", "X"}
    BY <1>1, <1>3 DEF Told
  <2> QED
    BY <1>5, <1>9, <1>10, <2>1, RouteQuote
<1> QED
  BY <1>1, <1>8, <1>11, ToldOInv

LEMMA SessionOInv ==
  ASSUME OInv, SessionMessage
  PROVE  OInv'
<1> DEFINE ln == [typ |-> "0", ins |-> None, entries |-> <<>>]
<1>1. /\ prog = "btcc" /\ conn /\ Log(ln)
      /\ prog' = prog /\ conn' = conn /\ ords' = ords /\ book' = book /\ sure' = sure /\ told' = told
  BY DEF SessionMessage, exchange
<1>2. ln.typ = "0"
  OBVIOUS
<1> HIDE DEF ln
<1>3. procln(ln) = <<>>
  BY <1>1, <1>2 DEF procln, Btcc!procln
<1>4. Take(<<>>)
  BY <1>1, <1>3 DEF Log
<1>5. Typed /\ conn' \in BOOLEAN
  BY <1>1 DEF OInv, Typed
<1>6. repl' = repl /\ top' = top
  BY <1>4, <1>5, TakeNothing
<1> QED
  BY <1>1, <1>5, <1>6, SameOInv

-----------------------------------------------------------------------------
(* The invariant holds *)

LEMMA ConnOInv ==
  ASSUME OInv, Connect \/ Disconnect \/ UNCHANGED vars
  PROVE  OInv'
<1>1. conn \in BOOLEAN
  BY DEF OInv, Typed
<1>2. /\ prog' = prog /\ conn' \in BOOLEAN /\ ords' = ords /\ book' = book /\ repl' = repl /\ top' = top
      /\ sure' = sure /\ told' = told
  BY <1>1 DEF Connect, Disconnect, vars, exchange, home
<1> QED
  BY <1>2, SameOInv

LEMMA NextOInv == OInv /\ [Next]_vars => OInv'
<1> SUFFICES ASSUME OInv, [Next]_vars PROVE OInv'
  OBVIOUS
<1>1. CASE Connect \/ Disconnect \/ UNCHANGED vars
  BY <1>1, ConnOInv
<1>2. CASE Coinbase
  <2>1. CASE \E o \in Ids, i \in Products, l \in Sides \X (Prices \cup {None}), q \in Lots : Receive(o, i, l, q)
    <3>1. PICK o \in Ids, i \in Products, l \in Sides \X (Prices \cup {None}), q \in Lots : Receive(o, i, l, q)
      BY <2>1
    <3> QED
      BY <3>1, ReceiveOInv
  <2>2. CASE \E t \in Ids, o \in Ids, q \in Lots : Match(t, o, q)
    BY <2>2, MatchOInv
  <2>3. CASE \E o \in Ids : Rest(o) \/ Done(o) \/ Kill(o)
    BY <2>3, RestOInv, DoneOInv, KillOInv
  <2>4. CASE \E o \in Ids, q \in Lots : Resize(o, q)
    BY <2>4, ResizeOInv
  <2> QED
    BY <1>2, <2>1, <2>2, <2>3, <2>4 DEF Coinbase
<1>3. CASE Bitstamp
  <2>1. CASE \E i \in Instruments, b \in [Levels -> Qty] : Diff(i, b)
    BY <2>1, DiffOInv
  <2>2. CASE \E i \in Instruments : Snapshot(i) \/ Aside(i)
    BY <2>2, SnapshotOInv, SnapshotSkipped, AsideOInv
  <2> QED
    BY <1>3, <2>1, <2>2 DEF Bitstamp
<1>4. CASE Bitcoinchina
  <2>1. CASE \E e1, e2 \in Entries : e1.ins = e2.ins /\ Refresh(e1.ins, e1, e2)
    <3>1. PICK e1 \in Entries, e2 \in Entries : Refresh(e1.ins, e1, e2)
      BY <2>1
    <3> DEFINE i == e1.ins
    <3>2. i \in Instruments /\ Refresh(i, e1, e2)
      BY <3>1, EntryFields
    <3> HIDE DEF i
    <3> QED
      BY <3>2, RefreshOInv
  <2>2. CASE \E e1, e2 \in Entries : Increment(e1, e2)
    BY <2>2, IncrementOInv
  <2>3. CASE SessionMessage
    BY <2>3, SessionOInv
  <2> QED
    BY <1>4, <2>1, <2>2, <2>3 DEF Bitcoinchina
<1> QED
  BY <1>1, <1>2, <1>3, <1>4 DEF Next

LEMMA Invariance == Spec => []OInv
<1>1. Init => OInv
  BY InitOInv
<1>2. OInv /\ [Next]_vars => OInv'
  BY NextOInv
<1> HIDE DEF Init, Next, OInv
<1> QED
  BY <1>1, <1>2, PTL DEF Spec

\* The variables keep their types, for any number of instruments, prices, order
\* ids and sizes: no line of the three programs turns into a top or a trade
\* without a price, btcc2b.c:221 skips those entries.
THEOREM TypesHold == Spec => []TypeOK
<1>1. OInv => TypeOK
  BY TypedOK
<1>2. Spec => []OInv
  BY Invariance
<1> HIDE DEF Spec, OInv, TypeOK
<1> QED
  BY <1>1, <1>2, PTL

\* What the programs make of the lines is, taken together, the exchange's depth
\* at every level to which nothing has happened unnoticed: the differences of
\* coin2b add up (procln(), coin2b.c:184), the quantities of btsp2b replace one
\* another (btsp2b.c:220).
THEOREM DepthIsFollowed == Spec => []DepthFollows
<1>1. OInv => DepthFollows
  BY DEF OInv
<1>2. Spec => []OInv
  BY Invariance
<1> HIDE DEF Spec, OInv, DepthFollows
<1> QED
  BY <1>1, <1>2, PTL

\* Tops and trades at home are the ones that the exchange has told last, of the
\* right side and instrument: route_quote() of btcc2b.c finds the instrument of
\* each entry, procln() of btsp2b.c takes the first level of a side, and of a
\* full book only, for the top.
THEOREM TopsAreFollowed == Spec => []TopsFollow
<1>1. OInv => TopsFollow
  BY DEF OInv
<1>2. Spec => []OInv
  BY Invariance
<1> HIDE DEF Spec, OInv, TopsFollow
<1> QED
  BY <1>1, <1>2, PTL
=============================================================================
