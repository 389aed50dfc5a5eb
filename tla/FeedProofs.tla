----------------------------- MODULE FeedProofs -----------------------------
(***************************************************************************)
(* The books at home follow the exchange's, for any instruments, prices    *)
(* and ids, tables and token arrays of any size and any sequence of        *)
(* connections and rotations.                                              *)
(*                                                                         *)
(* The tables of bitfin2b.c and plx2b.c are never emptied.  What makes     *)
(* them right is that a channel's entry is written before its first line:  *)
(* for bitfin the entry of a live channel is its own, unless ids of this   *)
(* connection have met in the tables (BtfTab), when nothing but the types  *)
(* of what is printed can be relied on (BtfTyped); for plx the             *)
(* entries of this connection's requests come first, hold no ids but their *)
(* own, and what is left of earlier connections lies behind them (PlxTab). *)
(***************************************************************************)
EXTENDS Feed, FiniteSetTheorems, SequenceTheorems, WellFoundedInduction, TLAPS

Tabs == [subins : [0..Slots - 1 -> Instruments \cup {None}],
         subtys : [0..Slots - 1 -> {"UNK", "BOK", "TOP", "TRA"}],
         subids : [0..Slots - 1 -> Keys]]

\* An instrument has one channel of a kind.
OneEach == \A c, d \in live : c.ins = d.ins /\ c.ty = d.ty => c = d

\* Without tables the channels are the instruments, and all of them are known.
Plain ==
  prog \notin Tables => /\ tab = NoTab /\ known = live
                        /\ \A c \in live : c.ty = "book" /\ c.key = 0

\* A bitfin channel has an entry of its own, as long as none have met.
BtfTab ==
  prog = "bitfin" /\ ~Met =>
    /\ \A c \in known : /\ tab.subins[c.key % Slots] = c.ins
                        /\ tab.subtys[c.key % Slots] = Btf!Subt(c.ty)
    /\ \A c \in live \ known : tab.subtys[c.key % Slots] = "UNK"

\* The subscriptions of a plx connection have ids of their own.
PlxLive ==
  prog = "plx" =>
    /\ \A c \in live : c.ty = "book" /\ c.key # 0
    /\ \A c, d \in live : c.ins = d.ins <=> c.key = d.key
    /\ live # {} => Len(reqs) > 0
    /\ \A c \in live \ known : lost > 0 \/ Len(reqs) > Slots

\* The entries of requests before and after the rotation, of known channels
\* and of what is behind the requests.
PlxTab ==
  prog = "plx" =>
    /\ \A r \in 1..Len(reqs) : r <= Slots /\ r <= lost =>
         tab.subins[r - 1] = None /\ tab.subids[r - 1] = 0
    /\ \A r \in 1..Len(reqs) : r <= Slots /\ r > lost =>
         /\ tab.subins[r - 1] = reqs[r]
         /\ tab.subids[r - 1] # 0 => \E c \in known : c.ins = reqs[r] /\ c.key = tab.subids[r - 1]
    /\ \A c \in known : \E r \in 1..Len(reqs) : r <= Slots /\ tab.subids[r - 1] = c.key
    /\ lost > 0 => \A k \in 0..Slots - 1 : k >= Len(reqs) => tab.subids[k] = 0

IInv ==
  /\ TypeOK /\ tab \in Tabs /\ reqs \in Seq(Instruments)
  /\ OneEach /\ Plain /\ BtfTab /\ PlxLive /\ PlxTab
  /\ Attribution /\ Tracks

-----------------------------------------------------------------------------
(* What the books tools make of the output *)

Good(i) == [ins : {i}, fl : {"0", "1", "2"}, lvl : Levels, qty : Qty] \cup {Clear(i), Nothing}

\* The output o tells the quantities in b at the levels in L of instrument i,
\* after clearing the book if clr.
Conveys(o, i, L, b, clr) ==
  /\ o \in Seq(Good(i))
  /\ \A k \in DOMAIN o : o[k].fl = "2" => o[k].lvl \in L /\ o[k].qty = b[o[k].lvl]
  /\ \A l \in L : \E k \in DOMAIN o : o[k].fl = "2" /\ o[k].lvl = l
  /\ \A k \in DOMAIN o : o[k].fl = "clr0" => clr /\ k = 1
  /\ clr => 1 \in DOMAIN o /\ o[1] = Clear(i)

Books2 == [Instruments -> [Levels -> Qty]]

\* A non-empty set of naturals has a least element.
LEMMA MinExists ==
  ASSUME NEW T \in SUBSET Nat, T # {}
  PROVE  \E x \in T : \A y \in T : x <= y
<1>1. PICK x \in T : \A y \in T : ~(<<y, x>> \in OpToRel(<, Nat))
  BY NatLessThanWellFounded, WFMin
<1>2. \A y \in T : ~(y < x)
  BY <1>1 DEF OpToRel
<1> QED
  BY <1>2

\* A non-empty set of indices has a greatest element.
LEMMA MaxExists ==
  ASSUME NEW n \in Nat, NEW T \in SUBSET (1..n), T # {}
  PROVE  \E x \in T : \A y \in T : y <= x
<1> DEFINE U == {n - k : k \in T}
<1>1. U \in SUBSET Nat /\ U # {}
  <2>1. \A k \in T : k \in Nat /\ k <= n /\ n - k \in Nat
    OBVIOUS
  <2> QED
    BY <2>1
<1>2. PICK u \in U : \A v \in U : u <= v
  BY <1>1, MinExists
<1>3. PICK x \in T : u = n - x
  OBVIOUS
<1>4. ASSUME NEW y \in T PROVE y <= x
  <2>1. n - y \in U
    OBVIOUS
  <2> QED
    BY <2>1, <1>2, <1>3
<1> QED
  BY <1>4

\* The fields of what is printed.
LEMMA ClearFields == \A i : Clear(i).ins = i /\ Clear(i).fl = "clr0" /\ Clear(i).qty = 0
BY DEF Clear

LEMMA GoodFields ==
  ASSUME NEW i, NEW x \in Good(i)
  PROVE  /\ x.ins \in {i, None}
         /\ x.fl \in {"2", "clr0"} => x.ins = i
         /\ x.fl \in {"", "0", "1", "2", "clr0"}
<1>1. CASE x \in [ins : {i}, fl : {"0", "1", "2"}, lvl : Levels, qty : Qty]
  BY <1>1
<1>2. CASE x = Clear(i)
  BY <1>2 DEF Clear
<1>3. CASE x = Nothing
  BY <1>3 DEF Nothing
<1> QED
  BY <1>1, <1>2, <1>3 DEF Good

\* Apply(), given what the output conveys.
LEMMA ApplyConveys ==
  ASSUME NEW books \in Books2, NEW i \in Instruments, NEW L \in SUBSET Levels,
         NEW b \in [Levels -> Qty], NEW clr \in BOOLEAN, NEW o, Conveys(o, i, L, b, clr)
  PROVE  /\ Apply(books, o) \in Books2
         /\ \A j \in Instruments \ {i} : Apply(books, o)[j] = books[j]
         /\ \A l \in L : Apply(books, o)[i][l] = b[l]
         /\ \A l \in Levels \ L : Apply(books, o)[i][l] = IF clr THEN 0 ELSE books[i][l]
<1> DEFINE hits(j, l) == {k \in DOMAIN o : Touches(o[k], j, l)}
           last(j, l) == CHOOSE k \in hits(j, l) : \A m \in hits(j, l) : m <= k
<1>1. /\ o \in Seq(Good(i)) /\ DOMAIN o = 1..Len(o) /\ Len(o) \in Nat
      /\ \A k \in DOMAIN o : o[k] \in Good(i)
  BY DEF Conveys
<1>2. ASSUME NEW j \in Instruments, NEW l \in Levels
      PROVE  Apply(books, o)[j][l] = IF hits(j, l) = {} THEN books[j][l] ELSE o[last(j, l)].qty
  BY DEF Apply
<1>3. ASSUME NEW j \in Instruments \ {i}, NEW l \in Levels
      PROVE  hits(j, l) = {}
  <2>1. \A k \in DOMAIN o : o[k].ins \in {i, None}
    BY <1>1, GoodFields
  <2> QED
    BY <2>1, BooksAssumption DEF Touches
<1>4. ASSUME NEW l \in Levels, hits(i, l) # {}
      PROVE  last(i, l) \in hits(i, l) /\ \A m \in hits(i, l) : m <= last(i, l)
  BY <1>1, <1>4, MaxExists
<1>5. ASSUME NEW k \in DOMAIN o, o[k].fl = "2" PROVE o[k].ins = i
  BY <1>1, <1>5, GoodFields
<1>6. ASSUME NEW l \in L PROVE Apply(books, o)[i][l] = b[l]
  <2>1. PICK k \in DOMAIN o : o[k].fl = "2" /\ o[k].lvl = l
    BY <1>6 DEF Conveys
  <2>2. k \in hits(i, l)
    BY <2>1, <1>5 DEF Touches
  <2>3. last(i, l) \in hits(i, l) /\ k <= last(i, l)
    BY <2>2, <1>4
  <2>4. o[last(i, l)].fl # "clr0"
    <3>1. SUFFICES ASSUME o[last(i, l)].fl = "clr0" PROVE FALSE
      OBVIOUS
    <3>2. last(i, l) = 1 /\ clr
      BY <2>3, <3>1 DEF Conveys
    <3>3. k = 1
      <4> HIDE DEF last, hits
      <4>1. k \in Nat /\ k >= 1
        BY <1>1
      <4> QED
        BY <4>1, <2>3, <3>2
    <3>4. o[1].fl = "clr0"
      BY <3>2, ClearFields DEF Conveys
    <3> QED
      BY <2>1, <3>3, <3>4
  <2>5. o[last(i, l)].fl = "2" /\ o[last(i, l)].lvl = l
    BY <2>3, <2>4 DEF Touches
  <2>6. o[last(i, l)].qty = b[l]
    BY <2>3, <2>5 DEF Conveys
  <2> HIDE DEF last, hits
  <2> QED
    BY <1>2, <2>2, <2>6
<1>7. ASSUME NEW l \in Levels \ L PROVE Apply(books, o)[i][l] = IF clr THEN 0 ELSE books[i][l]
  <2>1. \A k \in hits(i, l) : clr /\ k = 1
    BY <1>7 DEF Conveys, Touches
  <2>2. CASE clr
    <3>1. o[1] = Clear(i) /\ 1 \in DOMAIN o
      BY <2>2 DEF Conveys
    <3>2. 1 \in hits(i, l)
      BY <3>1, ClearFields DEF Touches
    <3>3. last(i, l) = 1
      <4> HIDE DEF last, hits
      <4>1. hits(i, l) # {}
        BY <3>2
      <4>2. last(i, l) \in hits(i, l)
        BY <4>1, <1>4
      <4> QED
        BY <4>2, <2>1
    <3> HIDE DEF last, hits
    <3>4. o[last(i, l)].qty = 0
      BY <3>1, <3>3, ClearFields
    <3> QED
      BY <1>2, <2>2, <3>2, <3>4
  <2>3. CASE ~clr
    <3>1. hits(i, l) = {}
      BY <2>1, <2>3
    <3> HIDE DEF last, hits
    <3> QED
      BY <1>2, <2>3, <3>1
  <2> QED
    BY <2>2, <2>3
<1>8. \A j \in Instruments \ {i} : \A l \in Levels : Apply(books, o)[j][l] = books[j][l]
  <2> HIDE DEF last, hits
  <2> QED
    BY <1>2, <1>3
<1>9. \A j \in Instruments \ {i} : Apply(books, o)[j] = books[j]
  <2>1. \A j \in Instruments : books[j] \in [Levels -> Qty]
    BY DEF Books2
  <2>2. \A j \in Instruments : Apply(books, o)[j] = [l \in Levels |-> Apply(books, o)[j][l]]
    BY DEF Apply
  <2> QED
    BY <1>8, <2>1, <2>2
<1>10. \A j \in Instruments, l \in Levels : Apply(books, o)[j][l] \in Qty
  <2>1. \A j \in Instruments, l \in Levels : books[j][l] \in Qty
    BY DEF Books2
  <2>2. 0 \in Qty
    BY BooksAssumption DEF Qty
  <2> QED
    BY <1>6, <1>7, <1>8, <2>1, <2>2
<1>11. Apply(books, o) \in Books2
  <2>1. Apply(books, o) = [j \in Instruments |-> [l \in Levels |-> Apply(books, o)[j][l]]]
    BY DEF Apply
  <2> QED
    BY <1>10, <2>1 DEF Books2
<1> QED
  BY <1>6, <1>7, <1>9, <1>11

-----------------------------------------------------------------------------
(* What the programs print *)

\* Nothing at all.
LEMMA EmptyConveys ==
  ASSUME NEW i, NEW b
  PROVE  Conveys(<<>>, i, {}, b, FALSE)
BY DEF Conveys

\* The clear.
LEMMA ClearConveys ==
  ASSUME NEW i, NEW b
  PROVE  Conveys(<<Clear(i)>>, i, {}, b, TRUE)
<1>1. Clear(i) \in Good(i) /\ Clear(i).fl = "clr0"
  BY ClearFields DEF Good
<1> HIDE DEF Good
<1>2. <<Clear(i)>> \in Seq(Good(i)) /\ DOMAIN <<Clear(i)>> = {1} /\ <<Clear(i)>>[1] = Clear(i)
  BY <1>1
<1> QED
  BY <1>1, <1>2 DEF Conveys

\* One output after another.
LEMMA ConcatConveys ==
  ASSUME NEW i, NEW b, NEW L1, NEW L2, NEW clr \in BOOLEAN, NEW o1, NEW o2,
         Conveys(o1, i, L1, b, clr), Conveys(o2, i, L2, b, FALSE)
  PROVE  Conveys(o1 \o o2, i, L1 \cup L2, b, clr)
<1> DEFINE o == o1 \o o2
           n1 == Len(o1)
           n2 == Len(o2)
<1>1. /\ o1 \in Seq(Good(i)) /\ o2 \in Seq(Good(i))
      /\ n1 \in Nat /\ n2 \in Nat /\ DOMAIN o1 = 1..n1 /\ DOMAIN o2 = 1..n2
  BY DEF Conveys
<1>2. /\ o \in Seq(Good(i)) /\ DOMAIN o = 1 .. n1 + n2
      /\ \A k \in 1 .. n1 + n2 : o[k] = IF k <= n1 THEN o1[k] ELSE o2[k - n1]
  BY <1>1, ConcatProperties
<1> HIDE DEF o, n1, n2
<1>3. \A k \in DOMAIN o : (k \in DOMAIN o1 /\ o[k] = o1[k]) \/ (k - n1 \in DOMAIN o2 /\ o[k] = o2[k - n1])
  BY <1>1, <1>2
<1>4. \A k \in DOMAIN o1 : k \in DOMAIN o /\ o[k] = o1[k]
  BY <1>1, <1>2
<1>5. \A k \in DOMAIN o2 : k + n1 \in DOMAIN o /\ o[k + n1] = o2[k]
  BY <1>1, <1>2
<1>6. \A k \in DOMAIN o : o[k].fl = "2" => o[k].lvl \in L1 \cup L2 /\ o[k].qty = b[o[k].lvl]
  BY <1>3 DEF Conveys
<1>7. \A l \in L1 \cup L2 : \E k \in DOMAIN o : o[k].fl = "2" /\ o[k].lvl = l
  BY <1>4, <1>5 DEF Conveys
<1>8. \A k \in DOMAIN o : o[k].fl = "clr0" => clr /\ k = 1
  <2>1. \A k \in DOMAIN o1 : o1[k].fl = "clr0" => clr /\ k = 1
    BY DEF Conveys
  <2>2. \A k \in DOMAIN o2 : o2[k].fl # "clr0"
    BY DEF Conveys
  <2> QED
    BY <1>3, <2>1, <2>2
<1>9. clr => 1 \in DOMAIN o /\ o[1] = Clear(i)
  BY <1>4 DEF Conveys
<1> QED
  BY <1>2, <1>6, <1>7, <1>8, <1>9 DEF Conveys, o

\* A line of output for each of some levels.
LEMMA EachConveys ==
  ASSUME NEW i, NEW L \in SUBSET Levels, NEW b \in [Levels -> Qty], NEW n \in Nat, NEW o \in [1..n -> Good(i)],
         \A k \in 1..n : o[k].fl = "2" => o[k].lvl \in L /\ o[k].qty = b[o[k].lvl],
         \A l \in L : \E k \in 1..n : o[k].fl = "2" /\ o[k].lvl = l,
         \A k \in 1..n : o[k].fl # "clr0"
  PROVE  Conveys(o, i, L, b, FALSE)
<1>1. o \in Seq(Good(i)) /\ DOMAIN o = 1..n
  OBVIOUS
<1> QED
  BY <1>1 DEF Conveys

LEMMA QuoteIsGood ==
  ASSUME NEW i, NEW l \in Levels, NEW q \in Qty
  PROVE  /\ Quote(i, l, q) \in Good(i) /\ Trade(i, l, q) \in Good(i) /\ Top(i, l, q) \in Good(i)
         /\ Nothing \in Good(i)
BY DEF Good, Quote, Trade, Top

\* What a list of levels is.
LEMMA ListedLevels ==
  ASSUME NEW L \in SUBSET Levels, NEW b \in [Levels -> Qty], NEW s \in Listed(L, b)
  PROVE  \E n \in Nat :
           /\ n = Cardinality(L)
           /\ s \in [1..n -> [lvl : L, qty : Qty]]
           /\ \A k \in 1..n : s[k].qty = b[s[k].lvl]
           /\ \A l \in L : \E k \in 1..n : s[k].lvl = l
<1>1. Cardinality(L) \in Nat
  <2>1. IsFiniteSet(Sides)
    <3>1. IsFiniteSet({"bid"}) /\ IsFiniteSet({"ask"})
      BY FS_Singleton
    <3>2. IsFiniteSet({"bid"} \cup {"ask"})
      BY <3>1, FS_Union
    <3> QED
      BY <3>2 DEF Sides
  <2>2. IsFiniteSet(Levels)
    BY <2>1, BooksAssumption, FS_Product DEF Levels
  <2> QED
    BY <2>2, FS_Subset, FS_CardinalityType
<1>2. PICK x \in [1..Cardinality(L) -> L] :
        /\ \A l \in L : \E k \in DOMAIN x : x[k] = l
        /\ s = [k \in DOMAIN x |-> [lvl |-> x[k], qty |-> b[x[k]]]]
  BY DEF Listed
<1> DEFINE n == Cardinality(L)
<1> HIDE DEF n
<1>3. x \in [1..n -> L] /\ s = [k \in 1..n |-> [lvl |-> x[k], qty |-> b[x[k]]]]
  BY <1>2 DEF n
<1>4. s \in [1..n -> [lvl : L, qty : Qty]]
  BY <1>3
<1>5. \A k \in 1..n : s[k].lvl = x[k] /\ s[k].qty = b[s[k].lvl]
  BY <1>3
<1>6. \A l \in L : \E k \in 1..n : s[k].lvl = l
  <2>1. DOMAIN x = 1..n
    BY <1>3
  <2>2. \A l \in L : \E k \in 1..n : x[k] = l
    BY <1>2, <2>1
  <2> QED
    BY <2>2, <1>5
<1> QED
  BY <1>1, <1>4, <1>5, <1>6 DEF n

\* Quotes for listed levels (hit2b.c, trt2b.c, cex2b.c).
LEMMA QuotesConvey ==
  ASSUME NEW i, NEW L \in SUBSET Levels, NEW b \in [Levels -> Qty], NEW s \in Listed(L, b)
  PROVE  Conveys(Ref!Quotes(i, s), i, L, b, FALSE)
<1>1. PICK n \in Nat :
        /\ s \in [1..n -> [lvl : L, qty : Qty]]
        /\ \A k \in 1..n : s[k].qty = b[s[k].lvl]
        /\ \A l \in L : \E k \in 1..n : s[k].lvl = l
  BY ListedLevels
<1> DEFINE o == [k \in 1..n |-> Quote(i, s[k].lvl, s[k].qty)]
<1>2. Ref!Quotes(i, s) = o
  BY <1>1 DEF Ref!Quotes, Ref!Quote, Quote
<1>3. o \in [1..n -> Good(i)]
  <2>1. ASSUME NEW k \in 1..n PROVE Quote(i, s[k].lvl, s[k].qty) \in Good(i)
    <3>1. s[k].lvl \in Levels /\ s[k].qty \in Qty
      BY <1>1
    <3> QED
      BY <3>1, QuoteIsGood
  <2> QED
    BY <2>1
<1>4. \A k \in 1..n : o[k].fl = "2" /\ o[k].lvl = s[k].lvl /\ o[k].qty = s[k].qty
  BY DEF Quote
<1> HIDE DEF o
<1>5. Conveys(o, i, L, b, FALSE)
  <2>1. \A k \in 1..n : o[k].lvl \in L /\ o[k].qty = b[o[k].lvl] /\ o[k].fl # "clr0"
    BY <1>1, <1>4
  <2>2. \A l \in L : \E k \in 1..n : o[k].fl = "2" /\ o[k].lvl = l
    BY <1>1, <1>4
  <2> QED
    BY <1>3, <2>1, <2>2, EachConveys
<1> QED
  BY <1>2, <1>5

\* The program's result for a line that does not change its tables.
Prints(ln, i, L, b, clr) == procln(ln).tab = tab /\ Conveys(procln(ln).out, i, L, b, clr)

LEMMA PrintsIf ==
  ASSUME NEW ln, NEW o, NEW i, NEW L, NEW b, NEW clr,
         procln(ln) = [tab |-> tab, out |-> o], Conveys(o, i, L, b, clr)
  PROVE  Prints(ln, i, L, b, clr)
<1>1. procln(ln).tab = tab /\ procln(ln).out = o
  OBVIOUS
<1> QED
  BY <1>1, Zenon DEF Prints

LEMMA FunctionLength ==
  ASSUME NEW n \in Nat, NEW v, v = [k \in 1..n |-> v[k]]
  PROVE  Len(v) = n
<1> DEFINE R == {v[k] : k \in 1..n}
<1>1. v \in [1..n -> R]
  OBVIOUS
<1> HIDE DEF R
<1> QED
  BY <1>1

\* As many as there are levels.
LEMMA ListedLength ==
  ASSUME NEW L \in SUBSET Levels, NEW b \in [Levels -> Qty], NEW s \in Listed(L, b)
  PROVE  Len(s) = Cardinality(L) /\ Cardinality(L) \in Nat
<1>1. PICK n \in Nat : n = Cardinality(L) /\ s \in [1..n -> [lvl : L, qty : Qty]]
  BY ListedLevels
<1> DEFINE R == [lvl : L, qty : Qty]
<1> HIDE DEF R
<1>2. s \in [1..n -> R]
  BY <1>1 DEF R
<1>3. Len(s) = n
  BY <1>2
<1> QED
  BY <1>1, <1>3

\* Nothing comes of a line.
Skips(ln) == procln(ln) = [tab |-> tab, out |-> <<>>]

LEMMA SkipsPrints ==
  ASSUME NEW ln, Skips(ln), NEW i, NEW b
  PROVE  Prints(ln, i, {}, b, FALSE)
BY EmptyConveys, PrintsIf DEF Skips

LEMMA HitPrints ==
  ASSUME prog = "hit", NEW c, NEW L \in SUBSET Levels, NEW b \in [Levels -> Qty],
         NEW full \in BOOLEAN, NEW ln \in Lines(c, L, b, full)
  PROVE  /\ Cardinality(L) <= Room => Prints(ln, c.ins, L, b, full)
         /\ ~(Cardinality(L) <= Room) => Skips(ln)
<1>1. PICK s \in Listed(L, b) :
        ln = [typ |-> IF full THEN "full" ELSE "incr", ins |-> c.ins, levels |-> s, trades |-> <<>>]
  BY DEF Lines
<1> DEFINE q == Ref!Quotes(c.ins, s)
           h == IF full THEN <<Clear(c.ins)>> ELSE <<>>
<1>2. procln(ln) = [tab |-> tab, out |-> Ref!hit_procln(ln)]
  BY DEF procln
<1>3. /\ ln.typ \in {"full", "incr"} /\ (ln.typ = "full" <=> full)
      /\ ln.ins = c.ins /\ ln.levels = s /\ ln.trades = <<>>
  BY <1>1
<1>4. Len(ln.levels) + Len(ln.trades) = Cardinality(L)
  <2>1. Len(s) = Cardinality(L) /\ Cardinality(L) \in Nat
    BY ListedLength
  <2>2. Len(<<>>) = 0
    OBVIOUS
  <2> QED
    BY <1>3, <2>1, <2>2
<1>5. CASE Cardinality(L) <= Room
  <2>1. Ref!hit_procln(ln) = h \o q \o <<>>
    <3>1. [k \in DOMAIN ln.trades |-> Ref!Trade(ln.ins, ln.trades[k].lvl, ln.trades[k].qty)] = <<>>
      BY <1>3
    <3> QED
      BY <1>3, <1>4, <1>5, <3>1 DEF Ref!hit_procln, Ref!Clear, Clear
  <2>2. Conveys(h, c.ins, {}, b, full)
    BY ClearConveys, EmptyConveys
  <2>3. Conveys(q, c.ins, L, b, FALSE)
    BY QuotesConvey
  <2> HIDE DEF h, q
  <2>4. Conveys(h \o q, c.ins, {} \cup L, b, full)
    BY <2>2, <2>3, ConcatConveys
  <2>5. Conveys(h \o q \o <<>>, c.ins, {} \cup L \cup {}, b, full)
    BY <2>4, EmptyConveys, ConcatConveys
  <2>6. {} \cup L \cup {} = L
    OBVIOUS
  <2> QED
    BY <1>2, <1>5, <2>1, <2>5, <2>6 DEF Prints
<1>6. CASE ~(Cardinality(L) <= Room)
  <2>1. Ref!hit_procln(ln) = <<>>
    BY <1>4, <1>6 DEF Ref!hit_procln
  <2> QED
    BY <1>2, <1>6, <2>1 DEF Skips
<1> QED
  BY <1>5, <1>6

\* The levels of both sides are all levels.
LEMMA BothSides ==
  ASSUME NEW L \in SUBSET Levels
  PROVE  /\ Of(L, "bid") \in SUBSET Levels /\ Of(L, "ask") \in SUBSET Levels
         /\ Of(L, "bid") \cup Of(L, "ask") = L
BY DEF Of, Levels, Sides

LEMMA LevelsFinite == IsFiniteSet(Levels)
<1>1. IsFiniteSet({"bid"}) /\ IsFiniteSet({"ask"})
  BY FS_Singleton
<1>2. IsFiniteSet({"bid"} \cup {"ask"})
  BY <1>1, FS_Union
<1>3. IsFiniteSet(Sides)
  BY <1>2 DEF Sides
<1> QED
  BY <1>3, BooksAssumption, FS_Product DEF Levels

\* Both sides have as many levels as there are.
LEMMA BothLength ==
  ASSUME NEW L \in SUBSET Levels, NEW b \in [Levels -> Qty],
         NEW bids \in Listed(Of(L, "bid"), b), NEW asks \in Listed(Of(L, "ask"), b)
  PROVE  /\ Len(bids) + Len(asks) = Cardinality(L) /\ Len(asks) + Len(bids) = Cardinality(L)
<1> DEFINE B == Of(L, "bid")
           A == Of(L, "ask")
<1>1. /\ Len(bids) = Cardinality(B) /\ Cardinality(B) \in Nat
      /\ Len(asks) = Cardinality(A) /\ Cardinality(A) \in Nat
  BY BothSides, ListedLength
<1>2. IsFiniteSet(B) /\ IsFiniteSet(A) /\ B \cup A = L
  BY BothSides, LevelsFinite, FS_Subset
<1>3. B \cap A = {}
  BY DEF Of
<1>4. Cardinality(B \cup A) = Cardinality(B) + Cardinality(A) - Cardinality(B \cap A)
  <2> HIDE DEF A, B
  <2> QED
    BY <1>2, FS_Union
<1>5. Cardinality({}) = 0
  BY FS_EmptySet
<1>6. Cardinality(L) = Cardinality(B) + Cardinality(A) - Cardinality({})
  <2> HIDE DEF A, B
  <2> QED
    BY <1>2, <1>3, <1>4
<1>7. Cardinality(L) = Cardinality(B) + Cardinality(A)
  <2> HIDE DEF A, B
  <2> QED
    BY <1>1, <1>5, <1>6
<1> HIDE DEF A, B
<1> QED
  BY <1>1, <1>7

LEMMA TrtPrints ==
  ASSUME prog = "trt", NEW c, NEW L \in SUBSET Levels, NEW b \in [Levels -> Qty],
         NEW full \in BOOLEAN, NEW ln \in Lines(c, L, b, full), ~full => Cardinality(L) = 1
  PROVE  /\ Cardinality(L) <= Room => Prints(ln, c.ins, L, b, full)
         /\ ~(Cardinality(L) <= Room) => Skips(ln)
<1>1. procln(ln) = [tab |-> tab, out |-> Ref!trt_procln(ln)]
  BY DEF procln
<1>2. CASE full
  <2>1. PICK bids \in Listed(Of(L, "bid"), b), asks \in Listed(Of(L, "ask"), b) :
          ln = [typ |-> "orderbook", ins |-> c.ins, bids |-> bids, asks |-> asks]
    BY <1>2 DEF Lines
  <2> DEFINE qa == Ref!Quotes(c.ins, asks)
             qb == Ref!Quotes(c.ins, bids)
             h == <<Clear(c.ins)>>
  <2>0. /\ ln.typ = "orderbook" /\ ln.ins = c.ins /\ ln.asks = asks /\ ln.bids = bids
        /\ Len(ln.asks) + Len(ln.bids) = Cardinality(L)
    BY <2>1, BothLength
  <2>2. Cardinality(L) <= Room => Ref!trt_procln(ln) = h \o qa \o qb
    BY <2>0 DEF Ref!trt_procln, Ref!proc_obk, Ref!Clear, Clear
  <2>3. Conveys(h, c.ins, {}, b, TRUE)
    BY ClearConveys
  <2>4. Conveys(qa, c.ins, Of(L, "ask"), b, FALSE) /\ Conveys(qb, c.ins, Of(L, "bid"), b, FALSE)
    BY BothSides, QuotesConvey
  <2> HIDE DEF h, qa, qb
  <2>5. Conveys(h \o qa, c.ins, {} \cup Of(L, "ask"), b, TRUE)
    BY <2>3, <2>4, ConcatConveys
  <2>6. Conveys(h \o qa \o qb, c.ins, {} \cup Of(L, "ask") \cup Of(L, "bid"), b, TRUE)
    BY <2>4, <2>5, ConcatConveys
  <2>7. {} \cup Of(L, "ask") \cup Of(L, "bid") = L
    BY BothSides
  <2>8. full = TRUE
    BY <1>2
  <2>9. Conveys(h \o qa \o qb, c.ins, L, b, full)
    BY <2>6, <2>7, <2>8, Zenon
  <2>10. Cardinality(L) <= Room => procln(ln) = [tab |-> tab, out |-> h \o qa \o qb]
    BY <1>1, <2>2, Zenon
  <2>11. ~(Cardinality(L) <= Room) => Ref!trt_procln(ln) = <<>>
    BY <2>0 DEF Ref!trt_procln
  <2>12. ~(Cardinality(L) <= Room) => Skips(ln)
    BY <1>1, <2>11 DEF Skips
  <2> QED
    BY <2>9, <2>10, <2>12, PrintsIf
<1>3. CASE ~full
  <2>1. PICK l \in L : ln = [typ |-> "orderbook_diff", ins |-> c.ins, lvl |-> l, qty |-> b[l]]
    BY <1>3 DEF Lines
  <2>2. L = {l}
    BY <1>3, <2>1, LevelsFinite, FS_Subset, FS_Singleton
  <2> DEFINE o == [k \in 1..1 |-> Quote(c.ins, l, b[l])]
  <2>3. Ref!trt_procln(ln) = o
    <3>1. ln.typ = "orderbook_diff" /\ ln.ins = c.ins /\ ln.lvl = l /\ ln.qty = b[l]
      BY <2>1
    <3>2. Ref!trt_procln(ln) = <<Quote(c.ins, l, b[l])>>
      BY <3>1 DEF Ref!trt_procln, Ref!proc_odf, Ref!Quote, Quote
    <3> QED
      BY <3>2
  <2>4. o \in [1..1 -> Good(c.ins)]
    BY QuoteIsGood
  <2>5. \A k \in 1..1 : o[k].fl = "2" /\ o[k].lvl = l /\ o[k].qty = b[l]
    BY DEF Quote
  <2> HIDE DEF o
  <2>6. Conveys(o, c.ins, L, b, FALSE)
    <3>1. \A m \in L : \E k \in 1..1 : o[k].fl = "2" /\ o[k].lvl = m
      <4>1. 1 \in 1..1
        OBVIOUS
      <4> QED
        BY <2>2, <2>5, <4>1
    <3>2. \A k \in 1..1 : o[k].lvl \in L /\ o[k].qty = b[o[k].lvl] /\ o[k].fl # "clr0"
      BY <2>2, <2>5
    <3>3. 1 \in Nat
      OBVIOUS
    <3> QED
      BY <2>4, <3>1, <3>2, <3>3, EachConveys, ZenonT(30)
  <2>7. full = FALSE
    BY <1>3
  <2>8. Conveys(o, c.ins, L, b, full)
    BY <2>6, <2>7, Zenon
  <2>9. procln(ln) = [tab |-> tab, out |-> o]
    BY <1>1, <2>3, Zenon
  <2>10. Cardinality(L) <= Room
    BY <1>3, FeedAssumption
  <2> QED
    BY <2>8, <2>9, <2>10, PrintsIf
<1> QED
  BY <1>2, <1>3

LEMMA CexPrints ==
  ASSUME prog = "cex", NEW c, NEW L \in SUBSET Levels, NEW b \in [Levels -> Qty],
         NEW full \in BOOLEAN, NEW ln \in Lines(c, L, b, full)
  PROVE  /\ Cardinality(L) <= Room => Prints(ln, c.ins, L, b, FALSE)
         /\ ~(Cardinality(L) <= Room) => Skips(ln)
<1>1. procln(ln) = [tab |-> tab, out |-> Ref!cex_procln(ln)]
  BY DEF procln
<1>2. PICK bids \in Listed(Of(L, "bid"), b), asks \in Listed(Of(L, "ask"), b) :
        ln = [typ |-> "data", ins |-> c.ins, bids |-> bids, asks |-> asks]
  BY DEF Lines
<1> DEFINE qa == Ref!Quotes(c.ins, asks)
           qb == Ref!Quotes(c.ins, bids)
<1>3. /\ Cardinality(L) <= Room => Ref!cex_procln(ln) = qb \o qa
      /\ ~(Cardinality(L) <= Room) => Ref!cex_procln(ln) = <<>>
  <2>1. /\ ln.typ = "data" /\ ln.ins = c.ins /\ ln.asks = asks /\ ln.bids = bids
        /\ Len(ln.bids) + Len(ln.asks) = Cardinality(L)
    BY <1>2, BothLength
  <2> QED
    BY <2>1 DEF Ref!cex_procln
<1>4. Conveys(qa, c.ins, Of(L, "ask"), b, FALSE) /\ Conveys(qb, c.ins, Of(L, "bid"), b, FALSE)
  BY BothSides, QuotesConvey
<1> HIDE DEF qa, qb
<1>5. Conveys(qb \o qa, c.ins, Of(L, "bid") \cup Of(L, "ask"), b, FALSE)
  BY <1>4, ConcatConveys
<1>6. Conveys(qb \o qa, c.ins, L, b, FALSE)
  BY <1>5, BothSides, Zenon
<1>7. Cardinality(L) <= Room => procln(ln) = [tab |-> tab, out |-> qb \o qa]
  BY <1>1, <1>3, Zenon
<1>8. ~(Cardinality(L) <= Room) => Skips(ln)
  BY <1>1, <1>3 DEF Skips
<1> QED
  BY <1>6, <1>7, <1>8, PrintsIf

LEMMA OkPrints ==
  ASSUME prog = "ok", NEW c, NEW L \in SUBSET Levels, NEW b \in [Levels -> Qty],
         NEW full \in BOOLEAN, NEW ln \in Lines(c, L, b, full)
  PROVE  Prints(ln, c.ins, L, b, full)
<1>1. procln(ln) = [tab |-> tab, out |-> Ref!ok_procln(ln)]
  BY DEF procln
<1>2. PICK s \in Listed(L, b) :
        ln = [typ |-> IF full THEN "W" ELSE "X", ins |-> c.ins,
              entries |-> [k \in DOMAIN s |-> Entry(s[k].lvl, s[k].qty)]]
  BY DEF Lines
<1>3. PICK n \in Nat : s \in [1..n -> [lvl : L, qty : Qty]]
  BY ListedLevels
<1> DEFINE q == Ref!Quotes(c.ins, s)
           h == IF full THEN <<Clear(c.ins)>> ELSE <<>>
<1>4. Ref!route_quote(ln, full) = h \o q
  <2>1. /\ ln.ins = c.ins /\ DOMAIN ln.entries = 1..n /\ DOMAIN s = 1..n
        /\ \A k \in 1..n : /\ ln.entries[k].ety \in {"0", "1"}
                          /\ ln.entries[k].lvl = s[k].lvl /\ ln.entries[k].qty = s[k].qty
    BY <1>2, <1>3 DEF Entry
  <2>2. \A k \in 1..n : s[k].lvl # None /\ s[k].qty # None
    BY <1>3, BooksAssumption
  <2> QED
    BY <2>1, <2>2 DEF Ref!route_quote, Ref!Quotes, Ref!Clear, Clear
<1>5. Ref!ok_procln(ln) = h \o q
  <2>1. ln.typ = IF full THEN "W" ELSE "X"
    BY <1>2
  <2> QED
    BY <2>1, <1>4 DEF Ref!ok_procln
<1>6. Conveys(h, c.ins, {}, b, full)
  BY ClearConveys, EmptyConveys
<1>7. Conveys(q, c.ins, L, b, FALSE)
  BY QuotesConvey
<1> HIDE DEF h, q
<1>8. Conveys(h \o q, c.ins, {} \cup L, b, full)
  BY <1>6, <1>7, ConcatConveys
<1>9. {} \cup L = L
  OBVIOUS
<1> QED
  BY <1>1, <1>5, <1>8, <1>9 DEF Prints

LEMMA BtfPrints ==
  ASSUME prog = "bitfin", NEW c, tab.subins[c.key % Slots] = c.ins, tab.subtys[c.key % Slots] = "BOK",
         NEW L \in SUBSET Levels, NEW b \in [Levels -> Qty],
         NEW full \in BOOLEAN, NEW ln \in Lines(c, L, b, full),
         full => \A l \in L : b[l] > 0, ~full => Cardinality(L) = 1
  PROVE  Prints(ln, c.ins, L, b, FALSE)
<1> DEFINE lv(s) == [k \in DOMAIN s |->
                       IF s[k].qty = 0 THEN [lvl |-> s[k].lvl, cnt |-> 0, qty |-> 1]
                       ELSE [lvl |-> s[k].lvl, cnt |-> MaxQty + 1, qty |-> s[k].qty]]
<1>1. PICK s \in Listed(L, b) : ln = [typ |-> "book", id |-> c.key, levels |-> lv(s)]
  BY DEF Lines
<1>2. PICK n \in Nat :
        /\ n = Cardinality(L)
        /\ s \in [1..n -> [lvl : L, qty : Qty]]
        /\ \A k \in 1..n : s[k].qty = b[s[k].lvl]
        /\ \A l \in L : \E k \in 1..n : s[k].lvl = l
  BY ListedLevels
<1> DEFINE v == lv(s)
<1>3. /\ DOMAIN v = 1..n /\ Len(v) = n
      /\ \A k \in 1..n : /\ v[k].lvl = s[k].lvl
                         /\ s[k].qty = 0 => v[k].cnt = 0
                         /\ s[k].qty # 0 => v[k].cnt \in Nat \ {0} /\ v[k].qty = s[k].qty
  <2>1. MaxQty \in Nat
    BY BooksAssumption
  <2>2. DOMAIN v = 1..n /\ v = [k \in DOMAIN v |-> v[k]]
    BY <1>2
  <2>3. Len(v) = n
    <3> HIDE DEF v
    <3> DEFINE R == {v[k] : k \in 1..n}
    <3>1. v \in [1..n -> R]
      BY <2>2
    <3> HIDE DEF R
    <3> QED
      BY <3>1
  <2>4. \A k \in 1..n : /\ v[k].lvl = s[k].lvl
                        /\ s[k].qty = 0 => v[k].cnt = 0
                        /\ s[k].qty # 0 => v[k].cnt \in Nat \ {0} /\ v[k].qty = s[k].qty
    BY <1>2, <2>1
  <2> QED
    BY <2>2, <2>3, <2>4
<1>4. ln.typ = "book" /\ ln.id = c.key /\ ln.levels = v
  BY <1>1
<1> HIDE DEF v
<1>5. procln(ln) = [tab |-> tab, out |-> Btf!evtbok(c.ins, v)]
  <2>1. procln(ln) = Btf!procln(tab, ln)
    BY DEF procln
  <2>2. Btf!events(tab, ln) = Btf!evtbok(c.ins, v)
    BY <1>4 DEF Btf!events, Btf!chid
  <2> QED
    BY <2>1, <2>2, <1>4 DEF Btf!procln
<1>6. Btf!evtbok(c.ins, v) = Ref!Quotes(c.ins, s)
  <2> DEFINE zero == {k \in DOMAIN v : v[k].cnt = 0}
             last == IF zero = {} THEN Len(v) ELSE CHOOSE k \in zero : \A j \in zero : k <= j
  <2>1. last = n /\ \A k \in 1..n : v[k].cnt = 0 => k = 1
    <3>1. CASE full
      <4>1. \A k \in 1..n : s[k].qty # 0
        BY <3>1, <1>2
      <4>2. zero = {}
        BY <4>1, <1>3
      <4> QED
        BY <4>2, <1>3
    <3>2. CASE ~full
      <4>1. n = 1 /\ 1..1 = {1}
        BY <3>2, <1>2
      <4>2. zero = {} \/ zero = {1}
        BY <4>1, <1>3
      <4> QED
        BY <4>1, <4>2, <1>3
    <3> QED
      BY <3>1, <3>2
  <2>2. \A k \in 1..n : (IF v[k].cnt > 0 THEN v[k].qty ELSE IF k = 1 THEN 0 ELSE v[k - 1].qty) = s[k].qty
    <3> HIDE DEF zero, last
    <3>1. \A k \in 1..n : v[k].cnt = 0 => k = 1
      BY <2>1
    <3>2. \A k \in 1..n : s[k].qty # 0 => v[k].cnt \in Nat \ {0} /\ v[k].qty = s[k].qty
      BY <1>3
    <3>3. \A k \in 1..n : s[k].qty = 0 => v[k].cnt = 0
      BY <1>3
    <3> QED
      BY <3>1, <3>2, <3>3
  <2>3. Btf!evtbok(c.ins, v) =
          [k \in 1..last |-> Quote(c.ins, v[k].lvl,
             IF v[k].cnt > 0 THEN v[k].qty ELSE IF k = 1 THEN 0 ELSE v[k - 1].qty)]
    BY DEF Btf!evtbok, Btf!Quote, Quote
  <2> HIDE DEF zero, last
  <2>4. Btf!evtbok(c.ins, v) = [k \in 1..n |-> Quote(c.ins, s[k].lvl, s[k].qty)]
    BY <2>1, <2>2, <2>3, <1>3
  <2>5. Ref!Quotes(c.ins, s) = [k \in 1..n |-> Quote(c.ins, s[k].lvl, s[k].qty)]
    BY <1>2 DEF Ref!Quotes, Ref!Quote, Quote
  <2> QED
    BY <2>4, <2>5
<1>7. Conveys(Ref!Quotes(c.ins, s), c.ins, L, b, FALSE)
  BY QuotesConvey
<1> QED
  BY <1>5, <1>6, <1>7, PrintsIf

\* An entry of plx2b's tables that is the first with the channel's id.
First(c, f) ==
  /\ f \in 0..Slots - 1
  /\ tab.subids[f] = c.key /\ tab.subins[f] = c.ins
  /\ \A j \in 0..Slots - 1 : tab.subids[j] = c.key => f <= j

\* What plx2b makes of the items of an event.
LEMMA PlxItems ==
  ASSUME prog = "plx", NEW c, NEW f, First(c, f),
         NEW items, NEW ln, ln = [typ |-> 36, id |-> c.key, items |-> items], Len(items) <= Room
  PROVE  procln(ln) = [tab |-> tab, out |-> [k \in DOMAIN items |-> Plx!event(c.ins, items[k])]]
<1> DEFINE subix == {k \in 0..Slots - 1 : tab.subids[k] = ln.id}
           found == CHOOSE k \in subix : \A j \in subix : k <= j
<1>1. ln.typ = 36 /\ ln.id = c.key /\ ln.items = items
  OBVIOUS
<1>2. subix # {} /\ found = f
  <2>1. f \in subix /\ \A j \in subix : f <= j
    BY <1>1 DEF First
  <2>2. \A k \in subix : (\A j \in subix : k <= j) => k = f
    BY <2>1, FeedAssumption
  <2> QED
    BY <2>1, <2>2
<1>3. Plx!events(tab, ln) = [k \in DOMAIN items |-> Plx!event(c.ins, items[k])]
  <2>1. Plx!events(tab, ln) =
          IF subix = {} THEN <<>> ELSE [k \in DOMAIN ln.items |-> Plx!event(tab.subins[found], ln.items[k])]
    BY DEF Plx!events
  <2> HIDE DEF subix, found
  <2>2. tab.subins[found] = c.ins
    BY <1>2 DEF First
  <2> QED
    BY <1>1, <1>2, <2>1, <2>2
<1>4. procln(ln) = Plx!procln(tab, ln)
  BY DEF procln
<1> QED
  BY <1>1, <1>3, <1>4 DEF Plx!procln

LEMMA PlxPrints ==
  ASSUME prog = "plx", NEW c, NEW f, First(c, f),
         NEW L \in SUBSET Levels, NEW b \in [Levels -> Qty],
         NEW full \in BOOLEAN, NEW ln \in Lines(c, L, b, full), Cardinality(L) <= Room
  PROVE  Prints(ln, c.ins, L, b, FALSE)
<1> DEFINE it(s) == [k \in DOMAIN s |->
             IF s[k].qty = 0 THEN [typ |-> "orderBookRemove", lvl |-> s[k].lvl, amount |-> None]
             ELSE [typ |-> "orderBookModify", lvl |-> s[k].lvl, amount |-> s[k].qty]]
<1>1. PICK s \in Listed(L, b) : ln = [typ |-> 36, id |-> c.key, items |-> it(s)]
  BY DEF Lines
<1>2. PICK n \in Nat : n = Cardinality(L) /\ s \in [1..n -> [lvl : L, qty : Qty]]
  BY ListedLevels
<1>3. procln(ln) = [tab |-> tab, out |-> [k \in DOMAIN it(s) |-> Plx!event(c.ins, it(s)[k])]]
  <2>1. Len(it(s)) = n
    <3>1. it(s) = [k \in 1..n |-> it(s)[k]]
      BY <1>2
    <3> HIDE DEF it
    <3> QED
      BY <3>1, FunctionLength
  <2>2. Len(it(s)) <= Room
    BY <1>2, <2>1
  <2> HIDE DEF it
  <2> QED
    BY <1>1, <2>2, PlxItems
<1>4. \A k \in 1..n : Plx!event(c.ins, it(s)[k]) = Quote(c.ins, s[k].lvl, s[k].qty)
  <2>1. \A k \in 1..n : s[k].qty # None
    BY <1>2, BooksAssumption
  <2> QED
    BY <1>2, <2>1 DEF Plx!event, Plx!Quote, Quote
<1>5. DOMAIN it(s) = 1..n
  BY <1>2
<1>6. [k \in DOMAIN it(s) |-> Plx!event(c.ins, it(s)[k])] = Ref!Quotes(c.ins, s)
  <2>1. Ref!Quotes(c.ins, s) = [k \in 1..n |-> Quote(c.ins, s[k].lvl, s[k].qty)]
    BY <1>2 DEF Ref!Quotes, Ref!Quote, Quote
  <2> HIDE DEF it
  <2> QED
    BY <1>4, <1>5, <2>1
<1>7. Conveys(Ref!Quotes(c.ins, s), c.ins, L, b, FALSE)
  BY QuotesConvey
<1> QED
  BY <1>3, <1>6, <1>7, PrintsIf

LEMMA PlxLong ==
  ASSUME prog = "plx", NEW c, NEW L \in SUBSET Levels, NEW b \in [Levels -> Qty],
         NEW full \in BOOLEAN, NEW ln \in Lines(c, L, b, full), ~(Cardinality(L) <= Room)
  PROVE  Skips(ln)
<1> DEFINE it(s) == [k \in DOMAIN s |->
             IF s[k].qty = 0 THEN [typ |-> "orderBookRemove", lvl |-> s[k].lvl, amount |-> None]
             ELSE [typ |-> "orderBookModify", lvl |-> s[k].lvl, amount |-> s[k].qty]]
<1>1. PICK s \in Listed(L, b) : ln = [typ |-> 36, id |-> c.key, items |-> it(s)]
  BY DEF Lines
<1>2. PICK n \in Nat : n = Cardinality(L) /\ s \in [1..n -> [lvl : L, qty : Qty]]
  BY ListedLevels
<1>3. Len(it(s)) = n
  <2>1. it(s) = [k \in 1..n |-> it(s)[k]]
    BY <1>2
  <2> HIDE DEF it
  <2> QED
    BY <2>1, FunctionLength
<1> HIDE DEF it
<1>4. ln.typ = 36 /\ ~(Len(ln.items) <= Room)
  BY <1>1, <1>2, <1>3
<1>5. procln(ln) = Plx!procln(tab, ln)
  BY DEF procln
<1> QED
  BY <1>4, <1>5 DEF Plx!procln, Skips

\* A program without enough room for a line skips it.
LEMMA LongSkips ==
  ASSUME NEW c, NEW L \in SUBSET Levels, NEW b \in [Levels -> Qty],
         NEW full \in BOOLEAN, NEW ln \in Lines(c, L, b, full),
         ~full /\ prog = "trt" => Cardinality(L) = 1, ~Parsed(Cardinality(L))
  PROVE  Skips(ln)
<1>1. prog \in {"hit", "trt", "cex", "plx"} /\ ~(Cardinality(L) <= Room)
  BY DEF Parsed
<1>2. CASE prog = "hit"
  BY <1>1, <1>2, HitPrints
<1>3. CASE prog = "trt"
  BY <1>1, <1>3, TrtPrints
<1>4. CASE prog = "cex"
  BY <1>1, <1>4, CexPrints
<1>5. CASE prog = "plx"
  BY <1>1, <1>5, PlxLong
<1> QED
  BY <1>1, <1>2, <1>3, <1>4, <1>5

-----------------------------------------------------------------------------
(* Channels, known and unknown *)

\* The id of a known channel is found in the tables, with its instrument.
LEMMA PlxKnown ==
  ASSUME IInv, prog = "plx", NEW c \in known
  PROVE  \E f : First(c, f)
<1>1. /\ Slots \in Nat /\ lost \in 0..Len(reqs) /\ Len(reqs) \in Nat
      /\ c \in live /\ known \subseteq live /\ c.key # 0
  BY FeedAssumption DEF IInv, TypeOK, PlxLive
<1>2. PICK r \in 1..Len(reqs) : r <= Slots /\ tab.subids[r - 1] = c.key
  BY DEF IInv, PlxTab
<1> DEFINE subix == {k \in 0..Slots - 1 : tab.subids[k] = c.key}
<1>3. r - 1 \in subix
  BY <1>1, <1>2
<1>4. PICK f \in subix : \A j \in subix : f <= j
  <2>1. subix \in SUBSET Nat /\ subix # {}
    BY <1>1, <1>3
  <2> HIDE DEF subix
  <2> QED
    BY <2>1, MinExists
<1>5. f + 1 \in 1..Len(reqs) /\ f + 1 <= Slots /\ (f + 1) - 1 = f /\ tab.subids[f] = c.key
  BY <1>1, <1>2, <1>3, <1>4
<1>6. ~(f + 1 <= lost)
  BY <1>1, <1>5 DEF IInv, PlxTab
<1>7. /\ tab.subins[f] = reqs[f + 1]
      /\ \E d \in known : d.ins = reqs[f + 1] /\ d.key = c.key
  <2>1. f + 1 > lost
    BY <1>1, <1>5, <1>6
  <2> QED
    BY <1>1, <1>5, <2>1 DEF IInv, PlxTab
<1>8. tab.subins[f] = c.ins
  BY <1>1, <1>7 DEF IInv, PlxLive
<1> QED
  BY <1>4, <1>5, <1>8 DEF First

\* The id of an unknown channel is not.
LEMMA PlxUnknown ==
  ASSUME IInv, prog = "plx", NEW c \in live \ known
  PROVE  \A k \in 0..Slots - 1 : tab.subids[k] # c.key
<1>1. /\ Slots \in Nat /\ lost \in 0..Len(reqs) /\ Len(reqs) \in Nat
      /\ known \subseteq live /\ c.key # 0 /\ c.ty = "book"
  BY FeedAssumption DEF IInv, TypeOK, PlxLive
<1> SUFFICES ASSUME NEW k \in 0..Slots - 1, tab.subids[k] = c.key PROVE FALSE
  OBVIOUS
<1>2. CASE k >= Len(reqs)
  <2>1. lost > 0
    BY <1>1, <1>2 DEF IInv, PlxLive
  <2> QED
    BY <1>1, <1>2, <2>1 DEF IInv, PlxTab
<1>3. CASE k < Len(reqs)
  <2>1. k + 1 \in 1..Len(reqs) /\ k + 1 <= Slots /\ (k + 1) - 1 = k
    BY <1>1, <1>3
  <2>2. ~(k + 1 <= lost)
    BY <1>1, <2>1 DEF IInv, PlxTab
  <2>3. k + 1 > lost
    BY <1>1, <2>1, <2>2
  <2>4. PICK d \in known : d.key = c.key
    BY <1>1, <2>1, <2>3 DEF IInv, PlxTab
  <2>5. d \in live /\ d.ins = c.ins /\ d.ty = c.ty
    BY <1>1, <2>4 DEF IInv, PlxLive
  <2>6. d = c
    BY <2>5 DEF IInv, OneEach
  <2> QED
    BY <2>4, <2>6
<1> QED
  BY <1>1, <1>2, <1>3

\* Lines of unknown channels are skipped.
LEMMA Skipped ==
  ASSUME IInv, ~Met, NEW c \in live \ known, NEW ln, ln.id = c.key,
         prog = "bitfin" => ln.typ # "subscribed", prog = "plx" => ln.typ = 36
  PROVE  Skips(ln)
<1>1. prog \in Tables
  BY DEF IInv, Plain
<1>2. CASE prog = "bitfin"
  <2>1. tab.subtys[c.key % Slots] = "UNK"
    BY <1>2 DEF IInv, BtfTab
  <2>2. Btf!events(tab, ln) = <<>>
    BY <2>1 DEF Btf!events, Btf!chid
  <2> QED
    BY <1>2, <2>2 DEF procln, Btf!procln, Skips
<1>3. CASE prog = "plx"
  <2>1. {k \in 0..Slots - 1 : tab.subids[k] = ln.id} = {}
    BY <1>3, PlxUnknown
  <2>2. Plx!events(tab, ln) = <<>>
    BY <2>1 DEF Plx!events
  <2> QED
    BY <1>3, <2>2 DEF procln, Plx!procln, Skips
<1> QED
  BY <1>1, <1>2, <1>3 DEF Tables

\* A line about levels of an unknown channel, or a line that is too long.
LEMMA UnknownPrints ==
  ASSUME IInv, ~Met, NEW c \in live, NEW L \in SUBSET Levels, NEW b \in [Levels -> Qty],
         NEW full \in BOOLEAN, NEW ln \in Lines(c, L, b, full),
         ~full /\ prog \in {"bitfin", "trt"} => Cardinality(L) = 1,
         c \notin known \/ ~Parsed(Cardinality(L))
  PROVE  Prints(ln, c.ins, {}, b, FALSE)
<1>0. SUFFICES ASSUME c \notin known PROVE Skips(ln)
  BY LongSkips, SkipsPrints
<1>1. prog \in Tables
  BY <1>0 DEF IInv, Plain
<1>2. ln.id = c.key /\ (prog = "bitfin" => ln.typ = "book") /\ (prog = "plx" => ln.typ = 36)
  <2>1. CASE prog = "bitfin"
    BY <2>1 DEF Lines
  <2>2. CASE prog = "plx"
    BY <2>2 DEF Lines
  <2> QED
    BY <1>1, <2>1, <2>2 DEF Tables
<1> QED
  BY <1>0, <1>2, Skipped

\* A line about levels of a known channel.
LEMMA KnownPrints ==
  ASSUME IInv, ~Met, NEW c \in known, c.ty = "book", NEW L \in SUBSET Levels, NEW b \in [Levels -> Qty],
         NEW full \in BOOLEAN, NEW ln \in Lines(c, L, b, full),
         full => \A l \in L : b[l] > 0,
         ~full /\ prog \in {"bitfin", "trt"} => Cardinality(L) = 1, Parsed(Cardinality(L))
  PROVE  \E clr \in BOOLEAN : (clr <=> full /\ prog \in Clearing) /\ Prints(ln, c.ins, L, b, clr)
<1>1. prog \in {"bitfin", "plx", "hit", "trt", "ok", "cex"}
  BY FeedAssumption DEF IInv, TypeOK
<1>2. CASE prog = "bitfin"
  <2>1. tab.subins[c.key % Slots] = c.ins /\ tab.subtys[c.key % Slots] = "BOK"
    BY <1>2 DEF IInv, BtfTab, Btf!Subt
  <2>2. Prints(ln, c.ins, L, b, FALSE)
    BY <1>2, <2>1, BtfPrints
  <2> QED
    BY <1>2, <2>2 DEF Clearing
<1>3. CASE prog = "plx"
  <2>1. Prints(ln, c.ins, L, b, FALSE)
    BY <1>3, PlxKnown, PlxPrints DEF Parsed
  <2> QED
    BY <1>3, <2>1 DEF Clearing
<1>4. CASE prog = "hit"
  BY <1>4, HitPrints DEF Clearing, Parsed
<1>5. CASE prog = "trt"
  BY <1>5, TrtPrints DEF Clearing, Parsed
<1>6. CASE prog = "ok"
  BY <1>6, OkPrints DEF Clearing
<1>7. CASE prog = "cex"
  <2>1. Prints(ln, c.ins, L, b, FALSE)
    BY <1>7, CexPrints DEF Parsed
  <2> QED
    BY <1>7, <2>1 DEF Clearing
<1> QED
  BY <1>1, <1>2, <1>3, <1>4, <1>5, <1>6, <1>7

\* One line of output that is not a quote.
LEMMA OneConveys ==
  ASSUME NEW i, NEW b, NEW x \in Good(i), x.fl \notin {"2", "clr0"}
  PROVE  Conveys(<<x>>, i, {}, b, FALSE)
<1>1. <<x>> \in Seq(Good(i)) /\ DOMAIN <<x>> = {1} /\ <<x>>[1] = x
  OBVIOUS
<1> QED
  BY <1>1 DEF Conveys

LEMMA PairConveys ==
  ASSUME NEW i, NEW b, NEW x \in Good(i), NEW y \in Good(i), x.fl = "1", y.fl = "1"
  PROVE  Conveys(<<x, y>>, i, {}, b, FALSE)
<1>1. <<x, y>> \in Seq(Good(i)) /\ DOMAIN <<x, y>> = {1, 2} /\ <<x, y>>[1] = x /\ <<x, y>>[2] = y
  OBVIOUS
<1> QED
  BY <1>1 DEF Conveys

\* Lines about other things than levels.
LEMMA OtherPrints ==
  ASSUME IInv, ~Met, NEW c \in live, NEW l \in Levels, NEW q \in Qty, NEW ln \in OtherLines(c, l, q), NEW b
  PROVE  Prints(ln, c.ins, {}, b, FALSE)
<1>1. prog \in {"bitfin", "plx", "hit", "trt", "ok", "cex"}
  BY FeedAssumption DEF IInv, TypeOK
<1> USE QuoteIsGood
<1>2. Trade(c.ins, l, q).fl = "0" /\ Top(c.ins, l, q).fl = "1" /\ Nothing.fl = ""
  BY DEF Trade, Top, Nothing
<1>3. CASE prog \in Tables /\ c \notin known
  <2>1. ln.id = c.key /\ (prog = "bitfin" => ln.typ # "subscribed") /\ (prog = "plx" => ln.typ = 36)
    <3>1. CASE prog = "bitfin"
      BY <3>1 DEF OtherLines
    <3>2. CASE prog = "plx"
      BY <3>2 DEF OtherLines
    <3> QED
      BY <1>3, <3>1, <3>2 DEF Tables
  <2> QED
    BY <1>3, <2>1, Skipped, SkipsPrints
<1>4. CASE prog = "bitfin" /\ c \in known
  <2>1. /\ tab.subins[c.key % Slots] = c.ins /\ tab.subtys[c.key % Slots] = Btf!Subt(c.ty)
        /\ procln(ln) = Btf!procln(tab, ln)
    BY <1>4 DEF IInv, BtfTab, procln
  <2>2. \/ ln = [typ |-> "hb", id |-> c.key]
        \/ /\ c.ty = "ticker"
           /\ ln = [typ |-> "ticker", id |-> c.key, bid |-> l, bsz |-> q, ask |-> l, asz |-> q]
        \/ /\ c.ty = "trades"
           /\ \E t \in {"te", "tu"} : ln = [typ |-> t, id |-> c.key, lvl |-> l, qty |-> q]
    BY <1>4 DEF OtherLines
  <2>3. CASE ln = [typ |-> "hb", id |-> c.key]
    <3>1. Btf!events(tab, ln) = <<>>
      <4>1. ln.typ = "hb"
        BY <2>3
      <4> QED
        BY <4>1 DEF Btf!events, Btf!evttra
    <3>2. procln(ln) = [tab |-> tab, out |-> <<>>]
      BY <2>1, <2>3, <3>1 DEF Btf!procln
    <3> QED
      BY <3>2, EmptyConveys, PrintsIf
  <2>4. CASE /\ c.ty = "ticker"
             /\ ln = [typ |-> "ticker", id |-> c.key, bid |-> l, bsz |-> q, ask |-> l, asz |-> q]
    <3>1. Btf!events(tab, ln) = <<Top(c.ins, l, q), Top(c.ins, l, q)>>
      BY <2>1, <2>4 DEF Btf!events, Btf!evttop, Btf!chid, Btf!Subt, Btf!Top, Top
    <3>2. procln(ln) = [tab |-> tab, out |-> <<Top(c.ins, l, q), Top(c.ins, l, q)>>]
      BY <2>1, <2>4, <3>1 DEF Btf!procln
    <3>3. Conveys(<<Top(c.ins, l, q), Top(c.ins, l, q)>>, c.ins, {}, b, FALSE)
      BY <1>2, PairConveys
    <3> QED
      BY <3>2, <3>3, PrintsIf
  <2>5. CASE /\ c.ty = "trades"
             /\ \E t \in {"te", "tu"} : ln = [typ |-> t, id |-> c.key, lvl |-> l, qty |-> q]
    <3>1. /\ Btf!events(tab, ln) = Btf!evttra(c.ins, ln) /\ ln.typ # "subscribed"
          /\ ln.lvl = l /\ ln.qty = q
      BY <2>1, <2>5 DEF Btf!events, Btf!chid, Btf!Subt
    <3>2. Btf!evttra(c.ins, ln) = <<>> \/ Btf!evttra(c.ins, ln) = <<Trade(c.ins, l, q)>>
      BY <3>1 DEF Btf!evttra, Btf!Trade, Trade
    <3>3. Conveys(Btf!evttra(c.ins, ln), c.ins, {}, b, FALSE)
      BY <1>2, <3>2, EmptyConveys, OneConveys
    <3>4. procln(ln) = [tab |-> tab, out |-> Btf!evttra(c.ins, ln)]
      BY <2>1, <3>1 DEF Btf!procln
    <3> QED
      BY <3>3, <3>4, PrintsIf
  <2> QED
    BY <2>2, <2>3, <2>4, <2>5
<1>5. CASE prog = "plx" /\ c \in known
  <2>1. PICK t \in {"newTrade", "?"} :
          ln = [typ |-> 36, id |-> c.key, items |-> <<[typ |-> t, lvl |-> l, amount |-> q]>>]
    BY <1>5 DEF OtherLines
  <2> DEFINE x == [typ |-> t, lvl |-> l, amount |-> q]
             o == [k \in DOMAIN <<x>> |-> Plx!event(c.ins, <<x>>[k])]
  <2>2. procln(ln) = [tab |-> tab, out |-> o]
    <3> HIDE DEF x
    <3>1. Len(<<x>>) <= Room
      BY FeedAssumption
    <3> QED
      BY <1>5, <2>1, <3>1, PlxKnown, PlxItems DEF x
  <2>3. o = <<Plx!event(c.ins, x)>>
    <3> HIDE DEF x
    <3> QED
      OBVIOUS
  <2>4. Plx!event(c.ins, x) \in {Trade(c.ins, l, q), Nothing}
    BY DEF Plx!event, Plx!Trade, Plx!Nothing, Trade, Nothing
  <2> HIDE DEF x, o
  <2>5. Conveys(<<Plx!event(c.ins, x)>>, c.ins, {}, b, FALSE)
    BY <1>2, <2>4, OneConveys
  <2> QED
    BY <2>2, <2>3, <2>5, PrintsIf
<1>6. CASE prog = "hit"
  <2> DEFINE x == [lvl |-> l, qty |-> q]
  <2>1. ln = [typ |-> "incr", ins |-> c.ins, levels |-> <<>>, trades |-> <<x>>]
    BY <1>6 DEF OtherLines
  <2>2. procln(ln) = [tab |-> tab, out |-> Ref!hit_procln(ln)]
    BY <1>6 DEF procln
  <2>3. /\ ln.typ = "incr" /\ ln.ins = c.ins
        /\ Ref!Quotes(c.ins, ln.levels) = <<>>
        /\ [k \in DOMAIN ln.trades |-> Ref!Trade(c.ins, ln.trades[k].lvl, ln.trades[k].qty)] = <<Trade(c.ins, l, q)>>
        /\ Len(ln.levels) + Len(ln.trades) <= Room
    BY <2>1, FeedAssumption DEF Ref!Quotes, Ref!Trade, Trade
  <2>4. Ref!hit_procln(ln) = <<>> \o <<>> \o <<Trade(c.ins, l, q)>>
    BY <2>3 DEF Ref!hit_procln
  <2>5. <<>> \o <<>> \o <<Trade(c.ins, l, q)>> = <<Trade(c.ins, l, q)>>
    OBVIOUS
  <2>6. Conveys(<<Trade(c.ins, l, q)>>, c.ins, {}, b, FALSE)
    BY <1>2, OneConveys
  <2> QED
    BY <2>2, <2>4, <2>5, <2>6, PrintsIf
<1>7. CASE prog = "ok"
  <2> DEFINE x == [ety |-> "2", lvl |-> l, qty |-> q]
  <2>1. ln = [typ |-> "X", ins |-> c.ins, entries |-> <<x>>]
    BY <1>7 DEF OtherLines
  <2>2. procln(ln) = [tab |-> tab, out |-> Ref!ok_procln(ln)]
    BY <1>7 DEF procln
  <2>3. Ref!ok_procln(ln) = <<>> \o <<Nothing>>
    <3>1. ln.typ = "X" /\ ln.entries = <<x>> /\ x.ety = "2"
      BY <2>1
    <3>2. Ref!ok_procln(ln) = Ref!route_quote(ln, FALSE)
      BY <3>1 DEF Ref!ok_procln
    <3> HIDE DEF x
    <3> DEFINE g == [k \in DOMAIN <<x>> |->
                 IF <<x>>[k].ety \in {"0", "1"} /\ <<x>>[k].lvl # None /\ <<x>>[k].qty # None
                 THEN Ref!Quote(ln.ins, <<x>>[k].lvl, <<x>>[k].qty) ELSE Ref!Nothing]
    <3>3. Ref!Nothing = Nothing
      BY DEF Ref!Nothing, Nothing
    <3>4. DOMAIN <<x>> = {1} /\ <<x>>[1] = x /\ g[1] = Nothing
      BY <3>1, <3>3
    <3>5. Ref!route_quote(ln, FALSE) = <<>> \o g
      BY <3>1 DEF Ref!route_quote
    <3>6. g = <<Nothing>>
      BY <3>4
    <3> QED
      BY <3>2, <3>5, <3>6
  <2>4. <<>> \o <<Nothing>> = <<Nothing>>
    OBVIOUS
  <2>5. Conveys(<<Nothing>>, c.ins, {}, b, FALSE)
    BY <1>2, OneConveys
  <2> QED
    BY <2>2, <2>3, <2>4, <2>5, PrintsIf
<1>8. CASE prog \in {"trt", "cex"}
  <2>1. ln.typ = "?"
    BY <1>8 DEF OtherLines
  <2>2. procln(ln) = [tab |-> tab, out |-> <<>>]
    BY <1>8, <2>1 DEF procln, Ref!trt_procln, Ref!cex_procln
  <2> QED
    BY <2>2, EmptyConveys, PrintsIf
<1> QED
  BY <1>1, <1>3, <1>4, <1>5, <1>6, <1>7, <1>8 DEF Tables

\* A step puts the quantities in b at the levels in L of instrument i into the
\* books at home, after clearing the book if clr.
Gives(i, L, b, clr) ==
  /\ repl' \in Books2
  /\ \A j \in Instruments \ {i} : repl'[j] = repl[j]
  /\ \A l \in L : repl'[i][l] = b[l]
  /\ \A l \in Levels \ L : repl'[i][l] = IF clr THEN 0 ELSE repl[i][l]

\* What a logged line does to the books, given what its output conveys.
LEMMA LogGives ==
  ASSUME NEW i \in Instruments, NEW ln, Log(i, ln), repl \in Books2,
         NEW L \in SUBSET Levels, NEW b \in [Levels -> Qty], NEW clr \in BOOLEAN,
         Conveys(procln(ln).out, i, L, b, clr)
  PROVE  Gives(i, L, b, clr) /\ stray' = {}
<1> DEFINE o == procln(ln).out
<1>1. repl' = Apply(repl, o)
  BY DEF Log
<1>2. stray' = {}
  <2>1. \A k \in DOMAIN o : o[k] \in Good(i)
    BY DEF Conveys
  <2>2. ASSUME NEW x \in Good(i), x # Nothing PROVE x.ins = i /\ x.fl # "?"
    <3>1. CASE x \in [ins : {i}, fl : {"0", "1", "2"}, lvl : Levels, qty : Qty]
      BY <3>1
    <3>2. CASE x = Clear(i)
      BY <3>2 DEF Clear
    <3> QED
      BY <2>2, <3>1, <3>2 DEF Good
  <2> DEFINE bad == {y \in {o[k] : k \in DOMAIN o} \ {Nothing} : i # None /\ (y.ins # i \/ y.fl = "?")}
  <2>3. stray' = {<<x.ins, x.fl>> : x \in bad}
    BY DEF Log
  <2> HIDE DEF o
  <2>4. \A x \in {o[k] : k \in DOMAIN o} \ {Nothing} : x \in Good(i) /\ x # Nothing
    BY <2>1
  <2>5. bad = {}
    BY <2>4, <2>2
  <2> HIDE DEF bad
  <2> QED
    BY <2>3, <2>5
<1> HIDE DEF o
<1>3. Conveys(o, i, L, b, clr)
  BY DEF o
<1>4. /\ Apply(repl, o) \in Books2
      /\ \A j \in Instruments \ {i} : Apply(repl, o)[j] = repl[j]
      /\ \A l \in L : Apply(repl, o)[i][l] = b[l]
      /\ \A l \in Levels \ L : Apply(repl, o)[i][l] = IF clr THEN 0 ELSE repl[i][l]
  BY <1>3, ApplyConveys
<1> QED
  BY <1>1, <1>2, <1>4, Zenon DEF Gives

\* A line for which nothing is printed leaves the books alone.
LEMMA LogSilent ==
  ASSUME NEW i \in Instruments, NEW ln, Log(i, ln), repl \in Books2, procln(ln).out = <<>>
  PROVE  repl' = repl /\ stray' = {}
<1>1. repl[i] \in [Levels -> Qty] /\ {} \in SUBSET Levels /\ FALSE \in BOOLEAN
  BY DEF Books2
<1>2. Conveys(procln(ln).out, i, {}, repl[i], FALSE)
  BY EmptyConveys, Zenon
<1>3. Gives(i, {}, repl[i], FALSE) /\ stray' = {}
  BY <1>1, <1>2, LogGives, Zenon
<1>4. \A j \in Instruments, l \in Levels : repl'[j][l] = repl[j][l]
  BY <1>3 DEF Gives
<1> QED
  BY <1>3, <1>4 DEF Gives, Books2

-----------------------------------------------------------------------------
(* Lines that may be taken for something else *)

Typed(o) == \E n \in Nat : DOMAIN o = 1..n /\ \A k \in 1..n : o[k].qty \in Qty

\* Books keep their types whatever instruments and levels are printed, as long
\* as the quantities are some.
LEMMA ApplyTyped ==
  ASSUME NEW books \in Books2, NEW o, Typed(o)
  PROVE  Apply(books, o) \in Books2
<1>1. PICK n \in Nat : DOMAIN o = 1..n /\ \A k \in 1..n : o[k].qty \in Qty
  BY DEF Typed
<1> DEFINE hits(j, l) == {k \in DOMAIN o : Touches(o[k], j, l)}
           last(j, l) == CHOOSE k \in hits(j, l) : \A m \in hits(j, l) : m <= k
<1>2. ASSUME NEW j \in Instruments, NEW l \in Levels
      PROVE  (IF hits(j, l) = {} THEN books[j][l] ELSE o[last(j, l)].qty) \in Qty
  <2>1. CASE hits(j, l) = {}
    BY <2>1 DEF Books2
  <2>2. CASE hits(j, l) # {}
    <3>1. hits(j, l) \in SUBSET (1..n)
      BY <1>1
    <3>2. last(j, l) \in hits(j, l)
      <4> HIDE DEF hits
      <4> QED
        BY <2>2, <3>1, MaxExists
    <3> HIDE DEF hits, last
    <3> QED
      BY <1>1, <2>2, <3>1, <3>2
  <2> QED
    BY <2>1, <2>2
<1>3. Apply(books, o) = [j \in Instruments |-> [l \in Levels |->
         IF hits(j, l) = {} THEN books[j][l] ELSE o[last(j, l)].qty]]
  BY DEF Apply
<1> HIDE DEF hits, last
<1> QED
  BY <1>2, <1>3 DEF Books2

\* Books of instruments that nothing is printed for are left alone.
LEMMA ApplyOthers ==
  ASSUME NEW books \in Books2, NEW o, NEW j \in Instruments, \A k \in DOMAIN o : o[k].ins # j
  PROVE  Apply(books, o)[j] = books[j]
<1>1. \A l \in Levels : {k \in DOMAIN o : Touches(o[k], j, l)} = {}
  BY DEF Touches
<1>2. Apply(books, o)[j] = [l \in Levels |-> books[j][l]]
  BY <1>1 DEF Apply
<1> QED
  BY <1>2 DEF Books2

LEMMA NoneTyped == Typed(<<>>)
<1>1. DOMAIN <<>> = 1..0 /\ 0 \in Nat
  OBVIOUS
<1> QED
  BY <1>1 DEF Typed

LEMMA OneTyped == ASSUME NEW x, x.qty \in Qty PROVE Typed(<<x>>)
<1>1. DOMAIN <<x>> = 1..1 /\ 1 \in Nat /\ \A k \in 1..1 : <<x>>[k] = x
  OBVIOUS
<1> QED
  BY <1>1 DEF Typed

\* Whatever the tables of bitfin2b take a line about levels for.
LEMMA BtfTyped ==
  ASSUME prog = "bitfin", NEW c, NEW L \in SUBSET Levels, NEW b \in [Levels -> Qty],
         NEW full \in BOOLEAN, NEW ln \in Lines(c, L, b, full)
  PROVE  procln(ln).tab = tab /\ Typed(procln(ln).out)
<1> DEFINE lv(s) == [k \in DOMAIN s |->
                       IF s[k].qty = 0 THEN [lvl |-> s[k].lvl, cnt |-> 0, qty |-> 1]
                       ELSE [lvl |-> s[k].lvl, cnt |-> MaxQty + 1, qty |-> s[k].qty]]
           i == tab.subins[Btf!chid(c.key)]
           ty == tab.subtys[Btf!chid(c.key)]
<1>1. PICK s \in Listed(L, b) : ln = [typ |-> "book", id |-> c.key, levels |-> lv(s)]
  BY DEF Lines
<1>2. PICK n \in Nat : s \in [1..n -> [lvl : L, qty : Qty]]
  BY ListedLevels
<1> DEFINE v == lv(s)
<1>3. DOMAIN v = 1..n /\ Len(v) = n /\ \A k \in 1..n : v[k].qty \in Qty
  <2>1. v = [k \in 1..n |-> v[k]]
    BY <1>2
  <2>2. Len(v) = n
    <3> HIDE DEF v
    <3> QED
      BY <2>1, FunctionLength
  <2>3. 1 \in Qty
    BY BooksAssumption DEF Qty
  <2>4. \A k \in 1..n : v[k].qty \in Qty
    BY <1>2, <2>3
  <2> QED
    BY <1>2, <2>2, <2>4
<1>4. ln.typ = "book" /\ ln.id = c.key /\ ln.levels = v
  BY <1>1
<1> HIDE DEF v
<1>5. procln(ln).tab = tab /\ procln(ln).out = Btf!events(tab, ln)
  BY <1>4 DEF procln, Btf!procln
<1>6. Btf!events(tab, ln) \in {Btf!evtbok(i, v), <<>>, <<Btf!Garbled(i)>>}
  BY <1>4 DEF Btf!events, Btf!evttra
<1>7. Typed(Btf!evtbok(i, v))
  <2> DEFINE zero == {k \in DOMAIN v : v[k].cnt = 0}
             last == IF zero = {} THEN Len(v) ELSE CHOOSE k \in zero : \A j \in zero : k <= j
             q(k) == IF v[k].cnt > 0 THEN v[k].qty ELSE IF k = 1 THEN 0 ELSE v[k - 1].qty
             o == [k \in 1..last |-> Btf!Quote(i, v[k].lvl, q(k))]
  <2>1. last \in 0..n
    <3>1. zero \in SUBSET (1..n) /\ zero \in SUBSET Nat
      BY <1>3
    <3>2. zero # {} => last \in zero
      <4> HIDE DEF zero
      <4> QED
        BY <3>1, MinExists
    <3>3. zero = {} => last = n
      BY <1>3
    <3>4. CASE zero = {}
      <4> HIDE DEF zero, last
      <4> QED
        BY <3>3, <3>4
    <3>5. CASE zero # {}
      <4> HIDE DEF zero, last
      <4>1. last \in 1..n
        BY <3>1, <3>2, <3>5
      <4> QED
        BY <4>1
    <3> QED
      BY <3>4, <3>5
  <2>2. Btf!evtbok(i, v) = o
    BY DEF Btf!evtbok
  <2> HIDE DEF zero, last
  <2>3. \A k \in 1..n : q(k) \in Qty
    <3>1. 0 \in Qty
      BY BooksAssumption DEF Qty
    <3>2. \A k \in 1..n : k = 1 \/ k - 1 \in 1..n
      OBVIOUS
    <3> QED
      BY <1>3, <3>1, <3>2
  <2>4. \A k \in 1..last : o[k].qty = q(k) /\ k \in 1..n
    BY <2>1 DEF Btf!Quote
  <2>5. DOMAIN o = 1..last /\ last \in Nat
    BY <2>1
  <2> HIDE DEF o, q
  <2> QED
    BY <2>2, <2>3, <2>4, <2>5 DEF Typed
<1>8. Typed(<<>>) /\ Typed(<<Btf!Garbled(i)>>)
  <2>1. Btf!Garbled(i).qty = 0 /\ 0 \in Qty
    BY BooksAssumption DEF Btf!Garbled, Qty
  <2> QED
    BY <2>1, NoneTyped, OneTyped
<1> QED
  BY <1>5, <1>6, <1>7, <1>8

\* Or other lines.
LEMMA BtfOtherTyped ==
  ASSUME prog = "bitfin", NEW c, NEW l \in Levels, NEW q \in Qty, NEW ln \in OtherLines(c, l, q)
  PROVE  procln(ln).tab = tab /\ Typed(procln(ln).out)
<1> DEFINE i == tab.subins[Btf!chid(c.key)]
           t == Btf!Top(i, l, q)
           r == Btf!Trade(i, l, q)
<1>1. /\ ln.typ \in {"hb", "ticker", "te", "tu"} /\ ln.id = c.key
      /\ ln.typ = "ticker" => ln.bid = l /\ ln.ask = l /\ ln.bsz = q /\ ln.asz = q
      /\ ln.typ \in {"te", "tu"} => ln.lvl = l /\ ln.qty = q
  BY DEF OtherLines
<1>2. procln(ln).tab = tab /\ procln(ln).out = Btf!events(tab, ln)
  BY <1>1 DEF procln, Btf!procln
<1>3. Btf!events(tab, ln) \in {<<t, t>>, <<r>>, <<>>, <<Btf!Garbled(i)>>}
  BY <1>1 DEF Btf!events, Btf!evttra, Btf!evttop
<1>4. t.qty = q /\ r.qty = q /\ Btf!Garbled(i).qty \in Qty
  BY BooksAssumption DEF Btf!Top, Btf!Trade, Btf!Garbled, Qty
<1> HIDE DEF t, r
<1>5. Typed(<<t, t>>)
  <2>1. DOMAIN <<t, t>> = 1..2 /\ 2 \in Nat /\ \A k \in 1..2 : <<t, t>>[k] = t
    OBVIOUS
  <2> QED
    BY <1>4, <2>1 DEF Typed
<1>6. Typed(<<r>>) /\ Typed(<<>>) /\ Typed(<<Btf!Garbled(i)>>)
  BY <1>4, NoneTyped, OneTyped
<1> QED
  BY <1>2, <1>3, <1>5, <1>6

LEMMA TypedGives ==
  ASSUME NEW i, NEW ln, Log(i, ln), repl \in Books2, procln(ln).tab = tab, Typed(procln(ln).out)
  PROVE  tab' = tab /\ repl' \in Books2
<1> DEFINE o == procln(ln).out
<1>1. tab' = procln(ln).tab /\ repl' = Apply(repl, o)
  BY DEF Log
<1> HIDE DEF o
<1>2. Typed(o)
  BY DEF o
<1> QED
  BY <1>1, <1>2, ApplyTyped

-----------------------------------------------------------------------------
(* The steps *)

\* What is left to show of a step that keeps the channels.
Kept ==
  /\ tab' = tab /\ repl' \in Books2 /\ Attribution' /\ Tracks'
  /\ seen' \in [Instruments -> SUBSET Levels]

\* The channels and the tables, as far as the lines about books go.
Session == OneEach /\ Plain /\ BtfTab /\ PlxLive /\ PlxTab /\ tab \in Tabs /\ reqs \in Seq(Instruments)

LEMMA SessionKept ==
  ASSUME IInv, UNCHANGED <<prog, conn, reqs, lost, live, known, tab>>
  PROVE  /\ Session'
         /\ prog' \in Programs /\ conn' \in BOOLEAN /\ lost' \in 0..Len(reqs')
         /\ known' \subseteq live' /\ live' \subseteq Channels
         /\ tab'.subins \in [0..Slots - 1 -> Instruments \cup {None}]
         /\ tab'.subtys \in [0..Slots - 1 -> {"UNK", "BOK", "TOP", "TRA"}]
         /\ tab'.subids \in [0..Slots - 1 -> Keys]
<1>1. OneEach' /\ Plain' /\ tab' \in Tabs /\ reqs' \in Seq(Instruments)
  BY DEF IInv, OneEach, Plain
<1>2. BtfTab'
  BY DEF IInv, BtfTab, Met
<1>3. PlxLive'
  BY DEF IInv, PlxLive
<1>4. PlxTab'
  BY DEF IInv, PlxTab
<1> QED
  BY <1>1, <1>2, <1>3, <1>4 DEF IInv, TypeOK, Session

\* The whole book.
LEMMA SnapshotStep ==
  ASSUME IInv, NEW c \in live, Snapshot(c)
  PROVE  IInv'
<1> DEFINE i == c.ins
           b == book[i]
           L == {l \in Levels : b[l] > 0}
<1>1. /\ i \in Instruments /\ repl \in Books2 /\ b \in [Levels -> Qty] /\ L \in SUBSET Levels
      /\ seen \in [Instruments -> SUBSET Levels] /\ ready \subseteq Instruments
      /\ book \in Books2
  BY DEF IInv, TypeOK, Channels, Books2
<1>2. PICK ln \in Lines(c, L, b, TRUE) : Log(i, ln)
  BY DEF Snapshot
<1>3. /\ book' = book /\ ready' = ready \cup {i} /\ c.ty = "book"
      /\ UNCHANGED <<prog, conn, reqs, lost, live, known>>
  BY DEF Snapshot
<1>4. \A l \in L : b[l] > 0
  OBVIOUS
<1>5. \A l \in Levels \ L : b[l] = 0
  BY <1>1 DEF Qty
<1> HIDE DEF b
<1>6. ASSUME ~Met, c \in known, Parsed(Cardinality(L))
      PROVE  Kept
  <2>1. PICK clr \in BOOLEAN : (clr <=> TRUE /\ prog \in Clearing) /\ Prints(ln, i, L, b, clr)
    <3> HIDE DEF L
    <3>1. TRUE => \A l \in L : b[l] > 0
      BY <1>4
    <3>2. ~TRUE /\ prog \in {"bitfin", "trt"} => Cardinality(L) = 1
      OBVIOUS
    <3> QED
      BY <1>1, <1>2, <1>3, <1>6, <3>1, <3>2, KnownPrints
  <2> HIDE DEF L
  <2>2. Gives(i, L, b, clr) /\ stray' = {}
    BY <1>1, <1>2, <2>1, LogGives, Zenon DEF Prints
  <2>3. seen' = [seen EXCEPT ![i] = IF prog \in Clearing THEN Levels ELSE L]
    BY <1>6 DEF Snapshot, L, b
  <2>4. tab' = tab
    BY <1>2, <2>1 DEF Log, Prints
  <2>5. seen' \in [Instruments -> SUBSET Levels]
    BY <1>1, <2>3
  <2>6. ASSUME NEW j \in Instruments, NEW l \in seen'[j] PROVE repl'[j][l] = book'[j][l]
    <3>1. CASE j # i
      BY <1>1, <1>3, <1>6, <2>2, <2>3, <2>6, <3>1 DEF IInv, Tracks, Gives
    <3>2. CASE j = i /\ prog \in Clearing
      <4>1. clr /\ l \in Levels
        BY <2>1, <2>3, <2>6, <3>2, <1>1
      <4>2. repl'[i][l] = b[l]
        BY <4>1, <2>2, <1>5 DEF Gives
      <4> QED
        BY <4>2, <3>2, <1>3 DEF b
    <3>3. CASE j = i /\ prog \notin Clearing
      BY <2>2, <2>3, <2>6, <3>3, <1>1, <1>3 DEF b, Gives
    <3> QED
      BY <3>1, <3>2, <3>3
  <2>7. Tracks'
    BY <2>6 DEF Tracks
  <2> QED
    BY <2>2, <2>4, <2>5, <2>7 DEF Gives, Kept, Attribution
<1>7. ASSUME ~Met, c \notin known \/ ~Parsed(Cardinality(L))
      PROVE  Kept
  <2>3. seen' = seen
    BY <1>7 DEF Snapshot, L, b
  <2> HIDE DEF L
  <2>1. Prints(ln, i, {}, b, FALSE)
    <3>1. ~TRUE /\ prog \in {"bitfin", "trt"} => Cardinality(L) = 1
      OBVIOUS
    <3> QED
      BY <1>1, <1>2, <1>7, <3>1, UnknownPrints
  <2>2. Gives(i, {}, b, FALSE) /\ stray' = {}
    <3>1. {} \in SUBSET Levels /\ FALSE \in BOOLEAN
      OBVIOUS
    <3> QED
      BY <1>1, <1>2, <2>1, <3>1, LogGives, Zenon DEF Prints
  <2>4. tab' = tab
    BY <1>2, <2>1 DEF Log, Prints
  <2>5. \A j \in Instruments : \A l \in Levels : repl'[j][l] = repl[j][l]
    BY <2>2 DEF Gives
  <2>6. Tracks'
    BY <1>1, <1>3, <1>7, <2>3, <2>5 DEF Tracks, IInv
  <2> QED
    BY <1>1, <2>2, <2>3, <2>4, <2>6 DEF Gives, Kept, Attribution
<1>8. ASSUME Met
      PROVE  Kept
  <2>1. Met'
    BY <1>3, <1>8 DEF Met
  <2>2. procln(ln).tab = tab /\ Typed(procln(ln).out)
    <3> HIDE DEF L
    <3> QED
      BY <1>1, <1>2, <1>8, BtfTyped DEF Met
  <2>3. tab' = tab /\ repl' \in Books2
    BY <1>1, <1>2, <2>2, TypedGives
  <2>4. \/ seen' = seen \/ seen' = [seen EXCEPT ![i] = Levels]
        \/ seen' = [seen EXCEPT ![i] = L]
    BY DEF Snapshot, b
  <2>5. seen' \in [Instruments -> SUBSET Levels]
    <3> HIDE DEF L
    <3> QED
      BY <1>1, <2>4
  <2> QED
    BY <2>1, <2>3, <2>5 DEF Kept, Attribution, Tracks
<1>9. Kept
  BY <1>6, <1>7, <1>8
<1>10. Session'
  BY <1>3, <1>9, SessionKept DEF Kept
<1>11. TypeOK'
  <2>1. book' \in Books2 /\ repl' \in Books2 /\ ready' \subseteq Instruments /\ seen' \in [Instruments -> SUBSET Levels]
    BY <1>1, <1>3, <1>9 DEF Kept
  <2> QED
    BY <1>3, <1>9, <2>1, SessionKept DEF TypeOK, Books2, Kept
<1> QED
  BY <1>9, <1>10, <1>11 DEF IInv, Session, Kept

\* A change of quantities.
LEMMA ChangeStep ==
  ASSUME IInv, NEW i \in Instruments, NEW b \in [Levels -> Qty], Change(i, b)
  PROVE  IInv'
<1> DEFINE L == {l \in Levels : b[l] # book[i][l]}
           told == {c \in live : c.ins = i /\ c.ty = "book" /\ i \in ready}
<1>1. /\ repl \in Books2 /\ L \in SUBSET Levels /\ book \in Books2
      /\ seen \in [Instruments -> SUBSET Levels] /\ ready \subseteq Instruments
      /\ FALSE \in BOOLEAN /\ {} \in SUBSET Levels
  BY DEF IInv, TypeOK, Books2
<1>2. /\ prog \in {"bitfin", "trt"} => Cardinality(L) = 1
      /\ book' = [book EXCEPT ![i] = b] /\ UNCHANGED <<prog, session>>
  BY DEF Change
<1>3. \A l \in Levels \ L : b[l] = book[i][l]
  OBVIOUS
<1>4. ASSUME ~Met, told \cap known = {} \/ ~Parsed(Cardinality(L)),
             /\ tab' = tab /\ stray' = {} /\ repl' \in Books2
             /\ \A j \in Instruments : \A l \in Levels : repl'[j][l] = repl[j][l]
      PROVE  Kept
  <2>1. seen' = [seen EXCEPT ![i] = @ \ L]
    BY <1>4 DEF Change
  <2> HIDE DEF L
  <2>2. seen' \in [Instruments -> SUBSET Levels]
    BY <1>1, <2>1
  <2>3. ASSUME NEW j \in Instruments, NEW l \in seen'[j] PROVE repl'[j][l] = book'[j][l]
    <3>1. l \in seen[j] /\ l \in Levels /\ (j = i => l \notin L)
      BY <1>1, <2>1, <2>3
    <3>2. repl'[j][l] = book[j][l]
      BY <1>4, <3>1 DEF IInv, Tracks
    <3>3. book'[j][l] = book[j][l]
      <4>1. CASE j = i
        BY <1>1, <1>2, <1>3, <3>1, <4>1 DEF Books2
      <4>2. CASE j # i
        BY <1>1, <1>2, <4>2 DEF Books2
      <4> QED
        BY <4>1, <4>2
    <3> QED
      BY <3>2, <3>3
  <2> QED
    BY <1>4, <2>2, <2>3 DEF Tracks, Kept, Attribution
<1>5. ASSUME ~Met, told = {}
      PROVE  Kept
  <2>1. Quiet
    BY <1>5 DEF Change
  <2>2. tab' = tab /\ repl' = repl /\ stray' = {}
    BY <2>1 DEF Quiet
  <2>3. told \cap known = {}
    BY <1>5
  <2> HIDE DEF told, L
  <2> QED
    BY <1>1, <1>4, <1>5, <2>2, <2>3
<1>6. ASSUME ~Met, told # {}
      PROVE  Kept
  <2>1. PICK c \in told : \E ln \in Lines(c, L, b, FALSE) : Log(i, ln)
    BY <1>6 DEF Change
  <2>2. PICK ln \in Lines(c, L, b, FALSE) : Log(i, ln)
    BY <2>1
  <2>3. c \in live /\ c.ins = i /\ c.ty = "book"
    OBVIOUS
  <2>4. told = {c}
    BY <2>3 DEF IInv, OneEach
  <2>5. CASE c \in known /\ Parsed(Cardinality(L))
    <3>1. seen' = [seen EXCEPT ![i] = @ \cup L]
      BY <2>4, <2>5 DEF Change
    <3> HIDE DEF L, told
    <3>2. PICK clr \in BOOLEAN : (clr <=> FALSE /\ prog \in Clearing) /\ Prints(ln, c.ins, L, b, clr)
      <4>1. FALSE => \A l \in L : b[l] > 0
        OBVIOUS
      <4>2. ~FALSE /\ prog \in {"bitfin", "trt"} => Cardinality(L) = 1
        BY <1>2
      <4> QED
        BY <1>1, <1>6, <2>2, <2>3, <2>5, <4>1, <4>2, KnownPrints
    <3>3. Prints(ln, i, L, b, FALSE)
      <4>1. clr = FALSE
        BY <3>2
      <4> QED
        BY <2>3, <3>2, <4>1, Zenon
    <3>4. Gives(i, L, b, FALSE) /\ stray' = {}
      BY <1>1, <2>2, <3>3, LogGives, Zenon DEF Prints
    <3>5. tab' = tab
      BY <2>2, <3>3 DEF Log, Prints
    <3>6. seen' \in [Instruments -> SUBSET Levels]
      BY <1>1, <3>1
    <3>7. ASSUME NEW j \in Instruments, NEW l \in seen'[j] PROVE repl'[j][l] = book'[j][l]
      <4>1. CASE j # i
        <5>1. l \in seen[j] /\ book'[j] = book[j] /\ repl'[j] = repl[j]
          BY <1>1, <1>2, <3>1, <3>4, <3>7, <4>1 DEF Books2, Gives
        <5> QED
          BY <1>6, <5>1 DEF IInv, Tracks
      <4>2. CASE j = i /\ l \in L
        BY <1>1, <1>2, <3>4, <4>2 DEF Books2, Gives
      <4>3. CASE j = i /\ l \notin L
        <5>1. l \in seen[i] /\ l \in Levels \ L
          BY <1>1, <3>1, <3>7, <4>3
        <5>2. repl'[i][l] = repl[i][l] /\ book'[i][l] = b[l]
          BY <1>1, <1>2, <3>4, <5>1 DEF Books2, Gives
        <5>3. b[l] = book[i][l] /\ repl[i][l] = book[i][l]
          BY <1>3, <1>6, <5>1 DEF IInv, Tracks
        <5> QED
          BY <4>3, <5>2, <5>3
      <4> QED
        BY <4>1, <4>2, <4>3
    <3>8. Tracks'
      BY <3>7 DEF Tracks
    <3>9. repl' \in Books2
      BY <3>4 DEF Gives
    <3> QED
      BY <3>4, <3>5, <3>6, <3>8, <3>9 DEF Kept, Attribution
  <2>6. CASE c \notin known \/ ~Parsed(Cardinality(L))
    <3>1. told \cap known = {} \/ ~Parsed(Cardinality(L))
      BY <2>4, <2>6
    <3> HIDE DEF L, told
    <3>2. Prints(ln, i, {}, b, FALSE)
      BY <1>1, <1>2, <1>6, <2>2, <2>3, <2>6, UnknownPrints
    <3>3. Gives(i, {}, b, FALSE) /\ stray' = {}
      BY <1>1, <2>2, <3>2, LogGives, Zenon DEF Prints
    <3>4. tab' = tab
      BY <2>2, <3>2 DEF Log, Prints
    <3>5. repl' \in Books2 /\ \A j \in Instruments : \A l \in Levels : repl'[j][l] = repl[j][l]
      BY <3>3 DEF Gives
    <3> QED
      BY <1>4, <1>6, <3>1, <3>3, <3>4, <3>5
  <2> QED
    BY <2>5, <2>6
<1>12. ASSUME Met
       PROVE  Kept
  <2>1. Met'
    BY <1>2, <1>12 DEF Met, session
  <2>2. tab' = tab /\ repl' \in Books2
    <3>1. CASE told = {}
      BY <1>1, <3>1 DEF Change, Quiet
    <3>2. CASE told # {}
      <4>1. PICK c \in told : \E ln \in Lines(c, L, b, FALSE) : Log(i, ln)
        BY <3>2 DEF Change
      <4> HIDE DEF L, told
      <4>2. PICK ln \in Lines(c, L, b, FALSE) : Log(i, ln)
        BY <4>1
      <4>3. procln(ln).tab = tab /\ Typed(procln(ln).out)
        BY <1>1, <1>12, <4>2, BtfTyped DEF Met
      <4> QED
        BY <1>1, <4>2, <4>3, TypedGives
    <3> QED
      BY <3>1, <3>2
  <2>3. seen' = [seen EXCEPT ![i] = @ \ L] \/ seen' = [seen EXCEPT ![i] = @ \cup L]
    BY DEF Change
  <2>4. seen' \in [Instruments -> SUBSET Levels]
    <3> HIDE DEF L
    <3> QED
      BY <1>1, <2>3
  <2> QED
    BY <2>1, <2>2, <2>4 DEF Kept, Attribution, Tracks
<1>7. Kept
  BY <1>5, <1>6, <1>12
<1>8. UNCHANGED <<prog, conn, reqs, lost, live, known, tab, ready>>
  BY <1>2, <1>7 DEF session, Kept
<1>9. book' \in Books2
  BY <1>1, <1>2 DEF Books2
<1>10. Session'
  BY <1>8, SessionKept
<1>11. TypeOK'
  BY <1>1, <1>7, <1>8, <1>9, SessionKept DEF TypeOK, Books2, Kept
<1> QED
  BY <1>7, <1>10, <1>11 DEF IInv, Session, Kept

\* Trades, tickers, heartbeats.
LEMMA OthersStep ==
  ASSUME IInv, NEW c \in live, Others(c)
  PROVE  IInv'
<1>1. PICK l \in Levels, q \in Qty : \E ln \in OtherLines(c, l, q) : Log(c.ins, ln)
  BY DEF Others
<1>2. PICK ln \in OtherLines(c, l, q) : Log(c.ins, ln)
  BY <1>1
<1>3. /\ c.ins \in Instruments /\ repl \in Books2 /\ {} \in SUBSET Levels /\ FALSE \in BOOLEAN
      /\ book[c.ins] \in [Levels -> Qty] /\ seen \in [Instruments -> SUBSET Levels]
  BY DEF IInv, TypeOK, Channels, Books2
<1>4. UNCHANGED <<prog, conn, reqs, lost, live, known, book, seen, ready>>
  BY DEF Others, session
<1>5. ASSUME ~Met
      PROVE  Kept
  <2>1. Prints(ln, c.ins, {}, book[c.ins], FALSE)
    BY <1>2, <1>5, OtherPrints
  <2>2. Gives(c.ins, {}, book[c.ins], FALSE) /\ stray' = {}
    BY <1>2, <1>3, <2>1, LogGives, Zenon DEF Prints
  <2>3. tab' = tab
    BY <1>2, <2>1 DEF Log, Prints
  <2>4. repl' \in Books2 /\ \A j \in Instruments : \A m \in Levels : repl'[j][m] = repl[j][m]
    BY <2>2 DEF Gives
  <2>5. Tracks'
    BY <1>3, <1>4, <1>5, <2>4 DEF IInv, Tracks
  <2> QED
    BY <1>3, <1>4, <2>2, <2>3, <2>4, <2>5 DEF Kept, Attribution
<1>6. ASSUME Met
      PROVE  Kept
  <2>1. Met'
    BY <1>4, <1>6 DEF Met
  <2>2. procln(ln).tab = tab /\ Typed(procln(ln).out)
    BY <1>2, <1>6, BtfOtherTyped DEF Met
  <2>3. tab' = tab /\ repl' \in Books2
    BY <1>2, <1>3, <2>2, TypedGives
  <2> QED
    BY <1>3, <1>4, <2>1, <2>3 DEF Kept, Attribution, Tracks
<1>7. Kept
  BY <1>5, <1>6
<1>8. Session'
  BY <1>4, <1>7, SessionKept DEF Kept
<1>9. TypeOK'
  BY <1>4, <1>7, SessionKept DEF IInv, TypeOK, Books2, Kept
<1> QED
  BY <1>7, <1>8, <1>9 DEF IInv, Session, Kept

\* What ok2b makes of a line with any entries.
LEMMA JumbledPrints ==
  ASSUME prog = "ok", NEW i \in Instruments, NEW ty, NEW n \in Nat, NEW es \in [1..n -> Entries],
         NEW ln, ln = [typ |-> ty, ins |-> i, entries |-> es]
  PROVE  /\ procln(ln).tab = tab /\ Typed(procln(ln).out)
         /\ \A j \in Instruments \ {i} : \A k \in DOMAIN procln(ln).out : procln(ln).out[k].ins # j
<1> DEFINE h == IF ty = "W" THEN <<Clear(i)>> ELSE <<>>
           x(k) == IF es[k].ety \in {"0", "1"} /\ es[k].lvl # None /\ es[k].qty # None
                   THEN Quote(i, es[k].lvl, es[k].qty) ELSE Nothing
           g == [k \in 1..n |-> x(k)]
<1>1. procln(ln).tab = tab /\ procln(ln).out = Ref!ok_procln(ln)
  BY DEF procln
<1>2. ln.typ = ty /\ ln.ins = i /\ ln.entries = es /\ DOMAIN es = 1..n
  OBVIOUS
<1>3. Ref!ok_procln(ln) = h \o g \/ Ref!ok_procln(ln) = <<>>
  BY <1>2 DEF Ref!ok_procln, Ref!route_quote, Ref!Clear, Clear, Ref!Quote, Quote, Ref!Nothing, Nothing
<1>4. g \in Seq(Good(i))
  <2>1. ASSUME NEW k \in 1..n PROVE x(k) \in Good(i)
    <3>1. es[k] \in Entries
      OBVIOUS
    <3>2. CASE \E l \in Levels, q \in Qty : es[k] = Entry(l, q)
      <4>1. PICK l \in Levels, q \in Qty : es[k] = Entry(l, q)
        BY <3>2
      <4>2. es[k].lvl = l /\ es[k].qty = q
        BY <4>1 DEF Entry
      <4> QED
        BY <4>2, QuoteIsGood
    <3>3. CASE es[k] = [ety |-> "2", lvl |-> None, qty |-> 0]
      <4>1. x(k) = Nothing
        BY <3>3
      <4> QED
        BY <4>1 DEF Good
    <3> QED
      BY <3>1, <3>2, <3>3 DEF Entries
  <2> HIDE DEF x
  <2>2. g \in [1..n -> Good(i)]
    BY <2>1
  <2> DEFINE G == Good(i)
  <2> HIDE DEF G, g
  <2> QED
    BY <2>2 DEF G
<1>5. h \in Seq(Good(i))
  <2>1. Clear(i) \in Good(i)
    BY DEF Good
  <2> HIDE DEF Good
  <2> QED
    BY <2>1
<1> HIDE DEF h, g
<1>6. Ref!ok_procln(ln) \in Seq(Good(i))
  <2>1. h \o g \in Seq(Good(i))
    BY <1>4, <1>5, ConcatProperties
  <2>2. <<>> \in Seq(Good(i))
    <3> HIDE DEF Good
    <3> QED
      OBVIOUS
  <2> QED
    BY <1>3, <2>1, <2>2, Zenon
<1>7. ASSUME NEW y \in Good(i) PROVE y.qty \in Qty /\ y.ins \in {i, None}
  <2>1. 0 \in Qty
    BY BooksAssumption DEF Qty
  <2>2. CASE y \in [ins : {i}, fl : {"0", "1", "2"}, lvl : Levels, qty : Qty]
    BY <2>2
  <2>3. CASE y = Clear(i)
    BY <2>1, <2>3 DEF Clear
  <2>4. CASE y = Nothing
    BY <2>1, <2>4 DEF Nothing
  <2> QED
    BY <1>7, <2>2, <2>3, <2>4 DEF Good
<1> DEFINE o == Ref!ok_procln(ln)
<1> HIDE DEF o
<1>8. o \in Seq(Good(i))
  BY <1>6 DEF o
<1>9. /\ Len(o) \in Nat /\ DOMAIN o = 1..Len(o) /\ \A k \in DOMAIN o : o[k] \in Good(i)
  BY <1>8
<1>10. Typed(o)
  BY <1>7, <1>9 DEF Typed
<1>11. \A j \in Instruments \ {i} : \A k \in DOMAIN o : o[k].ins # j
  BY <1>7, <1>9, BooksAssumption
<1> QED
  BY <1>1, <1>10, <1>11 DEF o

\* A read of okfix that is not one message.
LEMMA JumbledStep ==
  ASSUME IInv, NEW c \in live, Jumbled(c)
  PROVE  IInv'
<1> DEFINE i == c.ins
<1>1. /\ prog = "ok" /\ book' \in Books2 /\ i \in Instruments /\ repl \in Books2
      /\ UNCHANGED <<prog, conn, reqs, lost, live, known>>
      /\ seen' = [j \in Instruments |->
                    IF j = i THEN {} ELSE {l \in seen[j] : book'[j][l] = book[j][l]}]
  BY DEF Jumbled, IInv, TypeOK, Channels, Books2
<1>2. PICK R \in SUBSET {d.ins : d \in live} : ready' = ready \cup R
  BY DEF Jumbled
<1>3. PICK ty \in {"W", "X"}, n \in 1..MaxEntries :
        \E es \in [1..n -> Entries] : Log(None, [typ |-> ty, ins |-> i, entries |-> es])
  BY DEF Jumbled
<1>4. PICK es \in [1..n -> Entries] : Log(None, [typ |-> ty, ins |-> i, entries |-> es])
  BY <1>3
<1> DEFINE ln == [typ |-> ty, ins |-> i, entries |-> es]
<1>5. /\ procln(ln).tab = tab /\ Typed(procln(ln).out)
      /\ \A j \in Instruments \ {i} : \A k \in DOMAIN procln(ln).out : procln(ln).out[k].ins # j
  <2>1. n \in Nat
    OBVIOUS
  <2> HIDE DEF i
  <2> QED
    BY <1>1, <2>1, JumbledPrints
<1>6. Log(None, ln)
  BY <1>4
<1> HIDE DEF ln
<1>7. tab' = tab /\ repl' \in Books2
  BY <1>1, <1>5, <1>6, TypedGives
<1>8. \A j \in Instruments \ {i} : repl'[j] = repl[j]
  <2> DEFINE o == procln(ln).out
  <2> HIDE DEF o
  <2>1. repl' = Apply(repl, o)
    BY <1>6 DEF Log, o
  <2>2. \A j \in Instruments \ {i} : \A k \in DOMAIN o : o[k].ins # j
    BY <1>5 DEF o
  <2> QED
    BY <1>1, <2>1, <2>2, ApplyOthers
<1>9. stray' = {}
  BY <1>6 DEF Log
<1>10. Tracks'
  <2>1. ~Met
    BY <1>1 DEF Met
  <2>2. ASSUME NEW j \in Instruments, NEW l \in seen'[j] PROVE repl'[j][l] = book'[j][l]
    <3>1. j # i /\ l \in seen[j] /\ book'[j][l] = book[j][l]
      BY <1>1, <2>2
    <3> QED
      BY <1>8, <2>1, <3>1 DEF IInv, Tracks
  <2> QED
    BY <2>2 DEF Tracks
<1>11. Session'
  BY <1>1, <1>7, SessionKept
<1>12. TypeOK'
  <2>1. ready' \subseteq Instruments
    BY <1>2 DEF IInv, TypeOK, Channels
  <2>2. seen' \in [Instruments -> SUBSET Levels]
    BY <1>1 DEF IInv, TypeOK
  <2> QED
    BY <1>1, <1>7, <2>1, <2>2, SessionKept DEF TypeOK, Books2
<1> QED
  BY <1>9, <1>10, <1>11, <1>12 DEF IInv, Session, Attribution

\* The tables at the start of a file.
LEMMA NoTabType ==
  /\ NoTab \in Tabs
  /\ \A k \in 0..Slots - 1 : NoTab.subins[k] = None /\ NoTab.subtys[k] = "UNK" /\ NoTab.subids[k] = 0
<1>1. 0 \in Keys
  BY FeedAssumption DEF Keys
<1> QED
  BY <1>1 DEF NoTab, Tabs

\* The entry of a channel lies in the tables.
LEMMA SlotOf == \A k \in Keys : k % Slots \in 0..Slots - 1
BY FeedAssumption DEF Keys

LEMMA InitStep == Init => IInv
<1> SUFFICES ASSUME Init PROVE IInv
  OBVIOUS
<1>1. reqs = <<>> /\ reqs \in Seq(Instruments) /\ Len(reqs) = 0
  BY DEF Init
<1>2. TypeOK
  <2>1. book \in [Instruments -> [Levels -> Qty]] /\ repl \in [Instruments -> [Levels -> Qty]]
    BY BooksAssumption DEF Init, Qty
  <2>2. /\ prog \in Programs
        /\ known \subseteq live /\ live \subseteq Channels /\ ready \subseteq Instruments
    BY DEF Init
  <2>3. conn \in BOOLEAN
    BY DEF Init
  <2>4. lost \in 0..Len(reqs)
    BY <1>1 DEF Init
  <2>5. /\ tab.subins \in [0..Slots - 1 -> Instruments \cup {None}]
        /\ tab.subtys \in [0..Slots - 1 -> {"UNK", "BOK", "TOP", "TRA"}]
        /\ tab.subids \in [0..Slots - 1 -> Keys]
    BY NoTabType DEF Init, Tabs
  <2>6. seen \in [Instruments -> SUBSET Levels]
    BY DEF Init, Unseen
  <2> QED
    BY <2>1, <2>2, <2>3, <2>4, <2>5, <2>6 DEF TypeOK
<1>3. OneEach /\ Plain /\ BtfTab
  BY DEF Init, OneEach, Plain, BtfTab
<1>4. PlxLive /\ PlxTab
  BY <1>1 DEF Init, PlxLive, PlxTab
<1>5. Attribution /\ Tracks
  BY DEF Init, Attribution, Tracks, Unseen
<1> QED
  BY <1>1, <1>2, <1>3, <1>4, <1>5, NoTabType DEF IInv, Init

\* A connection begins or ends.
LEMMA ConnStep ==
  ASSUME IInv, Connect \/ Disconnect
  PROVE  IInv'
<1>1. /\ reqs' = <<>> /\ lost' = 0 /\ live' = {} /\ known' = {} /\ ready' = {} /\ conn' \in BOOLEAN
      /\ seen' = Unseen /\ UNCHANGED <<prog, book, repl, tab>> /\ stray' = {}
  BY DEF Connect, Disconnect, Quiet
<1>2. reqs' \in Seq(Instruments) /\ Len(reqs') = 0
  BY <1>1
<1>3. TypeOK'
  BY <1>1, <1>2 DEF IInv, TypeOK, Unseen
<1>4. OneEach' /\ Plain' /\ BtfTab'
  BY <1>1 DEF IInv, OneEach, Plain, BtfTab
<1>5. PlxLive' /\ PlxTab'
  BY <1>1, <1>2 DEF PlxLive, PlxTab
<1>6. Attribution' /\ Tracks'
  BY <1>1 DEF Attribution, Tracks, Unseen
<1> QED
  BY <1>1, <1>2, <1>3, <1>4, <1>5, <1>6 DEF IInv

\* The log is rotated.
LEMMA RotateStep ==
  ASSUME IInv, Rotate
  PROVE  IInv'
<1>1. /\ tab' = NoTab /\ known' = {} /\ lost' = Len(reqs) /\ seen' = Unseen /\ stray' = {}
      /\ UNCHANGED <<prog, book, conn, reqs, live, ready, repl>>
  BY DEF Rotate
<1>2. prog \in Tables
  BY DEF IInv, Plain, Rotate
<1>3. TypeOK' /\ tab' \in Tabs /\ reqs' \in Seq(Instruments)
  <2>1. Len(reqs) \in 0..Len(reqs)
    BY DEF IInv
  <2> QED
    BY <1>1, <2>1, NoTabType DEF IInv, TypeOK, Unseen, Tabs
<1>4. OneEach' /\ Plain'
  BY <1>1, <1>2 DEF IInv, OneEach, Plain
<1>5. BtfTab'
  <2>1. \A c \in live : c.key % Slots \in 0..Slots - 1
    BY SlotOf DEF IInv, TypeOK, Channels
  <2> QED
    BY <1>1, <2>1, NoTabType DEF IInv, BtfTab
<1>6. PlxLive'
  BY <1>1 DEF IInv, PlxLive
<1>7. PlxTab'
  <2>1. Len(reqs) \in Nat /\ Slots \in Nat
    BY FeedAssumption DEF IInv
  <2>2. \A r \in 1..Len(reqs) : r <= Slots => r - 1 \in 0..Slots - 1
    BY <2>1
  <2>3. \A r \in 1..Len(reqs) : ~(r > Len(reqs))
    BY <2>1
  <2> QED
    BY <1>1, <2>1, <2>2, <2>3, NoTabType DEF PlxTab
<1>8. Attribution' /\ Tracks'
  BY <1>1 DEF Attribution, Tracks, Unseen
<1> QED
  BY <1>3, <1>4, <1>5, <1>6, <1>7, <1>8 DEF IInv

\* A channel of an exchange that needs no tables.
LEMMA JoinedStep ==
  ASSUME IInv, NEW i \in Instruments, Joined(i)
  PROVE  IInv'
<1> DEFINE c == Channel(i, "book", 0)
<1>1. /\ prog \notin Tables /\ live' = live \cup {c} /\ known' = known \cup {c} /\ stray' = {}
      /\ UNCHANGED <<prog, book, conn, reqs, lost, ready, seen, tab, repl>>
  BY DEF Joined, Quiet
<1>2. c \in Channels /\ c.ins = i /\ c.ty = "book" /\ c.key = 0
  BY FeedAssumption DEF Channel, Channels, Keys
<1>3. \A d \in live : d.ins = i => d = c
  BY <1>1, <1>2 DEF IInv, Plain, TypeOK, Channels, Channel
<1> HIDE DEF c
<1>4. TypeOK'
  BY <1>1, <1>2 DEF IInv, TypeOK
<1>5. OneEach' /\ Plain'
  <2>1. OneEach'
    BY <1>1, <1>2, <1>3 DEF IInv, OneEach
  <2>2. Plain'
    BY <1>1, <1>2 DEF IInv, Plain
  <2> QED
    BY <2>1, <2>2
<1>6. BtfTab' /\ PlxLive' /\ PlxTab'
  BY <1>1 DEF BtfTab, PlxLive, PlxTab, Tables
<1>7. Attribution' /\ Tracks'
  <2>1. ~Met
    BY <1>1 DEF Met, Tables
  <2> QED
    BY <1>1, <2>1 DEF IInv, Attribution, Tracks
<1> QED
  BY <1>1, <1>4, <1>5, <1>6, <1>7 DEF IInv

\* A bitfin channel is confirmed.
LEMMA SubscribedStep ==
  ASSUME IInv, NEW i \in Instruments, NEW ty \in {"book", "ticker", "trades"}, NEW k \in Keys,
         Subscribed(i, ty, k)
  PROVE  IInv'
<1> DEFINE c == Channel(i, ty, k)
           ln == [typ |-> "subscribed", channel |-> ty, id |-> k, ins |-> i]
           s == k % Slots
<1>1. /\ prog = "bitfin" /\ live' = live \cup {c} /\ known' = known \cup {c} /\ Log(i, ln)
      /\ \A d \in live : <<d.ins, d.ty>> # <<i, ty>>
      /\ UNCHANGED <<prog, book, conn, reqs, lost, ready, seen>>
  BY DEF Subscribed
<1>2. c \in Channels /\ c.ins = i /\ c.ty = ty /\ c.key = k
  BY DEF Channel, Channels
<1>3. s \in 0..Slots - 1 /\ Btf!Subt(ty) \in {"BOK", "TOP", "TRA"}
  BY SlotOf DEF Btf!Subt
<1>4. /\ procln(ln).out = <<>>
      /\ procln(ln).tab = [tab EXCEPT !.subins[s] = i, !.subtys[s] = Btf!Subt(ty)]
  <2>1. procln(ln) = [tab |-> Btf!subscr(tab, ln), out |-> <<>>]
    BY <1>1 DEF procln, Btf!procln
  <2>2. Btf!subscr(tab, ln) = [tab EXCEPT !.subins[s] = i, !.subtys[s] = Btf!Subt(ty)]
    BY <1>3 DEF Btf!subscr, Btf!chid
  <2> QED
    BY <2>1, <2>2
<1>5. repl' = repl /\ stray' = {} /\ tab' = procln(ln).tab
  <2>1. repl \in Books2 /\ Log(i, ln)
    BY <1>1 DEF IInv, TypeOK, Books2
  <2>2. tab' = procln(ln).tab
    BY <2>1 DEF Log
  <2> HIDE DEF ln
  <2> QED
    BY <1>4, <2>1, <2>2, LogSilent
<1> HIDE DEF ln, c, s
<1>6. /\ tab' \in Tabs
      /\ tab'.subins = [tab.subins EXCEPT ![s] = i]
      /\ tab'.subtys = [tab.subtys EXCEPT ![s] = Btf!Subt(ty)]
      /\ tab'.subids = tab.subids
  <2> DEFINE t == Btf!Subt(ty)
  <2> HIDE DEF t
  <2>1. tab' = [tab EXCEPT !.subins[s] = i, !.subtys[s] = t]
    BY <1>4, <1>5 DEF t
  <2>2. tab \in Tabs /\ t \in {"UNK", "BOK", "TOP", "TRA"}
    BY <1>3 DEF IInv, t
  <2>3. /\ tab'.subins = [tab.subins EXCEPT ![s] = i]
        /\ tab'.subtys = [tab.subtys EXCEPT ![s] = t]
        /\ tab'.subids = tab.subids
    BY <2>1, <2>2 DEF Tabs
  <2>4. tab' \in Tabs
    <3>1. tab'.subins \in [0..Slots - 1 -> Instruments \cup {None}]
      BY <1>3, <2>2, <2>3 DEF Tabs
    <3>2. tab'.subtys \in [0..Slots - 1 -> {"UNK", "BOK", "TOP", "TRA"}]
      BY <1>3, <2>2, <2>3 DEF Tabs
    <3>3. tab'.subids \in [0..Slots - 1 -> Keys]
      BY <2>2, <2>3 DEF Tabs
    <3>4. tab' = [subins |-> tab'.subins, subtys |-> tab'.subtys, subids |-> tab'.subids]
      BY <2>1, <2>2 DEF Tabs
    <3> QED
      BY <3>1, <3>2, <3>3, <3>4 DEF Tabs
  <2> QED
    BY <2>3, <2>4 DEF t
<1>7. TypeOK'
  BY <1>1, <1>2, <1>5, <1>6 DEF IInv, TypeOK, Tabs
<1>8. OneEach' /\ Plain'
  <2>1. OneEach'
    BY <1>1, <1>2 DEF IInv, OneEach
  <2> QED
    BY <1>1, <2>1 DEF Plain, Tables
<1>13. ~Met' => ~Met
  BY <1>1 DEF Met
<1>9. BtfTab'
  <2> SUFFICES ASSUME ~Met' PROVE BtfTab'
    BY DEF BtfTab
  <2>0. ~Met
    BY <1>13
  <2>1. c.key % Slots = s
    BY <1>2 DEF s
  <2>2. \A d \in live : d.key % Slots # s
    <3>1. \A d \in live : d # c
      BY <1>1, <1>2
    <3>2. \A d \in live : d.key % Slots # c.key % Slots
      BY <1>1, <3>1 DEF Met
    <3> QED
      BY <2>1, <3>2
  <2>3. known \subseteq live /\ \A d \in live : d.key % Slots \in 0..Slots - 1
    BY SlotOf DEF IInv, TypeOK, Channels
  <2>5. /\ tab'.subins[s] = i /\ tab'.subtys[s] = Btf!Subt(ty)
        /\ \A d \in live : /\ tab'.subins[d.key % Slots] = tab.subins[d.key % Slots]
                           /\ tab'.subtys[d.key % Slots] = tab.subtys[d.key % Slots]
    BY <1>3, <1>6, <2>2, <2>3 DEF IInv, Tabs
  <2>6. \A d \in known' : tab'.subins[d.key % Slots] = d.ins /\ tab'.subtys[d.key % Slots] = Btf!Subt(d.ty)
    BY <1>1, <1>2, <2>0, <2>1, <2>3, <2>5 DEF IInv, BtfTab
  <2>7. \A d \in live' \ known' : tab'.subtys[d.key % Slots] = "UNK"
    BY <1>1, <2>0, <2>5 DEF IInv, BtfTab
  <2> QED
    BY <2>6, <2>7 DEF BtfTab
<1>10. PlxLive' /\ PlxTab'
  BY <1>1 DEF PlxLive, PlxTab
<1>11. Tracks'
  BY <1>1, <1>5, <1>13 DEF IInv, Tracks
<1> QED
  BY <1>1, <1>5, <1>6, <1>7, <1>8, <1>9, <1>10, <1>11 DEF IInv, Attribution

\* A plx instrument is asked for.
LEMMA RequestStep ==
  ASSUME IInv, NEW i \in Instruments, Request(i)
  PROVE  IInv'
<1> DEFINE n == Len(reqs)
           ln == [typ |-> 32, req |-> n, ins |-> i]
<1>1. /\ prog = "plx" /\ reqs' = Append(reqs, i) /\ Log(i, ln)
      /\ UNCHANGED <<prog, book, conn, lost, live, known, ready, seen>>
  BY DEF Request
<1>2. /\ n \in Nat /\ Slots \in Nat /\ reqs' \in Seq(Instruments) /\ Len(reqs') = n + 1
      /\ reqs'[n + 1] = i /\ \A r \in 1..n : reqs'[r] = reqs[r]
  BY <1>1, FeedAssumption DEF IInv
<1>3. procln(ln).out = <<>> /\ procln(ln).tab = Plx!subscr(tab, ln)
  BY <1>1 DEF procln, Plx!procln
<1>4. Plx!subscr(tab, ln) = IF n >= Slots THEN tab ELSE [tab EXCEPT !.subids[n] = 0, !.subins[n] = i]
  BY DEF Plx!subscr
<1>5. repl' = repl /\ stray' = {} /\ tab' = Plx!subscr(tab, ln)
  <2>1. repl \in Books2 /\ Log(i, ln)
    BY <1>1 DEF IInv, TypeOK, Books2
  <2>2. tab' = procln(ln).tab
    BY <2>1 DEF Log
  <2> HIDE DEF ln
  <2> QED
    BY <1>3, <2>1, <2>2, LogSilent
<1> HIDE DEF ln, n
<1>6. 0 \in Keys
  BY FeedAssumption DEF Keys
<1>7. /\ tab' \in Tabs /\ tab'.subtys = tab.subtys
      /\ \A k \in 0..Slots - 1 : k # n => tab'.subins[k] = tab.subins[k] /\ tab'.subids[k] = tab.subids[k]
      /\ n < Slots => tab'.subins[n] = i /\ tab'.subids[n] = 0
  <2>1. CASE n >= Slots
    BY <1>2, <1>4, <1>5, <2>1 DEF IInv
  <2>2. CASE n < Slots
    <3>1. tab' = [tab EXCEPT !.subids[n] = 0, !.subins[n] = i]
      BY <1>2, <1>4, <1>5, <2>2
    <3>2. n \in 0..Slots - 1
      BY <1>2, <2>2
    <3> QED
      BY <1>6, <3>1, <3>2 DEF IInv, Tabs
  <2> QED
    BY <1>2, <2>1, <2>2
<1>8. TypeOK'
  <2>1. lost' \in 0..Len(reqs')
    BY <1>1, <1>2 DEF IInv, TypeOK, n
  <2> QED
    BY <1>1, <1>5, <1>7, <2>1 DEF IInv, TypeOK, Tabs
<1>9. OneEach' /\ Plain' /\ BtfTab'
  BY <1>1 DEF IInv, OneEach, Plain, BtfTab, Tables
<1>13. ~Met
  BY <1>1 DEF Met
<1>10. PlxLive'
  BY <1>1, <1>2 DEF IInv, PlxLive, n
<1>11. PlxTab'
  <2>1. lost \in 0..n /\ n = Len(reqs)
    BY DEF IInv, TypeOK, n
  <2>2. ASSUME NEW r \in 1..Len(reqs'), r <= Slots, r <= lost
        PROVE  tab'.subins[r - 1] = None /\ tab'.subids[r - 1] = 0
    <3>1. r \in 1..n /\ r - 1 \in 0..Slots - 1 /\ r - 1 # n
      BY <1>2, <2>1, <2>2
    <3> QED
      BY <1>1, <1>7, <2>1, <2>2, <3>1 DEF IInv, PlxTab
  <2>3. ASSUME NEW r \in 1..Len(reqs'), r <= Slots, r > lost
        PROVE  /\ tab'.subins[r - 1] = reqs'[r]
               /\ tab'.subids[r - 1] # 0 => \E c \in known : c.ins = reqs'[r] /\ c.key = tab'.subids[r - 1]
    <3>1. CASE r = n + 1
      <4>1. r - 1 = n /\ n < Slots
        BY <1>2, <2>3, <3>1
      <4> QED
        BY <1>2, <1>7, <3>1, <4>1
    <3>2. CASE r # n + 1
      <4>1. r \in 1..n /\ r - 1 \in 0..Slots - 1 /\ r - 1 # n
        BY <1>2, <2>3, <3>2
      <4> QED
        BY <1>1, <1>2, <1>7, <2>1, <2>3, <4>1 DEF IInv, PlxTab
    <3> QED
      BY <3>1, <3>2
  <2>4. ASSUME NEW c \in known
        PROVE  \E r \in 1..Len(reqs') : r <= Slots /\ tab'.subids[r - 1] = c.key
    <3>1. PICK r \in 1..n : r <= Slots /\ tab.subids[r - 1] = c.key
      BY <1>1, <2>1 DEF IInv, PlxTab
    <3>2. r \in 1..Len(reqs') /\ r - 1 \in 0..Slots - 1 /\ r - 1 # n
      BY <1>2, <3>1
    <3> QED
      BY <1>7, <3>1, <3>2
  <2>5. ASSUME lost > 0, NEW k \in 0..Slots - 1, k >= Len(reqs') PROVE tab'.subids[k] = 0
    <3>1. k # n /\ k >= n
      BY <1>2, <2>5
    <3> QED
      BY <1>1, <1>7, <2>1, <2>5, <3>1 DEF IInv, PlxTab
  <2> QED
    BY <1>1, <2>2, <2>3, <2>4, <2>5 DEF PlxTab
<1>12. Tracks'
  BY <1>1, <1>5, <1>13 DEF IInv, Tracks
<1> QED
  BY <1>2, <1>5, <1>7, <1>8, <1>9, <1>10, <1>11, <1>12 DEF IInv, Attribution

\* A plx request is confirmed.
LEMMA ConfirmedStep ==
  ASSUME IInv, NEW r \in DOMAIN reqs, NEW k \in Keys, Confirmed(r, k)
  PROVE  IInv'
<1> DEFINE n == Len(reqs)
           i == reqs[r]
           c == Channel(i, "book", k)
           ln == [typ |-> 33, req |-> r - 1, id |-> k]
<1>1. /\ prog = "plx" /\ k # 0 /\ live' = live \cup {c} /\ ready' = ready \cup {i} /\ Log(i, ln)
      /\ \A d \in live : d.ins = i <=> d.key = k
      /\ known' = IF r > lost /\ r <= Slots THEN known \cup {c} ELSE known
      /\ UNCHANGED <<prog, book, conn, reqs, lost, seen>>
  BY DEF Confirmed
<1>2. /\ n \in Nat /\ Slots \in Nat /\ r \in 1..n /\ i \in Instruments /\ lost \in 0..n
      /\ tab \in Tabs /\ known \subseteq live
  BY FeedAssumption DEF IInv, TypeOK
<1>3. c \in Channels /\ c.ins = i /\ c.ty = "book" /\ c.key = k
  BY <1>2 DEF Channel, Channels
<1>4. \A d \in live : d.ins = i \/ d.key = k => d = c
  BY <1>1 DEF IInv, PlxLive, TypeOK, Channels, Channel
<1>5. procln(ln).out = <<>> /\ procln(ln).tab = Plx!subscd(tab, ln)
  BY <1>1 DEF procln, Plx!procln
<1>6. Plx!subscd(tab, ln) =
        IF r - 1 >= Slots \/ tab.subins[r - 1] = None THEN tab ELSE [tab EXCEPT !.subids[r - 1] = k]
  BY DEF Plx!subscd
<1>0. ~Met
  BY <1>1 DEF Met
<1>7. repl' = repl /\ stray' = {} /\ tab' = Plx!subscd(tab, ln)
  <2>1. repl \in Books2 /\ Log(i, ln)
    BY <1>1 DEF IInv, TypeOK, Books2
  <2>2. tab' = procln(ln).tab
    BY <2>1 DEF Log
  <2> HIDE DEF ln, i
  <2> QED
    BY <1>2, <1>5, <2>1, <2>2, LogSilent
<1> HIDE DEF ln, c, n
<1>8. CASE r > lost /\ r <= Slots
  <2>1. r - 1 \in 0..Slots - 1
    BY <1>2, <1>8
  <2>2. tab.subins[r - 1] = i /\ (tab.subids[r - 1] # 0 => \E d \in known : d.ins = i /\ d.key = tab.subids[r - 1])
    BY <1>1, <1>2, <1>8 DEF IInv, PlxTab, n
  <2>3. tab' = [tab EXCEPT !.subids[r - 1] = k]
    <3>1. ~(r - 1 >= Slots) /\ tab.subins[r - 1] # None
      BY <1>2, <1>8, <2>2, BooksAssumption
    <3> QED
      BY <1>6, <1>7, <3>1
  <2>4. /\ tab' \in Tabs /\ tab'.subins = tab.subins /\ tab'.subtys = tab.subtys
        /\ tab'.subids[r - 1] = k
        /\ \A m \in 0..Slots - 1 : m # r - 1 => tab'.subids[m] = tab.subids[m]
    BY <1>2, <2>1, <2>3 DEF Tabs
  <2>5. known' = known \cup {c}
    BY <1>1, <1>8
  <2>6. tab.subids[r - 1] # 0 => tab.subids[r - 1] = k
    BY <1>1, <1>2, <2>2
  <2>7. TypeOK'
    BY <1>1, <1>2, <1>3, <1>7, <2>4, <2>5 DEF IInv, TypeOK, Tabs
  <2>8. OneEach' /\ Plain' /\ BtfTab'
    BY <1>1, <1>3, <1>4 DEF IInv, OneEach, Plain, BtfTab, Tables
  <2>9. PlxLive'
    <3>1. \A d \in live' : d.ty = "book" /\ d.key # 0
      BY <1>1, <1>3 DEF IInv, PlxLive
    <3>2. \A d, e \in live' : d.ins = e.ins <=> d.key = e.key
      BY <1>1, <1>3 DEF IInv, PlxLive
    <3>3. Len(reqs') > 0
      BY <1>1, <1>2 DEF n
    <3>4. \A d \in live' \ known' : lost' > 0 \/ Len(reqs') > Slots
      BY <1>1, <2>5 DEF IInv, PlxLive
    <3> QED
      BY <3>1, <3>2, <3>3, <3>4 DEF PlxLive
  <2>10. PlxTab'
    <3>1. ASSUME NEW q \in 1..n, q <= Slots, q <= lost
          PROVE  tab'.subins[q - 1] = None /\ tab'.subids[q - 1] = 0
      <4>1. q - 1 \in 0..Slots - 1 /\ q - 1 # r - 1
        BY <1>2, <1>8, <3>1
      <4> QED
        BY <1>1, <2>4, <3>1, <4>1 DEF IInv, PlxTab, n
    <3>2. ASSUME NEW q \in 1..n, q <= Slots, q > lost
          PROVE  /\ tab'.subins[q - 1] = reqs[q]
                 /\ tab'.subids[q - 1] # 0 => \E d \in known' : d.ins = reqs[q] /\ d.key = tab'.subids[q - 1]
      <4>1. CASE q = r
        BY <1>3, <2>2, <2>4, <2>5, <4>1
      <4>2. CASE q # r
        <5>1. q - 1 \in 0..Slots - 1 /\ q - 1 # r - 1
          BY <1>2, <3>2, <4>2
        <5> QED
          BY <1>1, <2>4, <2>5, <3>2, <5>1 DEF IInv, PlxTab, n
      <4> QED
        BY <4>1, <4>2
    <3>3. ASSUME NEW d \in known' PROVE \E q \in 1..n : q <= Slots /\ tab'.subids[q - 1] = d.key
      <4>1. CASE d = c
        BY <1>2, <1>3, <1>8, <2>4, <4>1
      <4>2. CASE d \in known
        <5>1. PICK q \in 1..n : q <= Slots /\ tab.subids[q - 1] = d.key
          BY <1>1, <4>2 DEF IInv, PlxTab, n
        <5>2. d.key # 0
          BY <1>1, <1>2, <4>2 DEF IInv, PlxLive
        <5>3. q - 1 \in 0..Slots - 1
          BY <1>2, <5>1
        <5>4. tab'.subids[q - 1] = d.key
          BY <2>4, <2>6, <5>1, <5>2, <5>3
        <5> QED
          BY <5>1, <5>4
      <4> QED
        BY <2>5, <3>3, <4>1, <4>2
    <3>4. ASSUME lost > 0, NEW m \in 0..Slots - 1, m >= n PROVE tab'.subids[m] = 0
      <4>1. m # r - 1
        BY <1>2, <3>4
      <4> QED
        BY <1>1, <2>4, <3>4, <4>1 DEF IInv, PlxTab, n
    <3>5. reqs' = reqs /\ lost' = lost /\ Len(reqs') = n
      BY <1>1 DEF n
    <3> QED
      BY <3>1, <3>2, <3>3, <3>4, <3>5 DEF PlxTab
  <2>11. Tracks'
    BY <1>0, <1>1, <1>7 DEF IInv, Tracks
  <2> QED
    BY <1>1, <1>7, <2>4, <2>7, <2>8, <2>9, <2>10, <2>11 DEF IInv, Attribution
<1>9. CASE ~(r > lost /\ r <= Slots)
  <2>1. tab' = tab
    <3>1. CASE r <= Slots
      <4>1. r <= lost
        BY <1>2, <1>9, <3>1
      <4>2. tab.subins[r - 1] = None
        BY <1>1, <1>2, <3>1, <4>1 DEF IInv, PlxTab, n
      <4> QED
        BY <1>6, <1>7, <4>2
    <3>2. CASE r > Slots
      BY <1>2, <1>6, <1>7, <3>2
    <3> QED
      BY <1>2, <3>1, <3>2
  <2>2. known' = known
    BY <1>1, <1>9
  <2>3. TypeOK'
    BY <1>1, <1>2, <1>3, <1>7, <2>1, <2>2 DEF IInv, TypeOK
  <2>4. OneEach' /\ Plain' /\ BtfTab'
    BY <1>1, <1>3, <1>4 DEF IInv, OneEach, Plain, BtfTab, Tables
  <2>5. PlxLive'
    <3>1. \A d \in live' : d.ty = "book" /\ d.key # 0
      BY <1>1, <1>3 DEF IInv, PlxLive
    <3>2. \A d, e \in live' : d.ins = e.ins <=> d.key = e.key
      BY <1>1, <1>3 DEF IInv, PlxLive
    <3>3. Len(reqs') > 0
      BY <1>1, <1>2 DEF n
    <3>4. lost' > 0 \/ Len(reqs') > Slots
      BY <1>1, <1>2, <1>9 DEF n
    <3> QED
      BY <3>1, <3>2, <3>3, <3>4 DEF PlxLive
  <2>6. PlxTab'
    BY <1>1, <2>1, <2>2 DEF IInv, PlxTab
  <2>7. Tracks'
    BY <1>0, <1>1, <1>7 DEF IInv, Tracks
  <2> QED
    BY <1>1, <1>7, <2>1, <2>3, <2>4, <2>5, <2>6, <2>7 DEF IInv, Attribution
<1> QED
  BY <1>8, <1>9

-----------------------------------------------------------------------------
(* The theorems *)

\* Every step keeps the invariant.
THEOREM Inductive == IInv /\ [Next]_vars => IInv'
<1> SUFFICES ASSUME IInv, [Next]_vars PROVE IInv'
  OBVIOUS
<1>1. CASE Connect \/ Disconnect
  BY <1>1, ConnStep
<1>2. CASE Rotate
  BY <1>2, RotateStep
<1>3. ASSUME NEW i \in Instruments, Request(i) \/ Joined(i) PROVE IInv'
  BY <1>3, RequestStep, JoinedStep
<1>4. ASSUME NEW i \in Instruments, NEW ty \in {"book", "ticker", "trades"}, NEW k \in Keys,
             Subscribed(i, ty, k)
      PROVE  IInv'
  BY <1>4, SubscribedStep
<1>5. ASSUME NEW r \in DOMAIN reqs, NEW k \in Keys, Confirmed(r, k) PROVE IInv'
  BY <1>5, ConfirmedStep
<1>6. ASSUME NEW c \in live, Snapshot(c) \/ Others(c) \/ Jumbled(c) PROVE IInv'
  BY <1>6, SnapshotStep, OthersStep, JumbledStep
<1>7. ASSUME NEW i \in Instruments, NEW b \in [Levels -> Qty], Change(i, b) PROVE IInv'
  BY <1>7, ChangeStep
<1>8. CASE UNCHANGED vars
  <2>1. UNCHANGED <<prog, conn, reqs, lost, live, known, tab, book, repl, seen, ready, stray>>
    BY <1>8 DEF vars, session
  <2>2. Session'
    BY <2>1, SessionKept
  <2>3. TypeOK' /\ Attribution' /\ Tracks'
    BY <2>1 DEF IInv, TypeOK, Attribution, Tracks, Met
  <2> QED
    BY <2>2, <2>3 DEF IInv, Session
<1> QED
  BY <1>1, <1>2, <1>3, <1>4, <1>5, <1>6, <1>7, <1>8 DEF Next

THEOREM Invariance == Spec => []IInv
BY InitStep, Inductive, PTL DEF Spec

\* The tables and the books keep their types, whatever the exchange sends and
\* however often the snarfer reconnects or rotates its log.
THEOREM Types == Spec => []TypeOK
<1>1. IInv => TypeOK
  BY DEF IInv
<1> QED
  BY <1>1, Invariance, PTL

\* A line is never attributed to another instrument: the tables that outlive
\* connections never answer for an id of an earlier one (events() and subscr()
\* of bitfin2b.c and plx2b.c).  Excepted are connections over which ids of
\* bitfin have met and lines of ok that hold several messages.
THEOREM Attributed == Spec => []Attribution
<1>1. IInv => Attribution
  BY DEF IInv
<1> QED
  BY <1>1, Invariance, PTL

\* The books at home are those of the exchange at every level that the file
\* has told about over the present connection in lines that could be parsed
\* (procln() of all of them), unless ids of bitfin have met over it.
THEOREM Follows == Spec => []Tracks
<1>1. IInv => Tracks
  BY DEF IInv
<1> QED
  BY <1>1, Invariance, PTL
=============================================================================
