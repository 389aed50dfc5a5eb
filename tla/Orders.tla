------------------------------- MODULE Orders -------------------------------
(***************************************************************************)
(* The converters that keep nothing between lines, coin2b, btsp2b and      *)
(* btcc2b, between the exchange and the books at home.                     *)
(*                                                                         *)
(* coinbase tells the life of each order: it is received, matched against  *)
(* orders that rest in the book, opened with what is left of it, matched   *)
(* by later ones, and done.  bitstamp tells the levels of its books, btcc  *)
(* the tops of most of its books.  What happens while the snarfer is not   *)
(* connected is not told.  The exchanges are external.                     *)
(***************************************************************************)
EXTENDS Books, Integers, FiniteSetsExt

CONSTANTS
  Programs,     \* the converters to look at
  Known,        \* bitstamp: the instruments btsp2b has a name for
  Room,         \* bitstamp: number of levels of a line that can be parsed
  MaxChanges,   \* bitstamp: bound on the levels that change at a time
  Deep,         \* btcc: the instruments with depth
  Products,     \* coinbase: the instruments
  Ids,          \* coinbase: order ids
  Lots          \* coinbase: sizes of orders

ASSUME OrdersAssumption ==
  /\ Programs \subseteq {"coin", "btsp", "btcc"}
  /\ Known \cup Deep \cup Products \subseteq Instruments
  /\ Prices \subseteq Nat /\ Prices # {} /\ None \notin Nat
  /\ Room \in Nat /\ MaxChanges \in Nat
  /\ IsFiniteSet(Ids) /\ Lots \subseteq Nat \ {0}

VARIABLES
  prog,         \* the converter
  conn,         \* is the snarfer connected?
  ords,         \* coinbase: the orders
  book,         \* bitstamp: the books
  repl,         \* the books at home
  top,          \* the tops and last trades at home
  \* ghosts
  sure,         \* levels to which nothing has happened unnoticed
  told          \* the tops and trades that the exchange has told last

exchange == <<ords, book>>
home == <<repl, top>>
vars == <<prog, conn, exchange, home, sure, told>>

Coin == INSTANCE Coin2b
Btsp == INSTANCE Btsp2b
Btcc == INSTANCE Btcc2b

Unplaced == [st |-> "none", ins |-> None, lvl |-> None, rem |-> 0]
Gone == [Unplaced EXCEPT !.st = "gone"]
Flavours == Sides \cup {"tra"}
NoTops == [i \in Instruments |-> [f \in Flavours |-> None]]

\* The instruments whose output can be told from that of others.
Named == IF prog = "btsp" THEN Known ELSE Instruments

Init ==
  /\ prog \in Programs
  /\ conn = FALSE
  /\ ords = [o \in Ids |-> Unplaced]
  /\ book = [i \in Instruments |-> [l \in Levels |-> 0]]
  /\ repl = book /\ top = NoTops
  /\ sure = [i \in Instruments |-> IF i \in Named THEN Levels ELSE {}]
  /\ told = NoTops

-----------------------------------------------------------------------------
\* The books tools: level 3 lines of coin2b are differences, level 2 lines
\* replace quantities, level 1 lines are tops and level 0 lines trades.  What
\* becomes of the books of btcc's two instruments with depth is left out, it
\* depends on what the exchange means by an incremental refresh.
Take(out) ==
  /\ repl' = CASE prog = "coin" /\ out # <<>> ->
                    [repl EXCEPT ![out[1].ins][out[1].lvl] = @ + out[1].qty]
               [] prog = "btsp" -> Apply(repl, out)
               [] OTHER -> repl
  /\ top' = [i \in Instruments |-> [f \in Flavours |->
       LET hits == {k \in DOMAIN out :
                      out[k].fl \in {"0", "1"} /\ out[k].ins = i /\ out[k].lvl[1] = f}
       IN  IF hits = {} THEN top[i][f] ELSE <<out[Max(hits)].lvl[2], out[Max(hits)].qty>>]]

\* The loop of main(): procln() of the program for the line.
procln(ln) ==
  CASE prog = "coin" -> Coin!procln(ln)
    [] prog = "btsp" -> Btsp!procln(ln)
    [] prog = "btcc" -> Btcc!procln(ln)

\* A line is logged if the snarfer is connected, converted and put into the
\* books.
Log(ln) == IF conn THEN Take(procln(ln)) ELSE UNCHANGED home

Connect ==
  /\ ~conn /\ conn' = TRUE
  /\ UNCHANGED <<prog, exchange, home, sure, told>>

Disconnect ==
  /\ conn /\ conn' = FALSE
  /\ UNCHANGED <<prog, exchange, home, sure, told>>

-----------------------------------------------------------------------------
(* coinbase *)

Line(typ, i, l, size) ==
  [typ |-> typ, ins |-> i, side |-> IF l[1] = "bid" THEN "buy" ELSE "sell",
   price |-> l[2], size |-> size]

\* A line about order o.  Home learns what happens to its level if connected,
\* and if the line is right about the level.
Event(typ, o, size, right) ==
  /\ Log(Line(typ, ords[o].ins, ords[o].lvl, size))
  /\ sure' = IF conn /\ right THEN sure ELSE [sure EXCEPT ![ords[o].ins] = @ \ {ords[o].lvl}]
  /\ UNCHANGED <<prog, conn, book, told>>

Resting(o) == ords[o].st = "open" /\ ords[o].rem > 0
Incoming(o) == ords[o].st = "received"

\* A bid and an ask agree on a price; market orders take any.
Cross(x, y) ==
  /\ ords[x].ins = ords[y].ins /\ ords[x].lvl[1] # ords[y].lvl[1]
  /\ LET b == IF ords[x].lvl[1] = "bid" THEN x ELSE y
         a == IF b = x THEN y ELSE x
     IN  None \notin {ords[b].lvl[2], ords[a].lvl[2]} => ords[b].lvl[2] >= ords[a].lvl[2]

\* Orders are received one at a time.  A market order has no price.
Receive(o, i, l, q) ==
  /\ prog = "coin" /\ ords[o] = Unplaced
  /\ \A x \in Ids : ~Incoming(x)
  /\ ords' = [ords EXCEPT ![o] = [st |-> "received", ins |-> i, lvl |-> l, rem |-> q]]
  /\ Log(Line("received", i, l, q))
  /\ UNCHANGED <<prog, conn, book, sure, told>>

\* The line of a match is about the maker.
Match(t, o, q) ==
  /\ Incoming(t) /\ Resting(o) /\ Cross(t, o)
  /\ q <= ords[t].rem /\ q <= ords[o].rem
  /\ ords' = [ords EXCEPT ![t].rem = @ - q, ![o].rem = @ - q]
  /\ Event("match", o, q, TRUE)

\* What is left of an order goes into the book.
Rest(o) ==
  /\ Incoming(o) /\ ords[o].rem > 0 /\ ords[o].lvl[2] # None
  /\ \A x \in Ids : Resting(x) => ~Cross(o, x)
  /\ ords' = [ords EXCEPT ![o].st = "open"]
  /\ Event("open", o, ords[o].rem, TRUE)

\* An order in the book is filled or cancelled.
Done(o) ==
  /\ ords[o].st = "open"
  /\ ords' = [ords EXCEPT ![o] = Gone]
  /\ Event("done", o, ords[o].rem, TRUE)

\* An order that has never been in the book is done: it is filled, or it is
\* cancelled, e.g. because it was to be matched at once or not at all.  For
\* market orders there is no remaining size.
Kill(o) ==
  /\ Incoming(o)
  /\ ords' = [ords EXCEPT ![o] = Gone]
  /\ Event("done", o, IF ords[o].lvl[2] = None THEN None ELSE ords[o].rem, ords[o].rem = 0)

\* The size of an order is changed.
Resize(o, q) ==
  /\ Incoming(o) \/ ords[o].st = "open"
  /\ q < ords[o].rem
  /\ ords' = [ords EXCEPT ![o].rem = q]
  /\ Event("change", o, None, Incoming(o))

-----------------------------------------------------------------------------
(* bitstamp *)

\* The levels in L on side s one after another, best first.
Sorted(L, s, b) ==
  LET px == {l[2] : l \in {k \in L : k[1] = s}}
      rank(p) == Cardinality({r \in px : IF s = "bid" THEN r >= p ELSE r <= p})
  IN  [k \in 1..Cardinality(px) |->
         LET p == CHOOSE r \in px : rank(r) = k IN [price |-> p, qty |-> b[<<s, p>>]]]

Channel(chan, i, L, b) ==
  [chan |-> chan, ins |-> i, bids |-> Sorted(L, "bid", b), asks |-> Sorted(L, "ask", b)]

\* Has btsp2b room for the line?
Parsed(ln) == Len(ln.bids) + Len(ln.asks) <= Room

\* Quantities of an instrument change, a few at a time; those of
\* instruments without a name a side at once, to keep the number of books low.
Diff(i, b) ==
  LET L == {l \in Levels : b[l] # book[i][l]}
      ln == Channel("diff_order_book", i, L, b)
  IN  /\ prog = "btsp" /\ L # {}
      /\ IF i \in Named THEN Cardinality(L) <= MaxChanges
         ELSE \E s \in Sides : L = {l \in Levels : l[1] = s}
      /\ book' = [book EXCEPT ![i] = b]
      /\ Log(ln)
      /\ sure' = [sure EXCEPT ![i] = IF conn /\ i \in Named /\ Parsed(ln) THEN @ \cup L ELSE @ \ L]
      /\ UNCHANGED <<prog, conn, ords, told>>

\* The best levels of the book, of which the first tell the tops.
Snapshot(i) ==
  LET L == {l \in Levels : book[i][l] > 0}
      ln == Channel("order_book", i, L, book[i])
      best == [s \in Sides |-> IF s = "bid" THEN ln.bids ELSE ln.asks]
      filled == {s \in Sides : best[s] # <<>>}
      tops == {<<s, best[s][1].price>> : s \in filled}
  IN  /\ prog = "btsp" /\ conn
      /\ Log(ln)
      /\ IF i \in Named /\ Parsed(ln)
         THEN /\ sure' = [sure EXCEPT ![i] = @ \cup (L \ tops)]
              /\ told' = [told EXCEPT ![i] = [f \in Flavours |->
                   IF f \in filled THEN <<best[f][1].price, best[f][1].qty>> ELSE @[f]]]
         ELSE UNCHANGED <<sure, told>>
      /\ UNCHANGED <<prog, conn, exchange>>

\* Trades, orders, and what the exchange says of itself.
Aside(i) ==
  /\ prog = "btsp" /\ conn
  /\ \E chan \in {"live_trades", "live_orders", "?"} :
       Log(Channel(chan, i, Levels, [l \in Levels |-> 1]))
  /\ UNCHANGED <<prog, conn, exchange, sure, told>>

-----------------------------------------------------------------------------
(* btcc, each line being one message *)

\* Of prices there is but one, the quantities tell entries apart.
Entries ==
  [ety : {"0", "1", "2", "4"}, ins : Instruments,
   price : {None, CHOOSE p \in Prices : TRUE}, qty : {None, MaxQty}]
Ety == [bid |-> "0", ask |-> "1", tra |-> "2"]

\* The entries of line ln, each about the instrument ins[k].
Told(ln, ins) ==
  /\ prog = "btcc" /\ conn
  /\ Log(ln)
  /\ told' = [i \in Instruments |-> [f \in Flavours |->
       LET hits == {k \in DOMAIN ins :
                      /\ ins[k] = i /\ (i \in Deep => f = "tra")
                      /\ ln.entries[k].ety = Ety[f] /\ ln.entries[k].price # None}
       IN  IF hits = {} THEN told[i][f]
           ELSE <<ln.entries[Max(hits)].price, ln.entries[Max(hits)].qty>>]]
  /\ UNCHANGED <<prog, conn, exchange, sure>>

\* A full refresh names its instrument once.
Refresh(i, e1, e2) ==
  Told([typ |-> "W", ins |-> i,
        entries |-> <<[e1 EXCEPT !.ins = None], [e2 EXCEPT !.ins = None]>>], <<i, i>>)

\* The entries of an incremental refresh name theirs.
Increment(e1, e2) ==
  Told([typ |-> "X", ins |-> None, entries |-> <<e1, e2>>], <<e1.ins, e2.ins>>)

\* logon, logout, heartbeat
SessionMessage ==
  /\ prog = "btcc" /\ conn
  /\ Log([typ |-> "0", ins |-> None, entries |-> <<>>])
  /\ UNCHANGED <<prog, conn, exchange, sure, told>>

-----------------------------------------------------------------------------
Coinbase ==
  \/ \E o \in Ids, i \in Products, l \in Sides \X (Prices \cup {None}), q \in Lots : Receive(o, i, l, q)
  \/ \E t \in Ids, o \in Ids, q \in Lots : Match(t, o, q)
  \/ \E o \in Ids : Rest(o) \/ Done(o) \/ Kill(o) \/ \E q \in Lots : Resize(o, q)

Bitstamp ==
  \/ \E i \in Instruments, b \in [Levels -> Qty] : Diff(i, b)
  \/ \E i \in Instruments : Snapshot(i) \/ Aside(i)

Bitcoinchina ==
  \/ \E e1, e2 \in Entries : e1.ins = e2.ins /\ Refresh(e1.ins, e1, e2)
  \/ \E e1, e2 \in Entries : Increment(e1, e2)
  \/ SessionMessage

Next == Connect \/ Disconnect \/ Coinbase \/ Bitstamp \/ Bitcoinchina

Spec == Init /\ [][Next]_vars

-----------------------------------------------------------------------------
(* What the books at home can be relied on for *)

\* What order x adds to a level of coinbase's book.
Share(x, i, l) == IF x.st = "open" /\ x.ins = i /\ x.lvl = l THEN x.rem ELSE 0

\* The quantity at a level of the exchange's book, lot by lot.
Depth(i, l) ==
  IF prog = "coin" THEN Cardinality(UNION {{o} \X (1 .. Share(ords[o], i, l)) : o \in Ids})
  ELSE book[i][l]

\* The variables have their types.  Tops and trades have a price of the
\* exchange's: entries without one are skipped (btcc2b.c:221).
TypeOK ==
  /\ prog \in Programs /\ conn \in BOOLEAN
  /\ \A o \in Ids :
       \/ ords[o] \in {Unplaced, Gone}
       \/ /\ ords[o].st \in {"received", "open"} /\ ords[o].ins \in Instruments
          /\ ords[o].lvl \in Sides \X (Prices \cup {None}) /\ ords[o].rem \in Nat
  /\ book \in [Instruments -> [Levels -> Qty]]
  /\ \A i \in Instruments, l \in Levels : repl[i][l] \in Int
  /\ \A x \in {top, told} : \A i \in Instruments, f \in Flavours :
       x[i][f] = None \/ x[i][f] \in Prices \X (Qty \cup {None})
  /\ sure \in [Instruments -> SUBSET Levels]

\* The depth at home is the exchange's, at every level but those at which it
\* has changed unnoticed: while nobody was connected; for coin2b at levels of
\* orders that have been changed, or done without having been open; for btsp2b
\* at levels that have since been told as tops only, or in a line too long to
\* be parsed, and at those of instruments it has no name for (coin2b.c:184,
\* btsp2b.c:220).
DepthFollows ==
  \A i \in Instruments : \A l \in sure[i] : repl[i][l] = Depth(i, l)

\* The tops and trades at home are the ones that the exchange has told last:
\* of the right side and of the right instrument, though most entries come in
\* lists, with instruments of their own or without (route_quote() of btcc2b.c,
\* procln() of btsp2b.c).
TopsFollow ==
  \A i \in Instruments : top[i] = told[i]
=============================================================================
