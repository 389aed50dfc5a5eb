-------------------------------- MODULE Feed --------------------------------
(***************************************************************************)
(* From an exchange's order books to the books at home: the exchange sends *)
(* whole books and changes, a snarfer logs them for as long as it is       *)
(* connected, one of the *2b programs reads the log and prints the common  *)
(* format, from which the books tools build books again.                   *)
(*                                                                         *)
(* The programs work offline but take one line after another and never     *)
(* look ahead, so that they may as well be thought of as reading each line *)
(* the moment it is logged.  A log has several connections in it, each     *)
(* with channel numbers of its own; what happens between two of them is    *)
(* lost.  The snarfer rotates its log, and whoever converts the new file   *)
(* starts with empty tables in the midst of a connection.                  *)
(***************************************************************************)
EXTENDS Books

CONSTANTS
  Programs,     \* the converters to look at
  Slots,        \* number of entries of their tables
  MaxKey,       \* bound on the channel and subscription ids of an exchange
  MaxReq,       \* plx: bound on the requests over a connection
  MaxLive,      \* bitfin: bound on the channels of a connection
  Room,         \* number of items of a line that can be parsed
  MaxEntries    \* bound on the entries of a read of several messages

ASSUME FeedAssumption ==
  /\ Programs \subseteq {"bitfin", "plx", "hit", "trt", "ok", "cex"}
  /\ Slots \in Nat \ {0} /\ MaxKey \in Nat /\ MaxReq \in Nat /\ MaxLive \in Nat
  /\ Room \in Nat \ {0} /\ MaxEntries \in Nat

VARIABLES
  prog,         \* the converter
  book,         \* the exchange's books
  conn,         \* is the snarfer connected?
  reqs,         \* plx: the instruments requested over this connection
  lost,         \* plx: how many of the requests are in earlier files
  live,         \* channels of this connection
  known,        \* those of them whose confirmation is in this file
  ready,        \* instruments whose changes are being sent
  tab,          \* the converter's tables
  stray,        \* what it has printed for the latest line that that line is
                \* not about, instruments and flavours (ghost)
  repl,         \* the books at home
  seen          \* levels that the file tells the quantities of (ghost)

session == <<conn, reqs, lost, live, known, ready>>
vars == <<prog, book, session, tab, stray, repl, seen>>

Btf == INSTANCE Bitfin2b
Plx == INSTANCE Plx2b
Ref == INSTANCE Refresh2b

Keys == 0..MaxKey
Channel(i, ty, k) == [ins |-> i, ty |-> ty, key |-> k]
Channels == [ins : Instruments, ty : {"book", "ticker", "trades"}, key : Keys]

\* The programs that keep tables, and those that are told to clear a book.
Tables == {"bitfin", "plx"}
Clearing == {"hit", "trt", "ok"}

\* Has the program room for a line of n items?
Parsed(n) == prog \in {"hit", "trt", "cex", "plx"} => n <= Room

\* static variables are zero
NoTab == [subins |-> [k \in 0..Slots - 1 |-> None],
          subtys |-> [k \in 0..Slots - 1 |-> "UNK"],
          subids |-> [k \in 0..Slots - 1 |-> 0]]
Unseen == [i \in Instruments |-> {}]

Init ==
  /\ prog \in Programs
  /\ book = [i \in Instruments |-> [l \in Levels |-> 0]]
  /\ conn = FALSE /\ reqs = <<>> /\ lost = 0
  /\ live = {} /\ known = {} /\ ready = {}
  /\ tab = NoTab /\ stray = {}
  /\ repl = book /\ seen = Unseen

\* The loop of main(): procln() of the program for the line.
procln(ln) ==
  CASE prog = "bitfin" -> Btf!procln(tab, ln)
    [] prog = "plx" -> Plx!procln(tab, ln)
    [] prog = "hit" -> [tab |-> tab, out |-> Ref!hit_procln(ln)]
    [] prog = "trt" -> [tab |-> tab, out |-> Ref!trt_procln(ln)]
    [] prog = "ok" -> [tab |-> tab, out |-> Ref!ok_procln(ln)]
    [] prog = "cex" -> [tab |-> tab, out |-> Ref!cex_procln(ln)]

\* A line about instrument i, None if about several, is logged, converted and put into the books.
Log(i, ln) ==
  LET r == procln(ln)
  IN  /\ tab' = r.tab
      /\ stray' = {<<x.ins, x.fl>> : x \in {y \in {r.out[k] : k \in DOMAIN r.out} \ {Nothing} :
                                             i # None /\ (y.ins # i \/ y.fl = "?")}}
      /\ repl' = Apply(repl, r.out)

Quiet == stray' = {} /\ UNCHANGED <<tab, repl>>

Connect ==
  /\ ~conn /\ conn' = TRUE
  /\ reqs' = <<>> /\ lost' = 0 /\ live' = {} /\ known' = {} /\ ready' = {}
  /\ seen' = Unseen
  /\ Quiet /\ UNCHANGED <<prog, book>>

Disconnect ==
  /\ conn /\ conn' = FALSE
  /\ reqs' = <<>> /\ lost' = 0 /\ live' = {} /\ known' = {} /\ ready' = {}
  /\ seen' = Unseen
  /\ Quiet /\ UNCHANGED <<prog, book>>

\* The log is rotated, the converter is run on the new file.
Rotate ==
  /\ tab # NoTab
  /\ tab' = NoTab /\ known' = {} /\ lost' = Len(reqs) /\ seen' = Unseen
  /\ stray' = {}
  /\ UNCHANGED <<prog, book, conn, reqs, live, ready, repl>>

\* plx: the snarfer asks for instrument i, its requests are numbered from 0.
\* Instruments are arguments of the program, they may be given twice.
Request(i) ==
  /\ prog = "plx" /\ conn
  /\ Len(reqs) < MaxReq
  /\ reqs' = Append(reqs, i)
  /\ Log(i, [typ |-> 32, req |-> Len(reqs), ins |-> i])
  /\ UNCHANGED <<prog, book, conn, lost, live, known, ready, seen>>

\* bitfin: the exchange confirms a subscription and gives its channel an id
\* that no other channel has.  Ids may still meet in the tables.
Subscribed(i, ty, k) ==
  /\ prog = "bitfin" /\ conn /\ Cardinality(live) < MaxLive
  /\ \A c \in live : <<c.ins, c.ty>> # <<i, ty>> /\ c.key # k
  /\ live' = live \cup {Channel(i, ty, k)}
  /\ known' = known \cup {Channel(i, ty, k)}
  /\ Log(i, [typ |-> "subscribed", channel |-> ty, id |-> k, ins |-> i])
  /\ UNCHANGED <<prog, book, conn, reqs, lost, ready, seen>>

\* plx: the exchange confirms the r-th request.  Subscriptions to the same
\* instrument share an id.  From here on changes are sent.
Confirmed(r, k) ==
  LET c == Channel(reqs[r], "book", k)
  IN  /\ prog = "plx" /\ conn
      /\ r \in DOMAIN reqs /\ k # 0
      /\ \A d \in live : d.ins = reqs[r] <=> d.key = k
      /\ live' = live \cup {c}
      /\ known' = IF r > lost /\ r <= Slots THEN known \cup {c} ELSE known
      /\ ready' = ready \cup {reqs[r]}
      /\ Log(reqs[r], [typ |-> 33, req |-> r - 1, id |-> k])
      /\ UNCHANGED <<prog, book, conn, reqs, lost, seen>>

\* The others name the instrument in every line.
Joined(i) ==
  /\ prog \notin Tables /\ conn
  /\ Channel(i, "book", 0) \notin live
  /\ live' = live \cup {Channel(i, "book", 0)}
  /\ known' = known \cup {Channel(i, "book", 0)}
  /\ Quiet /\ UNCHANGED <<prog, book, conn, reqs, lost, ready, seen>>

\* The levels in L one after another, with their quantities in b, in any order.
Listed(L, b) ==
  {[k \in DOMAIN s |-> [lvl |-> s[k], qty |-> b[s[k]]]] :
     s \in {x \in [1..Cardinality(L) -> L] : \A l \in L : \E k \in DOMAIN x : x[k] = l}}

\* An entry of a FIX message.
Entry(l, q) == [ety |-> IF l[1] = "bid" THEN "0" ELSE "1", lvl |-> l, qty |-> q]

Of(L, sd) == {l \in L : l[1] = sd}

\* The lines that tell the quantities in b at the levels in L, as the whole
\* book if full.
Lines(c, L, b, full) ==
  CASE prog = "bitfin" ->
         {[typ |-> "book", id |-> c.key,
           levels |-> [k \in DOMAIN s |->
             IF s[k].qty = 0 THEN [lvl |-> s[k].lvl, cnt |-> 0, qty |-> 1]
             ELSE [lvl |-> s[k].lvl, cnt |-> MaxQty + 1, qty |-> s[k].qty]]] :
          s \in Listed(L, b)}
    [] prog = "plx" ->
         {[typ |-> 36, id |-> c.key,
           items |-> [k \in DOMAIN s |->
             IF s[k].qty = 0 THEN [typ |-> "orderBookRemove", lvl |-> s[k].lvl, amount |-> None]
             ELSE [typ |-> "orderBookModify", lvl |-> s[k].lvl, amount |-> s[k].qty]]] :
          s \in Listed(L, b)}
    [] prog = "hit" ->
         {[typ |-> IF full THEN "full" ELSE "incr", ins |-> c.ins, levels |-> s, trades |-> <<>>] :
          s \in Listed(L, b)}
    [] prog = "trt" /\ ~full ->
         {[typ |-> "orderbook_diff", ins |-> c.ins, lvl |-> l, qty |-> b[l]] : l \in L}
    [] prog = "ok" ->
         {[typ |-> IF full THEN "W" ELSE "X", ins |-> c.ins,
           entries |-> [k \in DOMAIN s |-> Entry(s[k].lvl, s[k].qty)]] :
          s \in Listed(L, b)}
    [] OTHER ->
         {[typ |-> IF prog = "cex" THEN "data" ELSE "orderbook", ins |-> c.ins, bids |-> bids, asks |-> asks] :
          bids \in Listed(Of(L, "bid"), b), asks \in Listed(Of(L, "ask"), b)}

\* The exchange sends the whole book: all levels there are.
Snapshot(c) ==
  /\ c \in live /\ c.ty = "book" /\ prog # "plx"
  /\ c.ins \in ready => prog \in Clearing
  /\ ready' = ready \cup {c.ins}
  /\ LET L == {l \in Levels : book[c.ins][l] > 0}
     IN  /\ \E ln \in Lines(c, L, book[c.ins], TRUE) : Log(c.ins, ln)
         /\ seen' = IF c \notin known \/ ~Parsed(Cardinality(L)) THEN seen
                    ELSE [seen EXCEPT ![c.ins] = IF prog \in Clearing THEN Levels ELSE L]
  /\ UNCHANGED <<prog, book, conn, reqs, lost, live, known>>

\* Quantities of an instrument change, and the exchange says so to those who
\* are connected and have its book.  Some send a line per level.
Change(i, b) ==
  LET L == {l \in Levels : b[l] # book[i][l]}
      told == {c \in live : c.ins = i /\ c.ty = "book" /\ i \in ready}
  IN  /\ L # {} /\ (prog \in {"bitfin", "trt"} => Cardinality(L) = 1)
      /\ book' = [book EXCEPT ![i] = b]
      /\ IF told = {} THEN Quiet
         ELSE \E c \in told : \E ln \in Lines(c, L, b, FALSE) : Log(i, ln)
      /\ seen' = IF told \cap known = {} \/ ~Parsed(Cardinality(L)) THEN [seen EXCEPT ![i] = @ \ L]
                 ELSE [seen EXCEPT ![i] = @ \cup L]
      /\ UNCHANGED <<prog, session>>

\* The other things that come over a channel: trades, tickers, heartbeats.
OtherLines(c, l, q) ==
  CASE prog = "bitfin" ->
         {[typ |-> "hb", id |-> c.key]} \cup
         (IF c.ty = "ticker"
          THEN {[typ |-> "ticker", id |-> c.key, bid |-> l, bsz |-> q, ask |-> l, asz |-> q]} ELSE {}) \cup
         (IF c.ty = "trades" THEN {[typ |-> t, id |-> c.key, lvl |-> l, qty |-> q] : t \in {"te", "tu"}} ELSE {})
    [] prog = "plx" ->
         {[typ |-> 36, id |-> c.key, items |-> <<[typ |-> t, lvl |-> l, amount |-> q]>>] : t \in {"newTrade", "?"}}
    [] prog = "hit" ->
         {[typ |-> "incr", ins |-> c.ins, levels |-> <<>>, trades |-> <<[lvl |-> l, qty |-> q]>>]}
    [] prog = "ok" ->
         {[typ |-> "X", ins |-> c.ins, entries |-> <<[ety |-> "2", lvl |-> l, qty |-> q]>>]}
    [] OTHER -> {[typ |-> "?", ins |-> c.ins]}

Others(c) ==
  /\ c \in live
  /\ \E l \in Levels, q \in Qty \ {0} : \E ln \in OtherLines(c, l, q) : Log(c.ins, ln)
  /\ UNCHANGED <<prog, book, session, seen>>

\* What a read may have for entries, one that is not for quotes or has no price included.
Entries == {Entry(l, q) : l \in Levels, q \in Qty} \cup {[ety |-> "2", lvl |-> None, qty |-> 0]}

\* ok: okfix.c writes a line per read, not per message.  The line of a read
\* of several messages begins with the first one's type and instrument and
\* has the entries of all of them, that of a read that ends within a message
\* may end in an entry cut short, and the read after that begins with no type.
\* Which entries are left, and what they look like, is anybody's guess.
Jumbled(c) ==
  /\ prog = "ok" /\ c \in live
  /\ book' \in [Instruments -> [Levels -> Qty]]
  /\ \A i \in Instruments : Channel(i, "book", 0) \notin live => book'[i] = book[i]
  /\ \E R \in SUBSET ({d.ins : d \in live} \ ready) : ready' = ready \cup R
  /\ \E ty \in {"W", "X"}, n \in 1..MaxEntries :
       \E es \in [1..n -> Entries] :
         Log(None, [typ |-> ty, ins |-> c.ins, entries |-> es])
  /\ seen' = [i \in Instruments |->
                IF i = c.ins THEN {} ELSE {l \in seen[i] : book'[i][l] = book[i][l]}]
  /\ UNCHANGED <<prog, conn, reqs, lost, live, known>>

Next ==
  \/ Connect \/ Disconnect \/ Rotate
  \/ \E i \in Instruments : Request(i) \/ Joined(i)
  \/ \E i \in Instruments, ty \in {"book", "ticker", "trades"}, k \in Keys : Subscribed(i, ty, k)
  \/ \E r \in DOMAIN reqs, k \in Keys : Confirmed(r, k)
  \/ \E c \in live : Snapshot(c) \/ Others(c) \/ Jumbled(c)
  \/ \E i \in Instruments, b \in [Levels -> Qty] : Change(i, b)

Spec == Init /\ [][Next]_vars

-----------------------------------------------------------------------------
(* What the books at home can be relied on for *)

\* bitfin: two channels of the connection share an entry of the tables, so
\* that one of them is taken for the other for as long as it lasts.
Met ==
  /\ prog = "bitfin"
  /\ \E c, d \in live : c # d /\ c.key % Slots = d.key % Slots

\* The tables and the books have their types: no entry beyond the tables, no
\* instrument or quantity that the exchange does not have (procln(), subscr()).
TypeOK ==
  /\ prog \in Programs
  /\ book \in [Instruments -> [Levels -> Qty]]
  /\ repl \in [Instruments -> [Levels -> Qty]]
  /\ conn \in BOOLEAN /\ lost \in 0..Len(reqs)
  /\ known \subseteq live /\ live \subseteq Channels
  /\ ready \subseteq Instruments
  /\ tab.subins \in [0..Slots - 1 -> Instruments \cup {None}]
  /\ tab.subtys \in [0..Slots - 1 -> {"UNK", "BOK", "TOP", "TRA"}]
  /\ tab.subids \in [0..Slots - 1 -> Keys]
  /\ seen \in [Instruments -> SUBSET Levels]

\* Whatever is printed is about the instrument that the line is about, though
\* ids are reused by later connections and the tables are never emptied
\* (events() and subscr() of bitfin2b.c and plx2b.c).  That does not hold
\* where ids of one connection meet (chid_t of bitfin2b.c), nor of a read of
\* several messages (route_quote() of ok2b.c).
Attribution == ~Met => stray = {}

\* At the levels that the file has told about since the connection was made
\* the books at home are those of the exchange; after a full refresh that
\* clears the book these are all levels (clr0 of hit2b.c, trt2b.c, ok2b.c).
\* A line too long to be parsed tells nothing, a jumbled one spoils its book
\* until the next full refresh, and channels that meet spoil all of them
\* until the connection ends.
Tracks ==
  ~Met => \A i \in Instruments : \A l \in seen[i] : repl[i][l] = book[i][l]
=============================================================================
