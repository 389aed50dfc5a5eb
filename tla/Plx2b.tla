------------------------------- MODULE Plx2b --------------------------------
(***************************************************************************)
(* src/src/plx2b.c: turn a log of poloniex' WAMP stream into the common    *)
(* format.  Requests [32,...] have a number and name the instrument,       *)
(* confirmations [33,...] give a request's subscription id and events      *)
(* [36,...] refer to that.  The tables have an entry per request.          *)
(*                                                                         *)
(* A line is a record: [typ |-> 32, req, ins], [typ |-> 33, req, id] or    *)
(* [typ |-> 36, id, items] with items [typ, lvl, amount], where the amount *)
(* may be None.  The tables are a record t, [subins, subtys, subids].      *)
(***************************************************************************)
EXTENDS Books

CONSTANTS
  Slots,    \* countof(subids), 128
  Room      \* number of items the array of 65536 tokens is good for

\* Mutant of subscr: the entry keeps the id of its former request.
subscrKeeps(t, l) ==
  IF l.req >= Slots THEN t ELSE [t EXCEPT !.subins[l.req] = l.ins]

subscr(t, l) ==
  IF l.req >= Slots THEN t
  ELSE [t EXCEPT !.subids[l.req] = 0, !.subins[l.req] = l.ins]

\* a confirmation nobody has asked for is skipped with a warning
subscd(t, l) ==
  IF l.req >= Slots \/ t.subins[l.req] = None THEN t
  ELSE [t EXCEPT !.subids[l.req] = l.id]

\* One item of an event: an amount that is missing is 0 for a removal, an
\* item without one is skipped otherwise, as are unknown types.
event(i, x) ==
  CASE x.typ = "newTrade" -> Trade(i, x.lvl, x.amount)
    [] x.typ \in {"orderBookModify", "orderBookRemove"} /\ x.amount # None
         -> Quote(i, x.lvl, x.amount)
    [] x.typ = "orderBookRemove" /\ x.amount = None -> Quote(i, x.lvl, 0)
    [] OTHER -> Nothing

\* The entry is the first one with the id of the event.
events(t, l) ==
  LET subix == {k \in 0..Slots - 1 : t.subids[k] = l.id}
      found == CHOOSE k \in subix : \A j \in subix : k <= j
  IN  IF subix = {} THEN <<>>
      ELSE [k \in DOMAIN l.items |-> event(t.subins[found], l.items[k])]

\* A line whose tokens do not fit is skipped, events are the long ones.
procln(t, l) ==
  CASE l.typ = 32 -> [tab |-> subscr(t, l), out |-> <<>>]
    [] l.typ = 33 -> [tab |-> subscd(t, l), out |-> <<>>]
    [] l.typ = 36 /\ Len(l.items) <= Room -> [tab |-> t, out |-> events(t, l)]
    [] OTHER -> [tab |-> t, out |-> <<>>]
=============================================================================
