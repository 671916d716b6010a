------------------------- MODULE QueueRoutingProofs -------------------------
(***************************************************************************)
(* Proofs about QueueRouting, for any queues and any lists they may be      *)
(* configured with, any hours and holidays and any number of changes: a     *)
(* call is handed over to someone who is listed, and leaves a queue only    *)
(* when it is closed.                                                       *)
(***************************************************************************)
EXTENDS QueueRouting, FiniteSetTheorems, TLAPS

-----------------------------------------------------------------------------
(* The inductive invariant.                                                 *)

IsRouting(r) == r = [to |-> r.to, priority |-> r.priority]

\* The rows of a queue are those of the list it was configured with last, and
\* for each destination that was on an earlier one a row that is not dialed.
RowsOfList(rs, list) ==
    /\ IsFiniteSet(rs)
    /\ \A r \in rs : IsRouting(r)
    /\ list \subseteq rs
    /\ \A r \in rs \ list : r.priority = -1
    /\ \A r, s \in rs : SameRouting(r, s) => r = s
    /\ list = {} => rs = {}

LookupShape(l) ==
    /\ l = [pc |-> l.pc, asked |-> l.asked, at |-> l.at, moved |-> l.moved,
            routing |-> l.routing, mode |-> l.mode]
    /\ l.pc \in {"none", "look", "missing", "decided"}
    /\ l.pc # "none" => l.asked \in Queues /\ l.at \in Queues
    /\ l.moved \in BOOLEAN
    /\ l.mode \in Modes

\* The rows, whatever lookups go on.
RowsInv ==
    /\ listing \in [Queues -> UNION {Listings[q] : q \in Queues}]
    /\ \A q \in Queues : listing[q] \in Listings[q]
    /\ DOMAIN routings = Queues
    /\ \A q \in Queues : RowsOfList(routings[q], listing[q])
    /\ hours \in [Queues -> SUBSET Spans]
    /\ holiday \in [Queues -> Holidays \cup {NoHoliday}]
    /\ emergency \subseteq Queues
    /\ now \in Times
    /\ LookupShape(lookup)

\* What a lookup goes by, as long as nothing has changed since it began: it has
\* left the queue it was asked for, asked, only for an open one.
Underway(asked, at) ==
    at # asked => ~system /\ Mode(asked) = "closed" /\ Mode(at) = "normal"

\* What it was decided by.
Settled(asked, at, routing, mode) ==
    /\ mode = "normal" => routing \in listing[at] /\ ~IsQueueTransfer(routing)
    /\ mode # "emergency" =>
         /\ at # asked => mode = "normal"
         /\ mode = "closed" => \A r \in listing[asked] : IsQueueTransfer(r) => Mode(r.to) # "normal"

\* The lookup, as long as nothing changes under it.
LookupInv ==
    ~lookup.moved =>
        /\ lookup.pc \in {"look", "decided"} =>
             \A asked, at \in Queues : lookup.asked = asked /\ lookup.at = at => Underway(asked, at)
        /\ lookup.pc = "decided" =>
             \A asked, at \in Queues : lookup.asked = asked /\ lookup.at = at =>
                 Settled(asked, at, lookup.routing, lookup.mode)

-----------------------------------------------------------------------------
(* The rows of a queue after an update.                                     *)

Unlisted(r) == [r EXCEPT !.priority = -1]

LEMMA UnlistedDoes ==
    ASSUME NEW r, IsRouting(r)
    PROVE  /\ IsRouting(Unlisted(r)) /\ Unlisted(r).to = r.to /\ Unlisted(r).priority = -1
<1> DEFINE to == r.to
           priority == r.priority
<1>1. r = [to |-> to, priority |-> priority]
  BY DEF IsRouting
<1> HIDE DEF to, priority
<1>2. Unlisted(r) = [to |-> to, priority |-> -1]
  BY <1>1 DEF Unlisted
<1>3. r.to = to
  BY <1>1
<1> QED BY <1>2, <1>3 DEF IsRouting

LEMMA UpdatedDoes ==
    ASSUME NEW old, NEW before, RowsOfList(old, before),
           NEW q \in Queues, NEW list \in Listings[q], list # {}
    PROVE  RowsOfList(Updated(old, list), list)
<1> DEFINE gone == {o \in old : \A s \in list : ~SameRouting(o, s)}
           off  == {Unlisted(r) : r \in gone}
<1>1. Updated(old, list) = list \cup off
  BY DEF Updated, Unlisted
<1>2. /\ IsFiniteSet(list)
      /\ \A r \in list : IsRouting(r) /\ r.priority \in Nat
      /\ \A r, s \in list : SameRouting(r, s) => r = s
  BY ListingsAssumption DEF IsRouting
<1>3. \A r \in gone : IsRouting(Unlisted(r)) /\ Unlisted(r).to = r.to /\ Unlisted(r).priority = -1
  BY UnlistedDoes DEF RowsOfList
<1>4. IsFiniteSet(off)
  <2> DEFINE f == [r \in gone |-> Unlisted(r)]
  <2>1. IsFiniteSet(gone)
    BY FS_Subset DEF RowsOfList
  <2>2. f \in Surjection(gone, off)
    BY DEF Surjection
  <2> QED BY <2>1, <2>2, FS_Surjection
<1>5. IsFiniteSet(list \cup off)
  BY <1>2, <1>4, FS_Union
<1>6. \A r \in off : IsRouting(r) /\ r.priority = -1
  BY <1>3
<1>7. \A r, s \in list \cup off : SameRouting(r, s) => r = s
  <2> SUFFICES ASSUME NEW r \in list \cup off, NEW s \in list \cup off, r.to = s.to PROVE r = s
    BY DEF SameRouting
  <2>1. CASE r \in list /\ s \in list
    BY <1>2, <2>1 DEF SameRouting
  <2>2. ASSUME NEW a \in off, NEW b \in list PROVE a.to # b.to
    <3>1. PICK o \in gone : a = Unlisted(o)
      OBVIOUS
    <3>2. a.to = o.to
      BY <1>3, <3>1
    <3> QED BY <3>2 DEF SameRouting
  <2>3. CASE r \in off /\ s \in off
    <3>1. PICK o \in gone : r = Unlisted(o)
      BY <2>3
    <3>2. PICK p \in gone : s = Unlisted(p)
      BY <2>3
    <3>3. o.to = p.to
      BY <1>3, <3>1, <3>2
    <3>4. o = p
      BY <3>3 DEF RowsOfList, SameRouting
    <3> QED BY <3>1, <3>2, <3>4
  <2> QED BY <2>1, <2>2, <2>3
<1> HIDE DEF off
<1>8. list \subseteq list \cup off /\ \A r \in (list \cup off) \ list : r.priority = -1
  BY <1>6
<1> QED BY <1>1, <1>2, <1>5, <1>6, <1>7, <1>8 DEF RowsOfList

\* A list as it was entered stands for its rows.
LEMMA ListIsRows ==
    ASSUME NEW q \in Queues, NEW list \in Listings[q]
    PROVE  RowsOfList(list, list)
BY ListingsAssumption DEF RowsOfList, IsRouting

-----------------------------------------------------------------------------
(* Whom the lookup of a queue comes to.                                     *)

\* Of a list, nobody is before everyone who can be dialed.
LEMMA ForemostIsDialed ==
    ASSUME NEW q \in Queues, NEW list \in Listings[q], NEW r \in Foremost(list)
    PROVE  r \in list /\ ~IsQueueTransfer(r)
<1>1. r \in list /\ \A s \in list : r.priority <= s.priority
  BY DEF Foremost
<1>2. PICK first \in list :
         ~IsQueueTransfer(first) /\ \A s \in list : IsQueueTransfer(s) => first.priority < s.priority
  BY <1>1, ListingsAssumption
<1>3. r.priority \in Nat /\ first.priority \in Nat
  BY <1>1, ListingsAssumption
<1>4. r.priority <= first.priority
  BY <1>1
<1>5. IsQueueTransfer(r) => first.priority < r.priority
  BY <1>1, <1>2
<1> QED BY <1>1, <1>3, <1>4, <1>5

\* The only row there is, or the first one that is not taken off, is one of the
\* list and is dialed.
LEMMA WeightedIsDialed ==
    ASSUME RowsInv, NEW q \in Queues, NEW r \in Weighted(q)
    PROVE  r \in listing[q] /\ ~IsQueueTransfer(r)
<1> DEFINE rs == routings[q]
           list == listing[q]
<1>1. RowsOfList(rs, list) /\ list \in Listings[q]
  BY DEF RowsInv
<1>2. \A s \in list : s.priority \in Nat
  BY <1>1, ListingsAssumption
<1>3. CASE Cardinality(rs) = 1
  <2>1. PICK x : rs = {x}
    BY <1>1, <1>3, FS_Singleton DEF RowsOfList
  <2>2. list = {x}
    BY <1>1, <2>1 DEF RowsOfList
  <2>3. r = x
    BY <1>3, <2>1 DEF Weighted
  <2>4. \E first \in list : ~IsQueueTransfer(first)
    BY <1>1, <2>2, ListingsAssumption
  <2> QED BY <2>2, <2>3, <2>4
<1>4. CASE Cardinality(rs) # 1
  <2>1. r \in Foremost({s \in rs : s.priority >= 0})
    BY <1>4 DEF Weighted
  <2>2. {s \in rs : s.priority >= 0} = list
    <3>1. \A s \in list : s \in rs /\ s.priority >= 0
      BY <1>1, <1>2 DEF RowsOfList
    <3>2. \A s \in rs \ list : ~(s.priority >= 0)
      BY <1>1 DEF RowsOfList
    <3> QED BY <3>1, <3>2
  <2> QED BY <1>1, <2>1, <2>2, ForemostIsDialed
<1> QED BY <1>3, <1>4

-----------------------------------------------------------------------------
(* The invariant of the rows.                                               *)

LEMMA ModeIsMode ==
    ASSUME NEW q
    PROVE  Mode(q) \in Modes
BY DEF Mode, Modes

LEMMA LookupMoved ==
    ASSUME LookupShape(lookup), lookup' = [lookup EXCEPT !.moved = TRUE]
    PROVE  LookupShape(lookup') /\ lookup'.moved
<1> DEFINE l == [pc |-> lookup.pc, asked |-> lookup.asked, at |-> lookup.at, moved |-> TRUE,
                 routing |-> lookup.routing, mode |-> lookup.mode]
<1>1. lookup' = l
  BY DEF LookupShape
<1>2. LookupShape(l) /\ l.moved
  BY DEF LookupShape
<1> QED BY <1>1, <1>2

\* A change to the rows, or the clock, moves the lookup and keeps the rows what
\* they are.
LEMMA ChangeTyped ==
    ASSUME RowsInv,
           \/ Tick
           \/ \E q \in Queues :
                \/ \E s \in Spans : AddHours(q, s)
                \/ \E h \in Holidays : AddHoliday(q, h)
                \/ SwitchEmergency(q)
                \/ \E list \in Listings[q] \ {{}} : UpdateRoutings(q, list)
    PROVE  RowsInv' /\ lookup'.moved
<1>1. LookupShape(lookup) /\ now \in Nat
  BY DEF RowsInv, Times
<1>2. CASE Tick
  <2>1. LookupShape(lookup') /\ lookup'.moved
    BY <1>1, <1>2, LookupMoved DEF Tick
  <2>2. now' \in Times
    BY <1>2, NightAssumption DEF Tick, RowsInv, Times
  <2> QED BY <1>2, <2>1, <2>2 DEF Tick, RowsInv
<1>3. ASSUME NEW q \in Queues, NEW s \in Spans, AddHours(q, s) PROVE RowsInv' /\ lookup'.moved
  <2>1. LookupShape(lookup') /\ lookup'.moved
    BY <1>1, <1>3, LookupMoved DEF AddHours, Changed
  <2>2. hours' \in [Queues -> SUBSET Spans]
    BY <1>3 DEF AddHours, RowsInv
  <2> QED BY <1>3, <2>1, <2>2 DEF AddHours, RowsInv
<1>4. ASSUME NEW q \in Queues, NEW h \in Holidays, AddHoliday(q, h) PROVE RowsInv' /\ lookup'.moved
  <2>1. LookupShape(lookup') /\ lookup'.moved
    BY <1>1, <1>4, LookupMoved DEF AddHoliday, Changed
  <2>2. holiday' \in [Queues -> Holidays \cup {NoHoliday}]
    BY <1>4 DEF AddHoliday, RowsInv
  <2> QED BY <1>4, <2>1, <2>2 DEF AddHoliday, RowsInv
<1>5. ASSUME NEW q \in Queues, SwitchEmergency(q) PROVE RowsInv' /\ lookup'.moved
  <2>1. LookupShape(lookup') /\ lookup'.moved
    BY <1>1, <1>5, LookupMoved DEF SwitchEmergency, Changed
  <2>2. emergency' \subseteq Queues
    BY <1>5 DEF SwitchEmergency, RowsInv
  <2> QED BY <1>5, <2>1, <2>2 DEF SwitchEmergency, RowsInv
<1>6. ASSUME NEW q \in Queues, NEW list \in Listings[q] \ {{}}, UpdateRoutings(q, list)
      PROVE  RowsInv' /\ lookup'.moved
  <2>1. LookupShape(lookup') /\ lookup'.moved
    BY <1>1, <1>6, LookupMoved DEF UpdateRoutings, Changed
  <2>2. /\ listing' = [listing EXCEPT ![q] = list]
        /\ routings' = [routings EXCEPT ![q] = Updated(routings[q], list)]
        /\ UNCHANGED <<hours, holiday, emergency, system, now>>
    BY <1>6 DEF UpdateRoutings
  <2>3. list \in UNION {Listings[p] : p \in Queues}
    OBVIOUS
  <2>4. listing' \in [Queues -> UNION {Listings[p] : p \in Queues}]
        /\ \A p \in Queues : listing'[p] \in Listings[p]
    BY <2>2, <2>3 DEF RowsInv
  <2>5. RowsOfList(Updated(routings[q], list), list)
    BY UpdatedDoes DEF RowsInv
  <2>6. DOMAIN routings' = Queues /\ \A p \in Queues : RowsOfList(routings'[p], listing'[p])
    BY <2>2, <2>5 DEF RowsInv
  <2> QED BY <2>1, <2>2, <2>4, <2>6 DEF RowsInv
<1> QED BY <1>2, <1>3, <1>4, <1>5, <1>6

\* What a step of the lookup leaves it as, with its fields by name.
Became(pc, asked, at, moved, routing, mode) ==
    lookup' = [pc |-> pc, asked |-> asked, at |-> at, moved |-> moved, routing |-> routing, mode |-> mode]

LEMMA AskForDoes ==
    ASSUME RowsInv, NEW q \in Queues, AskFor(q)
    PROVE  UNCHANGED rows /\ Became("look", q, q, FALSE, NoRouting, "closed")
BY DEF AskFor, NoLookup, Became

LEMMA MissingDoes ==
    ASSUME RowsInv, Missing
    PROVE  /\ UNCHANGED rows
           /\ Became("missing", lookup.asked, lookup.at, lookup.moved, lookup.routing, lookup.mode)
BY DEF Missing, Became, RowsInv, LookupShape

LEMMA FallOverDoes ==
    ASSUME RowsInv, FallOver
    PROVE  /\ UNCHANGED rows /\ lookup.pc = "look" /\ FallsOver(lookup.at)
           /\ \E r \in OpenTransfers(lookup.at) :
                Became("look", lookup.asked, r.to, lookup.moved, lookup.routing, lookup.mode)
<1>1. PICK r \in Foremost(OpenTransfers(lookup.at)) : lookup' = [lookup EXCEPT !.at = r.to]
  BY DEF FallOver
<1>2. r \in OpenTransfers(lookup.at)
  BY DEF Foremost
<1>3. Became("look", lookup.asked, r.to, lookup.moved, lookup.routing, lookup.mode)
  BY <1>1 DEF FallOver, Became, RowsInv, LookupShape
<1> QED BY <1>2, <1>3 DEF FallOver

LEMMA DecideDoes ==
    ASSUME RowsInv, Decide
    PROVE  /\ UNCHANGED rows /\ lookup.pc = "look" /\ ~FallsOver(lookup.at)
           /\ \E r \in Choices(lookup.at) :
                Became("decided", lookup.asked, lookup.at, lookup.moved, r,
                       IF system THEN "emergency" ELSE Mode(lookup.at))
<1>1. PICK r \in Choices(lookup.at) :
         lookup' = [lookup EXCEPT !.pc = "decided", !.routing = r,
                                  !.mode = IF system THEN "emergency" ELSE Mode(lookup.at)]
  BY DEF Decide
<1> DEFINE mode == IF system THEN "emergency" ELSE Mode(lookup.at)
<1>2. lookup' = [lookup EXCEPT !.pc = "decided", !.routing = r, !.mode = mode]
  BY <1>1
<1> HIDE DEF mode
<1>3. Became("decided", lookup.asked, lookup.at, lookup.moved, r, mode)
  BY <1>2 DEF Became, RowsInv, LookupShape
<1> QED BY <1>3 DEF Decide, mode

LEMMA RowsUnchanged ==
    ASSUME RowsInv, UNCHANGED rows, LookupShape(lookup')
    PROVE  RowsInv'
BY DEF RowsInv, rows

LEMMA LookupTyped ==
    ASSUME RowsInv, Find \/ \E q \in Queues : AskFor(q)
    PROVE  RowsInv' /\ UNCHANGED rows
<1>1. LookupShape(lookup)
  BY DEF RowsInv
<1>2. ASSUME NEW q \in Queues, AskFor(q) PROVE LookupShape(lookup') /\ UNCHANGED rows
  <2>1. UNCHANGED rows /\ Became("look", q, q, FALSE, NoRouting, "closed")
    BY <1>2, AskForDoes
  <2> QED BY <2>1 DEF Became, LookupShape, Modes
<1>3. CASE Missing
  <2>1. /\ UNCHANGED rows /\ lookup.pc = "look"
        /\ Became("missing", lookup.asked, lookup.at, lookup.moved, lookup.routing, lookup.mode)
    BY <1>3, MissingDoes DEF Missing
  <2>2. LookupShape(lookup')
    BY <1>1, <2>1 DEF Became, LookupShape
  <2> QED BY <2>1, <2>2, RowsUnchanged
<1>4. CASE FallOver
  <2>1. PICK r \in OpenTransfers(lookup.at) :
           Became("look", lookup.asked, r.to, lookup.moved, lookup.routing, lookup.mode)
    BY <1>4, FallOverDoes
  <2>2. UNCHANGED rows /\ lookup.pc = "look" /\ r.to \in Queues
    BY <1>4, FallOverDoes DEF OpenTransfers, QueueTransfers, IsQueueTransfer
  <2>3. LookupShape(lookup')
    BY <1>1, <2>1, <2>2 DEF Became, LookupShape
  <2> QED BY <2>2, <2>3, RowsUnchanged
<1>5. CASE Decide
  <2> DEFINE mode == IF system THEN "emergency" ELSE Mode(lookup.at)
  <2>1. PICK r : Became("decided", lookup.asked, lookup.at, lookup.moved, r, mode)
    BY <1>5, DecideDoes
  <2>2. UNCHANGED rows /\ lookup.pc = "look"
    BY <1>5, DecideDoes
  <2>3. mode \in Modes
    BY ModeIsMode DEF Modes
  <2> HIDE DEF mode
  <2>4. LookupShape(lookup')
    BY <1>1, <2>1, <2>2, <2>3 DEF Became, LookupShape
  <2> QED BY <2>2, <2>4, RowsUnchanged
<1> QED BY <1>2, <1>3, <1>4, <1>5, RowsUnchanged DEF Find

\* The rows of every queue are those of its list, whatever was changed.
THEOREM RowsInvHolds == Spec => []RowsInv
<1>1. Init => RowsInv
  <2> SUFFICES ASSUME Init PROVE RowsInv
    OBVIOUS
  <2>1. /\ listing \in [Queues -> UNION {Listings[q] : q \in Queues}]
        /\ \A q \in Queues : listing[q] \in Listings[q]
        /\ routings = listing
    BY DEF Init
  <2>2. \A q \in Queues : RowsOfList(routings[q], listing[q])
    BY <2>1, ListIsRows
  <2>3. hours \in [Queues -> SUBSET Spans]
    BY DEF Init
  <2>4. holiday \in [Queues -> Holidays \cup {NoHoliday}]
    BY DEF Init
  <2>5. LookupShape(lookup)
    BY DEF Init, NoLookup, LookupShape, Modes
  <2>6. emergency = {} /\ now = 0
    BY DEF Init
  <2> QED BY <2>1, <2>2, <2>3, <2>4, <2>5, <2>6, NightAssumption DEF RowsInv, Times
<1>2. RowsInv /\ [Next]_vars => RowsInv'
  <2> SUFFICES ASSUME RowsInv, [Next]_vars PROVE RowsInv'
    OBVIOUS
  <2>1. CASE UNCHANGED vars
    BY <2>1 DEF vars, rows, RowsInv
  <2>2. CASE Next
    BY <2>2, ChangeTyped, LookupTyped DEF Next
  <2> QED BY <2>1, <2>2
<1> QED BY <1>1, <1>2, PTL DEF Spec

\* The rows have their shape, and a queue has one row for each destination.
THEOREM RoutingTyped == Spec => []RoutingTypeOK
<1>1. RowsInv => RoutingTypeOK
  <2> SUFFICES ASSUME RowsInv PROVE RoutingTypeOK
    OBVIOUS
  <2>1. ASSUME NEW q \in Queues PROVE \A r \in routings[q] : r.priority \in Nat \cup {-1}
    <3>1. RowsOfList(routings[q], listing[q]) /\ listing[q] \in Listings[q]
      BY DEF RowsInv
    <3>2. \A r \in listing[q] : r.priority \in Nat
      BY <3>1, ListingsAssumption
    <3> QED BY <3>1, <3>2 DEF RowsOfList
  <2>2. \A q \in Queues : \A r, s \in routings[q] : SameRouting(r, s) => r = s
    BY DEF RowsInv, RowsOfList
  <2> QED BY <2>1, <2>2 DEF RowsInv, RoutingTypeOK, LookupShape
<1> QED BY <1>1, RowsInvHolds, PTL

-----------------------------------------------------------------------------
(* The lookup.                                                              *)

\* While the rows stay, what a queue is stays.
LEMMA RowsStay ==
    ASSUME UNCHANGED rows
    PROVE  /\ system' = system /\ listing' = listing
           /\ \A q \in Queues : Mode(q)' = Mode(q)
           /\ \A a, b \in Queues : Underway(a, b)' <=> Underway(a, b)
BY DEF rows, Mode, Within, Underway

LEMMA AskForFits ==
    ASSUME RowsInv, NEW q \in Queues, AskFor(q)
    PROVE  LookupInv'
<1>1. Became("look", q, q, FALSE, NoRouting, "closed")
  BY AskForDoes
<1>2. /\ lookup'.pc = "look" /\ lookup'.asked = q /\ lookup'.at = q
  BY <1>1 DEF Became
<1>3. \A a, b \in Queues : a = b => Underway(a, b)'
  BY DEF Underway
<1> QED BY <1>2, <1>3 DEF LookupInv

LEMMA FallOverFits ==
    ASSUME RowsInv, LookupInv, FallOver
    PROVE  LookupInv'
<1>1. UNCHANGED rows /\ lookup.pc = "look" /\ FallsOver(lookup.at)
  BY FallOverDoes
<1>2. PICK r \in OpenTransfers(lookup.at) :
         Became("look", lookup.asked, r.to, lookup.moved, lookup.routing, lookup.mode)
  BY FallOverDoes
<1>3. /\ lookup'.pc = "look" /\ lookup'.asked = lookup.asked /\ lookup'.at = r.to
      /\ lookup'.moved = lookup.moved
  BY <1>2 DEF Became
<1>4. lookup.asked \in Queues /\ lookup.at \in Queues /\ r.to \in Queues /\ Mode(r.to) = "normal"
  BY <1>1 DEF RowsInv, LookupShape, OpenTransfers, QueueTransfers, IsQueueTransfer
<1>5. ~system /\ Mode(lookup.at) = "closed"
  BY <1>1 DEF FallsOver
<1>6. ASSUME ~lookup.moved,
             NEW a \in Queues, NEW b \in Queues, a = lookup.asked, b = r.to
      PROVE  Underway(a, b)'
  <2>1. Underway(a, lookup.at)
    BY <1>1, <1>4, <1>6 DEF LookupInv
  <2>2. lookup.at = a
    BY <1>5, <2>1 DEF Underway
  <2>3. Underway(a, b)
    BY <1>4, <1>5, <1>6, <2>2 DEF Underway
  <2> QED BY <1>1, <2>3, RowsStay
<1> QED BY <1>3, <1>6 DEF LookupInv

\* Whoever is decided for is someone the queue dials, and nobody else is left
\* to be asked.
LEMMA DecideFits ==
    ASSUME RowsInv, LookupInv, Decide
    PROVE  LookupInv'
<1> DEFINE mode == IF system THEN "emergency" ELSE Mode(lookup.at)
<1>1. UNCHANGED rows /\ lookup.pc = "look" /\ ~FallsOver(lookup.at)
  BY DecideDoes
<1>2. PICK r \in Choices(lookup.at) :
         Became("decided", lookup.asked, lookup.at, lookup.moved, r, mode)
  BY DecideDoes
<1>3. mode # "emergency" => ~system /\ mode = Mode(lookup.at)
  OBVIOUS
<1> HIDE DEF mode
<1>4. /\ lookup'.pc = "decided" /\ lookup'.asked = lookup.asked /\ lookup'.at = lookup.at
      /\ lookup'.moved = lookup.moved /\ lookup'.routing = r /\ lookup'.mode = mode
  BY <1>2 DEF Became
<1>5. ASSUME ~lookup.moved,
             NEW a \in Queues, NEW b \in Queues, a = lookup.asked, b = lookup.at,
             NEW m, m = mode
      PROVE  Underway(a, b)' /\ Settled(a, b, r, m)'
  <2>1. Underway(a, b)
    BY <1>1, <1>5 DEF LookupInv
  <2>2. m = "normal" => r \in listing[b] /\ ~IsQueueTransfer(r)
    <3> SUFFICES ASSUME m = "normal" PROVE r \in listing[b] /\ ~IsQueueTransfer(r)
      OBVIOUS
    <3>1. r \in Weighted(b)
      BY <1>2, <1>3, <1>5 DEF Choices
    <3> QED BY <3>1, WeightedIsDialed
  <2>3. m # "emergency" /\ b # a => m = "normal"
    BY <1>3, <1>5, <2>1 DEF Underway
  <2>4. ASSUME m = "closed", NEW s \in listing[a], IsQueueTransfer(s)
        PROVE  Mode(s.to) # "normal"
    <3>1. ~system /\ Mode(b) = "closed"
      BY <1>3, <1>5, <2>4
    <3>2. a = b
      BY <2>1, <3>1 DEF Underway
    <3>3. OpenTransfers(b) = {}
      BY <1>1, <1>5, <3>1 DEF FallsOver
    <3>4. s \in QueueTransfers(b)
      BY <2>4, <3>2 DEF RowsInv, RowsOfList, QueueTransfers
    <3> QED BY <3>3, <3>4 DEF OpenTransfers
  <2>5. listing' = listing /\ \A s \in listing[a] : IsQueueTransfer(s) => Mode(s.to)' = Mode(s.to)
    BY <1>1, RowsStay DEF IsQueueTransfer
  <2>6. Settled(a, b, r, m)'
    BY <2>2, <2>3, <2>4, <2>5 DEF Settled
  <2> QED BY <1>1, <2>1, <2>6, RowsStay
<1> QED BY <1>4, <1>5 DEF LookupInv

\* Nothing is claimed of a lookup that things have changed under.
LEMMA ChangeFits ==
    ASSUME RowsInv, lookup' = [lookup EXCEPT !.moved = TRUE]
    PROVE  LookupInv'
<1>1. lookup'.moved
  BY LookupMoved DEF RowsInv
<1> QED BY <1>1 DEF LookupInv

LEMMA StutterFits ==
    ASSUME LookupInv, UNCHANGED vars
    PROVE  LookupInv'
<1>1. UNCHANGED rows /\ lookup' = lookup
  BY DEF vars, rows
<1>2. \A a, b \in Queues : Underway(a, b)' <=> Underway(a, b)
  BY <1>1, RowsStay
<1>3. ASSUME NEW a \in Queues, NEW b \in Queues, NEW r, NEW mode, Settled(a, b, r, mode)
      PROVE  Settled(a, b, r, mode)'
  <2>1. listing' = listing /\ \A s \in listing[a] : IsQueueTransfer(s) => Mode(s.to)' = Mode(s.to)
    BY <1>1, RowsStay DEF IsQueueTransfer
  <2> QED BY <1>3, <2>1 DEF Settled
<1> QED BY <1>1, <1>2, <1>3 DEF LookupInv

\* As long as nothing changes under it, a lookup has left the queue it was made
\* for only because that one is closed and another is open.
THEOREM LookupInvHolds == Spec => []LookupInv
<1>1. Init => LookupInv
  BY DEF Init, NoLookup, LookupInv
<1>2. RowsInv /\ LookupInv /\ [Next]_vars => LookupInv'
  <2> SUFFICES ASSUME RowsInv, LookupInv, [Next]_vars PROVE LookupInv'
    OBVIOUS
  <2>1. CASE UNCHANGED vars
    BY <2>1, StutterFits
  <2>2. CASE Tick
    BY <2>2, ChangeFits DEF Tick
  <2>3. ASSUME NEW q \in Queues,
               \/ \E s \in Spans : AddHours(q, s)
               \/ \E h \in Holidays : AddHoliday(q, h)
               \/ SwitchEmergency(q)
               \/ \E list \in Listings[q] \ {{}} : UpdateRoutings(q, list)
        PROVE  LookupInv'
    BY <2>3, ChangeFits DEF AddHours, AddHoliday, SwitchEmergency, UpdateRoutings, Changed
  <2>4. ASSUME NEW q \in Queues, AskFor(q) PROVE LookupInv'
    BY <2>4, AskForFits
  <2>5. CASE Missing
    BY <2>5, MissingDoes DEF Became, LookupInv
  <2>6. CASE FallOver
    BY <2>6, FallOverFits
  <2>7. CASE Decide
    BY <2>7, DecideFits
  <2> QED BY <2>1, <2>2, <2>3, <2>4, <2>5, <2>6, <2>7 DEF Next, Find
<1> QED BY <1>1, <1>2, RowsInvHolds, PTL DEF Spec

\* A call that is handed over in normal mode goes to a destination that the
\* routings the queue was last configured with list, and not to another queue,
\* though commands/update.py keeps the rows of those that were taken off.
THEOREM DialsListedHolds == Spec => []DialsListed
<1>1. RowsInv /\ LookupInv => DialsListed
  BY DEF RowsInv, LookupShape, LookupInv, Settled, DialsListed
<1> QED BY <1>1, RowsInvHolds, LookupInvHolds, PTL

\* QueueStatusService leaves the queue it is asked for only when that one is
\* closed, and for one that is open; and it answers "closed" only if none of the
\* queues that are listed is open.
THEOREM LeavesOnlyWhenClosedHolds == Spec => []LeavesOnlyWhenClosed
<1>1. RowsInv /\ LookupInv => LeavesOnlyWhenClosed
  <2> SUFFICES ASSUME RowsInv, LookupInv, lookup.pc = "decided", ~lookup.moved
               PROVE  LeavesOnlyWhenClosed
    BY DEF LeavesOnlyWhenClosed
  <2>1. lookup.asked \in Queues /\ lookup.at \in Queues
    BY DEF RowsInv, LookupShape
  <2>2. /\ Underway(lookup.asked, lookup.at)
        /\ Settled(lookup.asked, lookup.at, lookup.routing, lookup.mode)
    BY <2>1 DEF LookupInv
  <2> QED BY <2>2 DEF Underway, Settled, LeavesOnlyWhenClosed
<1> QED BY <1>1, RowsInvHolds, LookupInvHolds, PTL
=============================================================================
