---------------------------- MODULE QueueRouting ----------------------------
(***************************************************************************)
(* To whom a call that leaves for a queue is handed: services/queues.py,    *)
(* and the update of a queue's routings by commands/update.py.  The rows    *)
(* are those of one day; a point of time is an element of 0 .. Night.       *)
(*                                                                          *)
(* A lookup reads the rows of a queue in one action.  Where it falls over   *)
(* to another queue it starts anew for that one, and rows and clock may     *)
(* have changed by then.                                                    *)
(***************************************************************************)
EXTENDS Integers, FiniteSets

CONSTANTS
    Queues,
    Listings,    \* [Queues -> sets of lists of routings the queue may be configured with]
    Night,       \* the last point of time of the day
    MaxSpans,    \* bound: spans of hours of a queue
    MaxChanges   \* bound: changes to hours, holidays, emergencies and routings

Times == 0 .. Night
Spans == {s \in [start : Times, end : Times] : s.start < s.end}

\* A holiday on which the queue is closed all day has no times.
AllDay    == [start |-> Night, end |-> Night]
NoHoliday == [start |-> Night, end |-> 0]
Holidays  == Spans \cup {AllDay}

\* A routing to another queue names it; one that is dialed names a destination.
IsQueueTransfer(r) == r.to \in Queues

SameRouting(r, s) == r.to = s.to

ASSUME NightAssumption == Night \in Nat

\* A list names each destination once, and first someone to dial.
ASSUME ListingsAssumption ==
    \A q \in Queues : \A list \in Listings[q] :
        /\ IsFiniteSet(list)
        /\ \A r \in list : r = [to |-> r.to, priority |-> r.priority] /\ r.priority \in Nat
        /\ \A r, s \in list : SameRouting(r, s) => r = s
        /\ list # {} => \E r \in list :
               ~IsQueueTransfer(r) /\ \A s \in list : IsQueueTransfer(s) => r.priority < s.priority

VARIABLES
    listing,    \* what each queue was last configured with
    routings,   \* the TransferRouting rows of each queue
    hours,      \* the spans of QueueHoursOfOperation of each queue
    holiday,    \* the QueueHoliday of each queue
    emergency,  \* the queues in emergency mode
    system,     \* whether the system is in emergency mode
    now,
    changes,
    lookup      \* the lookup under way, or the one made last

rows == <<listing, routings, hours, holiday, emergency, system, now, changes>>
vars == <<rows, lookup>>

Modes == {"normal", "closed", "holiday", "emergency"}

\* Of a lookup: the queue it was made for, the one it is at, whether anything
\* has changed since it began, and what was decided.
NoRouting == [to |-> "nobody", priority |-> 0]
NoLookup  == [pc |-> "none", asked |-> "none", at |-> "none", moved |-> FALSE,
              routing |-> NoRouting, mode |-> "closed"]

Init ==
    /\ listing \in {f \in [Queues -> UNION {Listings[q] : q \in Queues}] :
                       \A q \in Queues : f[q] \in Listings[q]}
    /\ routings = listing
    /\ hours \in [Queues -> {{}} \cup {{s} : s \in Spans}]
    /\ holiday = [q \in Queues |-> NoHoliday]
    /\ emergency = {}
    /\ system \in BOOLEAN
    /\ now = 0
    /\ changes = 0
    /\ lookup = NoLookup

-----------------------------------------------------------------------------
(* Changes to the rows.                                                    *)

Changed ==
    /\ changes < MaxChanges
    /\ changes' = changes + 1
    /\ lookup' = [lookup EXCEPT !.moved = TRUE]

\* End points are compared with the existing span, and nothing else.
Overlap(span, s) ==
    \/ span.start <= s.start /\ s.start < span.end
    \/ span.start < s.end /\ s.end <= span.end

AddHours(q, s) ==
    /\ Cardinality(hours[q]) < MaxSpans
    /\ \A span \in hours[q] : ~Overlap(span, s)
    /\ Changed
    /\ hours' = [hours EXCEPT ![q] = @ \cup {s}]
    /\ UNCHANGED <<listing, routings, holiday, emergency, system, now>>

AddHoliday(q, h) ==
    /\ holiday[q] = NoHoliday
    /\ Changed
    /\ holiday' = [holiday EXCEPT ![q] = h]
    /\ UNCHANGED <<listing, routings, hours, emergency, system, now>>

SwitchEmergency(q) ==
    /\ Changed
    /\ emergency' = IF q \in emergency THEN emergency \ {q} ELSE emergency \cup {q}
    /\ UNCHANGED <<listing, routings, hours, holiday, system, now>>

\* Slip: whatever is listed gets a new row.
UpdatedAnew(old, list) == list \cup {[r EXCEPT !.priority = -1] : r \in old \ list}

\* A routing keeps its row; one that is no longer listed gets a negative
\* priority.
Updated(old, list) ==
    list \cup {[r EXCEPT !.priority = -1] : r \in {o \in old : \A s \in list : ~SameRouting(o, s)}}

UpdateRoutings(q, list) ==
    /\ Changed
    /\ listing' = [listing EXCEPT ![q] = list]
    /\ routings' = [routings EXCEPT ![q] = Updated(@, list)]
    /\ UNCHANGED <<hours, holiday, emergency, system, now>>

Tick ==
    /\ now < Night
    /\ now' = now + 1
    /\ lookup' = [lookup EXCEPT !.moved = TRUE]
    /\ UNCHANGED <<listing, routings, hours, holiday, emergency, system, changes>>

-----------------------------------------------------------------------------
(* The lookup.                                                             *)

Within(span) == span.start <= now /\ now < span.end

Mode(q) ==
    CASE q \in emergency -> "emergency"
      [] q \notin emergency /\ holiday[q] # NoHoliday -> IF Within(holiday[q]) THEN "normal" ELSE "holiday"
      [] q \notin emergency /\ holiday[q] = NoHoliday ->
             IF \E span \in hours[q] : Within(span) THEN "normal" ELSE "closed"

Foremost(rs) == {r \in rs : \A other \in rs : r.priority <= other.priority}

\* Slip: the lowest priority is looked for among all the routings.
WeightedAll(q) == Foremost(routings[q])

\* A single routing is taken whatever its priority; of several, any one of those
\* with the lowest priority that is not negative.
Weighted(q) ==
    IF Cardinality(routings[q]) = 1
        THEN routings[q]
        ELSE Foremost({r \in routings[q] : r.priority >= 0})

QueueTransfers(q) == {r \in routings[q] : IsQueueTransfer(r)}

\* Slip: a closed queue that names others is left for them to be looked at.
OpenTransfersFurther(q) ==
    {r \in QueueTransfers(q) :
        Mode(r.to) = "normal" \/ (Mode(r.to) = "closed" /\ QueueTransfers(r.to) # {})}

\* Slip: only the first of the other queues is looked at.
OpenTransfersFirst(q) == {r \in Foremost(QueueTransfers(q)) : Mode(r.to) = "normal"}

OpenTransfers(q) == {r \in QueueTransfers(q) : Mode(r.to) = "normal"}

FallsOver(q) == ~system /\ Mode(q) = "closed" /\ OpenTransfers(q) # {}

AskFor(q) ==
    /\ lookup.pc # "look"
    /\ lookup' = [NoLookup EXCEPT !.pc = "look", !.asked = q, !.at = q]
    /\ UNCHANGED rows

\* A queue that never had a routing.
Missing ==
    /\ lookup.pc = "look"
    /\ routings[lookup.at] = {}
    /\ lookup' = [lookup EXCEPT !.pc = "missing"]
    /\ UNCHANGED rows

\* The first queue that is open is looked up like the one that was asked for.
FallOver ==
    /\ lookup.pc = "look"
    /\ FallsOver(lookup.at)
    /\ \E r \in Foremost(OpenTransfers(lookup.at)) : lookup' = [lookup EXCEPT !.at = r.to]
    /\ UNCHANGED rows

\* In an emergency of the system, and for a closed queue that names no other,
\* the first row is taken as it is: nobody is dialed then.
Choices(q) ==
    IF system \/ (Mode(q) = "closed" /\ QueueTransfers(q) = {})
        THEN Foremost(routings[q])
        ELSE Weighted(q)

Decide ==
    /\ lookup.pc = "look"
    /\ routings[lookup.at] # {}
    /\ ~FallsOver(lookup.at)
    /\ \E r \in Choices(lookup.at) :
           lookup' = [lookup EXCEPT !.pc = "decided", !.routing = r,
                                    !.mode = IF system THEN "emergency" ELSE Mode(lookup.at)]
    /\ UNCHANGED rows

Find == Missing \/ FallOver \/ Decide

Next ==
    \/ Tick
    \/ \E q \in Queues :
           \/ \E s \in Spans : AddHours(q, s)
           \/ \E h \in Holidays : AddHoliday(q, h)
           \/ SwitchEmergency(q)
           \/ \E list \in Listings[q] \ {{}} : UpdateRoutings(q, list)
           \/ AskFor(q)
    \/ Find

Spec == Init /\ [][Next]_vars

\* A lookup that was begun goes on.
FairSpec == Spec /\ WF_vars(Find)

-----------------------------------------------------------------------------
(* Properties *)

\* The rows have their shape, a queue has one row for each destination, and a
\* lookup that is not under way has been decided for someone or is missing.
RoutingTypeOK ==
    /\ \A q \in Queues :
          /\ listing[q] \in Listings[q]
          /\ \A r \in routings[q] : r.priority \in Nat \cup {-1}
          /\ \A r, s \in routings[q] : SameRouting(r, s) => r = s
          /\ hours[q] \subseteq Spans
          /\ holiday[q] \in Holidays \cup {NoHoliday}
    /\ emergency \subseteq Queues
    /\ now \in Times
    /\ lookup.pc \in {"none", "look", "missing", "decided"}
    /\ lookup.pc # "none" => {lookup.asked, lookup.at} \subseteq Queues
    /\ lookup.mode \in Modes

\* A call is handed over to someone whom the queue it ends at lists to be
\* dialed, not to a queue and not to someone who was taken off the list,
\* however often the list was changed.
DialsListed ==
    lookup.pc = "decided" /\ lookup.mode = "normal" /\ ~lookup.moved =>
        /\ lookup.routing \in listing[lookup.at]
        /\ ~IsQueueTransfer(lookup.routing)

\* The queue that was asked for is left only when it is closed ("Will only
\* change queue if main queue is closed", twilio.py:242), and then for one that
\* is open; and a caller is told that it is closed only if none of the other
\* queues it lists is open.
LeavesOnlyWhenClosed ==
    lookup.pc = "decided" /\ lookup.mode # "emergency" /\ ~lookup.moved =>
        /\ lookup.at # lookup.asked => Mode(lookup.asked) = "closed" /\ lookup.mode = "normal"
        /\ lookup.mode = "closed" =>
               \A r \in listing[lookup.asked] : IsQueueTransfer(r) => Mode(r.to) # "normal"

\* A lookup comes to an end, though queues name each other.
LookupsEnd == lookup.pc = "look" ~> lookup.pc # "look"

\* The hours of a queue do not overlap ("Hours of operations overlap, please
\* resolve existing hours before adding new span", queues.py:84).
NoOverlappingHours ==
    \A q \in Queues : \A s, t \in hours[q] : s # t => s.end <= t.start \/ t.end <= s.start
=============================================================================
