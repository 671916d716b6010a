----------------------------- MODULE AdminCalls -----------------------------
(***************************************************************************)
(* Test calls of administrators: the questions a call is asked before it is *)
(* traded for a call of a customer (adapters/twilio.py:362-531,             *)
(* services/admin.py), and what the API changes meanwhile: users with their *)
(* roles and phones, and the calls that are scheduled for them              *)
(* (api/endpoints/admin.py:74-332).                                         *)
(*                                                                          *)
(* An action is one query or one commit of a worker.  Numbers are told      *)
(* apart by where they come from.  The call goes on like one of a customer: *)
(* module ContactLegs has what comes of its leg.                            *)
(***************************************************************************)
EXTENDS Naturals, Sequences, FiniteSets

CONSTANTS
    Calls,         \* calls from administrators' phones, by their CallSid
    Users,         \* AdminUser rows
    Admins,        \* those that have the role admin at first and may dial any number
    NoUser,        \* the user of a phone that is shared
    Workers,       \* the processes that serve requests
    CreatedWith,   \* the ani and the dnis that calls are scheduled with for a workflow
    ChangedTo,     \* and those that a change of a scheduled call names: for each a number, or none
    MaxRequests,   \* bound: requests made
    MaxSchedules,  \* bound: calls scheduled
    MaxChanges,    \* bound: copies of scheduled calls, and changes of them, of users and phones
    MaxFailures    \* bound: requests cut short

ASSUME AdminsAssumption == Admins \subseteq Users /\ NoUser \notin Users
ASSUME GivenNumbersAssumption ==
    CreatedWith \cup ChangedTo \subseteq {"none", "scheduled"} \X {"none", "scheduled"}
ASSUME AdminBoundsAssumption == {MaxRequests, MaxSchedules, MaxChanges, MaxFailures} \subseteq Nat

VARIABLES
    roles,      \* the role of each user, or that the row is deleted
    phone,      \* the user of the phone each call comes from
    adminCalls, \* the AdminCall row of each call
    scheduled,  \* the ScheduledCall rows, as created
    contacts,   \* how many Contact rows each call has
    legs,       \* the ContactLeg rows, as created
    workers,    \* the request each worker serves
    \* outside
    asked,      \* what each call was answered last
    contested,  \* scheduled calls that were found by two calls, or freed by a copy
    moved,      \* scheduled calls that were given to another user once found
    mayDial,    \* calls whose user had the role admin at some time of the call
    requests, changes, failures

users   == <<roles, phone>>
rows    == <<adminCalls, scheduled, contacts, legs>>
history == <<contested, moved, mayDial>>
counts  == <<requests, changes, failures>>
vars    == <<users, rows, workers, asked, history, counts>>

NoCall == "none"
ASSUME NoCallAssumption == {NoCall, "shortcut", "scheduled"} \cap Calls = {}

\* Where a number was taken from: one that was dialed has the name of the call it
\* was dialed in.
Numbers == {"none", "shortcut", "scheduled"} \cup Calls

AdminCall == [user : Users \cup {NoUser}, verified : BOOLEAN, ani : Numbers, dnis : Numbers,
              routed : BOOLEAN]
NoAdminCall == [user |-> NoUser, verified |-> FALSE, ani |-> "none", dnis |-> "none", routed |-> FALSE]

\* What a scheduled call leads to: the routing of a number, or a workflow.
LeadsTo == {"routing", "workflow", "nowhere"}
ScheduledCall == [user : Users, admin_call : Calls \cup {NoCall}, copied : BOOLEAN,
                  leads_to : LeadsTo, ani : Numbers, dnis : Numbers]

AdminLeg == [call : Calls, ani : Numbers, dnis : Numbers, scheduled : Nat]

\* The question that a request answers is the step that serves it.
Questions == {"login", "pin", "ani", "dnis", "priority"}
Outcomes  == {"nothing", "served", "over", "error"}

Worker == [pc : Questions \cup {"idle", "new", "create", "find", "claim", "route", "contact", "leg"},
           call : Calls \cup {NoCall}, user : Users \cup {NoUser}, scheduled : Nat,
           leads_to : LeadsTo, ani : Numbers, dnis : Numbers, loaded : SUBSET Nat]
Idle == [pc |-> "idle", call |-> NoCall, user |-> NoUser, scheduled |-> 0,
         leads_to |-> "nowhere", ani |-> "none", dnis |-> "none", loaded |-> {}]

Row(w) == adminCalls[workers[w].call]

Present == {u \in Users : roles[u] # "deleted"}

\* An admin call has one scheduled call, which is loaded with it: of several
\* rows that name the call, one.  Another one that is set frees the one that
\* was loaded.
LoadedOf(c) ==
    LET named == {s \in DOMAIN scheduled : scheduled[s].admin_call = c}
    IN  IF named = {} THEN {{}} ELSE {{s} : s \in named}
Freed(loaded) == [s \in DOMAIN scheduled |->
                     IF s \in loaded THEN [scheduled[s] EXCEPT !.admin_call = NoCall] ELSE scheduled[s]]

Serving(c) == {w \in Workers : workers[w].call = c}

Init ==
    /\ roles = [u \in Users |-> IF u \in Admins THEN "admin" ELSE "user"]
    /\ phone \in [Calls -> Users \cup {NoUser}]
    /\ adminCalls = [c \in Calls |-> NoAdminCall]
    /\ scheduled = <<>> /\ legs = <<>>
    /\ contacts = [c \in Calls |-> 0]
    /\ workers = [w \in Workers |-> Idle]
    /\ asked = [c \in Calls |-> "nothing"]
    /\ contested = {} /\ moved = {} /\ mayDial = {}
    /\ requests = 0 /\ changes = 0 /\ failures = 0

-----------------------------------------------------------------------------
(* Twilio, and the calls that are scheduled through the API.                *)

Arrive(w, c) ==
    /\ workers[w] = Idle /\ Serving(c) = {}
    /\ asked[c] \in Questions \cup {"nothing"}
    /\ requests < MaxRequests
    /\ requests' = requests + 1
    /\ workers' = [workers EXCEPT ![w] = [Idle EXCEPT
                      !.pc = IF asked[c] = "nothing" THEN "new" ELSE asked[c], !.call = c]]
    /\ UNCHANGED <<users, rows, asked, history, changes, failures>>

\* The row refers to a user, which must be there.  What is scheduled for a workflow
\* may come without a number, or without both.
Schedule(u, to, given) ==
    /\ u \in Present
    /\ Cardinality({s \in DOMAIN scheduled : ~scheduled[s].copied}) < MaxSchedules
    /\ scheduled' = Append(scheduled, [user |-> u, admin_call |-> NoCall, copied |-> FALSE,
                                       leads_to |-> to, ani |-> given[1], dnis |-> given[2]])
    /\ UNCHANGED <<users, adminCalls, contacts, legs, workers, asked, history, counts>>

\* The copy is the scheduled call of the admin call from then on, and the one
\* the call was traded for is claimed by none.  The numbers are copied, those that
\* the call was not asked for yet included, and the routing; the workflow is not.
CopyScheduled(c) ==
    /\ adminCalls[c].user # NoUser
    /\ changes < MaxChanges
    /\ changes' = changes + 1
    /\ \E loaded \in LoadedOf(c) :
         /\ scheduled' = Append(Freed(loaded),
                                [user |-> adminCalls[c].user, admin_call |-> c, copied |-> TRUE,
                                 leads_to |-> IF adminCalls[c].routed THEN "routing" ELSE "nowhere",
                                 ani |-> adminCalls[c].ani, dnis |-> adminCalls[c].dnis])
         /\ contested' = contested \cup loaded
    /\ UNCHANGED <<users, adminCalls, contacts, legs, workers, asked, moved, mayDial,
                   requests, failures>>

\* The endpoint does not ask whether the call was claimed, or is about to be: a
\* request that has found it goes on with what it has loaded.  A routing that is
\* named goes before a workflow.  A number can be set and not taken away.
UpdateScheduled(s, u, to, given) ==
    /\ changes < MaxChanges
    /\ changes' = changes + 1
    /\ u \in Present
    /\ scheduled' = [scheduled EXCEPT ![s].user = u, ![s].leads_to = to,
                          ![s].ani  = IF given[1] = "none" THEN @ ELSE given[1],
                          ![s].dnis = IF given[2] = "none" THEN @ ELSE given[2]]
    /\ moved' = IF /\ u # scheduled[s].user
                   /\ \/ scheduled[s].admin_call # NoCall
                      \/ \E w \in Workers : workers[w].scheduled = s
                      \/ \E l \in DOMAIN legs : legs[l].scheduled = s
                THEN moved \cup {s} ELSE moved
    /\ UNCHANGED <<users, adminCalls, contacts, legs, workers, asked, contested, mayDial,
                   requests, failures>>

-----------------------------------------------------------------------------
(* Users and their phones, through the API and the commands.                *)

CallsOf(u) == {c \in Calls : adminCalls[c].user = u}

\* A user that is added is like one that was there from the start and did
\* nothing so far.
UpdateUser(u, role) ==
    /\ changes < MaxChanges
    /\ changes' = changes + 1
    /\ roles[u] \notin {role, "deleted"}
    /\ roles' = [roles EXCEPT ![u] = role]
    /\ mayDial' = IF role = "admin" THEN mayDial \cup CallsOf(u) ELSE mayDial
    /\ UNCHANGED <<phone, rows, workers, asked, contested, moved, requests, failures>>

\* A user that has rows of calls is not deleted, since these must name one.
\* Phones are kept, without a user.
DeleteUser(u) ==
    /\ changes < MaxChanges
    /\ changes' = changes + 1
    /\ u \in Present
    /\ CallsOf(u) = {} /\ \A s \in DOMAIN scheduled : scheduled[s].user # u
    /\ roles' = [roles EXCEPT ![u] = "deleted"]
    /\ phone' = [c \in Calls |-> IF phone[c] = u THEN NoUser ELSE phone[c]]
    /\ UNCHANGED <<rows, workers, asked, history, requests, failures>>

\* The number is added, given to a user, or taken from one.
ChangePhone(c, u) ==
    /\ changes < MaxChanges
    /\ changes' = changes + 1
    /\ u \in Present \cup {NoUser} /\ phone[c] # u
    /\ phone' = [phone EXCEPT ![c] = u]
    /\ UNCHANGED <<roles, rows, workers, asked, history, requests, failures>>

-----------------------------------------------------------------------------
(* Who calls.                                                               *)

Goes(w, pc) == workers' = [workers EXCEPT ![w].pc = pc]

Answer(w, a) ==
    /\ asked' = [asked EXCEPT ![workers[w].call] = a]
    /\ workers' = [workers EXCEPT ![w] = Idle]

NewAdminCall(w) ==
    /\ workers[w].pc = "new"
    /\ LET user == phone[workers[w].call]
       IN  IF user = NoUser
           THEN Answer(w, "login")
           ELSE /\ workers' = [workers EXCEPT ![w].pc = "create", ![w].user = user]
                /\ UNCHANGED asked
    /\ UNCHANGED <<users, rows, history, counts>>

\* A short id is the one of a user, or of none.
Login(w) ==
    /\ workers[w].pc = "login"
    /\ \/ \E u \in Present :
             /\ workers' = [workers EXCEPT ![w].pc = "create", ![w].user = u]
             /\ UNCHANGED asked
       \/ Answer(w, "over")
    /\ UNCHANGED <<users, rows, history, counts>>

CreateAdminCall(w) ==
    /\ workers[w].pc = "create"
    /\ workers[w].user \in Present
    /\ LET c == workers[w].call
           u == workers[w].user
       IN  /\ adminCalls' = [adminCalls EXCEPT ![c] = [NoAdminCall EXCEPT !.user = u]]
           /\ mayDial' = IF roles[u] = "admin" THEN mayDial \cup {c} ELSE mayDial
    /\ Answer(w, "pin")
    /\ UNCHANGED <<users, scheduled, contacts, legs, contested, moved, counts>>

\* The user was deleted since, and the row cannot name one that is gone.
CreateRaises(w) ==
    /\ workers[w].pc = "create"
    /\ workers[w].user \notin Present
    /\ Answer(w, "error")
    /\ UNCHANGED <<users, rows, history, counts>>

\* Slip: the row is changed and not committed.
VerifiedNotSaved(row) == row

Verified(row) == [row EXCEPT !.verified = TRUE]

Verify(w) ==
    /\ workers[w].pc = "pin"
    /\ adminCalls' = [adminCalls EXCEPT ![workers[w].call] = Verified(@)]
    /\ \E loaded \in LoadedOf(workers[w].call) :
         workers' = [workers EXCEPT ![w].pc = "find", ![w].loaded = loaded]
    /\ UNCHANGED <<users, scheduled, contacts, legs, asked, history, counts>>

RejectPin(w) ==
    /\ workers[w].pc = "pin"
    /\ Answer(w, "over")
    /\ UNCHANGED <<users, rows, history, counts>>

-----------------------------------------------------------------------------
(* The scheduled call of the user, if there is one.                         *)

\* Slip: the scheduled calls of all users are offered.
UnclaimedOfAnyone(u) == {s \in DOMAIN scheduled : scheduled[s].admin_call = NoCall}

Unclaimed(u) == {s \in DOMAIN scheduled : scheduled[s].user = u /\ scheduled[s].admin_call = NoCall}

\* The query has no order.
FindScheduled(w) ==
    /\ workers[w].pc = "find"
    /\ \E s \in Unclaimed(Row(w).user) :
         /\ workers' = [workers EXCEPT ![w].pc = "claim", ![w].scheduled = s,
                                       ![w].leads_to = scheduled[s].leads_to,
                                       ![w].ani = scheduled[s].ani, ![w].dnis = scheduled[s].dnis]
         /\ contested' = IF \E v \in Workers : workers[v].pc = "claim" /\ workers[v].scheduled = s
                         THEN contested \cup {s} ELSE contested
    /\ UNCHANGED <<users, rows, asked, moved, mayDial, counts>>

NoneScheduled(w) ==
    /\ workers[w].pc = "find"
    /\ Unclaimed(Row(w).user) = {}
    /\ Answer(w, "ani")
    /\ UNCHANGED <<users, rows, history, counts>>

\* Slip: the scheduled call is not told by which call it was claimed.
ClaimedByNone(row, c) == row

Claimed(row, c) == [row EXCEPT !.admin_call = c]

\* Slip: a call that was scheduled for a workflow is left to be dialed.
AfterClaimDials(leads_to) == IF leads_to = "workflow" THEN "dial" ELSE "contact"

\* The routing has been copied with the numbers, so that to write it once more
\* changes nothing.
AfterClaim(leads_to) == "contact"

Claim(w) ==
    /\ workers[w].pc = "claim"
    /\ LET s == workers[w].scheduled
           c == workers[w].call
       IN  /\ scheduled' = [Freed(workers[w].loaded) EXCEPT ![s] = Claimed(@, c)]
           /\ adminCalls' = [adminCalls EXCEPT ![c].ani = workers[w].ani, ![c].dnis = workers[w].dnis,
                                               ![c].routed = workers[w].leads_to = "routing"]
           /\ IF AfterClaim(workers[w].leads_to) = "dial" THEN Answer(w, "ani")
                                                   ELSE Goes(w, "contact") /\ UNCHANGED asked
    /\ UNCHANGED <<users, contacts, legs, history, counts>>

-----------------------------------------------------------------------------
(* The numbers that are dialed otherwise.                                   *)

\* What is dialed: a shortcut that is known, ten digits or more, or neither.
Digits == {"shortcut", "dialed", "neither"}

\* Slip: the role of the user is not looked at.
AcceptsFromAnyone(u, digits) == digits \in {"shortcut", "dialed"}

Accepts(u, digits) == digits = "shortcut" \/ (digits = "dialed" /\ roles[u] = "admin")

\* The number that the digits stand for.
NumberOf(c, digits) == IF digits = "dialed" THEN c ELSE digits

\* A call that was not verified is told to hang up.
AnswerVerified(w, a) == Answer(w, IF Row(w).verified THEN a ELSE "over")

AddAni(w) ==
    /\ workers[w].pc = "ani"
    /\ Row(w).verified
    /\ \E n \in Digits :
         /\ Accepts(Row(w).user, n)
         /\ adminCalls' = [adminCalls EXCEPT ![workers[w].call].ani = NumberOf(workers[w].call, n)]
    /\ Answer(w, "dnis")
    /\ UNCHANGED <<users, scheduled, contacts, legs, history, counts>>

\* A number that is not accepted, or to which nothing is routed, is asked for
\* again, and so is a priority that no routing has.
AskAgain(w) ==
    /\ workers[w].pc \in {"ani", "dnis", "priority"}
    /\ AnswerVerified(w, workers[w].pc)
    /\ UNCHANGED <<users, rows, history, counts>>

\* The one routing of a number is taken, of several one is asked for.
AfterDnis(routings) == IF routings = 1 THEN "route" ELSE "priority"

AddDnis(w) ==
    /\ workers[w].pc = "dnis"
    /\ Row(w).verified
    /\ \E n \in Digits :
         /\ Accepts(Row(w).user, n)
         /\ adminCalls' = [adminCalls EXCEPT ![workers[w].call].dnis = NumberOf(workers[w].call, n)]
    /\ \E routings \in {1, 2} :
         IF AfterDnis(routings) = "route" THEN Goes(w, "route") /\ UNCHANGED asked
                                          ELSE Answer(w, "priority")
    /\ UNCHANGED <<users, scheduled, contacts, legs, history, counts>>

ChooseRouting(w) ==
    /\ workers[w].pc = "priority"
    /\ Row(w).verified
    /\ Goes(w, "route")
    /\ UNCHANGED <<users, rows, asked, history, counts>>

\* Nothing entered is not a number, which nothing catches.
PriorityRaises(w) ==
    /\ workers[w].pc = "priority"
    /\ Answer(w, "error")
    /\ UNCHANGED <<users, rows, history, counts>>

AddCallRouting(w) ==
    /\ workers[w].pc = "route"
    /\ adminCalls' = [adminCalls EXCEPT ![workers[w].call].routed = TRUE]
    /\ Goes(w, "contact")
    /\ UNCHANGED <<users, scheduled, contacts, legs, asked, history, counts>>

-----------------------------------------------------------------------------
(* The call it is traded for.                                               *)

CreateContact(w) ==
    /\ workers[w].pc = "contact"
    /\ contacts' = [contacts EXCEPT ![workers[w].call] = @ + 1]
    /\ Goes(w, "leg")
    /\ UNCHANGED <<users, adminCalls, scheduled, legs, asked, history, counts>>

LeadsNowhere(w) == workers[w].scheduled # 0 /\ workers[w].leads_to = "nowhere"

CreateLeg(w) ==
    /\ workers[w].pc = "leg"
    /\ ~LeadsNowhere(w)
    /\ legs' = Append(legs, [call |-> workers[w].call, ani |-> Row(w).ani, dnis |-> Row(w).dnis,
                             scheduled |-> workers[w].scheduled])
    /\ Answer(w, "served")
    /\ UNCHANGED <<users, adminCalls, scheduled, contacts, history, counts>>

\* Slip: a call without a workflow is told to hang up.
LegRaisesOver(w) ==
    /\ workers[w].pc = "leg"
    /\ LeadsNowhere(w)
    /\ Answer(w, "over")
    /\ UNCHANGED <<users, rows, history, counts>>

\* There is no workflow to take the configuration of.
LegRaises(w) ==
    /\ workers[w].pc = "leg"
    /\ LeadsNowhere(w)
    /\ Answer(w, "error")
    /\ UNCHANGED <<users, rows, history, counts>>

\* The request is cut short after its last commit; Twilio ends the call.
Fail(w) ==
    /\ workers[w] # Idle
    /\ failures < MaxFailures
    /\ failures' = failures + 1
    /\ Answer(w, "error")
    /\ UNCHANGED <<users, rows, history, requests, changes>>

Serve(w) ==
    \/ NewAdminCall(w) \/ Login(w) \/ CreateAdminCall(w) \/ CreateRaises(w) \/ Verify(w) \/ RejectPin(w)
    \/ FindScheduled(w) \/ NoneScheduled(w) \/ Claim(w)
    \/ AddAni(w) \/ AddDnis(w) \/ AskAgain(w) \/ ChooseRouting(w) \/ PriorityRaises(w)
    \/ AddCallRouting(w) \/ CreateContact(w) \/ CreateLeg(w) \/ LegRaises(w)

Next ==
    \/ \E w \in Workers : Serve(w) \/ Fail(w)
    \/ \E w \in Workers, c \in Calls : Arrive(w, c)
    \/ \E u \in Users : \/ Schedule(u, "routing", <<"scheduled", "scheduled">>)
                       \/ \E given \in CreatedWith : Schedule(u, "workflow", given)
    \/ \E s \in DOMAIN scheduled, u \in Users, given \in ChangedTo :
         UpdateScheduled(s, u, scheduled[s].leads_to, given) \/ UpdateScheduled(s, u, "routing", given)
    \/ \E u \in Users : UpdateUser(u, "user") \/ UpdateUser(u, "admin") \/ DeleteUser(u)
    \/ \E c \in Calls, u \in Users \cup {NoUser} : ChangePhone(c, u)
    \/ \E c \in Calls : CopyScheduled(c)

Spec == Init /\ [][Next]_vars

-----------------------------------------------------------------------------
(* Properties *)

LegsOf(c)    == {l \in DOMAIN legs : legs[l].call = c}
LegsFor(s)   == {l \in DOMAIN legs : legs[l].scheduled = s}

\* The rows and requests have their shape, and only a call that was verified is
\* asked for numbers.
AdminTypeOK ==
    /\ roles \in [Users -> {"user", "admin", "deleted"}]
    /\ phone \in [Calls -> Present \cup {NoUser}]
    /\ adminCalls \in [Calls -> AdminCall]
    /\ \A c \in Calls : adminCalls[c].user \in Present \cup {NoUser}
    /\ scheduled \in Seq(ScheduledCall)
    /\ \A s \in DOMAIN scheduled : scheduled[s].user \in Present
    /\ legs \in Seq(AdminLeg)
    /\ contacts \in [Calls -> Nat]
    /\ workers \in [Workers -> Worker]
    /\ asked \in [Calls -> Questions \cup Outcomes]
    /\ \A c \in Calls : asked[c] \in {"ani", "dnis", "priority"} => adminCalls[c].verified

\* A scheduled call is traded for one call ("test3" is asked for numbers,
\* test_admin.py:545-553), requests that are cut short included, unless two
\* calls of its user found it before either had claimed it, or it was copied.
TradedOnce == \A s \in DOMAIN scheduled \ contested : Cardinality(LegsFor(s)) <= 1

\* A scheduled call that was claimed is not lost: the call that claimed it is
\* still served, was cut short, or has the leg for it.
ClaimedIsServed ==
    \A s \in DOMAIN scheduled \ contested :
        LET c == scheduled[s].admin_call
        IN  c # NoCall /\ ~scheduled[s].copied =>
                Serving(c) # {} \/ asked[c] = "error" \/ LegsFor(s) # {}

\* A number that a call goes on with was dialed while the user had the role admin
\* at some time of the call it was dialed in, by whatever copies it came; a call
\* that was asked for its numbers has both, and they are its own; and one that was
\* scheduled has those of the scheduled call it was traded for, the ones that are
\* missing included, unless that was given others since.
NumbersAllowed ==
    \A l \in DOMAIN legs : LET leg == legs[l] IN
        /\ {leg.ani, leg.dnis} \cap Calls \subseteq mayDial
        /\ leg.scheduled = 0 => {leg.ani, leg.dnis} \subseteq {"shortcut", leg.call}
        /\ leg.scheduled # 0 => /\ scheduled[leg.scheduled].ani \in {leg.ani, "scheduled"}
                                /\ scheduled[leg.scheduled].dnis \in {leg.dnis, "scheduled"}

\* A scheduled call is given to the user it was scheduled for, however often it
\* was copied, unless it was given to another one after it had been found.
ScheduledForCaller ==
    \A l \in DOMAIN legs : LET s == legs[l].scheduled
        IN  s # 0 /\ s \notin moved => scheduled[s].user = adminCalls[legs[l].call].user

\* A call that is still asked a question, or was turned away, has been traded
\* for nothing, and one that goes on has one contact and one leg.
OneLegEach ==
    \A c \in Calls : Serving(c) = {} =>
        /\ asked[c] \in Questions \cup {"nothing", "over"} => contacts[c] = 0 /\ LegsOf(c) = {}
        /\ asked[c] = "served" => contacts[c] = 1 /\ Cardinality(LegsOf(c)) = 1
=============================================================================
