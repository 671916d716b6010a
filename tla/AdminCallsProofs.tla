-------------------------- MODULE AdminCallsProofs --------------------------
(***************************************************************************)
(* Proofs about AdminCalls, for any calls, users and workers and any number *)
(* of requests, schedules, changes and failures: scheduled calls are traded *)
(* once, by their user, and are not lost; numbers are those of the role; a  *)
(* call has one contact and one leg.                                        *)
(***************************************************************************)
EXTENDS AdminCalls, FiniteSetTheorems, SequenceTheorems, TLAPS

-----------------------------------------------------------------------------
(* The inductive invariant.                                                 *)

\* The rows that workers and legs refer to are there.
RefersToRows ==
    /\ \A w \in Workers : /\ workers[w].scheduled \in {0} \cup DOMAIN scheduled
                          /\ workers[w].loaded \subseteq DOMAIN scheduled
    /\ \A l \in DOMAIN legs : legs[l].scheduled \in {0} \cup DOMAIN scheduled

\* A call is served by one worker at a time.
OneServer == \A v, w \in Workers :
    workers[v].call = workers[w].call /\ workers[v].call # NoCall => v = w

\* What a call was asked last, at each stage of the request that is the answer.
Answers(pc, a) ==
    \/ pc = "new" /\ a = "nothing"
    \/ pc = "create" /\ a \in {"nothing", "login"}
    \/ pc \in {"login", "ani", "dnis", "priority"} /\ a = pc
    \/ pc \in {"pin", "find", "claim"} /\ a = "pin"
    \/ pc \in {"route", "contact", "leg"} /\ a \in {"pin", "dnis", "priority"}

\* The numbers that a call can be given by its caller.
Given(c) == {"shortcut", c}

\* What a worker has to go by at each stage, when its call was asked a and has
\* the row.
JobFits(job, a, row) ==
    /\ job.call # NoCall
    /\ Answers(job.pc, a)
    /\ job.pc = "create" => job.user # NoUser
    /\ job.scheduled # 0 => job.pc \in {"claim", "contact", "leg"}
    /\ job.pc = "claim" => job.scheduled # 0
    /\ job.pc \in {"find", "claim"} => row.verified
    /\ job.pc \in {"route", "contact", "leg"} =>
           IF job.scheduled = 0 THEN {row.ani, row.dnis} \subseteq Given(job.call)
                                ELSE row.ani = job.ani /\ row.dnis = job.dnis

JobsFit == \A w \in Workers :
    workers[w] = Idle \/ JobFits(workers[w], asked[workers[w].call], adminCalls[workers[w].call])

\* What the call c that was asked a last has: its user, its numbers, and whether
\* those that were dialed may have been.
CallFits(a, row, c, may) ==
    /\ row.user \in Present \cup {NoUser}
    /\ a \in {"pin", "ani", "dnis", "priority"} => row.user # NoUser
    /\ a \in {"ani", "dnis", "priority"} => row.verified
    /\ a \in {"dnis", "priority"} => row.ani \in Given(c)
    /\ a = "priority" => row.dnis \in Given(c)
    /\ {row.ani, row.dnis} \cap Calls \subseteq may
    /\ row.user # NoUser /\ roles[row.user] = "admin" => c \in may

CallsFit == \A c \in Calls : CallFits(asked[c], adminCalls[c], c, mayDial)

\* The numbers that a worker has loaded are those of the scheduled call it has
\* found, unless these were changed since.
NumbersInHand ==
    /\ \A s \in DOMAIN scheduled : {scheduled[s].ani, scheduled[s].dnis} \cap Calls \subseteq mayDial
    /\ \A w \in Workers : LET s == workers[w].scheduled
        IN  s # 0 => /\ {workers[w].ani, workers[w].dnis} \cap Calls \subseteq mayDial
                     /\ scheduled[s].ani \in {workers[w].ani, "scheduled"}
                     /\ scheduled[s].dnis \in {workers[w].dnis, "scheduled"}

\* A scheduled call that is not contested is in one hand.
InOneHand == \A s \in DOMAIN scheduled \ contested :
    /\ \A v, w \in Workers : workers[v].scheduled = s /\ workers[w].scheduled = s => v = w
    /\ \A l, m \in DOMAIN legs : legs[l].scheduled = s /\ legs[m].scheduled = s => l = m
    /\ \A l \in DOMAIN legs, w \in Workers : legs[l].scheduled = s => workers[w].scheduled # s
    /\ scheduled[s].admin_call = NoCall =>
           /\ \A l \in DOMAIN legs : legs[l].scheduled # s
           /\ \A w \in Workers : workers[w].scheduled = s => workers[w].pc = "claim"

Untouched(s) ==
    /\ \A l \in DOMAIN legs : legs[l].scheduled # s
    /\ \A w \in Workers : workers[w].scheduled # s

\* One that a call was given before it was verified, by a copy, has been offered
\* to nobody, until the call claims another one and frees it.
KeptByCopy ==
    /\ \A w \in Workers : workers[w].pc \in {"find", "claim"} =>
         \A s \in workers[w].loaded \ contested :
             scheduled[s].admin_call = workers[w].call /\ Untouched(s)
    /\ \A s \in DOMAIN scheduled \ contested :
         LET c == scheduled[s].admin_call
         IN  /\ c \in Calls
             /\ asked[c] \in {"nothing", "login", "pin"}
             /\ \A w \in Workers : workers[w].call = c => workers[w].pc \in {"new", "login", "create", "pin"}
             => Untouched(s)

\* Who claimed a scheduled call is about to be given the leg for it, has it, or
\* was cut short.
ClaimedInHand == \A s \in DOMAIN scheduled \ contested :
    LET c == scheduled[s].admin_call
    IN  c # NoCall /\ ~scheduled[s].copied =>
            \/ \E w \in Workers : workers[w].call = c /\ workers[w].scheduled = s
            \/ asked[c] = "error"
            \/ \E l \in DOMAIN legs : legs[l].scheduled = s

\* A scheduled call in hand is its user's.
OwnInHand == \A w \in Workers : LET s == workers[w].scheduled
    IN  s # 0 /\ s \notin moved => scheduled[s].user = adminCalls[workers[w].call].user

\* A call that was traded is asked nothing any more.
Traded ==
    /\ \A l \in DOMAIN legs : asked[legs[l].call] = "served"
    /\ \A l, m \in DOMAIN legs : legs[l].call = legs[m].call => l = m

\* The contact is there when the leg is to be created, and not before.
ContactsInStep == \A c \in Calls :
    /\ asked[c] = "served" => contacts[c] = 1 /\ \E l \in DOMAIN legs : legs[l].call = c
    /\ /\ asked[c] \in Questions \cup {"nothing", "over"}
       /\ \A w \in Workers : workers[w].call = c => workers[w].pc # "leg"
       => contacts[c] = 0
    /\ \A w \in Workers : workers[w].call = c /\ workers[w].pc = "leg" => contacts[c] = 1

AdminInv ==
    /\ AdminTypeOK /\ RefersToRows /\ OneServer
    /\ JobsFit /\ CallsFit /\ NumbersInHand /\ NumbersAllowed
    /\ InOneHand /\ KeptByCopy /\ ClaimedInHand
    /\ OwnInHand /\ ScheduledForCaller
    /\ Traded /\ ContactsInStep

-----------------------------------------------------------------------------
(* What a worker does, said of each worker and call on its own.             *)

\* The worker w goes on with the job, its call was asked a last and has the row.
Does(w, job, a, row) ==
    /\ workers' \in [Workers -> Worker]
    /\ workers'[w] = job /\ \A v \in Workers : v # w => workers'[v] = workers[v]
    /\ asked' \in [Calls -> Questions \cup Outcomes]
    /\ asked'[workers[w].call] = a /\ \A c \in Calls : c # workers[w].call => asked'[c] = asked[c]
    /\ adminCalls' \in [Calls -> AdminCall]
    /\ adminCalls'[workers[w].call] = row
    /\ \A c \in Calls : c # workers[w].call => adminCalls'[c] = adminCalls[c]

Typed == /\ workers \in [Workers -> Worker]
         /\ asked \in [Calls -> Questions \cup Outcomes]
         /\ adminCalls \in [Calls -> AdminCall]

LEMMA AnswerDoes ==
    ASSUME Typed, NEW w \in Workers, workers[w].call \in Calls,
           NEW a \in Questions \cup Outcomes, Answer(w, a),
           NEW row \in AdminCall, adminCalls' = [adminCalls EXCEPT ![workers[w].call] = row]
    PROVE  Does(w, Idle, a, row)
<1>1. Idle \in Worker
  BY DEF Idle, Worker, LeadsTo, Numbers
<1> QED BY <1>1 DEF Typed, Answer, Does

LEMMA GoesDoes ==
    ASSUME Typed, NEW w \in Workers, workers[w].call \in Calls,
           NEW job \in Worker, workers' = [workers EXCEPT ![w] = job], UNCHANGED asked,
           NEW row \in AdminCall, adminCalls' = [adminCalls EXCEPT ![workers[w].call] = row]
    PROVE  Does(w, job, asked[workers[w].call], row)
BY DEF Typed, Does

\* A request ends with the question or the outcome a.
EndsWith(pc, a) ==
    \/ a = "error"
    \/ pc = "new" /\ a = "login"
    \/ pc = "create" /\ a = "pin"
    \/ pc \in {"login", "pin", "ani", "dnis", "priority"} /\ a = "over"
    \/ pc \in {"find", "ani"} /\ a = "ani"
    \/ pc \in {"ani", "dnis"} /\ a = "dnis"
    \/ pc \in {"dnis", "priority"} /\ a = "priority"

GoesOn(pc, next) ==
    \/ pc \in {"new", "login"} /\ next = "create"
    \/ pc = "pin" /\ next = "find"
    \/ pc \in {"dnis", "priority"} /\ next = "route"
    \/ pc = "route" /\ next = "contact"
    \/ pc = "contact" /\ next = "leg"

\* The actions of a worker that trade nothing: the request ends, or goes on.
Ended(w, a, row) ==
    /\ Does(w, Idle, a, row) /\ CallFits(a, row, workers[w].call, mayDial')
    /\ EndsWith(workers[w].pc, a)
    /\ workers[w].pc # "create" => row.user = Row(w).user
    /\ UNCHANGED <<scheduled, legs, contacts, contested>>

WentOn(w, job, row) ==
    LET c == workers[w].call
    IN  /\ Does(w, job, asked[c], row) /\ CallFits(asked[c], row, c, mayDial')
        /\ JobFits(job, asked[c], row)
        /\ GoesOn(workers[w].pc, job.pc)
        /\ job.call = c /\ job.scheduled = workers[w].scheduled
        /\ job.ani = workers[w].ani /\ job.dnis = workers[w].dnis
        /\ \/ workers[w].pc # "pin" /\ job.loaded = workers[w].loaded
           \/ workers[w].pc = "pin" /\ job.loaded \in LoadedOf(c)
        /\ row.user = Row(w).user
        /\ contacts' = IF job.pc = "leg" THEN [contacts EXCEPT ![c] = @ + 1] ELSE contacts
        /\ UNCHANGED <<scheduled, legs, contested>>

\* Nothing outside changes meanwhile.
Apart == UNCHANGED <<roles, phone, moved>> /\ mayDial \subseteq mayDial'

\* What an action of a worker can rely on.
Serving1(w) ==
    /\ w \in Workers /\ Typed /\ workers[w].call \in Calls /\ workers[w] \in Worker
    /\ Row(w) \in AdminCall
    /\ JobFits(workers[w], asked[workers[w].call], Row(w))
    /\ CallFits(asked[workers[w].call], Row(w), workers[w].call, mayDial)
    /\ roles \in [Users -> {"user", "admin", "deleted"}]
    /\ phone \in [Calls -> Present \cup {NoUser}]

LEMMA ServingNow ==
    ASSUME AdminInv, NEW w \in Workers, workers[w] # Idle
    PROVE  Serving1(w)
<1>1. Typed /\ workers[w] \in Worker
  BY DEF AdminInv, AdminTypeOK, Typed
<1>2. JobFits(workers[w], asked[workers[w].call], Row(w))
  BY DEF AdminInv, JobsFit, Row
<1>3. workers[w].call \in Calls
  BY <1>1, <1>2 DEF JobFits, Worker
<1> QED BY <1>1, <1>2, <1>3 DEF AdminInv, AdminTypeOK, CallsFit, Serving1, Row, Typed

\* A request that ends and leaves the row of its call as it is.
LEMMA JustAnswers ==
    ASSUME NEW w, Serving1(w), NEW a \in Questions \cup Outcomes, Answer(w, a),
           EndsWith(workers[w].pc, a), CallFits(a, Row(w), workers[w].call, mayDial),
           UNCHANGED <<users, rows, history>>
    PROVE  Ended(w, a, Row(w)) /\ Apart
<1>1. adminCalls' = [adminCalls EXCEPT ![workers[w].call] = Row(w)]
  BY DEF Serving1, Typed, rows, Row
<1>2. Row(w) \in AdminCall BY DEF Serving1
<1>3. Does(w, Idle, a, Row(w))
  BY <1>1, <1>2, AnswerDoes DEF Serving1
<1>4. UNCHANGED <<roles, phone, moved, mayDial, scheduled, legs, contacts, contested>>
  BY DEF users, rows, history
<1> QED BY <1>3, <1>4 DEF Ended, Apart

\* A request that goes on and leaves the row of its call as it is.
LEMMA JustGoesOn ==
    ASSUME NEW w, Serving1(w), NEW job \in Worker, workers' = [workers EXCEPT ![w] = job],
           job.call = workers[w].call, job.scheduled = workers[w].scheduled,
           job.ani = workers[w].ani, job.dnis = workers[w].dnis,
           \/ workers[w].pc # "pin" /\ job.loaded = workers[w].loaded
           \/ workers[w].pc = "pin" /\ job.loaded \in LoadedOf(workers[w].call),
           GoesOn(workers[w].pc, job.pc), job.pc # "leg",
           JobFits(job, asked[workers[w].call], Row(w)),
           UNCHANGED <<users, rows, asked, history>>
    PROVE  WentOn(w, job, Row(w)) /\ Apart
<1>1. adminCalls' = [adminCalls EXCEPT ![workers[w].call] = Row(w)]
  BY DEF Serving1, Typed, rows, Row
<1>2. Row(w) \in AdminCall BY DEF Serving1
<1>3. Does(w, job, asked[workers[w].call], Row(w))
  BY <1>1, <1>2, GoesDoes DEF Serving1
<1>4. UNCHANGED <<roles, phone, moved, mayDial, scheduled, legs, contacts, contested>>
  BY DEF users, rows, history
<1> QED BY <1>3, <1>4 DEF WentOn, Apart, Serving1

LEMMA NewAdminCallDoes ==
    ASSUME NEW w, Serving1(w), NewAdminCall(w)
    PROVE  /\ Apart
           /\ \/ \E a, row : Ended(w, a, row)
              \/ \E job, row : WentOn(w, job, row)
<1>1. workers[w].pc = "new" /\ UNCHANGED <<users, rows, history>>
  BY DEF NewAdminCall
<1>2. CASE phone[workers[w].call] = NoUser
  <2>1. Answer(w, "login") BY <1>2 DEF NewAdminCall
  <2>2. "login" \in Questions \cup Outcomes BY DEF Questions
  <2>3. EndsWith(workers[w].pc, "login") /\ CallFits("login", Row(w), workers[w].call, mayDial)
    BY <1>1 DEF EndsWith, Serving1, CallFits
  <2> QED BY <1>1, <2>1, <2>2, <2>3, JustAnswers
<1>3. CASE phone[workers[w].call] # NoUser
  <2> DEFINE job == [workers[w] EXCEPT !.pc = "create", !.user = phone[workers[w].call]]
  <2>1. workers' = [workers EXCEPT ![w] = job] /\ UNCHANGED asked
    BY <1>3 DEF NewAdminCall, Serving1, Typed
  <2>2. job \in Worker /\ job.user # NoUser BY <1>3 DEF Serving1, Worker, Present
  <2>3. /\ job.pc = "create" /\ job.call = workers[w].call /\ job.loaded = workers[w].loaded
        /\ job.scheduled = workers[w].scheduled /\ job.ani = workers[w].ani /\ job.dnis = workers[w].dnis
    BY DEF Serving1, Worker
  <2> HIDE DEF job
  <2>4. GoesOn(workers[w].pc, job.pc) /\ JobFits(job, asked[workers[w].call], Row(w))
    BY <1>1, <2>2, <2>3 DEF GoesOn, JobFits, Serving1, Answers
  <2>5. WentOn(w, job, Row(w)) /\ Apart BY <1>1, <2>1, <2>2, <2>3, <2>4, JustGoesOn
  <2> QED BY <2>5
<1> QED BY <1>2, <1>3

LEMMA LoginDoes ==
    ASSUME NEW w, Serving1(w), Login(w)
    PROVE  /\ Apart
           /\ \/ \E a, row : Ended(w, a, row)
              \/ \E job, row : WentOn(w, job, row)
<1>1. workers[w].pc = "login" /\ UNCHANGED <<users, rows, history>>
  BY DEF Login
<1>2. CASE Answer(w, "over")
  <2>1. "over" \in Questions \cup Outcomes BY DEF Outcomes
  <2>2. EndsWith(workers[w].pc, "over") /\ CallFits("over", Row(w), workers[w].call, mayDial)
    BY <1>1 DEF EndsWith, Serving1, CallFits
  <2> QED BY <1>1, <1>2, <2>1, <2>2, JustAnswers
<1>3. ASSUME NEW u \in Present, workers' = [workers EXCEPT ![w].pc = "create", ![w].user = u],
             UNCHANGED asked
      PROVE  \E job, row : WentOn(w, job, row) /\ Apart
  <2> DEFINE job == [workers[w] EXCEPT !.pc = "create", !.user = u]
  <2>1. workers' = [workers EXCEPT ![w] = job]
    BY <1>3 DEF Serving1, Typed
  <2>2. job \in Worker /\ job.user # NoUser BY <1>3, AdminsAssumption DEF Serving1, Worker, Present
  <2>3. /\ job.pc = "create" /\ job.call = workers[w].call /\ job.loaded = workers[w].loaded
        /\ job.scheduled = workers[w].scheduled /\ job.ani = workers[w].ani /\ job.dnis = workers[w].dnis
    BY DEF Serving1, Worker
  <2> HIDE DEF job
  <2>4. GoesOn(workers[w].pc, job.pc) /\ JobFits(job, asked[workers[w].call], Row(w))
    BY <1>1, <2>2, <2>3 DEF GoesOn, JobFits, Serving1, Answers
  <2>5. WentOn(w, job, Row(w)) /\ Apart BY <1>1, <1>3, <2>1, <2>2, <2>3, <2>4, JustGoesOn
  <2> QED BY <2>5
<1> QED BY <1>2, <1>3 DEF Login

LEMMA CreateAdminCallDoes ==
    ASSUME NEW w, Serving1(w), CreateAdminCall(w)
    PROVE  Apart /\ \E a, row : Ended(w, a, row)
<1> DEFINE u == workers[w].user
           row == [NoAdminCall EXCEPT !.user = u]
<1>1. /\ workers[w].pc = "create" /\ u \in Present /\ u # NoUser
      /\ UNCHANGED <<users, scheduled, contacts, legs, contested, moved>>
  BY DEF CreateAdminCall, Serving1, JobFits
<1>2. row \in AdminCall /\ row.user = u /\ row.ani = "none" /\ row.dnis = "none"
  BY <1>1 DEF Present, NoAdminCall, AdminCall, Numbers
<1>3. /\ adminCalls' = [adminCalls EXCEPT ![workers[w].call] = row]
      /\ mayDial' = IF roles[u] = "admin" THEN mayDial \cup {workers[w].call} ELSE mayDial
      /\ Answer(w, "pin")
  BY DEF CreateAdminCall
<1>4. "pin" \in Questions \cup Outcomes BY DEF Questions
<1> HIDE DEF row, u
<1>5. Does(w, Idle, "pin", row) BY <1>2, <1>3, <1>4, AnswerDoes DEF Serving1
<1>6. CallFits("pin", row, workers[w].call, mayDial')
  BY <1>1, <1>2, <1>3, NoCallAssumption DEF CallFits, NoCall
<1>7. EndsWith("create", "pin") BY DEF EndsWith
<1>8. Ended(w, "pin", row) BY <1>1, <1>5, <1>6, <1>7 DEF Ended
<1> QED BY <1>1, <1>3, <1>8 DEF Apart, users

LEMMA RejectsDoes ==
    ASSUME NEW w, Serving1(w),
           CreateRaises(w) \/ RejectPin(w) \/ NoneScheduled(w) \/ PriorityRaises(w) \/ LegRaises(w)
    PROVE  Apart /\ \E a, row : Ended(w, a, row)
<1>1. UNCHANGED <<users, rows, history>>
  BY DEF CreateRaises, RejectPin, NoneScheduled, PriorityRaises, LegRaises
<1>2. CallFits("error", Row(w), workers[w].call, mayDial)
  BY DEF Serving1, CallFits
<1>3. {"error", "over", "ani"} \subseteq Questions \cup Outcomes BY DEF Questions, Outcomes
<1>4. CASE Answer(w, "error")
  <2>1. EndsWith(workers[w].pc, "error") BY DEF EndsWith
  <2> QED BY <1>1, <1>2, <1>3, <1>4, <2>1, JustAnswers
<1>5. CASE RejectPin(w)
  <2>1. workers[w].pc = "pin" /\ Answer(w, "over") BY <1>5 DEF RejectPin
  <2>2. EndsWith(workers[w].pc, "over") /\ CallFits("over", Row(w), workers[w].call, mayDial)
    BY <2>1, <1>2 DEF EndsWith, CallFits
  <2> QED BY <1>1, <1>3, <2>1, <2>2, JustAnswers
<1>6. CASE NoneScheduled(w)
  <2>1. workers[w].pc = "find" /\ Answer(w, "ani") BY <1>6 DEF NoneScheduled
  <2>2. EndsWith(workers[w].pc, "ani") /\ CallFits("ani", Row(w), workers[w].call, mayDial)
    BY <2>1 DEF EndsWith, CallFits, Serving1, JobFits, Answers
  <2> QED BY <1>1, <1>3, <2>1, <2>2, JustAnswers
<1> QED BY <1>4, <1>5, <1>6 DEF CreateRaises, PriorityRaises, LegRaises

LEMMA FailDoes ==
    ASSUME NEW w, Serving1(w), Fail(w)
    PROVE  Apart /\ \E a, row : Ended(w, a, row)
<1>1. Answer(w, "error") /\ UNCHANGED <<users, rows, history>>
  BY DEF Fail
<1>2. EndsWith(workers[w].pc, "error") /\ CallFits("error", Row(w), workers[w].call, mayDial)
  BY DEF Serving1, CallFits, EndsWith
<1>3. "error" \in Questions \cup Outcomes BY DEF Outcomes
<1> QED BY <1>1, <1>2, <1>3, JustAnswers

LEMMA VerifyDoes ==
    ASSUME NEW w, Serving1(w), Verify(w), scheduled \in Seq(ScheduledCall)
    PROVE  Apart /\ \E job, row : WentOn(w, job, row)
<1>1. /\ workers[w].pc = "pin"
      /\ UNCHANGED <<users, scheduled, contacts, legs, asked, history>>
  BY DEF Verify
<1>2. PICK loaded \in LoadedOf(workers[w].call) :
          workers' = [workers EXCEPT ![w].pc = "find", ![w].loaded = loaded]
  BY DEF Verify
<1> DEFINE job == [workers[w] EXCEPT !.pc = "find", !.loaded = loaded]
           row == Verified(Row(w))
<1>3. loaded \in SUBSET Nat
  BY DEF LoadedOf
<1>4. job \in Worker /\ job.pc = "find" /\ job.call = workers[w].call /\ job.loaded = loaded
      /\ job.scheduled = workers[w].scheduled /\ job.ani = workers[w].ani /\ job.dnis = workers[w].dnis
  BY <1>3 DEF Serving1, Worker
<1>5. workers' = [workers EXCEPT ![w] = job]
  BY <1>2 DEF Serving1, Typed
<1>6. row \in AdminCall /\ row.verified /\ row.user = Row(w).user /\ row.ani = Row(w).ani
      /\ row.dnis = Row(w).dnis
  BY DEF Serving1, AdminCall, Verified
<1>7. adminCalls' = [adminCalls EXCEPT ![workers[w].call] = row]
  BY DEF Verify, Verified, Row, Serving1, Typed
<1> HIDE DEF job, row
<1>8. Does(w, job, asked[workers[w].call], row)
  BY <1>1, <1>4, <1>5, <1>6, <1>7, GoesDoes DEF Serving1
<1>9. asked[workers[w].call] = "pin" /\ workers[w].scheduled = 0
  BY <1>1 DEF Serving1, JobFits, Answers
<1>10. CallFits("pin", row, workers[w].call, mayDial')
  BY <1>1, <1>6, <1>9 DEF CallFits, Serving1, history
<1>11. JobFits(job, "pin", row) /\ GoesOn(workers[w].pc, job.pc)
  BY <1>1, <1>4, <1>6, <1>9 DEF JobFits, Answers, GoesOn, Serving1
<1>12. UNCHANGED <<roles, phone, moved, mayDial, scheduled, legs, contacts, contested>>
  BY <1>1 DEF users, history
<1>13. WentOn(w, job, row)
  BY <1>1, <1>4, <1>6, <1>8, <1>9, <1>10, <1>11, <1>12 DEF WentOn
<1> QED BY <1>12, <1>13 DEF Apart

LEMMA AskAgainDoes ==
    ASSUME NEW w, Serving1(w), AskAgain(w)
    PROVE  Apart /\ \E a, row : Ended(w, a, row)
<1> DEFINE a == IF Row(w).verified THEN workers[w].pc ELSE "over"
<1>1. /\ workers[w].pc \in {"ani", "dnis", "priority"} /\ Answer(w, a)
      /\ UNCHANGED <<users, rows, history>>
  BY DEF AskAgain, AnswerVerified
<1>2. a \in Questions \cup Outcomes BY <1>1 DEF Questions, Outcomes
<1>3. EndsWith(workers[w].pc, a) BY <1>1 DEF EndsWith
<1>4. asked[workers[w].call] = workers[w].pc BY <1>1 DEF Serving1, JobFits, Answers
<1>5. CallFits(a, Row(w), workers[w].call, mayDial) BY <1>1, <1>4 DEF CallFits, Serving1
<1> HIDE DEF a
<1> QED BY <1>1, <1>2, <1>3, <1>5, JustAnswers

LEMMA AddAniDoes ==
    ASSUME NEW w, Serving1(w), AddAni(w)
    PROVE  Apart /\ \E a, row : Ended(w, a, row)
<1>1. /\ workers[w].pc = "ani" /\ Row(w).verified /\ Answer(w, "dnis")
      /\ UNCHANGED <<users, scheduled, contacts, legs, history>>
  BY DEF AddAni
<1>2. PICK d \in Digits :
         /\ Accepts(Row(w).user, d)
         /\ adminCalls' = [adminCalls EXCEPT ![workers[w].call].ani = NumberOf(workers[w].call, d)]
  BY DEF AddAni
<1> DEFINE n == NumberOf(workers[w].call, d)
<1>3. n \in Given(workers[w].call) /\ (n \in Calls => roles[Row(w).user] = "admin" /\ n = workers[w].call)
  BY <1>2, NoCallAssumption DEF Accepts, NumberOf, Given
<1> DEFINE row == [Row(w) EXCEPT !.ani = n]
<1>4. row \in AdminCall /\ row.verified = Row(w).verified /\ row.user = Row(w).user
      /\ row.ani = n /\ row.dnis = Row(w).dnis
  BY <1>3 DEF Serving1, AdminCall, Given, Numbers
<1>5. adminCalls' = [adminCalls EXCEPT ![workers[w].call] = row]
  BY <1>2 DEF Row, Serving1, Typed
<1> HIDE DEF row, n
<1>6. "dnis" \in Questions \cup Outcomes BY DEF Questions
<1>7. Does(w, Idle, "dnis", row) BY <1>1, <1>4, <1>5, <1>6, AnswerDoes DEF Serving1
<1>8. asked[workers[w].call] = "ani" BY <1>1 DEF Serving1, JobFits, Answers
<1>9. CallFits("dnis", row, workers[w].call, mayDial)
  BY <1>1, <1>3, <1>4, <1>8 DEF CallFits, Serving1
<1>10. EndsWith("ani", "dnis") BY DEF EndsWith
<1>11. UNCHANGED <<roles, phone, moved, mayDial, scheduled, legs, contacts, contested>>
  BY <1>1 DEF users, history
<1>12. Ended(w, "dnis", row) BY <1>1, <1>4, <1>7, <1>9, <1>10, <1>11 DEF Ended
<1> QED BY <1>11, <1>12 DEF Apart

LEMMA AddDnisDoes ==
    ASSUME NEW w, Serving1(w), AddDnis(w)
    PROVE  /\ Apart
           /\ \/ \E a, row : Ended(w, a, row)
              \/ \E job, row : WentOn(w, job, row)
<1>1. /\ workers[w].pc = "dnis" /\ Row(w).verified
      /\ UNCHANGED <<users, scheduled, contacts, legs, history>>
  BY DEF AddDnis
<1>2. PICK d \in Digits :
         /\ Accepts(Row(w).user, d)
         /\ adminCalls' = [adminCalls EXCEPT ![workers[w].call].dnis = NumberOf(workers[w].call, d)]
  BY DEF AddDnis
<1> DEFINE n == NumberOf(workers[w].call, d)
<1>3. n \in Given(workers[w].call) /\ (n \in Calls => roles[Row(w).user] = "admin" /\ n = workers[w].call)
  BY <1>2, NoCallAssumption DEF Accepts, NumberOf, Given
<1> DEFINE row == [Row(w) EXCEPT !.dnis = n]
<1>4. row \in AdminCall /\ row.verified = Row(w).verified /\ row.user = Row(w).user
      /\ row.dnis = n /\ row.ani = Row(w).ani
  BY <1>3 DEF Serving1, AdminCall, Given, Numbers
<1>5. adminCalls' = [adminCalls EXCEPT ![workers[w].call] = row]
  BY <1>2 DEF Row, Serving1, Typed
<1> HIDE DEF row, n
<1>6. asked[workers[w].call] = "dnis" /\ workers[w].scheduled = 0
  BY <1>1 DEF Serving1, JobFits, Answers
<1>7. \A a \in {"dnis", "priority"} : CallFits(a, row, workers[w].call, mayDial)
  BY <1>1, <1>3, <1>4, <1>6 DEF CallFits, Serving1
<1>8. UNCHANGED <<roles, phone, moved, mayDial, scheduled, legs, contacts, contested>>
  BY <1>1 DEF users, history
<1>9. CASE Answer(w, "priority")
  <2>1. "priority" \in Questions \cup Outcomes BY DEF Questions
  <2>2. Does(w, Idle, "priority", row) BY <1>4, <1>5, <1>9, <2>1, AnswerDoes DEF Serving1
  <2>3. EndsWith("dnis", "priority") BY DEF EndsWith
  <2>4. Ended(w, "priority", row) BY <1>1, <1>4, <1>7, <1>8, <2>2, <2>3 DEF Ended
  <2> QED BY <1>8, <2>4 DEF Apart
<1>10. CASE Goes(w, "route") /\ UNCHANGED asked
  <2> DEFINE job == [workers[w] EXCEPT !.pc = "route"]
  <2>1. workers' = [workers EXCEPT ![w] = job] BY <1>10 DEF Goes, Serving1, Typed
  <2>2. job \in Worker /\ job.pc = "route" /\ job.call = workers[w].call
        /\ job.loaded = workers[w].loaded /\ job.scheduled = 0
        /\ job.ani = workers[w].ani /\ job.dnis = workers[w].dnis
    BY <1>6 DEF Serving1, Worker
  <2> HIDE DEF job
  <2>3. Does(w, job, "dnis", row) BY <1>4, <1>5, <1>6, <1>10, <2>1, <2>2, GoesDoes DEF Serving1
  <2>4. JobFits(job, "dnis", row) /\ GoesOn(workers[w].pc, job.pc)
    BY <1>1, <1>3, <1>4, <1>6, <2>2 DEF JobFits, Answers, GoesOn, Serving1, CallFits
  <2>5. WentOn(w, job, row) BY <1>1, <1>4, <1>6, <1>7, <1>8, <2>2, <2>3, <2>4 DEF WentOn
  <2> QED BY <1>8, <2>5 DEF Apart
<1> QED BY <1>9, <1>10 DEF AddDnis

LEMMA ChooseRoutingDoes ==
    ASSUME NEW w, Serving1(w), ChooseRouting(w)
    PROVE  Apart /\ \E job, row : WentOn(w, job, row)
<1>1. /\ workers[w].pc = "priority" /\ Goes(w, "route")
      /\ UNCHANGED <<users, rows, asked, history>>
  BY DEF ChooseRouting
<1> DEFINE job == [workers[w] EXCEPT !.pc = "route"]
<1>2. workers' = [workers EXCEPT ![w] = job] BY <1>1 DEF Goes, Serving1, Typed
<1>3. job \in Worker /\ job.pc = "route" /\ job.call = workers[w].call
      /\ job.loaded = workers[w].loaded /\ job.scheduled = workers[w].scheduled
      /\ job.ani = workers[w].ani /\ job.dnis = workers[w].dnis
  BY DEF Serving1, Worker
<1> HIDE DEF job
<1>4. JobFits(job, asked[workers[w].call], Row(w)) /\ GoesOn(workers[w].pc, job.pc)
  BY <1>1, <1>3 DEF JobFits, Answers, GoesOn, Serving1, CallFits
<1>5. WentOn(w, job, Row(w)) /\ Apart BY <1>1, <1>2, <1>3, <1>4, JustGoesOn
<1> QED BY <1>5

LEMMA AddCallRoutingDoes ==
    ASSUME NEW w, Serving1(w), AddCallRouting(w)
    PROVE  Apart /\ \E job, row : WentOn(w, job, row)
<1>1. /\ workers[w].pc = "route" /\ Goes(w, "contact")
      /\ UNCHANGED <<users, scheduled, contacts, legs, asked, history>>
      /\ adminCalls' = [adminCalls EXCEPT ![workers[w].call].routed = TRUE]
  BY DEF AddCallRouting
<1> DEFINE job == [workers[w] EXCEPT !.pc = "contact"]
           row == [Row(w) EXCEPT !.routed = TRUE]
<1>2. workers' = [workers EXCEPT ![w] = job] BY <1>1 DEF Goes, Serving1, Typed
<1>3. job \in Worker /\ job.pc = "contact" /\ job.call = workers[w].call
      /\ job.loaded = workers[w].loaded /\ job.scheduled = workers[w].scheduled
      /\ job.ani = workers[w].ani /\ job.dnis = workers[w].dnis
  BY DEF Serving1, Worker
<1>4. row \in AdminCall /\ row.verified = Row(w).verified /\ row.user = Row(w).user
      /\ row.dnis = Row(w).dnis /\ row.ani = Row(w).ani
  BY DEF Serving1, AdminCall
<1>5. adminCalls' = [adminCalls EXCEPT ![workers[w].call] = row]
  BY <1>1 DEF Row, Serving1, Typed
<1> HIDE DEF job, row
<1>6. Does(w, job, asked[workers[w].call], row) BY <1>1, <1>2, <1>3, <1>4, <1>5, GoesDoes DEF Serving1
<1>7. JobFits(job, asked[workers[w].call], row) /\ GoesOn(workers[w].pc, job.pc)
  BY <1>1, <1>3, <1>4 DEF JobFits, Answers, GoesOn, Serving1
<1>8. CallFits(asked[workers[w].call], row, workers[w].call, mayDial)
  BY <1>4 DEF CallFits, Serving1
<1>9. UNCHANGED <<roles, phone, moved, mayDial, scheduled, legs, contacts, contested>>
  BY <1>1 DEF users, history
<1>10. WentOn(w, job, row) BY <1>1, <1>3, <1>4, <1>6, <1>7, <1>8, <1>9 DEF WentOn
<1> QED BY <1>9, <1>10 DEF Apart

LEMMA CreateContactDoes ==
    ASSUME NEW w, Serving1(w), CreateContact(w)
    PROVE  Apart /\ \E job, row : WentOn(w, job, row)
<1>1. /\ workers[w].pc = "contact" /\ Goes(w, "leg")
      /\ UNCHANGED <<users, adminCalls, scheduled, legs, asked, history>>
      /\ contacts' = [contacts EXCEPT ![workers[w].call] = @ + 1]
  BY DEF CreateContact
<1> DEFINE job == [workers[w] EXCEPT !.pc = "leg"]
<1>2. workers' = [workers EXCEPT ![w] = job] BY <1>1 DEF Goes, Serving1, Typed
<1>3. job \in Worker /\ job.pc = "leg" /\ job.call = workers[w].call
      /\ job.loaded = workers[w].loaded /\ job.scheduled = workers[w].scheduled
      /\ job.ani = workers[w].ani /\ job.dnis = workers[w].dnis
  BY DEF Serving1, Worker
<1>5. adminCalls' = [adminCalls EXCEPT ![workers[w].call] = Row(w)] /\ Row(w) \in AdminCall
  BY <1>1 DEF Row, Serving1, Typed
<1> HIDE DEF job
<1>6. Does(w, job, asked[workers[w].call], Row(w)) BY <1>1, <1>2, <1>3, <1>5, GoesDoes DEF Serving1
<1>7. JobFits(job, asked[workers[w].call], Row(w)) /\ GoesOn(workers[w].pc, job.pc)
  BY <1>1, <1>3 DEF JobFits, Answers, GoesOn, Serving1
<1>9. UNCHANGED <<roles, phone, moved, mayDial, scheduled, legs, contested>>
  BY <1>1 DEF users, history
<1>10. WentOn(w, job, Row(w)) BY <1>1, <1>3, <1>6, <1>7, <1>9 DEF WentOn, Serving1
<1> QED BY <1>9, <1>10 DEF Apart

\* The three actions about scheduled calls and legs.
Found(w, job, s) ==
    LET c == workers[w].call
    IN  /\ Does(w, job, asked[c], Row(w)) /\ CallFits(asked[c], Row(w), c, mayDial')
        /\ JobFits(job, asked[c], Row(w))
        /\ workers[w].pc = "find" /\ job.pc = "claim" /\ job.call = c
        /\ job.scheduled = s /\ job.loaded = workers[w].loaded
        /\ job.ani = scheduled[s].ani /\ job.dnis = scheduled[s].dnis
        /\ s \in DOMAIN scheduled /\ scheduled[s].admin_call = NoCall /\ scheduled[s].user = Row(w).user
        /\ contested \subseteq contested'
        /\ s \notin contested' =>
               \A v \in Workers : ~(workers[v].pc = "claim" /\ workers[v].scheduled = s)
        /\ UNCHANGED <<scheduled, legs, contacts>>

Claims(w, job, row) ==
    LET c == workers[w].call
        s == workers[w].scheduled
    IN  /\ Does(w, job, asked[c], row) /\ CallFits(asked[c], row, c, mayDial')
        /\ JobFits(job, asked[c], row)
        /\ workers[w].pc = "claim" /\ job.pc = "contact" /\ job.call = c
        /\ job.scheduled = s /\ job.loaded = workers[w].loaded
        /\ job.ani = workers[w].ani /\ job.dnis = workers[w].dnis
        /\ row.user = Row(w).user
        /\ s \in DOMAIN scheduled
        /\ scheduled' \in Seq(ScheduledCall) /\ DOMAIN scheduled' = DOMAIN scheduled
        /\ scheduled'[s].admin_call = c
        /\ \A t \in DOMAIN scheduled :
             /\ scheduled'[t].user = scheduled[t].user /\ scheduled'[t].copied = scheduled[t].copied
             /\ scheduled'[t].ani = scheduled[t].ani /\ scheduled'[t].dnis = scheduled[t].dnis
             /\ t # s => scheduled'[t].admin_call =
                             IF t \in workers[w].loaded THEN NoCall ELSE scheduled[t].admin_call
        /\ UNCHANGED <<legs, contacts, contested>>

Trades(w, leg) ==
    LET c == workers[w].call
    IN  /\ Does(w, Idle, "served", Row(w)) /\ CallFits("served", Row(w), c, mayDial')
        /\ workers[w].pc = "leg"
        /\ leg \in AdminLeg /\ leg.call = c /\ leg.scheduled = workers[w].scheduled
        /\ leg.ani = Row(w).ani /\ leg.dnis = Row(w).dnis
        /\ legs' = Append(legs, leg)
        /\ UNCHANGED <<scheduled, contacts, contested>>

\* A function on the positions of a sequence is one.
LEMMA SameLength ==
    ASSUME NEW S, NEW p \in Seq(S), NEW q, DOMAIN q = DOMAIN p,
           q = [i \in DOMAIN p |-> q[i]], \A i \in DOMAIN p : q[i] \in S
    PROVE  q \in Seq(S)
<1>1. Len(p) \in Nat /\ DOMAIN p = 1 .. Len(p) OBVIOUS
<1>2. q \in [1 .. Len(p) -> S] BY <1>1
<1> QED BY <1>1, <1>2, SeqDef

LEMMA FindScheduledDoes ==
    ASSUME NEW w, Serving1(w), FindScheduled(w), scheduled \in Seq(ScheduledCall)
    PROVE  Apart /\ \E job, s : Found(w, job, s)
<1>1. workers[w].pc = "find" /\ UNCHANGED <<users, rows, asked, moved, mayDial>>
  BY DEF FindScheduled
<1>2. PICK s \in Unclaimed(Row(w).user) :
         /\ workers' = [workers EXCEPT ![w].pc = "claim", ![w].scheduled = s,
                                       ![w].leads_to = scheduled[s].leads_to,
                                       ![w].ani = scheduled[s].ani, ![w].dnis = scheduled[s].dnis]
         /\ contested' = IF \E v \in Workers : workers[v].pc = "claim" /\ workers[v].scheduled = s
                         THEN contested \cup {s} ELSE contested
  BY DEF FindScheduled
<1>3. /\ s \in DOMAIN scheduled /\ s \in Nat /\ s # 0 /\ scheduled[s] \in ScheduledCall
      /\ scheduled[s].admin_call = NoCall /\ scheduled[s].user = Row(w).user
  BY <1>2 DEF Unclaimed
<1> DEFINE job == [workers[w] EXCEPT !.pc = "claim", !.scheduled = s, !.leads_to = scheduled[s].leads_to,
                                     !.ani = scheduled[s].ani, !.dnis = scheduled[s].dnis]
<1>4. workers' = [workers EXCEPT ![w] = job] BY <1>2 DEF Serving1, Typed
<1>5. /\ job \in Worker /\ job.pc = "claim" /\ job.call = workers[w].call /\ job.scheduled = s
      /\ job.loaded = workers[w].loaded /\ job.ani = scheduled[s].ani /\ job.dnis = scheduled[s].dnis
  BY <1>3 DEF Serving1, Worker, ScheduledCall
<1> HIDE DEF job
<1>6. adminCalls' = [adminCalls EXCEPT ![workers[w].call] = Row(w)] /\ Row(w) \in AdminCall
  BY <1>1 DEF Row, Serving1, Typed, rows
<1>7. Does(w, job, asked[workers[w].call], Row(w)) BY <1>1, <1>4, <1>5, <1>6, GoesDoes DEF Serving1
<1>8. JobFits(job, asked[workers[w].call], Row(w))
  BY <1>1, <1>3, <1>5 DEF JobFits, Answers, Serving1
<1>9. UNCHANGED <<roles, phone, moved, mayDial, scheduled, legs, contacts>>
  BY <1>1 DEF users, rows
<1>10. Found(w, job, s) BY <1>1, <1>2, <1>3, <1>5, <1>7, <1>8, <1>9 DEF Found, Serving1
<1> QED BY <1>9, <1>10 DEF Apart

LEMMA ClaimDoes ==
    ASSUME NEW w, Serving1(w), Claim(w), scheduled \in Seq(ScheduledCall),
           workers[w].scheduled \in {0} \cup DOMAIN scheduled,
           {workers[w].ani, workers[w].dnis} \cap Calls \subseteq mayDial
    PROVE  Apart /\ \E job, row : Claims(w, job, row)
<1> DEFINE c == workers[w].call
           s == workers[w].scheduled
           job == [workers[w] EXCEPT !.pc = "contact"]
           row == [Row(w) EXCEPT !.ani = workers[w].ani, !.dnis = workers[w].dnis,
                                 !.routed = (workers[w].leads_to = "routing")]
<1>1. /\ workers[w].pc = "claim" /\ Goes(w, "contact")
      /\ UNCHANGED <<users, contacts, legs, asked, history>>
      /\ scheduled' = [Freed(workers[w].loaded) EXCEPT ![s] = Claimed(@, c)]
  BY DEF Claim, AfterClaim
<1>2. adminCalls' = [adminCalls EXCEPT ![c].ani = workers[w].ani, ![c].dnis = workers[w].dnis,
                                       ![c].routed = (workers[w].leads_to = "routing")]
  BY DEF Claim
<1>3. s \in DOMAIN scheduled /\ s # 0 /\ c \in Calls BY <1>1 DEF Serving1, JobFits
<1>4. workers' = [workers EXCEPT ![w] = job] BY <1>1 DEF Goes, Serving1, Typed
<1>5. job \in Worker /\ job.pc = "contact" /\ job.call = c
      /\ job.loaded = workers[w].loaded /\ job.scheduled = s
      /\ job.ani = workers[w].ani /\ job.dnis = workers[w].dnis
  BY DEF Serving1, Worker
<1>6. row \in AdminCall /\ row.verified = Row(w).verified /\ row.user = Row(w).user
      /\ row.ani = workers[w].ani /\ row.dnis = workers[w].dnis
  BY DEF Serving1, AdminCall, Worker
<1>7. adminCalls' = [adminCalls EXCEPT ![c] = row]
  BY <1>2, <1>3 DEF Row, Serving1, Typed
<1>8. /\ scheduled' \in Seq(ScheduledCall) /\ DOMAIN scheduled' = DOMAIN scheduled
      /\ scheduled'[s].admin_call = c
      /\ \A t \in DOMAIN scheduled :
             /\ scheduled'[t].user = scheduled[t].user /\ scheduled'[t].copied = scheduled[t].copied
             /\ scheduled'[t].ani = scheduled[t].ani /\ scheduled'[t].dnis = scheduled[t].dnis
             /\ t # s => scheduled'[t].admin_call =
                             IF t \in workers[w].loaded THEN NoCall ELSE scheduled[t].admin_call
  <2> DEFINE freed == Freed(workers[w].loaded)
  <2>1. \A t \in DOMAIN scheduled : scheduled[t] \in ScheduledCall
    OBVIOUS
  <2>2. /\ DOMAIN freed = DOMAIN scheduled
        /\ \A t \in DOMAIN scheduled :
             /\ freed[t] \in ScheduledCall
             /\ freed[t].user = scheduled[t].user /\ freed[t].copied = scheduled[t].copied
             /\ freed[t].ani = scheduled[t].ani /\ freed[t].dnis = scheduled[t].dnis
             /\ freed[t].admin_call = IF t \in workers[w].loaded THEN NoCall ELSE scheduled[t].admin_call
    BY <2>1 DEF Freed, ScheduledCall
  <2>3. /\ Claimed(freed[s], c) \in ScheduledCall /\ Claimed(freed[s], c).user = freed[s].user
        /\ Claimed(freed[s], c).copied = freed[s].copied /\ Claimed(freed[s], c).admin_call = c
        /\ Claimed(freed[s], c).ani = freed[s].ani /\ Claimed(freed[s], c).dnis = freed[s].dnis
    BY <2>2, <1>3 DEF Claimed, ScheduledCall
  <2>4. scheduled' = [freed EXCEPT ![s] = Claimed(freed[s], c)] BY <1>1
  <2>5. freed = [t \in DOMAIN scheduled |-> freed[t]] BY DEF Freed
  <2> HIDE DEF freed, c, s
  <2>6. /\ DOMAIN scheduled' = DOMAIN scheduled
        /\ scheduled' = [t \in DOMAIN scheduled |-> scheduled'[t]]
        /\ scheduled'[s] = Claimed(freed[s], c)
        /\ \A t \in DOMAIN scheduled : t # s => scheduled'[t] = freed[t]
    BY <2>2, <2>4, <2>5, <1>3
  <2>7. \A t \in DOMAIN scheduled : scheduled'[t] \in ScheduledCall BY <2>2, <2>3, <2>6
  <2>8. scheduled' \in Seq(ScheduledCall)
    BY <2>6, <2>7, SameLength
  <2> QED BY <2>2, <2>3, <2>6, <2>8
<1> HIDE DEF job, row
<1>9. Does(w, job, asked[c], row) BY <1>1, <1>3, <1>4, <1>5, <1>6, <1>7, GoesDoes DEF Serving1
<1>10. JobFits(job, asked[c], row) /\ CallFits(asked[c], row, c, mayDial)
  BY <1>1, <1>3, <1>5, <1>6 DEF JobFits, Answers, Serving1, CallFits
<1>11. UNCHANGED <<roles, phone, moved, mayDial, legs, contacts, contested>>
  BY <1>1 DEF users, history
<1>12. Claims(w, job, row)
  BY <1>1, <1>3, <1>5, <1>6, <1>8, <1>9, <1>10, <1>11 DEF Claims
<1> QED BY <1>11, <1>12 DEF Apart

LEMMA CreateLegDoes ==
    ASSUME NEW w, Serving1(w), CreateLeg(w)
    PROVE  Apart /\ \E leg : Trades(w, leg)
<1> DEFINE leg == [call |-> workers[w].call, ani |-> Row(w).ani, dnis |-> Row(w).dnis,
                   scheduled |-> workers[w].scheduled]
<1>1. /\ workers[w].pc = "leg" /\ Answer(w, "served") /\ legs' = Append(legs, leg)
      /\ UNCHANGED <<users, adminCalls, scheduled, contacts, history>>
  BY DEF CreateLeg
<1>2. leg \in AdminLeg /\ leg.call = workers[w].call /\ leg.scheduled = workers[w].scheduled
      /\ leg.ani = Row(w).ani /\ leg.dnis = Row(w).dnis
  BY DEF Serving1, AdminLeg, AdminCall, Worker
<1> HIDE DEF leg
<1>3. adminCalls' = [adminCalls EXCEPT ![workers[w].call] = Row(w)] /\ Row(w) \in AdminCall
  BY <1>1 DEF Row, Serving1, Typed
<1>4. "served" \in Questions \cup Outcomes BY DEF Outcomes
<1>5. Does(w, Idle, "served", Row(w)) BY <1>1, <1>3, <1>4, AnswerDoes DEF Serving1
<1>6. UNCHANGED <<roles, phone, moved, mayDial, scheduled, contacts, contested>>
  BY <1>1 DEF users, history
<1>7. CallFits("served", Row(w), workers[w].call, mayDial) BY DEF CallFits, Serving1
<1>8. Trades(w, leg) BY <1>1, <1>2, <1>5, <1>6, <1>7 DEF Trades
<1> QED BY <1>6, <1>8 DEF Apart


\* A step of a worker, told by what it does.
ServesOrFails(w) ==
    /\ Apart
    /\ \/ \E a, row : Ended(w, a, row)
       \/ \E job, row : WentOn(w, job, row)
       \/ \E job, s : Found(w, job, s)
       \/ \E job, row : Claims(w, job, row)
       \/ \E leg : Trades(w, leg)

LEMMA ServeDoes ==
    ASSUME AdminInv, NEW w \in Workers, Serve(w) \/ Fail(w)
    PROVE  Serving1(w) /\ ServesOrFails(w)
<1>1. workers[w] # Idle
  <2>1. CASE Fail(w) BY <2>1 DEF Fail
  <2>2. CASE Serve(w)
    <3>1. workers[w].pc # "idle"
      BY <2>2 DEF Serve, NewAdminCall, Login, CreateAdminCall, CreateRaises, Verify, RejectPin,
         FindScheduled, NoneScheduled, Claim, AddAni, AddDnis, AskAgain, ChooseRouting, PriorityRaises,
         AddCallRouting, CreateContact, CreateLeg, LegRaises
    <3> QED BY <3>1 DEF Idle
  <2> QED BY <2>1, <2>2
<1>2. Serving1(w) BY <1>1, ServingNow
<1>3. scheduled \in Seq(ScheduledCall) /\ workers[w].scheduled \in {0} \cup DOMAIN scheduled
  BY DEF AdminInv, AdminTypeOK, RefersToRows
<1>4. CASE Fail(w) BY <1>2, <1>4, FailDoes DEF ServesOrFails
<1>5. CASE NewAdminCall(w) BY <1>2, <1>5, NewAdminCallDoes DEF ServesOrFails
<1>6. CASE Login(w) BY <1>2, <1>6, LoginDoes DEF ServesOrFails
<1>7. CASE CreateAdminCall(w) BY <1>2, <1>7, CreateAdminCallDoes DEF ServesOrFails
<1>8. CASE CreateRaises(w) \/ RejectPin(w) \/ NoneScheduled(w) \/ PriorityRaises(w) \/ LegRaises(w)
  BY <1>2, <1>8, RejectsDoes DEF ServesOrFails
<1>9. CASE Verify(w) BY <1>2, <1>3, <1>9, VerifyDoes DEF ServesOrFails
<1>10. CASE FindScheduled(w) BY <1>2, <1>3, <1>10, FindScheduledDoes DEF ServesOrFails
<1>11. CASE Claim(w)
  <2>1. workers[w].scheduled # 0 BY <1>2, <1>11 DEF Claim, Serving1, JobFits
  <2>2. {workers[w].ani, workers[w].dnis} \cap Calls \subseteq mayDial
    BY <2>1 DEF AdminInv, NumbersInHand
  <2> QED BY <1>2, <1>3, <1>11, <2>2, ClaimDoes DEF ServesOrFails
<1>12. CASE AddAni(w) BY <1>2, <1>12, AddAniDoes DEF ServesOrFails
<1>13. CASE AddDnis(w) BY <1>2, <1>13, AddDnisDoes DEF ServesOrFails
<1>14. CASE AskAgain(w) BY <1>2, <1>14, AskAgainDoes DEF ServesOrFails
<1>15. CASE ChooseRouting(w) BY <1>2, <1>15, ChooseRoutingDoes DEF ServesOrFails
<1>16. CASE AddCallRouting(w) BY <1>2, <1>16, AddCallRoutingDoes DEF ServesOrFails
<1>17. CASE CreateContact(w) BY <1>2, <1>17, CreateContactDoes DEF ServesOrFails
<1>18. CASE CreateLeg(w) BY <1>2, <1>18, CreateLegDoes DEF ServesOrFails
<1> QED
  BY <1>2, <1>4, <1>5, <1>6, <1>7, <1>8, <1>9, <1>10, <1>11, <1>12, <1>13, <1>14, <1>15, <1>16, <1>17,
     <1>18 DEF Serve


-----------------------------------------------------------------------------
(* What the steps of workers keep.                                          *)

\* A sequence to which an element is appended.
LEMMA Appended ==
    ASSUME NEW S, NEW q \in Seq(S), NEW x \in S
    PROVE  \E n \in Nat \ DOMAIN q :
              /\ Append(q, x) \in Seq(S) /\ DOMAIN Append(q, x) = DOMAIN q \cup {n} /\ n # 0
              /\ Append(q, x)[n] = x
              /\ \A i \in DOMAIN q : Append(q, x)[i] = q[i]
<1>1. Len(q) \in Nat /\ DOMAIN q = 1 .. Len(q) OBVIOUS
<1> WITNESS Len(q) + 1 \in Nat \ DOMAIN q
<1> QED BY <1>1, AppendProperties

\* What all the kinds have in common.
Moves(w, job, a, row) ==
    /\ Does(w, job, a, row) /\ CallFits(a, row, workers[w].call, mayDial')
    /\ job = Idle \/ (job.call = workers[w].call /\ JobFits(job, a, row))
    /\ workers[w].pc # "create" => row.user = Row(w).user

LEMMA KindsMove ==
    ASSUME NEW w, Serving1(w)
    PROVE  /\ \A a, row : Ended(w, a, row) => Moves(w, Idle, a, row)
           /\ \A job, row : WentOn(w, job, row) \/ Claims(w, job, row)
                            => Moves(w, job, asked[workers[w].call], row)
           /\ \A job, s : Found(w, job, s) => Moves(w, job, asked[workers[w].call], Row(w))
           /\ \A leg : Trades(w, leg) => Moves(w, Idle, "served", Row(w))
<1>1. \A a, row : Ended(w, a, row) => Moves(w, Idle, a, row)
  BY DEF Ended, Moves
<1>2. \A job, row : WentOn(w, job, row) => Moves(w, job, asked[workers[w].call], row)
  BY DEF WentOn, Moves
<1>3. \A job, row : Claims(w, job, row) => Moves(w, job, asked[workers[w].call], row)
  BY DEF Claims, Moves
<1>4. \A job, s : Found(w, job, s) => Moves(w, job, asked[workers[w].call], Row(w))
  BY DEF Found, Moves
<1>5. \A leg : Trades(w, leg) => Moves(w, Idle, "served", Row(w))
  BY DEF Trades, Moves
<1> QED BY <1>1, <1>2, <1>3, <1>4, <1>5

LEMMA JobsKept ==
    ASSUME AdminInv, NEW w, Serving1(w), Apart, NEW job, NEW a, NEW row, Moves(w, job, a, row)
    PROVE  OneServer' /\ JobsFit' /\ CallsFit'
<1> DEFINE c == workers[w].call
<1>1. w \in Workers /\ c \in Calls /\ c # NoCall
  BY DEF Serving1, JobFits
<1>2. /\ workers'[w] = job /\ asked'[c] = a /\ adminCalls'[c] = row
      /\ \A v \in Workers : v # w => workers'[v] = workers[v]
      /\ \A d \in Calls : d # c => asked'[d] = asked[d] /\ adminCalls'[d] = adminCalls[d]
  BY DEF Moves, Does
<1>3. job.call \in {c, NoCall}
  BY DEF Moves, Idle
<1>4. \A v \in Workers : v # w => workers[v].call # c
  BY <1>1 DEF AdminInv, OneServer
<1>5. OneServer'
  BY <1>1, <1>2, <1>3, <1>4 DEF AdminInv, OneServer
<1>6. JobsFit'
  <2> SUFFICES ASSUME NEW v \in Workers, workers'[v] # Idle
               PROVE  JobFits(workers'[v], asked'[workers'[v].call], adminCalls'[workers'[v].call])
    BY DEF JobsFit
  <2>1. CASE v = w
    BY <1>2, <2>1 DEF Moves
  <2>2. CASE v # w
    <3>1. workers'[v] = workers[v] /\ workers[v] # Idle /\ workers[v].call # c
      BY <1>2, <1>4, <2>2
    <3>2. JobFits(workers[v], asked[workers[v].call], adminCalls[workers[v].call])
      BY <3>1 DEF AdminInv, JobsFit
    <3>3. workers[v].call \in Calls
      BY <3>2 DEF JobFits, AdminInv, AdminTypeOK, Worker
    <3> QED BY <1>2, <3>1, <3>2, <3>3
  <2> QED BY <2>1, <2>2
<1>7. CallsFit'
  <2> SUFFICES ASSUME NEW d \in Calls
               PROVE  CallFits(asked'[d], adminCalls'[d], d, mayDial')
    BY DEF CallsFit, CallFits, Apart, Present
  <2>1. CASE d = c BY <1>2, <2>1 DEF Moves
  <2>2. CASE d # c
    <3>1. asked'[d] = asked[d] /\ adminCalls'[d] = adminCalls[d] BY <1>2, <2>2
    <3>2. CallFits(asked[d], adminCalls[d], d, mayDial) BY DEF AdminInv, CallsFit
    <3> QED BY <3>1, <3>2 DEF CallFits, Apart
  <2> QED BY <2>1, <2>2
<1> QED BY <1>5, <1>6, <1>7

\* What the kinds do to the scheduled calls and to the legs.
LEMMA RowsTyped ==
    ASSUME AdminInv, NEW w, Serving1(w), Apart, ServesOrFails(w)
    PROVE  /\ scheduled' \in Seq(ScheduledCall) /\ DOMAIN scheduled' = DOMAIN scheduled
           /\ \A s \in DOMAIN scheduled : scheduled'[s].user = scheduled[s].user
           /\ \A s \in DOMAIN scheduled : /\ scheduled'[s].ani = scheduled[s].ani
                                          /\ scheduled'[s].dnis = scheduled[s].dnis
           /\ legs' \in Seq(AdminLeg) /\ contacts' \in [Calls -> Nat]
           /\ RefersToRows'
<1> USE DEF ServesOrFails
<1>1. /\ scheduled \in Seq(ScheduledCall) /\ legs \in Seq(AdminLeg) /\ contacts \in [Calls -> Nat]
      /\ RefersToRows /\ w \in Workers /\ workers[w].call \in Calls
  BY DEF AdminInv, AdminTypeOK, Serving1
<1>2. Idle.scheduled = 0 /\ Idle.loaded = {} BY DEF Idle
<1>3. ASSUME NEW a, NEW row, Ended(w, a, row)
      PROVE  /\ UNCHANGED <<scheduled, legs, contacts>>
             /\ RefersToRows'
  BY <1>1, <1>2, <1>3 DEF Ended, Does, RefersToRows
<1>4. ASSUME NEW job, NEW row, WentOn(w, job, row)
      PROVE  /\ UNCHANGED <<scheduled, legs>> /\ contacts' \in [Calls -> Nat]
             /\ RefersToRows'
  <2>1. UNCHANGED <<scheduled, legs>> /\ contacts' \in [Calls -> Nat]
    BY <1>1, <1>4 DEF WentOn
  <2>2. job.scheduled = workers[w].scheduled /\ job.loaded \subseteq DOMAIN scheduled
    BY <1>1, <1>4 DEF WentOn, RefersToRows, LoadedOf
  <2> QED BY <1>1, <1>4, <2>1, <2>2 DEF WentOn, Does, RefersToRows
<1>5. ASSUME NEW job, NEW s, Found(w, job, s)
      PROVE  /\ UNCHANGED <<scheduled, legs, contacts>>
             /\ RefersToRows'
  BY <1>1, <1>5 DEF Found, Does, RefersToRows
<1>6. ASSUME NEW job, NEW row, Claims(w, job, row)
      PROVE  /\ scheduled' \in Seq(ScheduledCall) /\ DOMAIN scheduled' = DOMAIN scheduled
             /\ \A s \in DOMAIN scheduled : /\ scheduled'[s].user = scheduled[s].user
                                            /\ scheduled'[s].ani = scheduled[s].ani
                                            /\ scheduled'[s].dnis = scheduled[s].dnis
             /\ UNCHANGED <<legs, contacts>>
             /\ RefersToRows'
  BY <1>1, <1>6 DEF Claims, Does, RefersToRows
<1>7. ASSUME NEW leg, Trades(w, leg)
      PROVE  /\ UNCHANGED <<scheduled, contacts>> /\ legs' \in Seq(AdminLeg)
             /\ RefersToRows'
  <2>1. UNCHANGED <<scheduled, contacts>> /\ leg \in AdminLeg /\ legs' = Append(legs, leg)
        /\ leg.scheduled = workers[w].scheduled
    BY <1>7 DEF Trades
  <2>2. PICK n \in Nat \ DOMAIN legs :
              /\ legs' \in Seq(AdminLeg) /\ DOMAIN legs' = DOMAIN legs \cup {n} /\ legs'[n] = leg
              /\ \A i \in DOMAIN legs : legs'[i] = legs[i]
    BY <1>1, <2>1, Appended
  <2>3. \A l \in DOMAIN legs' : legs'[l].scheduled \in {0} \cup DOMAIN scheduled
    BY <1>1, <2>1, <2>2 DEF RefersToRows
  <2> QED BY <1>1, <1>2, <1>7, <2>1, <2>2, <2>3 DEF Trades, Does, RefersToRows
<1> QED BY <1>1, <1>3, <1>4, <1>5, <1>6, <1>7

LEMMA TypesKept ==
    ASSUME AdminInv, NEW w, Serving1(w), Apart, ServesOrFails(w),
           NEW job, NEW a, NEW row, Moves(w, job, a, row)
    PROVE  AdminTypeOK' /\ RefersToRows'
<1>1. /\ scheduled' \in Seq(ScheduledCall) /\ DOMAIN scheduled' = DOMAIN scheduled
      /\ \A s \in DOMAIN scheduled : scheduled'[s].user = scheduled[s].user
      /\ legs' \in Seq(AdminLeg) /\ contacts' \in [Calls -> Nat]
      /\ RefersToRows'
  BY RowsTyped
<1>2. /\ workers' \in [Workers -> Worker] /\ asked' \in [Calls -> Questions \cup Outcomes]
      /\ adminCalls' \in [Calls -> AdminCall]
  BY DEF Moves, Does
<1>3. Present' = Present /\ roles' = roles /\ phone' = phone BY DEF Apart, Present
<1>4. \A c \in Calls : CallFits(asked'[c], adminCalls'[c], c, mayDial')
  BY JobsKept, <1>3 DEF CallsFit, CallFits
<1>5. \A c \in Calls : /\ adminCalls'[c].user \in Present \cup {NoUser}
                       /\ asked'[c] \in {"ani", "dnis", "priority"} => adminCalls'[c].verified
  BY <1>4 DEF CallFits
<1>6. \A s \in DOMAIN scheduled' : scheduled'[s].user \in Present'
  BY <1>1, <1>3 DEF AdminInv, AdminTypeOK
<1> QED BY <1>1, <1>2, <1>3, <1>5, <1>6 DEF AdminInv, AdminTypeOK


\* Who is served by a worker is served by no other one, and has no leg yet.
LEMMA ServedByOne ==
    ASSUME AdminInv, NEW w, Serving1(w), NEW job, NEW a, NEW row, Moves(w, job, a, row)
    PROVE  LET c == workers[w].call
           IN  /\ w \in Workers /\ c \in Calls /\ c # NoCall
               /\ workers'[w] = job /\ \A v \in Workers : v # w => workers'[v] = workers[v]
               /\ asked'[c] = a /\ adminCalls'[c] = row
               /\ \A d \in Calls : d # c => asked'[d] = asked[d] /\ adminCalls'[d] = adminCalls[d]
               /\ \A v \in Workers : v # w => workers[v].call # c /\ workers'[v].call # c
               /\ \A v \in Workers : workers[v].call \in Calls \/ workers[v] = Idle
               /\ asked[c] \notin {"served", "error"}
               /\ \A l \in DOMAIN legs : legs[l].call \in Calls \ {c}
               /\ Answers(workers[w].pc, asked[c])
<1> DEFINE c == workers[w].call
<1>1. w \in Workers /\ c \in Calls /\ c # NoCall /\ Answers(workers[w].pc, asked[c])
  BY DEF Serving1, JobFits
<1>2. /\ workers'[w] = job /\ asked'[c] = a /\ adminCalls'[c] = row
      /\ \A v \in Workers : v # w => workers'[v] = workers[v]
      /\ \A d \in Calls : d # c => asked'[d] = asked[d] /\ adminCalls'[d] = adminCalls[d]
  BY DEF Moves, Does
<1>3. \A v \in Workers : v # w => workers[v].call # c
  BY <1>1 DEF AdminInv, OneServer
<1>4. asked[c] \notin {"served", "error"}
  BY <1>1 DEF Answers
<1>5. \A l \in DOMAIN legs : legs[l].call \in Calls /\ asked[legs[l].call] = "served"
  <2>1. \A l \in DOMAIN legs : legs[l] \in AdminLeg BY DEF AdminInv, AdminTypeOK
  <2> QED BY <2>1 DEF AdminInv, Traded, AdminLeg
<1>6. \A v \in Workers : workers[v].call \in Calls \/ workers[v] = Idle
  BY DEF AdminInv, JobsFit, JobFits, AdminTypeOK, Worker
<1> QED BY <1>1, <1>2, <1>3, <1>4, <1>5, <1>6

LEMMA InHandKept ==
    ASSUME AdminInv, NEW w, Serving1(w), Apart, ServesOrFails(w)
    PROVE  NumbersInHand'
<1> USE DEF ServesOrFails
<1>1. /\ DOMAIN scheduled' = DOMAIN scheduled /\ mayDial \subseteq mayDial' /\ w \in Workers
      /\ \A s \in DOMAIN scheduled : /\ scheduled'[s].ani = scheduled[s].ani
                                     /\ scheduled'[s].dnis = scheduled[s].dnis
  BY RowsTyped DEF Apart, Serving1
<1>2. /\ \A s \in DOMAIN scheduled : {scheduled[s].ani, scheduled[s].dnis} \cap Calls \subseteq mayDial
      /\ \A v \in Workers : workers[v].scheduled # 0 =>
           /\ workers[v].scheduled \in DOMAIN scheduled
           /\ {workers[v].ani, workers[v].dnis} \cap Calls \subseteq mayDial
           /\ scheduled[workers[v].scheduled].ani \in {workers[v].ani, "scheduled"}
           /\ scheduled[workers[v].scheduled].dnis \in {workers[v].dnis, "scheduled"}
  BY DEF AdminInv, NumbersInHand, RefersToRows
<1> DEFINE Good(job) == \/ job.scheduled = 0
                        \/ /\ job.scheduled = workers[w].scheduled
                           /\ job.ani = workers[w].ani /\ job.dnis = workers[w].dnis
                        \/ /\ job.scheduled \in DOMAIN scheduled
                           /\ job.ani = scheduled[job.scheduled].ani
                           /\ job.dnis = scheduled[job.scheduled].dnis
<1>3. Good(workers'[w]) /\ \A v \in Workers : v # w => workers'[v] = workers[v]
  <2>1. Good(Idle) BY DEF Idle
  <2>2. ASSUME NEW a, NEW row, Ended(w, a, row)
        PROVE  workers'[w] = Idle /\ \A v \in Workers : v # w => workers'[v] = workers[v]
    BY <2>2 DEF Ended, Does
  <2>3. ASSUME NEW job, NEW row, WentOn(w, job, row) \/ Claims(w, job, row)
        PROVE  Good(job) /\ workers'[w] = job /\ \A v \in Workers : v # w => workers'[v] = workers[v]
    BY <2>3 DEF WentOn, Claims, Does
  <2>4. ASSUME NEW job, NEW s, Found(w, job, s)
        PROVE  Good(job) /\ workers'[w] = job /\ \A v \in Workers : v # w => workers'[v] = workers[v]
    BY <2>4 DEF Found, Does
  <2>5. ASSUME NEW leg, Trades(w, leg)
        PROVE  workers'[w] = Idle /\ \A v \in Workers : v # w => workers'[v] = workers[v]
    BY <2>5 DEF Trades, Does
  <2> HIDE DEF Good
  <2> QED BY <2>1, <2>2, <2>3, <2>4, <2>5
<1>4. \A v \in Workers : workers'[v].scheduled # 0 =>
           /\ {workers'[v].ani, workers'[v].dnis} \cap Calls \subseteq mayDial
           /\ scheduled[workers'[v].scheduled].ani \in {workers'[v].ani, "scheduled"}
           /\ scheduled[workers'[v].scheduled].dnis \in {workers'[v].dnis, "scheduled"}
           /\ workers'[v].scheduled \in DOMAIN scheduled
  <2>1. ASSUME NEW v \in Workers, v # w, workers'[v].scheduled # 0
        PROVE  /\ {workers'[v].ani, workers'[v].dnis} \cap Calls \subseteq mayDial
               /\ scheduled[workers'[v].scheduled].ani \in {workers'[v].ani, "scheduled"}
               /\ scheduled[workers'[v].scheduled].dnis \in {workers'[v].dnis, "scheduled"}
               /\ workers'[v].scheduled \in DOMAIN scheduled
    BY <1>2, <1>3, <2>1
  <2>2. ASSUME workers'[w].scheduled # 0
        PROVE  /\ {workers'[w].ani, workers'[w].dnis} \cap Calls \subseteq mayDial
               /\ scheduled[workers'[w].scheduled].ani \in {workers'[w].ani, "scheduled"}
               /\ scheduled[workers'[w].scheduled].dnis \in {workers'[w].dnis, "scheduled"}
               /\ workers'[w].scheduled \in DOMAIN scheduled
    BY <1>1, <1>2, <1>3, <2>2
  <2> QED BY <2>1, <2>2
<1> QED BY <1>1, <1>2, <1>4 DEF NumbersInHand

\* The numbers of a leg whose call was asked for them, or found them scheduled.
LegFits(leg, offered, may) ==
    /\ {leg.ani, leg.dnis} \cap Calls \subseteq may
    /\ leg.scheduled = 0 => {leg.ani, leg.dnis} \subseteq {"shortcut", leg.call}
    /\ leg.scheduled # 0 => /\ offered[leg.scheduled].ani \in {leg.ani, "scheduled"}
                            /\ offered[leg.scheduled].dnis \in {leg.dnis, "scheduled"}

LEMMA NumbersKept ==
    ASSUME AdminInv, NEW w, Serving1(w), Apart, ServesOrFails(w)
    PROVE  NumbersAllowed'
<1> USE DEF ServesOrFails
<1>1. /\ mayDial \subseteq mayDial'
      /\ \A s \in DOMAIN scheduled : /\ scheduled'[s].ani = scheduled[s].ani
                                     /\ scheduled'[s].dnis = scheduled[s].dnis
  BY RowsTyped DEF Apart
<1>2. ASSUME NEW leg, leg.scheduled \in {0} \cup DOMAIN scheduled, LegFits(leg, scheduled, mayDial)
      PROVE  LegFits(leg, scheduled', mayDial')
  BY <1>1, <1>2 DEF LegFits
<1>3. \A l \in DOMAIN legs : LegFits(legs[l], scheduled', mayDial')
  <2>1. \A l \in DOMAIN legs : LegFits(legs[l], scheduled, mayDial)
    BY DEF AdminInv, NumbersAllowed, LegFits
  <2> QED BY <1>2, <2>1 DEF AdminInv, RefersToRows
<1>4. CASE legs' = legs
  BY <1>3, <1>4 DEF NumbersAllowed, LegFits
<1>5. ASSUME NEW leg, Trades(w, leg) PROVE NumbersAllowed'
  <2>1. /\ leg \in AdminLeg /\ leg.call = workers[w].call /\ leg.scheduled = workers[w].scheduled
        /\ leg.ani = Row(w).ani /\ leg.dnis = Row(w).dnis /\ workers[w].pc = "leg"
        /\ legs' = Append(legs, leg) /\ legs \in Seq(AdminLeg) /\ w \in Workers
    BY <1>5 DEF Trades, AdminInv, AdminTypeOK, Serving1
  <2>2. IF leg.scheduled = 0 THEN {leg.ani, leg.dnis} \subseteq Given(leg.call)
                             ELSE leg.ani = workers[w].ani /\ leg.dnis = workers[w].dnis
    BY <2>1 DEF Serving1, JobFits
  <2>3. {leg.ani, leg.dnis} \cap Calls \subseteq mayDial
    BY <2>1 DEF Serving1, CallFits
  <2>4. LegFits(leg, scheduled, mayDial)
    BY <2>1, <2>2, <2>3 DEF AdminInv, NumbersInHand, LegFits, Given
  <2>5. leg.scheduled \in {0} \cup DOMAIN scheduled
    BY <2>1 DEF AdminInv, RefersToRows
  <2>6. PICK n \in Nat \ DOMAIN legs :
              /\ DOMAIN legs' = DOMAIN legs \cup {n} /\ legs'[n] = leg
              /\ \A i \in DOMAIN legs : legs'[i] = legs[i]
    BY <2>1, Appended
  <2>7. \A l \in DOMAIN legs' : LegFits(legs'[l], scheduled', mayDial')
    BY <1>2, <1>3, <2>4, <2>5, <2>6
  <2> QED BY <2>7 DEF NumbersAllowed, LegFits
<1>6. (\A leg : ~Trades(w, leg)) => legs' = legs
  BY DEF Ended, WentOn, Found, Claims
<1> QED BY <1>4, <1>5, <1>6

\* Rows of scheduled calls are numbered from one.
LEMMA Numbered ==
    ASSUME AdminInv
    PROVE  /\ 0 \notin DOMAIN scheduled
           /\ \A s \in DOMAIN scheduled : /\ s \in Nat /\ scheduled[s] \in ScheduledCall
                                          /\ scheduled[s].admin_call \in Calls \cup {NoCall}
           /\ Idle.scheduled = 0 /\ Idle.call = NoCall /\ Idle.pc = "idle" /\ Idle.loaded = {}
<1>1. scheduled \in Seq(ScheduledCall) BY DEF AdminInv, AdminTypeOK
<1>2. \A s \in DOMAIN scheduled : s \in Nat /\ s # 0 /\ scheduled[s] \in ScheduledCall BY <1>1
<1> QED BY <1>2 DEF ScheduledCall, Idle

LEMMA OneHandKept ==
    ASSUME AdminInv, NEW w, Serving1(w), Apart, ServesOrFails(w)
    PROVE  InOneHand'
<1> USE DEF ServesOrFails
<1>1. w \in Workers /\ workers[w].call # NoCall /\ InOneHand /\ 0 \notin DOMAIN scheduled
      /\ Idle.scheduled = 0
  BY Numbered DEF AdminInv, Serving1, JobFits
<1>2. ASSUME NEW a, NEW row, Ended(w, a, row) PROVE InOneHand'
  <2>1. /\ UNCHANGED <<scheduled, legs, contested>> /\ workers'[w] = Idle
        /\ \A v \in Workers : v # w => workers'[v] = workers[v]
    BY <1>2 DEF Ended, Does
  <2> QED BY <1>1, <2>1 DEF InOneHand
<1>3. ASSUME NEW job, NEW row, WentOn(w, job, row) PROVE InOneHand'
  <2>1. /\ UNCHANGED <<scheduled, legs, contested>> /\ workers'[w] = job
        /\ job.scheduled = workers[w].scheduled /\ workers[w].pc # "claim"
        /\ \A v \in Workers : v # w => workers'[v] = workers[v]
    BY <1>3 DEF WentOn, Does, GoesOn
  <2> QED BY <1>1, <2>1 DEF InOneHand
<1>4. ASSUME NEW job, NEW f, Found(w, job, f) PROVE InOneHand'
  <2>1. /\ UNCHANGED <<scheduled, legs>> /\ contested \subseteq contested' /\ workers'[w] = job
        /\ \A v \in Workers : v # w => workers'[v] = workers[v]
        /\ f \in DOMAIN scheduled /\ scheduled[f].admin_call = NoCall
        /\ job.scheduled = f /\ job.pc = "claim"
        /\ f \notin contested' =>
               \A v \in Workers : ~(workers[v].pc = "claim" /\ workers[v].scheduled = f)
    BY <1>4 DEF Found, Does
  <2> SUFFICES ASSUME NEW s \in DOMAIN scheduled, s \notin contested'
      PROVE  /\ \A v, u \in Workers : workers'[v].scheduled = s /\ workers'[u].scheduled = s => v = u
             /\ \A l, m \in DOMAIN legs : legs[l].scheduled = s /\ legs[m].scheduled = s => l = m
             /\ \A l \in DOMAIN legs, v \in Workers : legs[l].scheduled = s => workers'[v].scheduled # s
             /\ scheduled[s].admin_call = NoCall =>
                   /\ \A l \in DOMAIN legs : legs[l].scheduled # s
                   /\ \A v \in Workers : workers'[v].scheduled = s => workers'[v].pc = "claim"
    BY <2>1 DEF InOneHand
  <2>2. s \in DOMAIN scheduled \ contested BY <2>1
  <2>3. CASE s # f BY <1>1, <2>1, <2>2, <2>3 DEF InOneHand
  <2>4. CASE s = f
    <3>1. \A v \in Workers : workers[v].scheduled # s BY <1>1, <2>1, <2>2, <2>4 DEF InOneHand
    <3>2. \A l \in DOMAIN legs : legs[l].scheduled # s BY <1>1, <2>1, <2>2, <2>4 DEF InOneHand
    <3> QED BY <2>1, <2>4, <3>1, <3>2
  <2> QED BY <2>3, <2>4
<1>5. ASSUME NEW job, NEW row, Claims(w, job, row) PROVE InOneHand'
  <2>1. /\ UNCHANGED <<legs, contested>> /\ workers'[w] = job
        /\ job.scheduled = workers[w].scheduled
        /\ \A v \in Workers : v # w => workers'[v] = workers[v]
        /\ workers[w].pc = "claim" /\ DOMAIN scheduled' = DOMAIN scheduled
        /\ scheduled'[workers[w].scheduled].admin_call = workers[w].call
        /\ \A t \in DOMAIN scheduled : t # workers[w].scheduled =>
             scheduled'[t].admin_call = IF t \in workers[w].loaded THEN NoCall ELSE scheduled[t].admin_call
    BY <1>5 DEF Claims, Does
  <2>2. \A v \in Workers : workers'[v].scheduled = workers[v].scheduled BY <2>1
  <2> SUFFICES ASSUME NEW s \in DOMAIN scheduled \ contested
      PROVE  /\ \A v, u \in Workers : workers[v].scheduled = s /\ workers[u].scheduled = s => v = u
             /\ \A l, m \in DOMAIN legs : legs[l].scheduled = s /\ legs[m].scheduled = s => l = m
             /\ \A l \in DOMAIN legs, v \in Workers : legs[l].scheduled = s => workers[v].scheduled # s
             /\ scheduled'[s].admin_call = NoCall =>
                   /\ \A l \in DOMAIN legs : legs[l].scheduled # s
                   /\ \A v \in Workers : workers[v].scheduled = s => workers'[v].pc = "claim"
    BY <2>1, <2>2 DEF InOneHand
  <2>3. ASSUME scheduled'[s].admin_call = NoCall
        PROVE  /\ \A l \in DOMAIN legs : legs[l].scheduled # s
               /\ \A v \in Workers : workers[v].scheduled = s => workers[v].pc = "claim"
               /\ workers[w].scheduled # s
    <3>1. workers[w].scheduled # s BY <1>1, <2>1, <2>3
    <3>2. CASE s \in workers[w].loaded
      <4>1. Untouched(s) BY <2>1, <3>2 DEF AdminInv, KeptByCopy, Serving1
      <4> QED BY <3>1, <4>1 DEF Untouched
    <3>3. CASE s \notin workers[w].loaded
      <4>1. scheduled[s].admin_call = NoCall BY <2>1, <2>3, <3>1, <3>3
      <4> QED BY <1>1, <3>1, <4>1 DEF InOneHand
    <3> QED BY <3>2, <3>3
  <2>4. scheduled'[s].admin_call = NoCall =>
             \A v \in Workers : workers[v].scheduled = s => workers'[v].pc = "claim"
    BY <2>1, <2>3
  <2> QED BY <1>1, <2>3, <2>4 DEF InOneHand
<1>6. ASSUME NEW leg, Trades(w, leg) PROVE InOneHand'
  <2>1. /\ UNCHANGED <<scheduled, contested>> /\ workers'[w] = Idle
        /\ \A v \in Workers : v # w => workers'[v] = workers[v]
        /\ leg \in AdminLeg /\ leg.scheduled = workers[w].scheduled
        /\ legs' = Append(legs, leg) /\ legs \in Seq(AdminLeg) /\ workers[w].pc = "leg"
    BY <1>6 DEF Trades, Does, AdminInv, AdminTypeOK
  <2>2. PICK n \in Nat \ DOMAIN legs :
              /\ DOMAIN legs' = DOMAIN legs \cup {n} /\ legs'[n] = leg
              /\ \A i \in DOMAIN legs : legs'[i] = legs[i]
    BY <2>1, Appended
  <2> SUFFICES ASSUME NEW s \in DOMAIN scheduled \ contested
      PROVE  /\ \A v, u \in Workers : workers'[v].scheduled = s /\ workers'[u].scheduled = s => v = u
             /\ \A l, m \in DOMAIN legs' : legs'[l].scheduled = s /\ legs'[m].scheduled = s => l = m
             /\ \A l \in DOMAIN legs', v \in Workers : legs'[l].scheduled = s => workers'[v].scheduled # s
             /\ scheduled[s].admin_call = NoCall =>
                   /\ \A l \in DOMAIN legs' : legs'[l].scheduled # s
                   /\ \A v \in Workers : workers'[v].scheduled = s => workers'[v].pc = "claim"
    BY <2>1 DEF InOneHand
  <2>3. \A v \in Workers : workers'[v].scheduled = s => v # w /\ workers[v].scheduled = s
    BY <1>1, <2>1
  <2>4. ASSUME leg.scheduled = s
        PROVE  /\ \A l \in DOMAIN legs : legs[l].scheduled # s
               /\ \A v \in Workers : workers'[v].scheduled # s
               /\ scheduled[s].admin_call # NoCall
    <3>1. workers[w].scheduled = s /\ workers[w].pc # "claim" BY <2>1, <2>4
    <3>2. \A l \in DOMAIN legs : legs[l].scheduled # s BY <1>1, <3>1 DEF InOneHand
    <3>3. \A v \in Workers : v # w => workers[v].scheduled # s BY <1>1, <3>1 DEF InOneHand
    <3>4. scheduled[s].admin_call # NoCall BY <1>1, <3>1 DEF InOneHand
    <3> QED BY <2>3, <3>2, <3>3, <3>4
  <2> QED BY <1>1, <2>1, <2>2, <2>3, <2>4 DEF InOneHand
<1> QED BY <1>2, <1>3, <1>4, <1>5, <1>6


\* Nobody is given a scheduled call by a step that does not offer it.
LEMMA StaysUntouched ==
    ASSUME NEW w \in Workers, NEW job, workers'[w] = job,
           \A v \in Workers : v # w => workers'[v] = workers[v],
           NEW s, Untouched(s), job.scheduled # s,
           \/ UNCHANGED legs
           \/ \E leg \in AdminLeg : legs' = Append(legs, leg) /\ leg.scheduled # s,
           legs \in Seq(AdminLeg)
    PROVE  Untouched(s)'
<1>1. \A v \in Workers : workers'[v].scheduled # s BY DEF Untouched
<1>2. ASSUME NEW leg \in AdminLeg, legs' = Append(legs, leg), leg.scheduled # s
      PROVE  \A l \in DOMAIN legs' : legs'[l].scheduled # s
  <2>1. PICK n \in Nat \ DOMAIN legs :
              /\ DOMAIN legs' = DOMAIN legs \cup {n} /\ legs'[n] = leg
              /\ \A i \in DOMAIN legs : legs'[i] = legs[i]
    BY <1>2, Appended
  <2> QED BY <1>2, <2>1 DEF Untouched
<1>3. CASE UNCHANGED legs BY <1>1, <1>3 DEF Untouched
<1> QED BY <1>1, <1>2, <1>3 DEF Untouched

\* A call at the stages before a scheduled call is looked for.
Early(c) == /\ asked[c] \in {"nothing", "login", "pin"}
            /\ \A w \in Workers : workers[w].call = c => workers[w].pc \in {"new", "login", "create", "pin"}

\* The steps that leave the scheduled calls as they are, but for one that is
\* offered.
LEMMA CopiesKeptBySteps ==
    ASSUME AdminInv, NEW w, Serving1(w), NEW job, NEW a, NEW row, Moves(w, job, a, row),
           UNCHANGED scheduled, contested \subseteq contested',
           \/ job.scheduled \in {0, workers[w].scheduled}
           \/ job.scheduled \in DOMAIN scheduled /\ scheduled[job.scheduled].admin_call = NoCall,
           \/ UNCHANGED legs
           \/ \E leg \in AdminLeg : legs' = Append(legs, leg) /\ leg.scheduled = workers[w].scheduled,
           job.pc \in {"find", "claim"} =>
               \/ workers[w].pc = "find" /\ job.loaded = workers[w].loaded
               \/ workers[w].pc = "pin" /\ job.loaded \in LoadedOf(workers[w].call),
           \A c \in Calls : c = workers[w].call /\ Early(c)' => Early(c)
    PROVE  KeptByCopy'
<1> DEFINE c == workers[w].call
<1>1. /\ w \in Workers /\ c \in Calls /\ c # NoCall
      /\ workers'[w] = job /\ \A v \in Workers : v # w => workers'[v] = workers[v]
      /\ \A d \in Calls : d # c => asked'[d] = asked[d]
      /\ \A v \in Workers : v # w => workers[v].call # c
      /\ Answers(workers[w].pc, asked[c])
  BY ServedByOne
<1>2. job.call \in {c, NoCall} /\ (job.pc \in {"find", "claim"} => job.call = c)
  BY DEF Moves, Idle
<1>3. legs \in Seq(AdminLeg) /\ 0 \notin DOMAIN scheduled
  BY Numbered DEF AdminInv, AdminTypeOK
<1>4. ASSUME NEW s \in DOMAIN scheduled, Untouched(s), scheduled[s].admin_call # NoCall
      PROVE  Untouched(s)'
  <2>1. workers[w].scheduled # s BY <1>1, <1>4 DEF Untouched
  <2>2. job.scheduled # s BY <1>3, <1>4, <2>1
  <2> QED BY <1>1, <1>3, <1>4, <2>1, <2>2, StaysUntouched
<1>5. ASSUME NEW d \in Calls, Early(d),
             NEW s \in DOMAIN scheduled \ contested, scheduled[s].admin_call = d
      PROVE  Untouched(s)
  BY <1>5 DEF AdminInv, KeptByCopy, Early
<1>6. ASSUME NEW d \in Calls, Early(d)',
             NEW s \in DOMAIN scheduled, s \notin contested', scheduled[s].admin_call = d
      PROVE  Untouched(s)'
  <2>1. Early(d)
    <3>1. CASE d = c BY <1>6, <3>1
    <3>2. CASE d # c
      <4>1. asked[d] \in {"nothing", "login", "pin"} BY <1>1, <1>6, <3>2 DEF Early
      <4>2. \A v \in Workers : workers[v].call = d => v # w /\ workers'[v] = workers[v] BY <1>1, <3>2
      <4> QED BY <1>6, <4>1, <4>2 DEF Early
    <3> QED BY <3>1, <3>2
  <2>2. s \in DOMAIN scheduled \ contested /\ d # NoCall BY <1>6, NoCallAssumption
  <2> QED BY <1>4, <1>5, <1>6, <2>1, <2>2
<1>7. ASSUME NEW v \in Workers, workers'[v].pc \in {"find", "claim"}, NEW s, s \in workers'[v].loaded, s \notin contested'
      PROVE  s \in DOMAIN scheduled /\ scheduled[s].admin_call = workers'[v].call /\ Untouched(s)'
  <2>1. ASSUME NEW u \in Workers, workers[u].pc \in {"find", "claim"}, s \in workers[u].loaded
        PROVE  /\ s \in DOMAIN scheduled /\ scheduled[s].admin_call = workers[u].call
               /\ workers[u].call # NoCall /\ Untouched(s)
    <3>1. s \notin contested BY <1>7
    <3>2. workers[u].call # NoCall BY <2>1 DEF AdminInv, JobsFit, JobFits, Idle
    <3> QED BY <2>1, <3>1, <3>2 DEF AdminInv, KeptByCopy, RefersToRows
  <2>2. CASE v # w BY <1>1, <1>4, <1>7, <2>1, <2>2
  <2>3. CASE v = w /\ workers[w].pc = "find" /\ job.loaded = workers[w].loaded
    BY <1>1, <1>2, <1>4, <1>7, <2>1, <2>3
  <2>4. CASE v = w /\ workers[w].pc = "pin" /\ job.loaded \in LoadedOf(c)
    <3>1. s \in DOMAIN scheduled \ contested /\ scheduled[s].admin_call = c
      BY <1>1, <1>7, <2>4 DEF LoadedOf
    <3>2. Early(c) BY <1>1, <2>4 DEF Early, Answers
    <3> QED BY <1>1, <1>2, <1>4, <1>5, <1>7, <2>4, <3>1, <3>2
  <2> QED BY <1>1, <1>7, <2>2, <2>3, <2>4
<1> QED
  <2>1. \A s \in DOMAIN scheduled' \ contested' :
          LET d == scheduled'[s].admin_call
          IN  d \in Calls /\ asked'[d] \in {"nothing", "login", "pin"}
              /\ (\A v \in Workers : workers'[v].call = d => workers'[v].pc \in {"new", "login", "create", "pin"})
              => Untouched(s)'
    BY <1>6 DEF Early
  <2> QED BY <1>7, <2>1 DEF KeptByCopy

LEMMA CopiesKeptByClaim ==
    ASSUME AdminInv, NEW w, Serving1(w), NEW job, NEW row, Claims(w, job, row)
    PROVE  KeptByCopy'
<1> DEFINE c == workers[w].call
           f == workers[w].scheduled
<1>1. Moves(w, job, asked[c], row) BY KindsMove
<1>2. /\ w \in Workers /\ c \in Calls /\ c # NoCall
      /\ workers'[w] = job /\ \A v \in Workers : v # w => workers'[v] = workers[v]
      /\ asked'[c] = asked[c] /\ \A d \in Calls : d # c => asked'[d] = asked[d]
      /\ \A v \in Workers : v # w => workers[v].call # c
  BY <1>1, ServedByOne
<1>3. /\ workers[w].pc = "claim" /\ job.pc = "contact" /\ job.call = c /\ job.scheduled = f
      /\ f \in DOMAIN scheduled /\ DOMAIN scheduled' = DOMAIN scheduled
      /\ scheduled'[f].admin_call = c
      /\ \A t \in DOMAIN scheduled : t # f =>
           scheduled'[t].admin_call = IF t \in workers[w].loaded THEN NoCall ELSE scheduled[t].admin_call
      /\ UNCHANGED <<legs, contested>>
  BY DEF Claims
<1>4. legs \in Seq(AdminLeg) BY DEF AdminInv, AdminTypeOK
<1>5. ASSUME NEW s, Untouched(s) PROVE Untouched(s)' /\ s # f
  <2>1. workers[w].scheduled # s BY <1>2, <1>5 DEF Untouched
  <2> QED BY <1>2, <1>3, <1>4, <1>5, <2>1, StaysUntouched
<1>6. ASSUME NEW s \in DOMAIN scheduled \ contested, s \in workers[w].loaded
      PROVE  scheduled[s].admin_call = c
  BY <1>2, <1>3, <1>6 DEF AdminInv, KeptByCopy
<1>7. ASSUME NEW v \in Workers, workers'[v].pc \in {"find", "claim"}, NEW s, s \in workers'[v].loaded, s \notin contested
      PROVE  scheduled'[s].admin_call = workers'[v].call /\ Untouched(s)'
  <2>1. v # w /\ workers'[v] = workers[v] BY <1>2, <1>3, <1>7
  <2>2. scheduled[s].admin_call = workers[v].call /\ Untouched(s) /\ s \in DOMAIN scheduled
    BY <1>7, <2>1 DEF AdminInv, KeptByCopy, RefersToRows
  <2>3. s \notin workers[w].loaded BY <1>2, <1>6, <1>7, <2>1, <2>2
  <2> QED BY <1>3, <1>5, <2>1, <2>2, <2>3
<1>8. ASSUME NEW d \in Calls, Early(d)',
             NEW s \in DOMAIN scheduled \ contested, scheduled'[s].admin_call = d
      PROVE  Untouched(s)'
  <2>1. d # c BY <1>2, <1>3, <1>8 DEF Early
  <2>2. s # f /\ scheduled[s].admin_call = d BY <1>3, <1>8, <2>1, NoCallAssumption
  <2>3. asked[d] \in {"nothing", "login", "pin"} BY <1>2, <1>8, <2>1 DEF Early
  <2>4. \A v \in Workers : workers[v].call = d => v # w /\ workers'[v] = workers[v] BY <1>2, <2>1
  <2>5. \A v \in Workers : workers[v].call = d => workers[v].pc \in {"new", "login", "create", "pin"}
    BY <1>8, <2>4 DEF Early
  <2>6. Untouched(s) BY <1>8, <2>2, <2>3, <2>5 DEF AdminInv, KeptByCopy
  <2> QED BY <1>5, <2>6
<1> QED
  <2>1. \A s \in DOMAIN scheduled' \ contested' :
          LET d == scheduled'[s].admin_call
          IN  d \in Calls /\ asked'[d] \in {"nothing", "login", "pin"}
              /\ (\A v \in Workers : workers'[v].call = d => workers'[v].pc \in {"new", "login", "create", "pin"})
              => Untouched(s)'
    BY <1>3, <1>8 DEF Early
  <2> QED BY <1>3, <1>7, <2>1 DEF KeptByCopy


LEMMA CopiesKept ==
    ASSUME AdminInv, NEW w, Serving1(w), ServesOrFails(w)
    PROVE  KeptByCopy'
<1> USE DEF ServesOrFails
<1> DEFINE c == workers[w].call
<1>1. w \in Workers /\ Idle.scheduled = 0 /\ Idle.pc = "idle" BY Numbered DEF Serving1
<1>2. ASSUME NEW a, NEW row, Ended(w, a, row) PROVE KeptByCopy'
  <2>1. Moves(w, Idle, a, row) BY <1>2, KindsMove
  <2>2. UNCHANGED <<scheduled, legs, contested>> /\ EndsWith(workers[w].pc, a) BY <1>2 DEF Ended
  <2>3. ASSUME NEW d \in Calls, d = c, Early(d)' PROVE Early(d)
    <3>1. asked'[d] = a /\ Answers(workers[w].pc, asked[d])
          /\ \A v \in Workers : v # w => workers[v].call # d
      BY <2>1, <2>3, ServedByOne
    <3>2. workers[w].pc \in {"new", "create"} BY <2>2, <2>3, <3>1 DEF Early, EndsWith
    <3>3. asked[d] \in {"nothing", "login"} BY <3>1, <3>2 DEF Answers
    <3> QED BY <3>1, <3>2, <3>3 DEF Early
  <2> QED BY <1>1, <2>1, <2>2, <2>3, CopiesKeptBySteps
<1>3. ASSUME NEW job, NEW row, WentOn(w, job, row) PROVE KeptByCopy'
  <2>1. Moves(w, job, asked[c], row) BY <1>3, KindsMove
  <2>2. /\ UNCHANGED <<scheduled, legs, contested>> /\ GoesOn(workers[w].pc, job.pc)
        /\ job.scheduled = workers[w].scheduled /\ job.call = c
        /\ \/ workers[w].pc # "pin" /\ job.loaded = workers[w].loaded
           \/ workers[w].pc = "pin" /\ job.loaded \in LoadedOf(c)
    BY <1>3 DEF WentOn
  <2>3. ASSUME NEW d \in Calls, d = c, Early(d)' PROVE Early(d)
    <3>1. /\ asked'[d] = asked[d] /\ \A v \in Workers : v # w => workers[v].call # d
          /\ workers'[w] = job
      BY <2>1, <2>3, ServedByOne
    <3>2. workers[w].pc \in {"new", "login"} BY <1>1, <2>2, <2>3, <3>1 DEF Early, GoesOn
    <3> QED BY <2>3, <3>1, <3>2 DEF Early
  <2>4. job.pc \in {"find", "claim"} => workers[w].pc = "pin" /\ job.loaded \in LoadedOf(c)
    BY <2>2 DEF GoesOn
  <2> QED BY <2>1, <2>2, <2>3, <2>4, CopiesKeptBySteps
<1>4. ASSUME NEW job, NEW f, Found(w, job, f) PROVE KeptByCopy'
  <2>1. Moves(w, job, asked[c], Row(w)) BY <1>4, KindsMove
  <2>2. /\ UNCHANGED <<scheduled, legs>> /\ contested \subseteq contested'
        /\ job.scheduled \in DOMAIN scheduled /\ scheduled[job.scheduled].admin_call = NoCall
        /\ workers[w].pc = "find" /\ job.loaded = workers[w].loaded
        /\ job.pc = "claim" /\ job.call = c
    BY <1>4 DEF Found
  <2>3. ASSUME NEW d \in Calls, d = c, Early(d)' PROVE Early(d)
    <3>1. workers'[w] = job BY <2>1, ServedByOne
    <3> QED BY <1>1, <2>2, <2>3, <3>1 DEF Early
  <2> QED BY <2>1, <2>2, <2>3, CopiesKeptBySteps
<1>5. ASSUME NEW job, NEW row, Claims(w, job, row) PROVE KeptByCopy'
  BY <1>5, CopiesKeptByClaim
<1>6. ASSUME NEW leg, Trades(w, leg) PROVE KeptByCopy'
  <2>1. Moves(w, Idle, "served", Row(w)) BY <1>6, KindsMove
  <2>2. /\ UNCHANGED <<scheduled, contested>> /\ leg \in AdminLeg
        /\ legs' = Append(legs, leg) /\ leg.scheduled = workers[w].scheduled
    BY <1>6 DEF Trades
  <2>3. ASSUME NEW d \in Calls, d = c, Early(d)' PROVE Early(d)
    <3>1. asked'[d] = "served" BY <2>1, <2>3, ServedByOne
    <3> QED BY <2>3, <3>1 DEF Early
  <2> QED BY <1>1, <2>1, <2>2, <2>3, CopiesKeptBySteps
<1> QED BY <1>2, <1>3, <1>4, <1>5, <1>6

\* A scheduled call that is claimed stays with its call.
LEMMA ClaimedKept ==
    ASSUME AdminInv, NEW w, Serving1(w), ServesOrFails(w)
    PROVE  ClaimedInHand'
<1> USE DEF ServesOrFails
<1> DEFINE c == workers[w].call
           InHand(s, d) == \/ \E v \in Workers : workers[v].call = d /\ workers[v].scheduled = s
                           \/ asked[d] = "error"
                           \/ \E l \in DOMAIN legs : legs[l].scheduled = s
           InHandNext(s, d) == \/ \E v \in Workers : workers'[v].call = d /\ workers'[v].scheduled = s
                               \/ asked'[d] = "error"
                               \/ \E l \in DOMAIN legs' : legs'[l].scheduled = s
<1>1. \A s \in DOMAIN scheduled \ contested :
         scheduled[s].admin_call # NoCall /\ ~scheduled[s].copied => InHand(s, scheduled[s].admin_call)
  BY DEF AdminInv, ClaimedInHand
<1>2. /\ 0 \notin DOMAIN scheduled /\ Idle.scheduled = 0
      /\ \A s \in DOMAIN scheduled : scheduled[s].admin_call \in Calls \cup {NoCall}
  BY Numbered
<1>3. ASSUME NEW job, NEW a, NEW row, Moves(w, job, a, row),
             UNCHANGED scheduled, contested \subseteq contested',
             \A s \in DOMAIN scheduled \ contested :
                 workers[w].scheduled = s => InHandNext(s, c),
             \A l \in DOMAIN legs : l \in DOMAIN legs' /\ legs'[l] = legs[l]
      PROVE  ClaimedInHand'
  <2>1. /\ w \in Workers /\ \A v \in Workers : v # w => workers'[v] = workers[v]
        /\ \A d \in Calls : d # c => asked'[d] = asked[d]
        /\ asked[c] # "error"
    BY <1>3, ServedByOne
  <2>2. ASSUME NEW s \in DOMAIN scheduled \ contested, NEW d \in Calls, InHand(s, d)
        PROVE  InHandNext(s, d)
    <3>1. CASE asked[d] = "error" BY <2>1, <3>1
    <3>2. CASE \E l \in DOMAIN legs : legs[l].scheduled = s BY <1>3, <3>2
    <3>3. ASSUME NEW v \in Workers, workers[v].call = d, workers[v].scheduled = s PROVE InHandNext(s, d)
      <4>1. CASE v = w BY <1>3, <3>3, <4>1
      <4>2. CASE v # w BY <2>1, <3>3, <4>2
      <4> QED BY <4>1, <4>2
    <3> QED BY <2>2, <3>1, <3>2, <3>3
  <2> HIDE DEF InHand, InHandNext
  <2>3. \A s \in DOMAIN scheduled' \ contested' :
          scheduled'[s].admin_call # NoCall /\ ~scheduled'[s].copied => InHandNext(s, scheduled'[s].admin_call)
    BY <1>1, <1>2, <1>3, <2>2
  <2> QED BY <2>3 DEF ClaimedInHand, InHandNext
<1>4. ASSUME NEW a, NEW row, Ended(w, a, row) PROVE ClaimedInHand'
  <2>1. Moves(w, Idle, a, row) BY <1>4, KindsMove
  <2>2. workers[w].scheduled # 0 => asked'[c] = "error"
    BY <1>4 DEF Ended, Does, EndsWith, Serving1, JobFits
  <2>3. UNCHANGED <<scheduled, legs, contested>> BY <1>4 DEF Ended
  <2> QED BY <1>2, <1>3, <2>1, <2>2, <2>3
<1>5. ASSUME NEW job, NEW row, WentOn(w, job, row) PROVE ClaimedInHand'
  <2>1. Moves(w, job, asked[c], row) BY <1>5, KindsMove
  <2>2. UNCHANGED <<scheduled, legs, contested>> /\ job.scheduled = workers[w].scheduled /\ job.call = c
        /\ workers'[w] = job /\ w \in Workers
    BY <1>5 DEF WentOn, Does, Serving1
  <2> QED BY <1>3, <2>1, <2>2
<1>6. ASSUME NEW job, NEW f, Found(w, job, f) PROVE ClaimedInHand'
  <2>1. Moves(w, job, asked[c], Row(w)) BY <1>6, KindsMove
  <2>2. UNCHANGED <<scheduled, legs>> /\ contested \subseteq contested' /\ workers[w].scheduled = 0
    BY <1>6 DEF Found, Serving1, JobFits
  <2> QED BY <1>2, <1>3, <2>1, <2>2
<1>7. ASSUME NEW leg, Trades(w, leg) PROVE ClaimedInHand'
  <2>1. Moves(w, Idle, "served", Row(w)) BY <1>7, KindsMove
  <2>2. /\ UNCHANGED <<scheduled, contested>> /\ leg.scheduled = workers[w].scheduled /\ leg \in AdminLeg
        /\ legs' = Append(legs, leg) /\ legs \in Seq(AdminLeg)
    BY <1>7 DEF Trades, AdminInv, AdminTypeOK
  <2>3. PICK n \in Nat \ DOMAIN legs :
              /\ DOMAIN legs' = DOMAIN legs \cup {n} /\ legs'[n] = leg
              /\ \A i \in DOMAIN legs : legs'[i] = legs[i]
    BY <2>2, Appended
  <2> QED BY <1>3, <2>1, <2>2, <2>3
<1>8. ASSUME NEW job, NEW row, Claims(w, job, row) PROVE ClaimedInHand'
  <2> DEFINE f == workers[w].scheduled
  <2>1. Moves(w, job, asked[c], row) BY <1>8, KindsMove
  <2>2. /\ w \in Workers /\ \A v \in Workers : v # w => workers'[v] = workers[v]
        /\ \A d \in Calls : d # c => asked'[d] = asked[d]
        /\ asked'[c] = asked[c] /\ workers'[w] = job
    BY <2>1, ServedByOne
  <2>3. /\ DOMAIN scheduled' = DOMAIN scheduled /\ UNCHANGED <<legs, contested>>
        /\ job.scheduled = f /\ job.call = c /\ scheduled'[f].admin_call = c
        /\ \A t \in DOMAIN scheduled :
             /\ scheduled'[t].copied = scheduled[t].copied
             /\ t # f => scheduled'[t].admin_call =
                             IF t \in workers[w].loaded THEN NoCall ELSE scheduled[t].admin_call
    BY <1>8 DEF Claims
  <2>4. \A v \in Workers : workers'[v].call = workers[v].call /\ workers'[v].scheduled = workers[v].scheduled
    BY <2>2, <2>3
  <2>5. ASSUME NEW s \in DOMAIN scheduled \ contested, scheduled'[s].admin_call # NoCall, ~scheduled'[s].copied
        PROVE  InHandNext(s, scheduled'[s].admin_call)
    <3>1. CASE s = f BY <2>2, <2>3, <3>1
    <3>2. CASE s # f
      <4>1. scheduled'[s].admin_call = scheduled[s].admin_call /\ ~scheduled[s].copied
        BY <2>3, <2>5, <3>2
      <4>2. InHand(s, scheduled[s].admin_call) BY <1>1, <2>5, <4>1
      <4>3. scheduled[s].admin_call \in Calls BY <1>2, <2>5, <4>1
      <4>4. asked'[scheduled[s].admin_call] = asked[scheduled[s].admin_call] BY <2>2, <4>3
      <4> QED BY <2>3, <2>4, <4>1, <4>2, <4>4
    <3> QED BY <3>1, <3>2
  <2> HIDE DEF InHandNext
  <2>6. \A s \in DOMAIN scheduled' \ contested' :
          scheduled'[s].admin_call # NoCall /\ ~scheduled'[s].copied => InHandNext(s, scheduled'[s].admin_call)
    BY <2>3, <2>5
  <2> QED BY <2>6 DEF ClaimedInHand, InHandNext
<1> QED BY <1>4, <1>5, <1>6, <1>7, <1>8


\* The legs of a step: those there were, and one if the call is traded.
LEMMA LegsGrow ==
    ASSUME AdminInv, NEW w, Serving1(w), ServesOrFails(w)
    PROVE  /\ \A l \in DOMAIN legs : l \in DOMAIN legs' /\ legs'[l] = legs[l]
           /\ \A l, m \in DOMAIN legs' : l \notin DOMAIN legs /\ m \notin DOMAIN legs => l = m
           /\ \A l \in DOMAIN legs' : l \notin DOMAIN legs =>
                /\ legs'[l].call = workers[w].call /\ legs'[l].scheduled = workers[w].scheduled
                /\ workers[w].pc = "leg" /\ asked'[workers[w].call] = "served"
                /\ Trades(w, legs'[l])
           /\ legs' # legs => \E l \in DOMAIN legs' : l \notin DOMAIN legs
<1> USE DEF ServesOrFails
<1>1. CASE \A leg : ~Trades(w, leg)
  <2>1. legs' = legs BY <1>1 DEF Ended, WentOn, Found, Claims
  <2> QED BY <2>1
<1>2. ASSUME NEW leg, Trades(w, leg)
      PROVE  /\ \A l \in DOMAIN legs : l \in DOMAIN legs' /\ legs'[l] = legs[l]
             /\ \A l, m \in DOMAIN legs' : l \notin DOMAIN legs /\ m \notin DOMAIN legs => l = m
             /\ \A l \in DOMAIN legs' : l \notin DOMAIN legs => legs'[l] = leg
             /\ \E l \in DOMAIN legs' : l \notin DOMAIN legs
  <2>1. leg \in AdminLeg /\ legs' = Append(legs, leg) /\ legs \in Seq(AdminLeg)
    BY <1>2 DEF Trades, AdminInv, AdminTypeOK
  <2>2. PICK n \in Nat \ DOMAIN legs :
              /\ DOMAIN legs' = DOMAIN legs \cup {n} /\ legs'[n] = leg
              /\ \A i \in DOMAIN legs : legs'[i] = legs[i]
    BY <2>1, Appended
  <2> QED BY <2>2
<1>3. ASSUME NEW leg, Trades(w, leg)
      PROVE  /\ leg.call = workers[w].call /\ leg.scheduled = workers[w].scheduled
             /\ workers[w].pc = "leg" /\ asked'[workers[w].call] = "served"
  BY <1>3 DEF Trades, Does
<1> QED BY <1>1, <1>2, <1>3

LEMMA OwnKept ==
    ASSUME AdminInv, NEW w, Serving1(w), Apart, ServesOrFails(w),
           NEW job, NEW a, NEW row, Moves(w, job, a, row),
           \/ job.scheduled \in {0, workers[w].scheduled}
           \/ /\ job.scheduled \in DOMAIN scheduled /\ scheduled[job.scheduled].user = Row(w).user
              /\ workers[w].pc = "find"
    PROVE  OwnInHand' /\ ScheduledForCaller'
<1> DEFINE c == workers[w].call
<1>1. /\ w \in Workers /\ c \in Calls
      /\ workers'[w] = job /\ \A v \in Workers : v # w => workers'[v] = workers[v]
      /\ adminCalls'[c] = row
      /\ \A d \in Calls : d # c => adminCalls'[d] = adminCalls[d]
      /\ \A v \in Workers : v # w => workers[v].call # c /\ workers'[v].call # c
      /\ \A v \in Workers : workers[v].call \in Calls \/ workers[v] = Idle
      /\ \A l \in DOMAIN legs : legs[l].call \in Calls \ {c}
  BY ServedByOne
<1>2. moved' = moved BY DEF Apart
<1>3. /\ \A s \in DOMAIN scheduled : scheduled'[s].user = scheduled[s].user
  BY RowsTyped
<1>4. /\ \A v \in Workers : workers[v].scheduled \in {0} \cup DOMAIN scheduled
      /\ \A l \in DOMAIN legs : legs[l].scheduled \in {0} \cup DOMAIN scheduled
      /\ \A v \in Workers : workers[v].scheduled # 0 /\ workers[v].scheduled \notin moved
            => scheduled[workers[v].scheduled].user = adminCalls[workers[v].call].user
      /\ \A l \in DOMAIN legs : legs[l].scheduled # 0 /\ legs[l].scheduled \notin moved
            => scheduled[legs[l].scheduled].user = adminCalls[legs[l].call].user
  BY DEF AdminInv, RefersToRows, OwnInHand, ScheduledForCaller
<1>5. Idle.scheduled = 0 BY Numbered
<1>6. workers[w].pc # "create" => row.user = Row(w).user BY DEF Moves
<1>7. workers[w].scheduled # 0 => workers[w].pc # "create" BY DEF Serving1, JobFits
<1>8. job = Idle \/ job.call = c BY DEF Moves
<1>9. ASSUME job.scheduled # 0, job.scheduled \notin moved
      PROVE  scheduled'[job.scheduled].user = row.user
  <2>1. CASE job.scheduled = workers[w].scheduled
    BY <1>1, <1>3, <1>4, <1>6, <1>7, <1>9, <2>1 DEF Row
  <2>2. CASE /\ job.scheduled \in DOMAIN scheduled /\ scheduled[job.scheduled].user = Row(w).user
             /\ workers[w].pc = "find"
    BY <1>3, <1>6, <2>2
  <2> QED BY <1>9, <2>1, <2>2
<1>10. OwnInHand'
  <2> SUFFICES ASSUME NEW v \in Workers, workers'[v].scheduled # 0, workers'[v].scheduled \notin moved
               PROVE  scheduled'[workers'[v].scheduled].user = adminCalls'[workers'[v].call].user
    BY <1>2 DEF OwnInHand
  <2>1. CASE v = w BY <1>1, <1>5, <1>8, <1>9, <2>1
  <2>2. CASE v # w BY <1>1, <1>3, <1>4, <1>5, <2>2
  <2> QED BY <2>1, <2>2
<1>11. ScheduledForCaller'
  <2> SUFFICES ASSUME NEW l \in DOMAIN legs', legs'[l].scheduled # 0, legs'[l].scheduled \notin moved
               PROVE  scheduled'[legs'[l].scheduled].user = adminCalls'[legs'[l].call].user
    BY <1>2 DEF ScheduledForCaller
  <2>1. CASE l \in DOMAIN legs
    <3>1. legs'[l] = legs[l] BY <2>1, LegsGrow
    <3> QED BY <1>1, <1>3, <1>4, <2>1, <3>1
  <2>2. CASE l \notin DOMAIN legs
    <3>1. legs'[l].call = c /\ legs'[l].scheduled = workers[w].scheduled BY <2>2, LegsGrow
    <3> QED BY <1>1, <1>3, <1>4, <1>6, <1>7, <2>2, <3>1 DEF Row
  <2> QED BY <2>1, <2>2
<1> QED BY <1>10, <1>11

LEMMA TradedKept ==
    ASSUME AdminInv, NEW w, Serving1(w), ServesOrFails(w),
           NEW job, NEW a, NEW row, Moves(w, job, a, row)
    PROVE  Traded'
<1> DEFINE c == workers[w].call
<1>1. /\ \A d \in Calls : d # c => asked'[d] = asked[d]
      /\ \A l \in DOMAIN legs : legs[l].call \in Calls \ {c}
  BY ServedByOne
<1>2. /\ \A l \in DOMAIN legs' : l \in DOMAIN legs => legs'[l] = legs[l]
      /\ \A l, m \in DOMAIN legs' : l \notin DOMAIN legs /\ m \notin DOMAIN legs => l = m
      /\ \A l \in DOMAIN legs' : l \notin DOMAIN legs => legs'[l].call = c /\ asked'[c] = "served"
  BY LegsGrow
<1>3. /\ \A l \in DOMAIN legs : asked[legs[l].call] = "served"
      /\ \A l, m \in DOMAIN legs : legs[l].call = legs[m].call => l = m
  BY DEF AdminInv, Traded
<1>4. \A l \in DOMAIN legs' : asked'[legs'[l].call] = "served" BY <1>1, <1>2, <1>3
<1>5. \A l, m \in DOMAIN legs' : legs'[l].call = legs'[m].call => l = m BY <1>1, <1>2, <1>3
<1> QED BY <1>4, <1>5 DEF Traded


\* The contacts of a call that was asked a last, in the hands of a worker at
\* the stage pc.
InStep(n, a, pc) == /\ a \in Questions \cup {"nothing", "over"} /\ pc # "leg" => n = 0
                    /\ pc = "leg" => n = 1

LEMMA ContactsKept ==
    ASSUME AdminInv, NEW w, Serving1(w), ServesOrFails(w)
    PROVE  ContactsInStep'
<1> USE DEF ServesOrFails
<1> DEFINE c == workers[w].call
<1>1. ContactsInStep /\ contacts \in [Calls -> Nat] /\ c \in Calls /\ w \in Workers /\ c # NoCall
  BY DEF AdminInv, AdminTypeOK, Serving1, JobFits
<1>2. InStep(contacts[c], asked[c], workers[w].pc)
  <2>1. \A v \in Workers : v # w => workers[v].call # c BY <1>1 DEF AdminInv, OneServer
  <2> QED BY <1>1, <2>1 DEF ContactsInStep, InStep
<1>3. ASSUME NEW job, NEW a, NEW row, Moves(w, job, a, row), NEW n,
             contacts' = [contacts EXCEPT ![c] = n],
             job = Idle \/ (job.call = c /\ a = asked[c] /\ InStep(n, a, job.pc)),
             job = Idle /\ a \in Questions \cup {"nothing", "over"} => n = 0,
             a = "served" => n = 1 /\ \E l \in DOMAIN legs' : legs'[l].call = c
      PROVE  ContactsInStep'
  <2>1. /\ workers'[w] = job /\ \A v \in Workers : v # w => workers'[v] = workers[v]
        /\ asked'[c] = a /\ \A d \in Calls : d # c => asked'[d] = asked[d]
        /\ \A v \in Workers : v # w => workers[v].call # c
    BY <1>3, ServedByOne
  <2>2. \A l \in DOMAIN legs : l \in DOMAIN legs' /\ legs'[l] = legs[l] BY LegsGrow
  <2>3. Idle.call = NoCall BY DEF Idle
  <2> SUFFICES ASSUME NEW d \in Calls
      PROVE  /\ asked'[d] = "served" => contacts'[d] = 1 /\ \E l \in DOMAIN legs' : legs'[l].call = d
             /\ /\ asked'[d] \in Questions \cup {"nothing", "over"}
                /\ \A v \in Workers : workers'[v].call = d => workers'[v].pc # "leg"
                => contacts'[d] = 0
             /\ \A v \in Workers : workers'[v].call = d /\ workers'[v].pc = "leg" => contacts'[d] = 1
    BY DEF ContactsInStep
  <2>4. CASE d = c
    <3>1. contacts'[d] = n /\ asked'[d] = a BY <1>1, <1>3, <2>1, <2>4
    <3>2. \A v \in Workers : workers'[v].call = d => v = w BY <2>1, <2>4
    <3>3. CASE job = Idle
      <4>1. \A v \in Workers : workers'[v].call # d BY <1>1, <2>1, <2>3, <2>4, <3>2, <3>3
      <4> QED BY <1>3, <2>4, <3>1, <3>3, <4>1
    <3>4. CASE job.call = c /\ a = asked[c] /\ InStep(n, a, job.pc)
      <4>1. workers'[w].call = d /\ workers'[w].pc = job.pc BY <2>1, <2>4, <3>4
      <4> QED BY <1>1, <1>3, <2>4, <3>1, <3>2, <3>4, <4>1 DEF InStep
    <3> QED BY <1>3, <3>3, <3>4
  <2>5. CASE d # c
    <3>1. contacts'[d] = contacts[d] /\ asked'[d] = asked[d] BY <1>1, <1>3, <2>1, <2>5
    <3>2. job.call \in {c, NoCall} BY <1>3, <2>3
    <3>3. \A v \in Workers : workers'[v].call = d => workers'[v] = workers[v]
      BY <2>1, <2>5, <3>2, NoCallAssumption
    <3>4. \A v \in Workers : workers[v].call = d => workers'[v] = workers[v]
      BY <2>1, <2>5
    <3> QED BY <1>1, <2>2, <3>1, <3>3, <3>4 DEF ContactsInStep
  <2> QED BY <2>4, <2>5
<1>4. contacts = [contacts EXCEPT ![c] = contacts[c]] BY <1>1
<1>5. Answers(workers[w].pc, asked[c]) BY DEF Serving1, JobFits
<1>6. ASSUME NEW a, NEW row, Ended(w, a, row) PROVE ContactsInStep'
  <2>1. Moves(w, Idle, a, row) BY <1>6, KindsMove
  <2>2. contacts' = contacts /\ EndsWith(workers[w].pc, a) BY <1>6 DEF Ended
  <2>3. a # "served" BY <2>2 DEF EndsWith
  <2>4. ASSUME a \in Questions \cup {"nothing", "over"} PROVE contacts[c] = 0
    <3>1. a # "error" BY <2>4 DEF Questions
    <3>2. workers[w].pc # "leg" /\ asked[c] \in Questions \cup {"nothing", "over"}
      BY <1>5, <2>2, <3>1 DEF EndsWith, Answers, Questions
    <3> QED BY <1>2, <3>2 DEF InStep
  <2> QED BY <1>3, <1>4, <2>1, <2>2, <2>3, <2>4
<1>7. ASSUME NEW job, NEW row, WentOn(w, job, row) PROVE ContactsInStep'
  <2> DEFINE n == IF job.pc = "leg" THEN contacts[c] + 1 ELSE contacts[c]
  <2>1. Moves(w, job, asked[c], row) BY <1>7, KindsMove
  <2>2. /\ contacts' = [contacts EXCEPT ![c] = n]
        /\ GoesOn(workers[w].pc, job.pc) /\ job.call = c
    BY <1>4, <1>7 DEF WentOn
  <2>3. asked[c] # "served" /\ workers[w].pc # "leg"
    BY <1>5, <2>2 DEF Answers, GoesOn
  <2>4. job.pc = "leg" => asked[c] \in Questions
    BY <1>5, <2>2 DEF Answers, GoesOn, Questions
  <2>5. InStep(n, asked[c], job.pc) BY <1>1, <1>2, <2>3, <2>4 DEF InStep
  <2>6. job # Idle BY <1>1, <2>2 DEF Idle
  <2> HIDE DEF n
  <2> QED BY <1>3, <2>1, <2>2, <2>3, <2>5, <2>6
<1>8. ASSUME NEW job, NEW row, Moves(w, job, asked[c], row), contacts' = contacts, job.call = c,
             job.pc # "leg", workers[w].pc # "leg"
      PROVE  ContactsInStep'
  <2>1. InStep(contacts[c], asked[c], job.pc) BY <1>2, <1>8 DEF InStep
  <2>2. asked[c] # "served" BY <1>5 DEF Answers
  <2>3. job # Idle BY <1>1, <1>8 DEF Idle
  <2> QED BY <1>3, <1>4, <1>8, <2>1, <2>2, <2>3
<1>9. ASSUME NEW job, NEW f, Found(w, job, f) PROVE ContactsInStep'
  <2>1. Moves(w, job, asked[c], Row(w)) BY <1>9, KindsMove
  <2>2. contacts' = contacts /\ job.call = c /\ job.pc = "claim" /\ workers[w].pc = "find"
    BY <1>9 DEF Found
  <2> QED BY <1>8, <2>1, <2>2
<1>10. ASSUME NEW job, NEW row, Claims(w, job, row) PROVE ContactsInStep'
  <2>1. Moves(w, job, asked[c], row) BY <1>10, KindsMove
  <2>2. contacts' = contacts /\ job.call = c /\ job.pc = "contact" /\ workers[w].pc = "claim"
    BY <1>10 DEF Claims
  <2> QED BY <1>8, <2>1, <2>2
<1>11. ASSUME NEW leg, Trades(w, leg) PROVE ContactsInStep'
  <2>1. Moves(w, Idle, "served", Row(w)) BY <1>11, KindsMove
  <2>2. contacts' = contacts /\ workers[w].pc = "leg" /\ leg.call = c
        /\ leg \in AdminLeg /\ legs' = Append(legs, leg) /\ legs \in Seq(AdminLeg)
    BY <1>11 DEF Trades, AdminInv, AdminTypeOK
  <2>3. \E l \in DOMAIN legs' : legs'[l].call = c BY <2>2, Appended
  <2>4. contacts[c] = 1 BY <1>2, <2>2 DEF InStep
  <2>5. "served" \notin Questions \cup {"nothing", "over"} BY DEF Questions
  <2> QED BY <1>3, <1>4, <2>1, <2>2, <2>3, <2>4, <2>5
<1> QED BY <1>6, <1>7, <1>9, <1>10, <1>11

\* A step of a worker keeps the invariant.
LEMMA WorkerKeeps ==
    ASSUME AdminInv, NEW w \in Workers, Serve(w) \/ Fail(w)
    PROVE  AdminInv'
<1>1. Serving1(w) /\ ServesOrFails(w) /\ Apart BY ServeDoes DEF ServesOrFails
<1>2. \E job, a, row : /\ Moves(w, job, a, row)
                       /\ \/ job.scheduled \in {0, workers[w].scheduled}
                          \/ /\ job.scheduled \in DOMAIN scheduled
                             /\ scheduled[job.scheduled].user = Row(w).user
                             /\ workers[w].pc = "find"
  <2> DEFINE Good(job) == \/ job.scheduled \in {0, workers[w].scheduled}
                          \/ /\ job.scheduled \in DOMAIN scheduled
                             /\ scheduled[job.scheduled].user = Row(w).user
                             /\ workers[w].pc = "find"
  <2>1. Good(Idle) BY DEF Idle
  <2>2. \A job, row : WentOn(w, job, row) \/ Claims(w, job, row) => Good(job) BY DEF WentOn, Claims
  <2>3. \A job, s : Found(w, job, s) => Good(job) BY DEF Found
  <2> HIDE DEF Good
  <2>4. \E job, a, row : Moves(w, job, a, row) /\ Good(job)
    BY <1>1, <2>1, <2>2, <2>3, KindsMove DEF ServesOrFails
  <2> QED BY <2>4 DEF Good
<1>3. OneServer' /\ JobsFit' /\ CallsFit' BY <1>1, <1>2, JobsKept
<1>4. AdminTypeOK' /\ RefersToRows' BY <1>1, <1>2, TypesKept
<1>5. NumbersInHand' /\ NumbersAllowed' /\ InOneHand' BY <1>1, InHandKept, NumbersKept, OneHandKept
<1>6. KeptByCopy' /\ ClaimedInHand' BY <1>1, CopiesKept, ClaimedKept
<1>7. OwnInHand' /\ ScheduledForCaller' BY <1>1, <1>2, OwnKept
<1>8. Traded' /\ ContactsInStep' BY <1>1, <1>2, TradedKept, ContactsKept
<1> QED BY <1>3, <1>4, <1>5, <1>6, <1>7, <1>8 DEF AdminInv


-----------------------------------------------------------------------------
(* What happens outside keeps it.                                           *)

LEMMA ArriveKeeps ==
    ASSUME AdminInv, NEW w \in Workers, NEW c \in Calls, Arrive(w, c)
    PROVE  AdminInv'
<1> DEFINE job == [Idle EXCEPT !.pc = IF asked[c] = "nothing" THEN "new" ELSE asked[c], !.call = c]
<1>1. /\ workers[w] = Idle /\ Serving(c) = {} /\ asked[c] \in Questions \cup {"nothing"}
      /\ workers' = [workers EXCEPT ![w] = job]
      /\ UNCHANGED <<roles, phone, adminCalls, scheduled, contacts, legs, asked, contested, moved, mayDial>>
  BY DEF Arrive, users, rows, history
<1>2. /\ job \in Worker /\ job.call = c /\ job.scheduled = 0 /\ job.loaded = {}
      /\ job.pc \in Questions \cup {"new"} /\ Answers(job.pc, asked[c])
  BY <1>1 DEF Idle, Worker, LeadsTo, Numbers, Questions, Answers
<1> HIDE DEF job
<1>3. /\ workers \in [Workers -> Worker] /\ c # NoCall /\ Idle.call = NoCall /\ Idle.scheduled = 0
      /\ 0 \notin DOMAIN scheduled
  BY NoCallAssumption, Numbered DEF AdminInv, AdminTypeOK
<1>4. workers'[w] = job /\ \A v \in Workers : v # w => workers'[v] = workers[v]
  BY <1>1, <1>3
<1>5. \A v \in Workers : workers[v].call # c
  BY <1>1 DEF Serving
<1>6. job.pc \notin {"create", "find", "claim", "route", "contact", "leg"}
  BY <1>2 DEF Questions
<1>7. AdminTypeOK' /\ RefersToRows'
  <2>1. workers' \in [Workers -> Worker] BY <1>1, <1>2, <1>3
  <2>2. AdminTypeOK' BY <1>1, <2>1 DEF AdminInv, AdminTypeOK, Present
  <2>3. RefersToRows' BY <1>1, <1>2, <1>4 DEF AdminInv, RefersToRows
  <2> QED BY <2>2, <2>3
<1>8. OneServer'
  BY <1>2, <1>4, <1>5 DEF AdminInv, OneServer
<1>9. JobsFit'
  <2>1. JobFits(job, asked[c], adminCalls[c]) BY <1>2, <1>3, <1>6 DEF JobFits
  <2>2. \A v \in Workers : v # w => workers[v] = Idle
          \/ JobFits(workers[v], asked[workers[v].call], adminCalls[workers[v].call])
    BY DEF AdminInv, JobsFit
  <2> QED BY <1>1, <1>2, <1>4, <2>1, <2>2 DEF JobsFit
<1>10. CallsFit' /\ NumbersAllowed' /\ ScheduledForCaller' /\ Traded'
  BY <1>1 DEF AdminInv, CallsFit, CallFits, Present, NumbersAllowed, ScheduledForCaller, Traded
<1>16. NumbersInHand'
  BY <1>1, <1>2, <1>4 DEF AdminInv, NumbersInHand
<1>11. InOneHand'
  BY <1>1, <1>2, <1>3, <1>4 DEF AdminInv, InOneHand
<1>12. KeptByCopy'
  <2>1. \A s \in DOMAIN scheduled : Untouched(s) => Untouched(s)'
    BY <1>1, <1>2, <1>3, <1>4 DEF Untouched
  <2>2. \A v \in Workers : workers'[v].pc \in {"find", "claim"} =>
          \A s \in workers'[v].loaded \ contested : scheduled[s].admin_call = workers'[v].call /\ Untouched(s)'
    BY <1>4, <1>6, <2>1 DEF AdminInv, KeptByCopy, RefersToRows
  <2>3. ASSUME NEW d \in Calls,
               \A v \in Workers : workers'[v].call = d => workers'[v].pc \in {"new", "login", "create", "pin"}
        PROVE  \A v \in Workers : workers[v].call = d => workers[v].pc \in {"new", "login", "create", "pin"}
    BY <1>1, <1>3, <1>4, <2>3, NoCallAssumption
  <2>4. ASSUME NEW s \in DOMAIN scheduled \ contested, scheduled[s].admin_call \in Calls,
               asked[scheduled[s].admin_call] \in {"nothing", "login", "pin"},
               \A v \in Workers : workers'[v].call = scheduled[s].admin_call
                                  => workers'[v].pc \in {"new", "login", "create", "pin"}
        PROVE  Untouched(s)'
    <3>1. Untouched(s) BY <2>3, <2>4 DEF AdminInv, KeptByCopy
    <3> QED BY <2>1, <3>1
  <2> QED BY <1>1, <2>2, <2>4 DEF KeptByCopy
<1>13. ClaimedInHand'
  <2>1. ASSUME NEW s \in DOMAIN scheduled, NEW v \in Workers, workers[v].scheduled = s
        PROVE  workers'[v] = workers[v]
    BY <1>1, <1>3, <1>4, <2>1
  <2> QED BY <1>1, <2>1 DEF AdminInv, ClaimedInHand
<1>14. OwnInHand'
  BY <1>1, <1>2, <1>4 DEF AdminInv, OwnInHand
<1>15. ContactsInStep'
  <2>1. \A v \in Workers : workers'[v].pc = "leg" => workers'[v] = workers[v] BY <1>4, <1>6
  <2>2. \A v \in Workers : workers[v].pc = "leg" => workers'[v] = workers[v]
    BY <1>1, <1>4 DEF Idle
  <2> QED BY <1>1, <2>1, <2>2 DEF AdminInv, ContactsInStep
<1> QED
  BY <1>7, <1>8, <1>9, <1>10, <1>11, <1>12, <1>13, <1>14, <1>15, <1>16 DEF AdminInv

\* What changes of scheduled calls have in common: those in hand keep their user
\* or are moved, keep their call or are contested, and keep their numbers or are
\* given ones.
ScheduledChanges ==
    /\ UNCHANGED <<roles, phone, adminCalls, contacts, legs, workers, asked, mayDial>>
    /\ scheduled' \in Seq(ScheduledCall) /\ DOMAIN scheduled \subseteq DOMAIN scheduled'
    /\ contested \subseteq contested' /\ moved \subseteq moved'
    /\ \A s \in DOMAIN scheduled' : /\ scheduled'[s].user \in Present
                                     /\ {scheduled'[s].ani, scheduled'[s].dnis} \cap Calls \subseteq mayDial
    /\ \A s \in DOMAIN scheduled :
         /\ scheduled'[s].ani \in {scheduled[s].ani, "scheduled"}
         /\ scheduled'[s].dnis \in {scheduled[s].dnis, "scheduled"}
         /\ s \notin contested' => /\ scheduled'[s].admin_call = scheduled[s].admin_call
                                   /\ scheduled'[s].copied = scheduled[s].copied
         /\ s \notin moved' => scheduled'[s].user = scheduled[s].user \/ Untouched(s)
    /\ \A s \in DOMAIN scheduled' : s \notin DOMAIN scheduled =>
           scheduled'[s].admin_call = NoCall \/ scheduled'[s].copied

LEMMA ScheduledChangesKeep ==
    ASSUME AdminInv, ScheduledChanges
    PROVE  AdminInv'
<1>1. /\ UNCHANGED <<roles, phone, adminCalls, contacts, legs, workers, asked, mayDial>>
      /\ scheduled' \in Seq(ScheduledCall) /\ DOMAIN scheduled \subseteq DOMAIN scheduled'
      /\ contested \subseteq contested' /\ moved \subseteq moved'
      /\ \A s \in DOMAIN scheduled :
           /\ s \notin contested' => /\ scheduled'[s].admin_call = scheduled[s].admin_call
                                     /\ scheduled'[s].copied = scheduled[s].copied
           /\ s \notin moved' => scheduled'[s].user = scheduled[s].user \/ Untouched(s)
      /\ \A s \in DOMAIN scheduled' : s \notin DOMAIN scheduled =>
             scheduled'[s].admin_call = NoCall \/ scheduled'[s].copied
  BY DEF ScheduledChanges
<1>2. \A s \in DOMAIN scheduled' : s # 0 BY <1>1
<1>3. ASSUME NEW s \in DOMAIN scheduled', s \notin DOMAIN scheduled PROVE Untouched(s)
  BY <1>2, <1>3 DEF AdminInv, RefersToRows, Untouched
<1>4. AdminTypeOK'
  <2>1. \A s \in DOMAIN scheduled' : scheduled'[s].user \in Present' BY <1>1 DEF ScheduledChanges, Present
  <2> QED BY <1>1, <2>1 DEF AdminInv, AdminTypeOK, Present
<1>5. RefersToRows' BY <1>1 DEF AdminInv, RefersToRows
<1>6. OneServer' /\ JobsFit' /\ CallsFit' /\ Traded' /\ ContactsInStep'
  BY <1>1 DEF AdminInv, OneServer, JobsFit, CallsFit, CallFits, Present, Traded, ContactsInStep
<1>13. /\ \A s \in DOMAIN scheduled' : {scheduled'[s].ani, scheduled'[s].dnis} \cap Calls \subseteq mayDial
       /\ \A s \in DOMAIN scheduled : /\ scheduled'[s].ani \in {scheduled[s].ani, "scheduled"}
                                      /\ scheduled'[s].dnis \in {scheduled[s].dnis, "scheduled"}
  BY DEF ScheduledChanges
<1>14. NumbersInHand'
  BY <1>1, <1>13 DEF AdminInv, NumbersInHand, RefersToRows
<1>15. NumbersAllowed'
  BY <1>1, <1>13 DEF AdminInv, NumbersAllowed, RefersToRows
<1>7. InOneHand'
  <2> SUFFICES ASSUME NEW s \in DOMAIN scheduled', s \notin contested'
      PROVE  /\ \A v, w \in Workers : workers[v].scheduled = s /\ workers[w].scheduled = s => v = w
             /\ \A l, m \in DOMAIN legs : legs[l].scheduled = s /\ legs[m].scheduled = s => l = m
             /\ \A l \in DOMAIN legs, w \in Workers : legs[l].scheduled = s => workers[w].scheduled # s
             /\ scheduled'[s].admin_call = NoCall =>
                   /\ \A l \in DOMAIN legs : legs[l].scheduled # s
                   /\ \A w \in Workers : workers[w].scheduled = s => workers[w].pc = "claim"
    BY <1>1 DEF InOneHand
  <2>1. CASE s \in DOMAIN scheduled BY <1>1, <2>1 DEF AdminInv, InOneHand
  <2>2. CASE s \notin DOMAIN scheduled BY <1>3, <2>2 DEF Untouched
  <2> QED BY <2>1, <2>2
<1>8. KeptByCopy'
  <2>1. \A s : Untouched(s) => Untouched(s)' BY <1>1 DEF Untouched
  <2>2. ASSUME NEW w \in Workers, workers[w].pc \in {"find", "claim"},
               NEW s, s \in workers[w].loaded, s \notin contested'
        PROVE  scheduled'[s].admin_call = workers[w].call /\ Untouched(s)'
    <3>1. s \in DOMAIN scheduled /\ s \notin contested BY <1>1, <2>2 DEF AdminInv, RefersToRows
    <3>2. scheduled[s].admin_call = workers[w].call /\ Untouched(s)
      BY <2>2, <3>1 DEF AdminInv, KeptByCopy
    <3> QED BY <1>1, <2>1, <2>2, <3>1, <3>2
  <2>3. ASSUME NEW s \in DOMAIN scheduled', s \notin contested', scheduled'[s].admin_call \in Calls,
               asked[scheduled'[s].admin_call] \in {"nothing", "login", "pin"},
               \A v \in Workers : workers[v].call = scheduled'[s].admin_call
                                  => workers[v].pc \in {"new", "login", "create", "pin"}
        PROVE  Untouched(s)'
    <3>1. CASE s \in DOMAIN scheduled
      <4>1. s \notin contested /\ scheduled'[s].admin_call = scheduled[s].admin_call BY <1>1, <2>3, <3>1
      <4>2. Untouched(s) BY <2>3, <3>1, <4>1 DEF AdminInv, KeptByCopy
      <4> QED BY <2>1, <4>2
    <3>2. CASE s \notin DOMAIN scheduled BY <1>3, <2>1, <2>3, <3>2
    <3> QED BY <3>1, <3>2
  <2> QED BY <1>1, <2>2, <2>3 DEF KeptByCopy
<1>9. ClaimedInHand'
  <2>1. ASSUME NEW s \in DOMAIN scheduled', s \notin contested', scheduled'[s].admin_call # NoCall,
               ~scheduled'[s].copied
        PROVE  /\ s \in DOMAIN scheduled \ contested
               /\ scheduled'[s].admin_call = scheduled[s].admin_call /\ ~scheduled[s].copied
    BY <1>1, <2>1
  <2> QED BY <1>1, <2>1 DEF AdminInv, ClaimedInHand
<1>10. ASSUME NEW s \in DOMAIN scheduled, s \notin moved', ~Untouched(s)
       PROVE  scheduled'[s].user = scheduled[s].user /\ s \notin moved
  BY <1>1, <1>10
<1>11. OwnInHand'
  <2>1. ASSUME NEW w \in Workers, workers[w].scheduled # 0, workers[w].scheduled \notin moved'
        PROVE  scheduled'[workers[w].scheduled].user = adminCalls[workers[w].call].user
    <3>1. workers[w].scheduled \in DOMAIN scheduled /\ ~Untouched(workers[w].scheduled)
      BY <2>1 DEF AdminInv, RefersToRows, Untouched
    <3> QED BY <1>10, <2>1, <3>1 DEF AdminInv, OwnInHand
  <2> QED BY <1>1, <2>1 DEF OwnInHand
<1>12. ScheduledForCaller'
  <2>1. ASSUME NEW l \in DOMAIN legs, legs[l].scheduled # 0, legs[l].scheduled \notin moved'
        PROVE  scheduled'[legs[l].scheduled].user = adminCalls[legs[l].call].user
    <3>1. legs[l].scheduled \in DOMAIN scheduled /\ ~Untouched(legs[l].scheduled)
      BY <2>1 DEF AdminInv, RefersToRows, Untouched
    <3> QED BY <1>10, <2>1, <3>1 DEF AdminInv, ScheduledForCaller
  <2> QED BY <1>1, <2>1 DEF ScheduledForCaller
<1> QED BY <1>4, <1>5, <1>6, <1>7, <1>8, <1>9, <1>11, <1>12, <1>14, <1>15 DEF AdminInv


LEMMA ScheduleKeeps ==
    ASSUME AdminInv, NEW u \in Users, NEW to \in {"routing", "workflow"},
           NEW given \in {"none", "scheduled"} \X {"none", "scheduled"}, Schedule(u, to, given)
    PROVE  AdminInv'
<1> DEFINE row == [user |-> u, admin_call |-> NoCall, copied |-> FALSE, leads_to |-> to,
                   ani |-> given[1], dnis |-> given[2]]
<1>1. /\ u \in Present /\ scheduled' = Append(scheduled, row)
      /\ UNCHANGED <<roles, phone, adminCalls, contacts, legs, workers, asked, contested, moved, mayDial>>
  BY DEF Schedule, users, history
<1>2. /\ row \in ScheduledCall /\ row.user = u /\ row.admin_call = NoCall
      /\ {row.ani, row.dnis} \cap Calls = {}
  BY NoCallAssumption DEF ScheduledCall, LeadsTo, Numbers, NoCall
<1> HIDE DEF row
<1>3. /\ scheduled \in Seq(ScheduledCall)
      /\ \A s \in DOMAIN scheduled : /\ scheduled[s].user \in Present
                                     /\ {scheduled[s].ani, scheduled[s].dnis} \cap Calls \subseteq mayDial
  BY DEF AdminInv, AdminTypeOK, NumbersInHand
<1>4. PICK n \in Nat \ DOMAIN scheduled :
          /\ scheduled' \in Seq(ScheduledCall) /\ DOMAIN scheduled' = DOMAIN scheduled \cup {n}
          /\ scheduled'[n] = row /\ \A s \in DOMAIN scheduled : scheduled'[s] = scheduled[s]
  BY <1>1, <1>2, <1>3, Appended
<1>5. ScheduledChanges BY <1>1, <1>2, <1>3, <1>4 DEF ScheduledChanges
<1> QED BY <1>5, ScheduledChangesKeep

LEMMA CopyScheduledKeeps ==
    ASSUME AdminInv, NEW c \in Calls, CopyScheduled(c)
    PROVE  AdminInv'
<1> DEFINE u == adminCalls[c].user
           row == [user |-> u, admin_call |-> c, copied |-> TRUE,
                   leads_to |-> IF adminCalls[c].routed THEN "routing" ELSE "nowhere",
                   ani |-> adminCalls[c].ani, dnis |-> adminCalls[c].dnis]
<1>1. PICK loaded \in LoadedOf(c) : /\ scheduled' = Append(Freed(loaded), row)
                                    /\ contested' = contested \cup loaded
  BY DEF CopyScheduled
<1>2. /\ u # NoUser
      /\ UNCHANGED <<roles, phone, adminCalls, contacts, legs, workers, asked, moved, mayDial>>
  BY DEF CopyScheduled, users
<1>3. /\ scheduled \in Seq(ScheduledCall) /\ u \in Present
      /\ \A s \in DOMAIN scheduled : /\ scheduled[s].user \in Present /\ scheduled[s] \in ScheduledCall
                                     /\ {scheduled[s].ani, scheduled[s].dnis} \cap Calls \subseteq mayDial
      /\ adminCalls[c] \in AdminCall
      /\ {adminCalls[c].ani, adminCalls[c].dnis} \cap Calls \subseteq mayDial
  BY <1>2 DEF AdminInv, AdminTypeOK, NumbersInHand, CallsFit, CallFits
<1>4. /\ row \in ScheduledCall /\ row.user = u /\ row.copied
      /\ {row.ani, row.dnis} \cap Calls \subseteq mayDial
  BY <1>3 DEF ScheduledCall, LeadsTo, Present, AdminCall
<1> HIDE DEF row, u
<1>5. /\ DOMAIN Freed(loaded) = DOMAIN scheduled
      /\ Freed(loaded) = [s \in DOMAIN scheduled |-> Freed(loaded)[s]]
      /\ \A s \in DOMAIN scheduled :
           /\ Freed(loaded)[s] \in ScheduledCall /\ Freed(loaded)[s].user = scheduled[s].user
           /\ Freed(loaded)[s].ani = scheduled[s].ani /\ Freed(loaded)[s].dnis = scheduled[s].dnis
           /\ s \notin loaded => Freed(loaded)[s] = scheduled[s]
  BY <1>3 DEF Freed, ScheduledCall
<1>6. Freed(loaded) \in Seq(ScheduledCall) BY <1>3, <1>5, SameLength
<1>7. PICK n \in Nat \ DOMAIN scheduled :
          /\ scheduled' \in Seq(ScheduledCall) /\ DOMAIN scheduled' = DOMAIN scheduled \cup {n}
          /\ scheduled'[n] = row /\ \A s \in DOMAIN scheduled : scheduled'[s] = Freed(loaded)[s]
  <2> DEFINE freed == Freed(loaded)
  <2>1. /\ scheduled' = Append(freed, row) /\ freed \in Seq(ScheduledCall)
        /\ DOMAIN freed = DOMAIN scheduled
    BY <1>1, <1>5, <1>6
  <2> HIDE DEF freed
  <2>2. \E n \in Nat \ DOMAIN freed :
          /\ scheduled' \in Seq(ScheduledCall) /\ DOMAIN scheduled' = DOMAIN freed \cup {n}
          /\ scheduled'[n] = row /\ \A s \in DOMAIN freed : scheduled'[s] = freed[s]
    BY <1>4, <2>1, Appended
  <2> QED BY <2>1, <2>2 DEF freed
<1>8. ScheduledChanges BY <1>1, <1>2, <1>3, <1>4, <1>5, <1>7 DEF ScheduledChanges
<1> QED BY <1>8, ScheduledChangesKeep

LEMMA UpdateScheduledKeeps ==
    ASSUME AdminInv, NEW s \in DOMAIN scheduled, NEW u \in Users, NEW to \in LeadsTo,
           NEW given \in {"none", "scheduled"} \X {"none", "scheduled"}, UpdateScheduled(s, u, to, given)
    PROVE  AdminInv'
<1>1. /\ u \in Present
      /\ scheduled' = [scheduled EXCEPT ![s].user = u, ![s].leads_to = to,
                           ![s].ani  = IF given[1] = "none" THEN @ ELSE given[1],
                           ![s].dnis = IF given[2] = "none" THEN @ ELSE given[2]]
      /\ UNCHANGED <<roles, phone, adminCalls, contacts, legs, workers, asked, contested, mayDial>>
  BY DEF UpdateScheduled, users
<1>2. moved' = IF /\ u # scheduled[s].user
                  /\ \/ scheduled[s].admin_call # NoCall
                     \/ \E w \in Workers : workers[w].scheduled = s
                     \/ \E l \in DOMAIN legs : legs[l].scheduled = s
               THEN moved \cup {s} ELSE moved
  BY DEF UpdateScheduled
<1>3. /\ scheduled \in Seq(ScheduledCall)
      /\ \A t \in DOMAIN scheduled : /\ scheduled[t].user \in Present /\ scheduled[t] \in ScheduledCall
                                     /\ {scheduled[t].ani, scheduled[t].dnis} \cap Calls \subseteq mayDial
  BY DEF AdminInv, AdminTypeOK, NumbersInHand
<1>4. /\ DOMAIN scheduled' = DOMAIN scheduled
      /\ scheduled' = [t \in DOMAIN scheduled |-> scheduled'[t]]
      /\ scheduled'[s] \in ScheduledCall /\ scheduled'[s].user = u
      /\ scheduled'[s].admin_call = scheduled[s].admin_call /\ scheduled'[s].copied = scheduled[s].copied
      /\ scheduled'[s].ani \in {scheduled[s].ani, "scheduled"}
      /\ scheduled'[s].dnis \in {scheduled[s].dnis, "scheduled"}
      /\ \A t \in DOMAIN scheduled : t # s => scheduled'[t] = scheduled[t]
  BY <1>1, <1>3 DEF ScheduledCall, Numbers
<1>5. scheduled' \in Seq(ScheduledCall) BY <1>3, <1>4, SameLength
<1>6. s \notin moved' => scheduled'[s].user = scheduled[s].user \/ Untouched(s)
  BY <1>2, <1>4 DEF Untouched
<1>8. {scheduled'[s].ani, scheduled'[s].dnis} \cap Calls \subseteq mayDial
  BY <1>3, <1>4, NoCallAssumption
<1>7. ScheduledChanges
  BY <1>1, <1>2, <1>3, <1>4, <1>5, <1>6, <1>8 DEF ScheduledChanges
<1> QED BY <1>7, ScheduledChangesKeep

\* What changes of users and phones have in common: no row loses its user, and
\* who becomes an admin may dial.
UsersChange ==
    /\ UNCHANGED <<adminCalls, scheduled, contacts, legs, workers, asked, contested, moved>>
    /\ mayDial \subseteq mayDial'
    /\ roles' \in [Users -> {"user", "admin", "deleted"}]
    /\ phone' \in [Calls -> Present' \cup {NoUser}]
    /\ \A c \in Calls : LET u == adminCalls[c].user
                        IN  u # NoUser => /\ u \in Present'
                                          /\ roles'[u] = "admin" => c \in mayDial'
    /\ \A s \in DOMAIN scheduled : scheduled[s].user \in Present'

LEMMA UsersChangeKeeps ==
    ASSUME AdminInv, UsersChange
    PROVE  AdminInv'
<1> USE DEF UsersChange
<1>1. AdminTypeOK' BY DEF AdminInv, AdminTypeOK
<1>2. CallsFit' BY DEF AdminInv, CallsFit, CallFits
<1>3. NumbersInHand' /\ NumbersAllowed' BY DEF AdminInv, NumbersInHand, NumbersAllowed
<1>4. RefersToRows' /\ OneServer' /\ JobsFit' /\ InOneHand'
  BY DEF AdminInv, RefersToRows, OneServer, JobsFit, InOneHand
<1>5. KeptByCopy' /\ ClaimedInHand' /\ OwnInHand' /\ ScheduledForCaller' /\ Traded' /\ ContactsInStep'
  BY DEF AdminInv, KeptByCopy, Untouched, ClaimedInHand, OwnInHand, ScheduledForCaller, Traded,
         ContactsInStep
<1> QED BY <1>1, <1>2, <1>3, <1>4, <1>5 DEF AdminInv

\* What the invariant says of users.
LEMMA UsersNow ==
    ASSUME AdminInv
    PROVE  /\ roles \in [Users -> {"user", "admin", "deleted"}]
           /\ phone \in [Calls -> Present \cup {NoUser}]
           /\ \A c \in Calls : LET u == adminCalls[c].user
                               IN  u # NoUser => /\ u \in Present
                                                 /\ roles[u] = "admin" => c \in mayDial
           /\ \A s \in DOMAIN scheduled : scheduled[s].user \in Present
BY DEF AdminInv, AdminTypeOK, CallsFit, CallFits

LEMMA UpdateUserKeeps ==
    ASSUME AdminInv, NEW u \in Users, NEW role \in {"user", "admin"}, UpdateUser(u, role)
    PROVE  AdminInv'
<1>1. /\ roles[u] # "deleted" /\ roles' = [roles EXCEPT ![u] = role]
      /\ mayDial' = IF role = "admin" THEN mayDial \cup CallsOf(u) ELSE mayDial
      /\ UNCHANGED <<phone, adminCalls, scheduled, contacts, legs, workers, asked, contested, moved>>
  BY DEF UpdateUser, rows
<1>2. roles' \in [Users -> {"user", "admin", "deleted"}] /\ Present' = Present
  BY <1>1, UsersNow DEF Present
<1>3. \A c \in Calls : LET v == adminCalls[c].user
                       IN  v # NoUser => v \in Present' /\ (roles'[v] = "admin" => c \in mayDial')
  BY <1>1, <1>2, UsersNow DEF CallsOf, Present
<1>4. UsersChange BY <1>1, <1>2, <1>3, UsersNow DEF UsersChange
<1> QED BY <1>4, UsersChangeKeeps

LEMMA DeleteUserKeeps ==
    ASSUME AdminInv, NEW u \in Users, DeleteUser(u)
    PROVE  AdminInv'
<1>1. /\ CallsOf(u) = {} /\ \A s \in DOMAIN scheduled : scheduled[s].user # u
      /\ roles' = [roles EXCEPT ![u] = "deleted"]
      /\ phone' = [c \in Calls |-> IF phone[c] = u THEN NoUser ELSE phone[c]]
      /\ UNCHANGED <<adminCalls, scheduled, contacts, legs, workers, asked, contested, moved, mayDial>>
  BY DEF DeleteUser, rows, history
<1>2. roles' \in [Users -> {"user", "admin", "deleted"}] /\ Present' = Present \ {u}
  BY <1>1, UsersNow DEF Present
<1>3. phone' \in [Calls -> Present' \cup {NoUser}] BY <1>1, <1>2, UsersNow
<1>4. \A c \in Calls : LET v == adminCalls[c].user
                       IN  v # NoUser => v \in Present' /\ (roles'[v] = "admin" => c \in mayDial')
  <2>1. \A c \in Calls : adminCalls[c].user # u BY <1>1 DEF CallsOf
  <2> QED BY <1>1, <1>2, <2>1, UsersNow DEF Present
<1>5. UsersChange BY <1>1, <1>2, <1>3, <1>4, UsersNow DEF UsersChange
<1> QED BY <1>5, UsersChangeKeeps

LEMMA ChangePhoneKeeps ==
    ASSUME AdminInv, NEW c \in Calls, NEW u \in Users \cup {NoUser}, ChangePhone(c, u)
    PROVE  AdminInv'
<1>1. /\ u \in Present \cup {NoUser} /\ phone' = [phone EXCEPT ![c] = u]
      /\ UNCHANGED <<roles, adminCalls, scheduled, contacts, legs, workers, asked, contested, moved, mayDial>>
  BY DEF ChangePhone, rows, history
<1>2. Present' = Present BY <1>1 DEF Present
<1>3. phone' \in [Calls -> Present' \cup {NoUser}] BY <1>1, <1>2, UsersNow
<1>4. UsersChange BY <1>1, <1>2, <1>3, UsersNow DEF UsersChange
<1> QED BY <1>4, UsersChangeKeeps

LEMMA StutterKeeps ==
    ASSUME AdminInv, UNCHANGED vars
    PROVE  AdminInv'
<1>1. /\ UNCHANGED <<adminCalls, scheduled, contacts, legs, workers, asked, contested, moved>>
      /\ roles' = roles /\ phone' = phone /\ mayDial' = mayDial /\ Present' = Present
  BY DEF vars, users, rows, history, Present
<1>2. UsersChange BY <1>1, UsersNow DEF UsersChange
<1> QED BY <1>2, UsersChangeKeeps


-----------------------------------------------------------------------------
(* The properties.                                                          *)

LEMMA AdminInit == Init => AdminInv
<1> SUFFICES ASSUME Init PROVE AdminInv OBVIOUS
<1>1. /\ roles = [u \in Users |-> IF u \in Admins THEN "admin" ELSE "user"]
      /\ phone \in [Calls -> Users \cup {NoUser}]
      /\ adminCalls = [c \in Calls |-> NoAdminCall]
      /\ scheduled = <<>> /\ legs = <<>>
      /\ contacts = [c \in Calls |-> 0]
      /\ workers = [w \in Workers |-> Idle]
      /\ asked = [c \in Calls |-> "nothing"]
  BY DEF Init
<1>2. DOMAIN scheduled = {} /\ DOMAIN legs = {} BY <1>1
<1>3. /\ Idle \in Worker /\ Idle.call = NoCall /\ Idle.scheduled = 0 /\ Idle.loaded = {}
      /\ Idle.pc = "idle"
  BY DEF Idle, Worker, LeadsTo, Numbers
<1>4. /\ NoAdminCall \in AdminCall /\ NoAdminCall.user = NoUser
      /\ NoAdminCall.ani = "none" /\ NoAdminCall.dnis = "none"
  BY DEF NoAdminCall, AdminCall, Numbers
<1>5. AdminTypeOK
  <2>1. /\ roles \in [Users -> {"user", "admin", "deleted"}] /\ \A u \in Users : roles[u] # "deleted"
    BY <1>1
  <2>2. Present = Users BY <2>1 DEF Present
  <2>3. scheduled \in Seq(ScheduledCall) /\ legs \in Seq(AdminLeg) BY <1>1
  <2>4. /\ contacts \in [Calls -> Nat] /\ workers \in [Workers -> Worker]
        /\ adminCalls \in [Calls -> AdminCall]
    BY <1>1, <1>3, <1>4
  <2>5. /\ asked \in [Calls -> Questions \cup Outcomes]
        /\ \A c \in Calls : asked[c] \notin {"ani", "dnis", "priority"}
    BY <1>1 DEF Outcomes
  <2>6. \A c \in Calls : adminCalls[c].user \in Present \cup {NoUser} BY <1>1, <1>4
  <2> QED BY <1>1, <1>2, <2>1, <2>2, <2>3, <2>4, <2>5, <2>6 DEF AdminTypeOK
<1>6. RefersToRows /\ OneServer /\ JobsFit
  BY <1>1, <1>2, <1>3 DEF RefersToRows, OneServer, JobsFit
<1>7. CallsFit
  BY <1>1, <1>4, NoCallAssumption DEF CallsFit, CallFits, NoCall
<1>8. NumbersAllowed /\ InOneHand /\ ClaimedInHand /\ ScheduledForCaller /\ Traded
  BY <1>2 DEF NumbersAllowed, InOneHand, ClaimedInHand, ScheduledForCaller, Traded
<1>9. KeptByCopy /\ OwnInHand /\ NumbersInHand
  BY <1>1, <1>2, <1>3 DEF KeptByCopy, OwnInHand, NumbersInHand
<1>10. ContactsInStep
  BY <1>1, <1>3 DEF ContactsInStep
<1> QED BY <1>5, <1>6, <1>7, <1>8, <1>9, <1>10 DEF AdminInv

LEMMA AdminStep == AdminInv /\ [Next]_vars => AdminInv'
<1> SUFFICES ASSUME AdminInv, [Next]_vars PROVE AdminInv' OBVIOUS
<1>1. ASSUME NEW w \in Workers, Serve(w) \/ Fail(w) PROVE AdminInv'
  BY <1>1, WorkerKeeps
<1>2. ASSUME NEW w \in Workers, NEW c \in Calls, Arrive(w, c) PROVE AdminInv'
  BY <1>2, ArriveKeeps
<1>3. ASSUME NEW u \in Users,
             \/ Schedule(u, "routing", <<"scheduled", "scheduled">>)
             \/ \E given \in CreatedWith : Schedule(u, "workflow", given)
      PROVE  AdminInv'
  BY <1>3, ScheduleKeeps, GivenNumbersAssumption
<1>4. ASSUME NEW s \in DOMAIN scheduled, NEW u \in Users, NEW given \in ChangedTo,
             \/ UpdateScheduled(s, u, scheduled[s].leads_to, given)
             \/ UpdateScheduled(s, u, "routing", given)
      PROVE  AdminInv'
  <2>1. scheduled[s].leads_to \in LeadsTo /\ "routing" \in LeadsTo
    BY <1>4, Numbered DEF ScheduledCall, LeadsTo
  <2> DEFINE to == scheduled[s].leads_to
  <2>2. given \in {"none", "scheduled"} \X {"none", "scheduled"} BY GivenNumbersAssumption
  <2> QED BY <1>4, <2>1, <2>2, UpdateScheduledKeeps
<1>5. ASSUME NEW u \in Users, UpdateUser(u, "user") \/ UpdateUser(u, "admin") PROVE AdminInv'
  BY <1>5, UpdateUserKeeps
<1>6. ASSUME NEW u \in Users, DeleteUser(u) PROVE AdminInv'
  BY <1>6, DeleteUserKeeps
<1>7. ASSUME NEW c \in Calls, NEW u \in Users \cup {NoUser}, ChangePhone(c, u) PROVE AdminInv'
  BY <1>7, ChangePhoneKeeps
<1>8. ASSUME NEW c \in Calls, CopyScheduled(c) PROVE AdminInv'
  BY <1>8, CopyScheduledKeeps
<1>9. CASE UNCHANGED vars BY <1>9, StutterKeeps
<1> QED BY <1>1, <1>2, <1>3, <1>4, <1>5, <1>6, <1>7, <1>8, <1>9 DEF Next

LEMMA AdminInvHolds == Spec => []AdminInv
BY AdminInit, AdminStep, PTL DEF Spec

\* The rows and the requests of administration calls have their shape, and only
\* a call that was verified is asked for numbers (adapters/twilio.py).
THEOREM AdminTypes == Spec => []AdminTypeOK
<1>1. AdminInv => AdminTypeOK BY DEF AdminInv
<1> QED BY <1>1, AdminInvHolds, PTL

\* A set of which any two members are the same.
LEMMA AtMostOne ==
    ASSUME NEW S, \A x, y \in S : x = y
    PROVE  Cardinality(S) <= 1 /\ (S # {} => Cardinality(S) = 1)
<1>1. CASE S = {} BY <1>1, FS_EmptySet
<1>2. CASE S # {}
  <2>1. PICK x \in S : S = {x} BY <1>2
  <2> QED BY <2>1, FS_Singleton
<1> QED BY <1>1, <1>2

\* A scheduled call is traded for one call at the most, however its requests are
\* cut short and whatever is changed meanwhile, unless it was found by two calls
\* before either had claimed it (find_scheduled_call,
\* copy_admin_from_scheduled), or was copied.
THEOREM TradedOnceHolds == Spec => []TradedOnce
<1>1. AdminInv => TradedOnce
  <2> SUFFICES ASSUME AdminInv, NEW s \in DOMAIN scheduled \ contested
               PROVE  Cardinality(LegsFor(s)) <= 1
    BY DEF TradedOnce
  <2>1. \A l, m \in LegsFor(s) : l = m BY DEF AdminInv, InOneHand, LegsFor
  <2> QED BY <2>1, AtMostOne
<1> QED BY <1>1, AdminInvHolds, PTL

\* A scheduled call that was claimed is with the call that claimed it: that is
\* still served, was cut short, or has the leg for it (process_scheduled_call,
\* adapters/twilio.py).
THEOREM ClaimedIsServedHolds == Spec => []ClaimedIsServed
<1>1. AdminInv => ClaimedIsServed
  BY DEF AdminInv, ClaimedInHand, ClaimedIsServed, Serving, LegsFor
<1> QED BY <1>1, AdminInvHolds, PTL

\* A number that a call goes on with was dialed while the user had the role admin
\* at some time of the call it was dialed in, by whatever copies it came; a call
\* that was asked for its numbers has both, and they are its own; and one that was
\* scheduled has those of the scheduled call it was traded for, the ones that are
\* missing included, unless that was given others since
\* (process_gather_admin_ani, process_gather_admin_dnis, copy_admin_from_scheduled).
THEOREM NumbersAllowedHolds == Spec => []NumbersAllowed
<1>1. AdminInv => NumbersAllowed BY DEF AdminInv
<1> QED BY <1>1, AdminInvHolds, PTL

\* A scheduled call is traded for a call of its user, unless it was given to
\* another user when it had been found (update_scheduled_call).
THEOREM ScheduledForCallerHolds == Spec => []ScheduledForCaller
<1>1. AdminInv => ScheduledForCaller BY DEF AdminInv
<1> QED BY <1>1, AdminInvHolds, PTL

\* A call that is asked or turned away has no contact and no leg, and one that
\* was traded has one of each (process_admin_call).
THEOREM OneLegEachHolds == Spec => []OneLegEach
<1>1. AdminInv => OneLegEach
  <2> SUFFICES ASSUME AdminInv, NEW c \in Calls, Serving(c) = {}
               PROVE  /\ asked[c] \in Questions \cup {"nothing", "over"} => contacts[c] = 0 /\ LegsOf(c) = {}
                      /\ asked[c] = "served" => contacts[c] = 1 /\ Cardinality(LegsOf(c)) = 1
    BY DEF OneLegEach
  <2>1. \A w \in Workers : workers[w].call # c BY DEF Serving
  <2>2. ASSUME asked[c] \in Questions \cup {"nothing", "over"}
        PROVE  contacts[c] = 0 /\ LegsOf(c) = {}
    <3>1. asked[c] # "served" BY <2>2 DEF Questions
    <3> QED BY <2>1, <2>2, <3>1 DEF AdminInv, ContactsInStep, Traded, LegsOf
  <2>3. ASSUME asked[c] = "served"
        PROVE  contacts[c] = 1 /\ Cardinality(LegsOf(c)) = 1
    <3>1. contacts[c] = 1 /\ LegsOf(c) # {} BY <2>3 DEF AdminInv, ContactsInStep, LegsOf
    <3>2. \A l, m \in LegsOf(c) : l = m BY DEF AdminInv, Traded, LegsOf
    <3> QED BY <3>1, <3>2, AtMostOne
  <2> QED BY <2>2, <2>3
<1> QED BY <1>1, AdminInvHolds, PTL
=============================================================================
