-------------------------- MODULE ContactLegsProofs --------------------------
(***************************************************************************)
(* Proofs about ContactLegs, for any calls, threads and workers and any     *)
(* number of requests, transfers and failures.  What relates several        *)
(* requests of one contact is proved for threads whose requests come one at *)
(* a time, as those of a call do.                                           *)
(***************************************************************************)
EXTENDS ContactLegs, FiniteSetTheorems, SequenceTheorems, TLAPS

-----------------------------------------------------------------------------
(* The inductive invariant.                                                 *)

\* A request that the engine serves, and not a report.
ForEngine(job) == job.kind \in {"new", "continue", "sms"}

\* What a job is at each stage, whatever the rows are.
StageFits(job) ==
    /\ job.kind = "none" <=> job.pc = "idle"
    /\ job.kind = "none" => job = Idle
    /\ job.kind # "none" => job.id \in Ids
    /\ job.kind = "status" => job.id \in Calls /\ job.pc \in {"lookup", "end", "reply"}
    /\ job.pc = "end" => job.kind = "status"
    /\ job.pc = "exit" =>
         /\ job.exit \in {"queue", "hangup", "pstn", "workflow", "sms", "error"}
         /\ job.exit \notin {"sms", "error"} => job.run = "finished"
         /\ job.exit = "sms" => job.run \in {"finished", "error"}
         /\ job.exit = "error" => job.run = "error"
         /\ job.exit = "workflow" => job.transfers < MaxTransfers
    /\ job.pc = "transfer" => job.transfers < MaxTransfers
    /\ job.pc = "reply" => job.answer # "nothing"

\* The row a job has loaded, or is to create, is one of its call or thread.
HoldsItsRow(job, rows, number) ==
    /\ job.pc = "leg" => job.contact \in 1 .. number[job.id]
    /\ job.pc \in {"serve", "run", "exit", "transfer", "end"} =>
           job.leg \in DOMAIN rows /\ rows[job.leg].id = job.id

\* What holds however many requests of a thread are served at once.
JobsInv ==
    /\ LegsTypeOK
    /\ \A w \in Workers : StageFits(workers[w])
    /\ \A w \in Workers : HoldsItsRow(workers[w], legs, contacts)
    /\ \A w \in Workers : workers[w].kind = "status" => workers[w].id \in sent

\* The active legs of a call or thread among some rows.
Active(rows, id) == {l \in DOMAIN rows : rows[l].id = id /\ ~rows[l].ended}

\* A call or a thread has one request served at a time, and one report.
Alone == \A v, w \in Workers :
    /\ workers[v].kind # "none" /\ workers[w].kind # "none"
    /\ ForEngine(workers[v]) <=> ForEngine(workers[w])
    /\ workers[v].id = workers[w].id
    => v = w

\* A request of a call that is reported complete was crossed by the report.
CrossedKnown == \A w \in Workers :
    ForEngine(workers[w]) /\ workers[w].id \in sent => workers[w].id \in crossed

\* Who is about to create a leg finds none active; who serves one has the only
\* one there can be, and it is active unless the call was reported complete.
EngineFits(job, rows, reported) ==
    ForEngine(job) =>
        /\ job.pc \in {"contact", "leg", "transfer"} => Active(rows, job.id) = {}
        /\ job.pc \in {"serve", "run", "exit"} =>
             /\ Active(rows, job.id) \subseteq {job.leg}
             /\ job.id \notin reported => ~rows[job.leg].ended
        /\ job.pc = "exit" /\ job.run = "finished" /\ job.id \notin reported =>
             rows[job.leg].run = "finished"
        /\ job.pc = "reply" /\ job.answer \in {"over", "null"} => Active(rows, job.id) = {}
        /\ job.pc = "reply" /\ job.answer = "prompt" /\ job.id \notin reported =>
             \E l \in Active(rows, job.id) : rows[l].run \in Waiting

\* What a report has loaded is the leg there is, and none is left when it is
\* answered.
ReportFits(job, rows, mixed) ==
    job.kind = "status" /\ job.id \notin mixed =>
        /\ job.pc = "end" => Active(rows, job.id) = {job.leg} /\ job.run = rows[job.leg].run
        /\ job.pc = "reply" => Active(rows, job.id) = {}

\* What the vendor heard last of a call or thread that no request serves.
HeardFits(id, rows, said, reported) ==
    /\ said \in {"nothing", "over", "null"} => Active(rows, id) = {}
    /\ said = "prompt" /\ id \notin reported => \E l \in Active(rows, id) : rows[l].run \in Waiting

OneOf(S) == \A l, m \in S : l = m

\* A leg says nothing of its end before it has ended, and then how it did.
RowFits(row, mixed) ==
    /\ ~row.ended => row.disposition = "none" /\ ~row.routed
    /\ row.id \notin mixed =>
         /\ row.disposition \in {"queue", "hangup", "pstn", "workflow", "completed"} =>
                row.run = "finished"
         /\ row.disposition = "sms" => row.run \in {"finished", "error"}
         /\ row.disposition = "error" => row.run = "error"
         /\ row.disposition = "disconnect" => row.run # "finished"
         /\ row.routed => row.ended /\ row.disposition \in {"queue", "error"}

\* What holds as long as the requests of each contact come one at a time.
LegsInv ==
    /\ Alone
    /\ CrossedKnown
    /\ \A w \in Workers : EngineFits(workers[w], legs, sent)
    /\ \A w \in Workers : ReportFits(workers[w], legs, crossed)
    /\ \A id \in Ids : (\A w \in Workers : ForEngine(workers[w]) => workers[w].id # id)
                         => HeardFits(id, legs, heard[id], sent)
    /\ \A id \in Ids : OneOf(Active(legs, id))
    /\ \A l \in DOMAIN legs : RowFits(legs[l], crossed)
    /\ \A c \in notified \ crossed : Active(legs, c) = {}

-----------------------------------------------------------------------------
(* What a step of a worker does to the rows.                                *)

\* The rows as they were, but for the ones of id: no row goes, or goes to
\* another call or thread.
OnlyRowsOf(id, rows, new) ==
    /\ new \in Seq(Leg)
    /\ DOMAIN rows \subseteq DOMAIN new
    /\ Len(rows) <= Len(new)
    /\ \A l \in DOMAIN rows : /\ new[l].id = rows[l].id /\ new[l].contact = rows[l].contact
                              /\ rows[l].id # id => new[l] = rows[l]
    /\ \A l \in DOMAIN new \ DOMAIN rows : new[l].id = id

LEMMA SameRows ==
    ASSUME NEW rows \in Seq(Leg), NEW id
    PROVE  OnlyRowsOf(id, rows, rows)
BY DEF OnlyRowsOf

LEMMA RowWritten ==
    ASSUME NEW rows \in Seq(Leg), NEW k \in DOMAIN rows, NEW row \in Leg,
           row.id = rows[k].id, row.contact = rows[k].contact
    PROVE  LET new == [rows EXCEPT ![k] = row]
           IN  /\ OnlyRowsOf(row.id, rows, new)
               /\ DOMAIN new = DOMAIN rows /\ Len(new) = Len(rows)
               /\ new[k] = row /\ \A l \in DOMAIN rows : l # k => new[l] = rows[l]
<1> DEFINE new == [rows EXCEPT ![k] = row]
<1>1. DOMAIN rows = 1 .. Len(rows) /\ Len(rows) \in Nat /\ \A l \in DOMAIN rows : rows[l] \in Leg
  OBVIOUS
<1>2. new \in [1 .. Len(rows) -> Leg]
  BY <1>1
<1>3. new \in Seq(Leg) /\ Len(new) = Len(rows)
  BY <1>1, <1>2, SeqDef
<1>4. DOMAIN new = DOMAIN rows /\ new[k] = row /\ \A l \in DOMAIN rows : l # k => new[l] = rows[l]
  OBVIOUS
<1> HIDE DEF new
<1>5. OnlyRowsOf(row.id, rows, new)
  BY <1>1, <1>3, <1>4 DEF OnlyRowsOf
<1> QED BY <1>3, <1>4, <1>5 DEF new

LEMMA RowAdded ==
    ASSUME NEW rows \in Seq(Leg), NEW row \in Leg
    PROVE  LET new == Append(rows, row)
           IN  /\ OnlyRowsOf(row.id, rows, new)
               /\ DOMAIN new = DOMAIN rows \cup {Len(rows) + 1} /\ Len(new) = Len(rows) + 1
               /\ Len(rows) + 1 \notin DOMAIN rows
               /\ new[Len(rows) + 1] = row /\ \A l \in DOMAIN rows : new[l] = rows[l]
<1> DEFINE new == Append(rows, row)
<1>1. /\ new \in Seq(Leg) /\ Len(new) = Len(rows) + 1
      /\ \A i \in 1 .. Len(rows) : new[i] = rows[i]
      /\ new[Len(rows) + 1] = row
  BY AppendProperties
<1> HIDE DEF new
<1>2. DOMAIN rows = 1 .. Len(rows) /\ Len(rows) \in Nat /\ DOMAIN new = 1 .. Len(new)
  BY <1>1
<1>3. DOMAIN new = DOMAIN rows \cup {Len(rows) + 1} /\ Len(rows) + 1 \notin DOMAIN rows
  BY <1>1, <1>2
<1>4. OnlyRowsOf(row.id, rows, new) 
  BY <1>1, <1>2, <1>3 DEF OnlyRowsOf
<1> QED BY <1>1, <1>2, <1>3, <1>4 DEF new

\* A step of worker w of which its job comes out as given, with the request it
\* serves.
Becomes(w, job) ==
    /\ job \in Worker /\ workers' = [workers EXCEPT ![w] = job]
    /\ job.kind = workers[w].kind /\ job.id = workers[w].id
    /\ StageFits(job) /\ HoldsItsRow(job, legs', contacts')
    /\ job.leg \in 0 .. Len(legs')
    /\ OnlyRowsOf(workers[w].id, legs, legs')
    /\ \A l \in DOMAIN legs' \ DOMAIN legs : legs'[l].contact \in 1 .. contacts[legs'[l].id]
    /\ contacts' \in [Ids -> Nat] /\ \A id \in Ids : contacts[id] <= contacts'[id]
    /\ UNCHANGED outside

\* What a step can rely on.
LEMMA JobNow ==
    ASSUME JobsInv, NEW w \in Workers
    PROVE  /\ workers \in [Workers -> Worker] /\ workers[w] \in Worker
           /\ StageFits(workers[w]) /\ HoldsItsRow(workers[w], legs, contacts)
           /\ workers[w].leg \in 0 .. Len(legs)
           /\ legs \in Seq(Leg) /\ \A l \in DOMAIN legs : legs[l] \in Leg
           /\ contacts \in [Ids -> Nat] /\ heard \in [Ids -> Answers]
           /\ OnlyRowsOf(workers[w].id, legs, legs)
           /\ workers[w].pc # "idle" => workers[w].id \in Ids
BY SameRows DEF JobsInv, LegsTypeOK, StageFits

LEMMA BecomesTyped ==
    ASSUME JobsInv, NEW w \in Workers, NEW job, Becomes(w, job)
    PROVE  JobsInv'
<1>1. workers' \in [Workers -> Worker] /\ workers'[w] = job
      /\ \A v \in Workers : v # w => workers'[v] = workers[v]
  BY JobNow DEF Becomes
<1>2. heard' = heard /\ sent' = sent /\ notified' = notified /\ over' = over /\ crossed' = crossed
  BY DEF Becomes, outside
<1>3. \A l \in DOMAIN legs' : legs'[l].contact \in 1 .. contacts'[legs'[l].id]
  <2> SUFFICES ASSUME NEW l \in DOMAIN legs' PROVE legs'[l].contact \in 1 .. contacts'[legs'[l].id]
    OBVIOUS
  <2>1. legs'[l] \in Leg BY DEF Becomes, OnlyRowsOf
  <2>2. legs'[l].contact \in 1 .. contacts[legs'[l].id]
    BY DEF Becomes, OnlyRowsOf, JobsInv, LegsTypeOK
  <2>3. legs'[l].id \in Ids /\ legs'[l].contact \in Nat
    BY <2>1 DEF Leg
  <2>4. contacts[legs'[l].id] \in Nat /\ contacts'[legs'[l].id] \in Nat
        /\ contacts[legs'[l].id] <= contacts'[legs'[l].id]
    BY <2>3 DEF Becomes, JobsInv, LegsTypeOK
  <2> QED BY <2>2, <2>3, <2>4
<1>4. \A v \in Workers : workers'[v].leg \in 0 .. Len(legs')
  <2>1. Len(legs) <= Len(legs') /\ Len(legs) \in Nat /\ Len(legs') \in Nat
    BY DEF Becomes, OnlyRowsOf, JobsInv, LegsTypeOK
  <2>2. \A v \in Workers : workers[v].leg \in 0 .. Len(legs)
    BY DEF JobsInv, LegsTypeOK
  <2> QED BY <1>1, <2>1, <2>2 DEF Becomes
<1>5. LegsTypeOK'
  BY <1>1, <1>2, <1>3, <1>4 DEF JobsInv, LegsTypeOK, Becomes, OnlyRowsOf
<1>6. \A v \in Workers : StageFits(workers'[v])
  BY <1>1 DEF Becomes, JobsInv
<1>7. \A v \in Workers : HoldsItsRow(workers'[v], legs', contacts')
  <2> SUFFICES ASSUME NEW v \in Workers, v # w PROVE HoldsItsRow(workers[v], legs', contacts')
    BY <1>1 DEF Becomes
  <2>1. HoldsItsRow(workers[v], legs, contacts) /\ StageFits(workers[v]) /\ workers[v] \in Worker
    BY JobNow
  <2>2. workers[v].pc = "leg" => contacts[workers[v].id] <= contacts'[workers[v].id]
         /\ contacts[workers[v].id] \in Nat /\ contacts'[workers[v].id] \in Nat /\ workers[v].contact \in Nat
    BY <2>1 DEF Becomes, StageFits, JobsInv, LegsTypeOK, Worker
  <2>3. workers[v].pc = "leg" => workers[v].contact \in 1 .. contacts'[workers[v].id]
    BY <2>1, <2>2 DEF HoldsItsRow
  <2>4. workers[v].pc \in {"serve", "run", "exit", "transfer", "end"} =>
           workers[v].leg \in DOMAIN legs' /\ legs'[workers[v].leg].id = workers[v].id
    BY <2>1 DEF HoldsItsRow, Becomes, OnlyRowsOf
  <2> QED BY <2>3, <2>4 DEF HoldsItsRow
<1>8. \A v \in Workers : workers'[v].kind = "status" => workers'[v].id \in sent'
  BY <1>1, <1>2 DEF JobsInv, Becomes
<1> QED BY <1>5, <1>6, <1>7, <1>8 DEF JobsInv

-----------------------------------------------------------------------------
(* The actions of a worker, one by one.                                     *)

\* A step that writes no row.
LEMMA JustGoes ==
    ASSUME JobsInv, NEW w \in Workers, NEW job \in Worker, Goes(w, job),
           job.kind = workers[w].kind, job.id = workers[w].id, job.leg \in 0 .. Len(legs),
           StageFits(job), HoldsItsRow(job, legs, contacts),
           UNCHANGED <<contacts, legs, outside>>
    PROVE  Becomes(w, job)
<1>1. \A id \in Ids : contacts[id] <= contacts[id]
  BY JobNow
<1> QED BY <1>1, JobNow DEF Becomes, Goes

LEMMA LookUpDoes ==
    ASSUME JobsInv, NEW w \in Workers, LookUp(w)
    PROVE  \E l \in ActiveLegs(workers[w].id) :
              /\ workers[w].pc = "lookup"
              /\ Becomes(w, [workers[w] EXCEPT
                    !.pc = IF workers[w].kind = "status" THEN "end" ELSE "serve",
                    !.leg = l, !.run = legs[l].run])
              /\ UNCHANGED legs
<1>1. PICK l \in ActiveLegs(workers[w].id) :
         Goes(w, [workers[w] EXCEPT !.pc = IF workers[w].kind = "status" THEN "end" ELSE "serve",
                                    !.leg = l, !.run = legs[l].run])
  BY DEF LookUp
<1> DEFINE job == [workers[w] EXCEPT !.pc = IF workers[w].kind = "status" THEN "end" ELSE "serve",
                                     !.leg = l, !.run = legs[l].run]
<1>2. l \in DOMAIN legs /\ legs[l].id = workers[w].id /\ legs[l].run \in RunStates /\ l \in 1 .. Len(legs)
  BY JobNow DEF ActiveLegs, Leg
<1>3. workers[w].pc = "lookup" /\ UNCHANGED <<contacts, legs, outside>>
  BY DEF LookUp
<1>4. job \in Worker
  <2>1. workers[w] \in Worker /\ l \in Nat
    BY <1>2, JobNow
  <2> QED BY <1>2, <2>1 DEF Worker
<1>5. /\ job.pc = IF workers[w].kind = "status" THEN "end" ELSE "serve"
      /\ job.kind = workers[w].kind /\ job.id = workers[w].id /\ job.leg = l
  BY JobNow DEF Worker
<1>6. StageFits(job)
  BY <1>3, <1>5, JobNow DEF StageFits
<1>7. HoldsItsRow(job, legs, contacts)
  BY <1>2, <1>5 DEF HoldsItsRow
<1>8. Becomes(w, job)
  <2> HIDE DEF job
  <2>1. job.leg \in 0 .. Len(legs)
    BY <1>2, <1>5
  <2> QED BY <1>1, <1>3, <1>4, <1>5, <1>6, <1>7, <2>1, JustGoes DEF job
<1> QED BY <1>3, <1>8

LEMMA AnswerDoes ==
    ASSUME JobsInv, NEW w \in Workers, workers[w].kind # "none", NEW a \in Answers \ {"nothing"},
           AnswerWith(w, a), UNCHANGED <<contacts, legs, outside>>
    PROVE  Becomes(w, [workers[w] EXCEPT !.pc = "reply", !.answer = a])
<1> DEFINE job == [workers[w] EXCEPT !.pc = "reply", !.answer = a]
<1>1. job \in Worker
  BY JobNow DEF Worker, Answers
<1>2. /\ job.pc = "reply" /\ job.answer = a
      /\ job.kind = workers[w].kind /\ job.id = workers[w].id /\ job.leg = workers[w].leg
  BY JobNow DEF Worker
<1>3. StageFits(job) /\ HoldsItsRow(job, legs, contacts)
  BY <1>2, JobNow DEF StageFits, HoldsItsRow
<1> QED BY <1>1, <1>2, <1>3, JobNow, JustGoes DEF AnswerWith

LEMMA NotFoundDoes ==
    ASSUME JobsInv, NEW w \in Workers, NotFound(w)
    PROVE  /\ workers[w].pc = "lookup" /\ ActiveLegs(workers[w].id) = {} /\ UNCHANGED legs
           /\ \/ workers[w].kind = "sms" /\ Becomes(w, [workers[w] EXCEPT !.pc = "contact"])
              \/ /\ workers[w].kind = "continue"
                 /\ Becomes(w, [workers[w] EXCEPT !.pc = "reply", !.answer = "error"])
              \/ /\ workers[w].kind = "status"
                 /\ Becomes(w, [workers[w] EXCEPT !.pc = "reply", !.answer = "over"])
<1>1. workers[w].pc = "lookup" /\ ActiveLegs(workers[w].id) = {} /\ UNCHANGED <<contacts, legs, outside>>
  BY DEF NotFound
<1>2. workers[w].kind # "none"
  BY <1>1, JobNow DEF StageFits
<1>3. CASE workers[w].kind = "sms" /\ Goes(w, [workers[w] EXCEPT !.pc = "contact"])
  <2> DEFINE job == [workers[w] EXCEPT !.pc = "contact"]
  <2>1. job \in Worker
    BY JobNow DEF Worker
  <2>2. /\ job.pc = "contact" /\ job.kind = workers[w].kind /\ job.id = workers[w].id
        /\ job.leg = workers[w].leg
    BY JobNow DEF Worker
  <2>3. StageFits(job) /\ HoldsItsRow(job, legs, contacts)
    BY <1>3, <2>2, JobNow DEF StageFits, HoldsItsRow
  <2> QED BY <1>1, <1>3, <2>1, <2>2, <2>3, JobNow, JustGoes
<1>4. CASE workers[w].kind = "continue" /\ AnswerWith(w, "error")
  BY <1>1, <1>2, <1>4, AnswerDoes DEF Answers
<1>5. CASE workers[w].kind = "status" /\ AnswerWith(w, "over")
  BY <1>1, <1>2, <1>5, AnswerDoes DEF Answers
<1> QED BY <1>1, <1>3, <1>4, <1>5 DEF NotFound

LEMMA TurnAwayDoes ==
    ASSUME JobsInv, NEW w \in Workers, TurnAway(w)
    PROVE  /\ workers[w].pc = "contact" /\ UNCHANGED legs
           /\ \E a \in {"over", "error"} : Becomes(w, [workers[w] EXCEPT !.pc = "reply", !.answer = a])
<1>1. workers[w].pc = "contact" /\ UNCHANGED <<contacts, legs, outside>>
  BY DEF TurnAway
<1>2. workers[w].kind # "none"
  BY <1>1, JobNow DEF StageFits
<1>3. PICK a \in {"over", "error"} : AnswerWith(w, a)
  BY DEF TurnAway
<1>4. Becomes(w, [workers[w] EXCEPT !.pc = "reply", !.answer = a])
  BY <1>1, <1>2, <1>3, AnswerDoes DEF Answers
<1> QED BY <1>1, <1>3, <1>4

LEMMA LegRaisesDoes ==
    ASSUME JobsInv, NEW w \in Workers, LegRaises(w)
    PROVE  /\ workers[w].pc = "leg" /\ UNCHANGED legs
           /\ Becomes(w, [workers[w] EXCEPT !.pc = "reply", !.answer = "error"])
<1>1. workers[w].pc = "leg" /\ UNCHANGED <<contacts, legs, outside>> /\ AnswerWith(w, "error")
  BY DEF LegRaises
<1>2. workers[w].kind # "none"
  BY <1>1, JobNow DEF StageFits
<1> QED BY <1>1, <1>2, AnswerDoes DEF Answers

LEMMA RejectRunDoes ==
    ASSUME JobsInv, NEW w \in Workers, RejectRun(w)
    PROVE  /\ workers[w].pc = "serve" /\ UNCHANGED legs
           /\ Becomes(w, [workers[w] EXCEPT !.pc = "reply", !.answer = "error"])
<1>1. workers[w].pc = "serve" /\ UNCHANGED <<contacts, legs, outside>> /\ AnswerWith(w, "error")
  BY DEF RejectRun
<1>2. workers[w].kind # "none"
  BY <1>1, JobNow DEF StageFits
<1> QED BY <1>1, <1>2, AnswerDoes DEF Answers

LEMMA CreateContactDoes ==
    ASSUME JobsInv, NEW w \in Workers, CreateContact(w)
    PROVE  /\ workers[w].pc = "contact" /\ UNCHANGED legs
           /\ Becomes(w, [workers[w] EXCEPT !.pc = "leg", !.contact = contacts[workers[w].id] + 1])
<1> DEFINE job == [workers[w] EXCEPT !.pc = "leg", !.contact = contacts[workers[w].id] + 1]
<1>1. /\ workers[w].pc = "contact" /\ UNCHANGED <<legs, outside>> /\ Goes(w, job)
      /\ contacts' = [contacts EXCEPT ![workers[w].id] = @ + 1]
  BY DEF CreateContact
<1>2. workers[w].kind # "none" /\ workers[w].id \in Ids
  BY <1>1, JobNow DEF StageFits
<1>3. contacts[workers[w].id] \in Nat /\ contacts' \in [Ids -> Nat]
      /\ contacts'[workers[w].id] = contacts[workers[w].id] + 1
      /\ \A id \in Ids : contacts[id] <= contacts'[id]
  BY <1>1, <1>2, JobNow
<1>4. job \in Worker
  <2>1. workers[w] \in Worker
    BY JobNow
  <2>2. \A n \in Nat : [workers[w] EXCEPT !.pc = "leg", !.contact = n] \in Worker
    BY <2>1 DEF Worker
  <2>3. contacts[workers[w].id] + 1 \in Nat
    BY <1>3
  <2> QED BY <2>2, <2>3
<1>5. /\ job.pc = "leg" /\ job.kind = workers[w].kind /\ job.id = workers[w].id
      /\ job.leg = workers[w].leg /\ job.contact = contacts[workers[w].id] + 1
  BY JobNow DEF Worker
<1>6. StageFits(job)
  BY <1>1, <1>5, JobNow DEF StageFits
<1>7. HoldsItsRow(job, legs', contacts')
  BY <1>3, <1>5 DEF HoldsItsRow
<1>8. OnlyRowsOf(workers[w].id, legs, legs') /\ legs' = legs /\ workers[w].leg \in 0 .. Len(legs)
  BY <1>1, JobNow
<1> HIDE DEF job
<1>9. Becomes(w, job)
  BY <1>1, <1>3, <1>4, <1>5, <1>6, <1>7, <1>8 DEF Becomes, Goes
<1> QED BY <1>1, <1>9 DEF job

LEMMA NewLegIsLeg ==
    ASSUME NEW id \in Ids, NEW contact \in Nat \ {0}
    PROVE  /\ NewLeg(id, contact) \in Leg
           /\ NewLeg(id, contact).id = id /\ NewLeg(id, contact).contact = contact
           /\ ~NewLeg(id, contact).ended /\ ~NewLeg(id, contact).routed
           /\ NewLeg(id, contact).disposition = "none"
BY DEF NewLeg, Leg, Dispositions, RunStates

\* A step that adds a leg to be served.
LEMMA JustAdds ==
    ASSUME JobsInv, NEW w \in Workers, workers[w].pc \in {"leg", "transfer"},
           NEW contact \in 1 .. contacts[workers[w].id],
           legs' = Append(legs, NewLeg(workers[w].id, contact)),
           NEW job \in Worker, Goes(w, job), job.pc = "serve", job.leg = Len(legs) + 1,
           job.kind = workers[w].kind, job.id = workers[w].id,
           UNCHANGED <<contacts, outside>>
    PROVE  Becomes(w, job)
<1>1. workers[w].id \in Ids /\ workers[w].kind \notin {"none", "status"}
  BY JobNow DEF StageFits
<1>2. contact \in Nat \ {0} /\ contacts[workers[w].id] \in Nat
  BY <1>1, JobNow
<1> DEFINE row == NewLeg(workers[w].id, contact)
<1>3. row \in Leg /\ row.id = workers[w].id /\ row.contact = contact
  BY <1>1, <1>2, NewLegIsLeg
<1> HIDE DEF row
<1>4. legs' = Append(legs, row) /\ legs \in Seq(Leg)
  BY JobNow DEF row
<1>5. /\ OnlyRowsOf(row.id, legs, legs')
      /\ DOMAIN legs' = DOMAIN legs \cup {Len(legs) + 1} /\ Len(legs') = Len(legs) + 1
      /\ Len(legs) + 1 \notin DOMAIN legs /\ legs'[Len(legs) + 1] = row
  BY <1>3, <1>4, RowAdded
<1>6. StageFits(job)
  BY <1>1, JobNow DEF StageFits
<1>7. HoldsItsRow(job, legs', contacts')
  BY <1>3, <1>5 DEF HoldsItsRow
<1>8. job.leg \in 0 .. Len(legs')
  BY <1>4, <1>5
<1>9. /\ \A l \in DOMAIN legs' \ DOMAIN legs : legs'[l].contact \in 1 .. contacts[legs'[l].id]
      /\ contacts' \in [Ids -> Nat] /\ \A id \in Ids : contacts[id] <= contacts'[id]
  BY <1>3, <1>5, JobNow
<1> QED BY <1>3, <1>5, <1>6, <1>7, <1>8, <1>9 DEF Becomes, Goes

LEMMA CreateLegDoes ==
    ASSUME JobsInv, NEW w \in Workers, CreateLeg(w)
    PROVE  /\ workers[w].pc = "leg"
           /\ workers[w].contact \in Nat \ {0}
           /\ legs' = Append(legs, NewLeg(workers[w].id, workers[w].contact))
           /\ Becomes(w, [workers[w] EXCEPT !.pc = "serve", !.leg = Len(legs) + 1])
<1> DEFINE job == [workers[w] EXCEPT !.pc = "serve", !.leg = Len(legs) + 1]
<1>1. /\ workers[w].pc = "leg" /\ Goes(w, job) /\ UNCHANGED <<contacts, outside>>
      /\ legs' = Append(legs, NewLeg(workers[w].id, workers[w].contact))
  BY DEF CreateLeg
<1>2. workers[w] \in Worker /\ Len(legs) + 1 \in Nat
  BY JobNow
<1>3. \A n \in Nat : [workers[w] EXCEPT !.pc = "serve", !.leg = n] \in Worker
  BY <1>2 DEF Worker
<1>4. /\ job.pc = "serve" /\ job.kind = workers[w].kind /\ job.id = workers[w].id
      /\ job.leg = Len(legs) + 1
  BY <1>2 DEF Worker
<1>5. workers[w].contact \in 1 .. contacts[workers[w].id] /\ contacts[workers[w].id] \in Nat
  BY <1>1, JobNow DEF HoldsItsRow
<1>6. job \in Worker
  BY <1>2, <1>3
<1> HIDE DEF job
<1>7. Becomes(w, job)
  BY <1>1, <1>4, <1>5, <1>6, JustAdds
<1> QED BY <1>1, <1>5, <1>7 DEF job

LEMMA TransferDoes ==
    ASSUME JobsInv, NEW w \in Workers, Transfer(w)
    PROVE  /\ workers[w].pc = "transfer"
           /\ \E contact \in Nat \ {0} : legs' = Append(legs, NewLeg(workers[w].id, contact))
           /\ Becomes(w, [workers[w] EXCEPT !.pc = "serve", !.leg = Len(legs) + 1,
                              !.run = "initialized", !.exit = "none", !.transfers = @ + 1,
                              !.answer = "nothing"])
<1> DEFINE job == [workers[w] EXCEPT !.pc = "serve", !.leg = Len(legs) + 1, !.run = "initialized",
                                     !.exit = "none", !.transfers = @ + 1, !.answer = "nothing"]
<1>1. /\ workers[w].pc = "transfer" /\ Goes(w, job) /\ UNCHANGED <<contacts, outside>>
      /\ legs' = Append(legs, NewLeg(workers[w].id, legs[workers[w].leg].contact))
  BY DEF Transfer
<1>2. workers[w] \in Worker /\ Len(legs) + 1 \in Nat
  BY JobNow
<1>3. workers[w].transfers + 1 \in 0 .. MaxTransfers
  BY <1>1, <1>2, JobNow, LegBoundsAssumption DEF StageFits, Worker
<1>4. \A n \in Nat, t \in 0 .. MaxTransfers :
        [workers[w] EXCEPT !.pc = "serve", !.leg = n, !.run = "initialized",
                           !.exit = "none", !.transfers = t, !.answer = "nothing"] \in Worker
  BY <1>2 DEF Worker, RunStates, Dispositions, Answers
<1>5. /\ job.pc = "serve" /\ job.kind = workers[w].kind /\ job.id = workers[w].id
      /\ job.leg = Len(legs) + 1
  BY <1>2 DEF Worker
<1>6. /\ legs[workers[w].leg].contact \in 1 .. contacts[workers[w].id]
      /\ contacts[workers[w].id] \in Nat
  BY <1>1, JobNow DEF HoldsItsRow, JobsInv, LegsTypeOK
<1>7. job \in Worker
  BY <1>2, <1>3, <1>4
<1> HIDE DEF job
<1>8. Becomes(w, job)
  BY <1>1, <1>5, <1>6, <1>7, JustAdds
<1>9. legs[workers[w].leg].contact \in Nat \ {0}
  BY <1>6
<1> QED BY <1>1, <1>8, <1>9 DEF job

\* A step that writes the row it has loaded.
LEMMA JustWrites ==
    ASSUME JobsInv, NEW w \in Workers, workers[w].pc \in {"serve", "run", "exit", "end"},
           NEW row \in Leg, legs' = [legs EXCEPT ![workers[w].leg] = row],
           row.id = workers[w].id, row.contact = legs[workers[w].leg].contact,
           NEW job \in Worker, Goes(w, job), job.pc \in {"run", "exit", "transfer", "reply"},
           job.kind = workers[w].kind, job.id = workers[w].id, job.leg = workers[w].leg,
           StageFits(job),
           UNCHANGED <<contacts, outside>>
    PROVE  Becomes(w, job)
<1>1. workers[w].leg \in DOMAIN legs /\ legs[workers[w].leg].id = workers[w].id /\ legs \in Seq(Leg)
  BY JobNow DEF HoldsItsRow
<1>2. /\ OnlyRowsOf(row.id, legs, legs')
      /\ DOMAIN legs' = DOMAIN legs /\ Len(legs') = Len(legs)
      /\ legs'[workers[w].leg] = row
  <2> DEFINE k == workers[w].leg
             new == [legs EXCEPT ![k] = row]
  <2>1. k \in DOMAIN legs /\ legs \in Seq(Leg) /\ row \in Leg
        /\ row.id = legs[k].id /\ row.contact = legs[k].contact /\ legs' = new
    BY <1>1
  <2>2. /\ OnlyRowsOf(row.id, legs, new)
        /\ DOMAIN new = DOMAIN legs /\ Len(new) = Len(legs)
        /\ new[k] = row
    <3> HIDE DEF k
    <3> QED BY <2>1, RowWritten
  <2> QED BY <2>1, <2>2
<1>3. HoldsItsRow(job, legs', contacts')
  BY <1>1, <1>2 DEF HoldsItsRow
<1>4. \A id \in Ids : contacts[id] <= contacts[id]
  BY JobNow
<1> QED BY <1>2, <1>3, <1>4, JobNow DEF Becomes, Goes

\* The row as it is written with the state s of its run.
RunWritten(w, s) ==
    LET row == [legs[workers[w].leg] EXCEPT !.run = s]
    IN  row \in Leg /\ row.run = s /\ legs' = [legs EXCEPT ![workers[w].leg] = row]
        /\ row.id = workers[w].id /\ row.contact = legs[workers[w].leg].contact
        /\ row.ended = legs[workers[w].leg].ended
        /\ row.disposition = legs[workers[w].leg].disposition
        /\ row.routed = legs[workers[w].leg].routed

LEMMA WritesDoes ==
    ASSUME JobsInv, NEW w \in Workers, workers[w].pc \in {"serve", "run"},
           NEW s \in RunStates, Writes(w, s)
    PROVE  RunWritten(w, s)
<1>1. workers[w].leg \in DOMAIN legs /\ legs[workers[w].leg].id = workers[w].id
      /\ legs[workers[w].leg] \in Leg
  BY JobNow DEF HoldsItsRow
<1> DEFINE row == [legs[workers[w].leg] EXCEPT !.run = s]
<1>2. /\ row \in Leg /\ row.run = s /\ row.id = workers[w].id
      /\ row.contact = legs[workers[w].leg].contact
      /\ row.ended = legs[workers[w].leg].ended
      /\ row.disposition = legs[workers[w].leg].disposition
      /\ row.routed = legs[workers[w].leg].routed
  BY <1>1 DEF Leg
<1>3. legs' = [legs EXCEPT ![workers[w].leg] = row]
  BY <1>1 DEF Writes
<1> QED BY <1>2, <1>3 DEF RunWritten

LEMMA BeginDoes ==
    ASSUME JobsInv, NEW w \in Workers, Begin(w)
    PROVE  /\ workers[w].pc = "serve"
           /\ \E s \in RunStates : /\ RunWritten(w, s)
                                   /\ Becomes(w, [workers[w] EXCEPT !.pc = "run", !.run = s])
<1>1. PICK s \in RunStates : Writes(w, s) /\ Goes(w, [workers[w] EXCEPT !.pc = "run", !.run = s])
  BY DEF Begin, RunStates
<1>2. workers[w].pc = "serve" /\ UNCHANGED <<contacts, outside>>
  BY DEF Begin
<1>3. RunWritten(w, s)
  BY <1>1, <1>2, WritesDoes
<1> DEFINE job == [workers[w] EXCEPT !.pc = "run", !.run = s]
<1>4. workers[w] \in Worker
  BY JobNow
<1>5. /\ job \in Worker /\ job.pc = "run" /\ job.kind = workers[w].kind
      /\ job.id = workers[w].id /\ job.leg = workers[w].leg
  BY <1>4 DEF Worker
<1>6. StageFits(job)
  BY <1>2, <1>5, JobNow DEF StageFits
<1> HIDE DEF job
<1>7. Becomes(w, job)
  BY <1>1, <1>2, <1>3, <1>5, <1>6, JustWrites DEF RunWritten, job
<1> QED BY <1>2, <1>3, <1>7 DEF job

LEMMA AskDoes ==
    ASSUME JobsInv, NEW w \in Workers, Ask(w)
    PROVE  /\ workers[w].pc = "run"
           /\ \E s \in Waiting :
                /\ RunWritten(w, s)
                /\ Becomes(w, [workers[w] EXCEPT !.pc = "reply", !.answer = "prompt", !.run = s])
<1>1. PICK s \in Waiting : /\ Writes(w, s)
                           /\ Goes(w, [workers[w] EXCEPT !.pc = "reply", !.answer = "prompt", !.run = s])
  BY DEF Ask
<1>2. workers[w].pc = "run" /\ UNCHANGED <<contacts, outside>> /\ s \in RunStates
  BY DEF Ask, Waiting, RunStates
<1>3. RunWritten(w, s)
  BY <1>1, <1>2, WritesDoes
<1> DEFINE job == [workers[w] EXCEPT !.pc = "reply", !.answer = "prompt", !.run = s]
<1>4. workers[w] \in Worker
  BY JobNow
<1>5. /\ job \in Worker /\ job.pc = "reply" /\ job.kind = workers[w].kind
      /\ job.id = workers[w].id /\ job.leg = workers[w].leg /\ job.answer = "prompt"
  BY <1>2, <1>4 DEF Worker, Answers
<1>6. StageFits(job)
  BY <1>2, <1>5, JobNow DEF StageFits
<1> HIDE DEF job
<1>7. Becomes(w, job)
  BY <1>1, <1>2, <1>3, <1>5, <1>6, JustWrites DEF RunWritten, job
<1> QED BY <1>2, <1>3, <1>7 DEF job

LEMMA LeaveDoes ==
    ASSUME JobsInv, NEW w \in Workers, Leave(w)
    PROVE  /\ workers[w].pc = "run"
           /\ RunWritten(w, "finished")
           /\ \E e \in {"queue", "hangup", "pstn", "workflow", "sms"} :
                Becomes(w, [workers[w] EXCEPT !.pc = "exit", !.exit = e, !.run = "finished"])
<1>1. PICK e \in {"queue", "hangup", "pstn", "workflow", "sms"} :
         /\ e = "workflow" => workers[w].transfers < MaxTransfers
         /\ Goes(w, [workers[w] EXCEPT !.pc = "exit", !.exit = e, !.run = "finished"])
  BY DEF Leave
<1>2. workers[w].pc = "run" /\ UNCHANGED <<contacts, outside>> /\ Writes(w, "finished")
  BY DEF Leave
<1>3. RunWritten(w, "finished")
  BY <1>2, WritesDoes DEF RunStates
<1> DEFINE job == [workers[w] EXCEPT !.pc = "exit", !.exit = e, !.run = "finished"]
<1>4. workers[w] \in Worker
  BY JobNow
<1>5. job \in Worker
  BY <1>4 DEF Worker, RunStates, Dispositions
<1>6. /\ job.pc = "exit" /\ job.kind = workers[w].kind /\ job.exit = e /\ job.run = "finished"
      /\ job.id = workers[w].id /\ job.leg = workers[w].leg /\ job.transfers = workers[w].transfers
  BY <1>4 DEF Worker
<1>7. StageFits(job)
  BY <1>1, <1>2, <1>6, JobNow DEF StageFits
<1> HIDE DEF job
<1>8. Becomes(w, job)
  BY <1>1, <1>2, <1>3, <1>5, <1>6, <1>7, JustWrites DEF RunWritten, job
<1> QED BY <1>2, <1>3, <1>8 DEF job

LEMMA GiveUpDoes ==
    ASSUME JobsInv, NEW w \in Workers, GiveUp(w)
    PROVE  /\ workers[w].pc = "run" /\ UNCHANGED legs
           /\ \E e \in {"error", "sms"} :
                Becomes(w, [workers[w] EXCEPT !.pc = "exit", !.run = "error", !.exit = e])
<1>1. PICK e \in {"error", "sms"} :
         Goes(w, [workers[w] EXCEPT !.pc = "exit", !.run = "error", !.exit = e])
  BY DEF GiveUp
<1>2. workers[w].pc = "run" /\ UNCHANGED <<contacts, legs, outside>>
  BY DEF GiveUp
<1> DEFINE job == [workers[w] EXCEPT !.pc = "exit", !.run = "error", !.exit = e]
<1>3. workers[w] \in Worker
  BY JobNow
<1>4. job \in Worker
  BY <1>3 DEF Worker, RunStates, Dispositions
<1>5. /\ job.pc = "exit" /\ job.kind = workers[w].kind /\ job.exit = e /\ job.run = "error"
      /\ job.id = workers[w].id /\ job.leg = workers[w].leg
  BY <1>3 DEF Worker
<1>6. StageFits(job)
  BY <1>1, <1>2, <1>5, JobNow DEF StageFits
<1>7. HoldsItsRow(job, legs, contacts)
  BY <1>2, <1>5, JobNow DEF HoldsItsRow
<1> HIDE DEF job
<1>8. Becomes(w, job)
  BY <1>1, <1>2, <1>4, <1>5, <1>6, <1>7, JobNow, JustGoes DEF job
<1> QED BY <1>2, <1>8 DEF job

\* A leg as it is ended, and one whose routing is written with it.
LEMMA EndedDoes ==
    ASSUME NEW row \in Leg, NEW d \in Dispositions, NEW run
    PROVE  LET new == Ended(row, d, run)
           IN  /\ new \in Leg /\ new.id = row.id /\ new.contact = row.contact /\ new.ended
               /\ new.disposition = d /\ new.routed = row.routed
               /\ new.run = IF run = "error" THEN run ELSE row.run
<1> DEFINE state == IF run = "error" THEN run ELSE row.run
<1>1. state \in RunStates
  BY DEF Leg, RunStates
<1>2. Ended(row, d, run) = [row EXCEPT !.ended = TRUE, !.disposition = d, !.run = state]
  BY DEF Ended
<1> HIDE DEF state
<1>3. LET new == [row EXCEPT !.ended = TRUE, !.disposition = d, !.run = state]
      IN  /\ new \in Leg /\ new.id = row.id /\ new.contact = row.contact /\ new.ended
          /\ new.disposition = d /\ new.routed = row.routed /\ new.run = state
  BY <1>1 DEF Leg
<1> QED BY <1>2, <1>3 DEF state

LEMMA EndedRowDoes ==
    ASSUME NEW row \in Leg, NEW d \in Dispositions, NEW run, NEW routed \in BOOLEAN
    PROVE  LET new == EndedRow(row, d, routed, run)
           IN  /\ new \in Leg /\ new.id = row.id /\ new.contact = row.contact /\ new.ended
               /\ new.disposition = d /\ new.routed = routed
               /\ new.run = IF run = "error" THEN run ELSE row.run
<1> DEFINE old == Ended(row, d, run)
<1>1. /\ old \in Leg /\ old.id = row.id /\ old.contact = row.contact /\ old.ended
      /\ old.disposition = d
      /\ old.run = IF run = "error" THEN run ELSE row.run
  BY EndedDoes
<1>2. EndedRow(row, d, routed, run) = [old EXCEPT !.routed = routed]
  BY DEF EndedRow
<1> HIDE DEF old
<1>3. LET new == [old EXCEPT !.routed = routed]
      IN  /\ new \in Leg /\ new.id = old.id /\ new.contact = old.contact /\ new.ended = old.ended
          /\ new.disposition = old.disposition /\ new.routed = routed /\ new.run = old.run
  BY <1>1 DEF Leg
<1> QED BY <1>1, <1>2, <1>3

LEMMA EndLegDoes ==
    ASSUME JobsInv, NEW w \in Workers, EndLeg(w)
    PROVE  /\ workers[w].pc = "exit"
           /\ \E routed \in BOOLEAN, row \in Leg :
                /\ legs' = [legs EXCEPT ![workers[w].leg] = row]
                /\ row.id = workers[w].id /\ row.contact = legs[workers[w].leg].contact
                /\ row.ended /\ row.disposition = workers[w].exit
                /\ row.run = IF workers[w].run = "error" THEN "error" ELSE legs[workers[w].leg].run
                /\ row.routed = routed
                /\ routed => workers[w].exit \in {"queue", "error"}
           /\ Becomes(w, [workers[w] EXCEPT
                 !.pc = IF workers[w].exit = "workflow" THEN "transfer" ELSE "reply",
                 !.answer = AnswerOnExit(workers[w].id, workers[w].exit)])
<1>1. PICK routed \in BOOLEAN :
         /\ routed => workers[w].exit \in {"queue", "error"}
         /\ legs' = [legs EXCEPT ![workers[w].leg] = EndedRow(@, workers[w].exit, routed, workers[w].run)]
  BY DEF EndLeg
<1> DEFINE job == [workers[w] EXCEPT
                      !.pc = IF workers[w].exit = "workflow" THEN "transfer" ELSE "reply",
                      !.answer = AnswerOnExit(workers[w].id, workers[w].exit)]
           row == EndedRow(legs[workers[w].leg], workers[w].exit, routed, workers[w].run)
<1>2. workers[w].pc = "exit" /\ UNCHANGED <<contacts, outside>> /\ Goes(w, job)
  BY DEF EndLeg
<1>3. workers[w] \in Worker /\ workers[w].exit \in Dispositions
  BY JobNow DEF Worker
<1>4. workers[w].leg \in DOMAIN legs /\ legs[workers[w].leg] \in Leg
      /\ legs[workers[w].leg].id = workers[w].id
  BY <1>2, JobNow DEF HoldsItsRow
<1>5. /\ row \in Leg /\ row.id = workers[w].id /\ row.contact = legs[workers[w].leg].contact
      /\ row.ended /\ row.disposition = workers[w].exit /\ row.routed = routed
      /\ row.run = IF workers[w].run = "error" THEN "error" ELSE legs[workers[w].leg].run
  BY <1>3, <1>4, EndedRowDoes
<1>6. legs' = [legs EXCEPT ![workers[w].leg] = row]
  BY <1>1, <1>4
<1>7. AnswerOnExit(workers[w].id, workers[w].exit) \in {"over", "null"}
  BY DEF AnswerOnExit
<1>8. /\ job \in Worker
      /\ job.pc = IF workers[w].exit = "workflow" THEN "transfer" ELSE "reply"
      /\ job.kind = workers[w].kind /\ job.id = workers[w].id /\ job.leg = workers[w].leg
      /\ job.transfers = workers[w].transfers /\ job.answer \in {"over", "null"}
  BY <1>3, <1>7 DEF Worker, Answers
<1> HIDE DEF job, row
<1>9. StageFits(job)
  BY <1>2, <1>8, JobNow DEF StageFits
<1>10. Becomes(w, job)
  BY <1>2, <1>5, <1>6, <1>8, <1>9, JustWrites
<1> QED BY <1>1, <1>2, <1>5, <1>6, <1>10 DEF job

LEMMA EndOnStatusDoes ==
    ASSUME JobsInv, NEW w \in Workers, EndOnStatus(w)
    PROVE  /\ workers[w].pc = "end"
           /\ \E row \in Leg :
                /\ legs' = [legs EXCEPT ![workers[w].leg] = row]
                /\ row.id = workers[w].id /\ row.contact = legs[workers[w].leg].contact
                /\ row.ended /\ row.routed = legs[workers[w].leg].routed
                /\ row.disposition = IF workers[w].run # "finished" THEN "disconnect" ELSE "completed"
                /\ row.run = IF workers[w].run = "error" THEN "error" ELSE legs[workers[w].leg].run
           /\ Becomes(w, [workers[w] EXCEPT !.pc = "reply", !.answer = "over"])
<1> DEFINE job == [workers[w] EXCEPT !.pc = "reply", !.answer = "over"]
           row == CompletedRow(legs[workers[w].leg], workers[w].run)
<1>1. /\ workers[w].pc = "end" /\ UNCHANGED <<contacts, outside>> /\ Goes(w, job)
      /\ legs' = [legs EXCEPT ![workers[w].leg] = CompletedRow(@, workers[w].run)]
  BY DEF EndOnStatus, AnswerWith
<1>2. workers[w] \in Worker
  BY JobNow
<1>3. workers[w].leg \in DOMAIN legs /\ legs[workers[w].leg] \in Leg
      /\ legs[workers[w].leg].id = workers[w].id
  BY <1>1, JobNow DEF HoldsItsRow
<1> DEFINE d == IF workers[w].run # "finished" THEN "disconnect" ELSE "completed"
<1>4. d \in Dispositions
  BY DEF Dispositions
<1>5. row = Ended(legs[workers[w].leg], d, workers[w].run)
  BY DEF CompletedRow
<1> HIDE DEF d, row
<1>6. /\ row \in Leg /\ row.id = workers[w].id /\ row.contact = legs[workers[w].leg].contact
      /\ row.ended /\ row.routed = legs[workers[w].leg].routed /\ row.disposition = d
      /\ row.run = IF workers[w].run = "error" THEN "error" ELSE legs[workers[w].leg].run
  BY <1>3, <1>4, <1>5, EndedDoes
<1>7. legs' = [legs EXCEPT ![workers[w].leg] = row]
  BY <1>1, <1>3 DEF row
<1>8. /\ job \in Worker /\ job.pc = "reply" /\ job.answer = "over"
      /\ job.kind = workers[w].kind /\ job.id = workers[w].id /\ job.leg = workers[w].leg
  BY <1>2 DEF Worker, Answers
<1> HIDE DEF job
<1>9. StageFits(job)
  BY <1>1, <1>8, JobNow DEF StageFits
<1>10. Becomes(w, job)
  BY <1>1, <1>6, <1>7, <1>8, <1>9, JustWrites
<1> QED BY <1>1, <1>6, <1>7, <1>10 DEF job, d

\* The end of a request, and the arrival of one: no row is written.
LEMMA IdleFits ==
    /\ Idle \in Worker /\ StageFits(Idle) /\ Idle.kind = "none" /\ Idle.pc = "idle"
    /\ \A rows, number : HoldsItsRow(Idle, rows, number)
<1>1. Idle \in Worker
  BY LegBoundsAssumption DEF Idle, Worker, RunStates, Dispositions, Answers
<1>2. Idle.kind = "none" /\ Idle.pc = "idle"
  BY DEF Idle
<1> QED BY <1>1, <1>2 DEF StageFits, HoldsItsRow

LEMMA JobGiven ==
    ASSUME JobsInv, NEW w \in Workers, NEW job \in Worker, workers' = [workers EXCEPT ![w] = job],
           StageFits(job), HoldsItsRow(job, legs, contacts), job.leg \in 0 .. Len(legs),
           UNCHANGED <<contacts, legs>>, sent \subseteq sent',
           job.kind = "status" => job.id \in sent',
           heard' \in [Ids -> Answers], notified' \subseteq sent', crossed' \subseteq sent',
           sent' \cup over' \subseteq Calls
    PROVE  JobsInv'
<1>1. workers' \in [Workers -> Worker] /\ workers'[w] = job
      /\ \A v \in Workers : v # w => workers'[v] = workers[v]
  BY JobNow
<1>2. LegsTypeOK'
  BY <1>1 DEF JobsInv, LegsTypeOK
<1>3. \A v \in Workers : StageFits(workers'[v])
  BY <1>1 DEF JobsInv
<1>4. \A v \in Workers : HoldsItsRow(workers'[v], legs', contacts')
  <2>1. \A v \in Workers : HoldsItsRow(workers'[v], legs, contacts)
    BY <1>1 DEF JobsInv
  <2> QED BY <2>1
<1>5. \A v \in Workers : workers'[v].kind = "status" => workers'[v].id \in sent'
  BY <1>1 DEF JobsInv
<1> QED BY <1>2, <1>3, <1>4, <1>5 DEF JobsInv

LEMMA ReplyTyped ==
    ASSUME JobsInv, NEW w \in Workers, Reply(w)
    PROVE  /\ workers[w].pc = "reply" /\ workers[w].kind # "none" /\ workers[w].id \in Ids
           /\ workers' = [workers EXCEPT ![w] = Idle]
           /\ UNCHANGED <<contacts, legs, sent, crossed>>
           /\ IF workers[w].kind = "status"
              THEN notified' = notified \cup {workers[w].id} /\ heard' = heard
              ELSE notified' = notified /\ heard' = [heard EXCEPT ![workers[w].id] = workers[w].answer]
           /\ JobsInv'
<1>1. /\ workers[w].pc = "reply" /\ workers' = [workers EXCEPT ![w] = Idle]
      /\ UNCHANGED <<contacts, legs, over, sent, crossed>>
      /\ IF workers[w].kind = "status"
         THEN notified' = notified \cup {workers[w].id} /\ heard' = heard
         ELSE notified' = notified /\ heard' = [heard EXCEPT ![workers[w].id] = workers[w].answer]
  BY DEF Reply, Goes
<1>2. workers[w].kind # "none" /\ workers[w].id \in Ids
  BY <1>1, JobNow DEF StageFits
<1>3. workers[w].answer \in Answers
  BY JobNow DEF Worker
<1>4. heard' \in [Ids -> Answers]
  BY <1>1, <1>3, JobNow
<1>5. notified' \subseteq sent' /\ crossed' \subseteq sent' /\ sent' \cup over' \subseteq Calls
  BY <1>1 DEF JobsInv, LegsTypeOK
<1>6. Idle.leg \in 0 .. Len(legs)
  BY JobNow DEF Idle
<1>7. JobsInv'
  BY <1>1, <1>4, <1>5, <1>6, IdleFits, JobGiven
<1> QED BY <1>1, <1>2, <1>7

LEMMA FailTyped ==
    ASSUME JobsInv, NEW w \in Workers, Fail(w)
    PROVE  /\ workers[w].kind # "none" /\ workers[w].id \in Ids
           /\ workers' = [workers EXCEPT ![w] = Idle]
           /\ UNCHANGED <<contacts, legs, sent, crossed, notified>>
           /\ heard' = IF workers[w].kind = "status" THEN heard
                       ELSE [heard EXCEPT ![workers[w].id] = "error"]
           /\ JobsInv'
<1>1. /\ workers[w] # Idle /\ workers' = [workers EXCEPT ![w] = Idle]
      /\ UNCHANGED <<contacts, legs, over, sent, crossed, notified>>
      /\ heard' = IF workers[w].kind = "status" THEN heard
                  ELSE [heard EXCEPT ![workers[w].id] = "error"]
  BY DEF Fail, Goes
<1>2. workers[w].kind # "none" /\ workers[w].id \in Ids
  BY <1>1, JobNow DEF StageFits
<1>3. heard' \in [Ids -> Answers]
  BY <1>1, JobNow DEF Answers
<1>4. notified' \subseteq sent' /\ crossed' \subseteq sent' /\ sent' \cup over' \subseteq Calls
  BY <1>1 DEF JobsInv, LegsTypeOK
<1>5. Idle.leg \in 0 .. Len(legs)
  BY JobNow DEF Idle
<1>6. JobsInv'
  BY <1>1, <1>3, <1>4, <1>5, IdleFits, JobGiven
<1> QED BY <1>1, <1>2, <1>6

\* The job of a request that has just come.
Asked(id, kind) ==
    [Idle EXCEPT !.pc = IF kind = "new" THEN "contact" ELSE "lookup", !.kind = kind, !.id = id]

LEMMA AskedFits ==
    ASSUME NEW id \in Ids, NEW kind \in {"new", "continue", "sms", "status"},
           kind = "status" => id \in Calls
    PROVE  /\ Asked(id, kind) \in Worker /\ StageFits(Asked(id, kind))
           /\ Asked(id, kind).kind = kind /\ Asked(id, kind).id = id /\ Asked(id, kind).leg = 0
           /\ Asked(id, kind).pc = IF kind = "new" THEN "contact" ELSE "lookup"
           /\ \A rows, number : HoldsItsRow(Asked(id, kind), rows, number)
<1> DEFINE job == Asked(id, kind)
<1>1. /\ job \in Worker /\ job.kind = kind /\ job.id = id /\ job.leg = 0
      /\ job.pc = IF kind = "new" THEN "contact" ELSE "lookup"
  <2> DEFINE stage == IF kind = "new" THEN "contact" ELSE "lookup"
             made == [Idle EXCEPT !.pc = stage, !.kind = kind, !.id = id]
  <2>1. Idle \in Worker /\ Idle.leg = 0 /\ stage \in {"contact", "lookup"}
    BY IdleFits DEF Idle
  <2>2. job = made
    BY DEF Asked
  <2> HIDE DEF stage
  <2>3. /\ made \in Worker /\ made.kind = kind /\ made.id = id /\ made.leg = Idle.leg
        /\ made.pc = stage
    BY <2>1 DEF Worker
  <2> HIDE DEF job, made
  <2> QED BY <2>1, <2>2, <2>3 DEF stage
<1> HIDE DEF job
<1>2. StageFits(job) /\ \A rows, number : HoldsItsRow(job, rows, number)
  BY <1>1 DEF StageFits, HoldsItsRow
<1> QED BY <1>1, <1>2 DEF job

LEMMA ArriveTyped ==
    ASSUME JobsInv, NEW w \in Workers, NEW id \in Ids, NEW kind \in {"new", "continue", "sms"},
           Arrive(w, id, kind)
    PROVE  /\ workers[w] = Idle /\ MayAsk(id, kind)
           /\ workers' = [workers EXCEPT ![w] = Asked(id, kind)]
           /\ UNCHANGED <<contacts, legs, heard, sent, crossed, notified>>
           /\ JobsInv'
<1>1. /\ workers[w] = Idle /\ MayAsk(id, kind)
      /\ workers' = [workers EXCEPT ![w] = Asked(id, kind)]
      /\ UNCHANGED <<contacts, legs, heard, over, sent, crossed, notified>>
  BY DEF Arrive, Asked
<1>2. /\ Asked(id, kind) \in Worker /\ StageFits(Asked(id, kind))
      /\ Asked(id, kind).kind = kind /\ Asked(id, kind).leg = 0
      /\ HoldsItsRow(Asked(id, kind), legs, contacts)
  BY AskedFits
<1>3. /\ notified' \subseteq sent' /\ crossed' \subseteq sent' /\ sent' \cup over' \subseteq Calls
      /\ heard' \in [Ids -> Answers] /\ 0 \in 0 .. Len(legs)
  BY <1>1 DEF JobsInv, LegsTypeOK
<1>4. JobsInv'
  BY <1>1, <1>2, <1>3, JobGiven
<1> QED BY <1>1, <1>4

LEMMA ReportTyped ==
    ASSUME JobsInv, NEW w \in Workers, NEW c \in Calls, Report(w, c)
    PROVE  /\ workers[w] = Idle /\ c \notin sent
           /\ workers' = [workers EXCEPT ![w] = Asked(c, "status")]
           /\ sent' = sent \cup {c}
           /\ crossed' = IF Served(c) = {} THEN crossed ELSE crossed \cup {c}
           /\ UNCHANGED <<contacts, legs, heard, notified>>
           /\ JobsInv'
<1>1. /\ workers[w] = Idle /\ c \notin sent
      /\ workers' = [workers EXCEPT ![w] = Asked(c, "status")]
      /\ sent' = sent \cup {c}
      /\ crossed' = IF Served(c) = {} THEN crossed ELSE crossed \cup {c}
      /\ UNCHANGED <<contacts, legs, heard, over, notified>>
  BY DEF Report, Asked
<1>2. /\ Asked(c, "status") \in Worker /\ StageFits(Asked(c, "status"))
      /\ Asked(c, "status").id = c /\ Asked(c, "status").leg = 0
      /\ HoldsItsRow(Asked(c, "status"), legs, contacts)
  BY AskedFits DEF Ids
<1>3. /\ notified' \subseteq sent' /\ crossed' \subseteq sent' /\ sent' \cup over' \subseteq Calls
      /\ heard' \in [Ids -> Answers] /\ 0 \in 0 .. Len(legs)
  BY <1>1 DEF JobsInv, LegsTypeOK
<1>4. JobsInv'
  BY <1>1, <1>2, <1>3, JobGiven
<1> QED BY <1>1, <1>4

\* Every step of a worker but the reply is one that its job comes out of.
LEMMA ServeTyped ==
    ASSUME JobsInv, NEW w \in Workers, Serve(w)
    PROVE  JobsInv'
<1>1. CASE Reply(w)
  BY <1>1, ReplyTyped
<1>2. CASE ~Reply(w)
  <2>1. LookUp(w) \/ NotFound(w) \/ TurnAway(w) \/ CreateContact(w) \/ LegRaises(w)
        => \E job : Becomes(w, job)
    BY LookUpDoes, NotFoundDoes, TurnAwayDoes, CreateContactDoes, LegRaisesDoes
  <2>2. Begin(w) \/ RejectRun(w) \/ Ask(w) \/ Leave(w) \/ GiveUp(w) => \E job : Becomes(w, job)
    BY BeginDoes, RejectRunDoes, AskDoes, LeaveDoes, GiveUpDoes
  <2>3. CreateLeg(w) \/ EndLeg(w) \/ Transfer(w) \/ EndOnStatus(w) => \E job : Becomes(w, job)
    BY CreateLegDoes, EndLegDoes, TransferDoes, EndOnStatusDoes
  <2>4. \E job : Becomes(w, job)
    BY <1>2, <2>1, <2>2, <2>3 DEF Serve
  <2> QED BY <2>4, BecomesTyped
<1> QED BY <1>1, <1>2

LEMMA HangUpTyped ==
    ASSUME JobsInv, NEW c \in Calls, HangUp(c)
    PROVE  JobsInv' /\ UNCHANGED <<contacts, legs, workers, heard, sent, notified, crossed>>
BY DEF HangUp, JobsInv, LegsTypeOK

\* The jobs and the rows keep to each other whatever the requests are.
THEOREM JobsInvHolds == Spec => []JobsInv
<1>1. Init => JobsInv
  <2> SUFFICES ASSUME Init PROVE JobsInv
    OBVIOUS
  <2>1. LegsTypeOK
    BY IdleFits DEF Init, LegsTypeOK, Answers, Idle
  <2> QED BY <2>1, IdleFits DEF Init, JobsInv
<1>2. JobsInv /\ [Next]_vars => JobsInv'
  <2> SUFFICES ASSUME JobsInv, [Next]_vars PROVE JobsInv'
    OBVIOUS
  <2>1. CASE UNCHANGED vars
    BY <2>1 DEF vars, outside, JobsInv, LegsTypeOK
  <2>2. CASE Next
    BY <2>2, ServeTyped, FailTyped, ArriveTyped, ReportTyped, HangUpTyped DEF Next
  <2> QED BY <2>1, <2>2
<1> QED BY <1>1, <1>2, PTL DEF Spec

\* The rows and the requests have the shape the model gives them: every leg is
\* of a contact that was created, and what a worker goes by is a row there is
\* (calls.py:24-76, sms.py:18-63).
THEOREM LegsTyped == Spec => []LegsTypeOK
<1>1. JobsInv => LegsTypeOK
  BY DEF JobsInv
<1> QED BY <1>1, JobsInvHolds, PTL

-----------------------------------------------------------------------------
(* The active legs of a call or thread.                                     *)

LEMMA ActiveApart ==
    ASSUME NEW id, NEW rows, NEW new, OnlyRowsOf(id, rows, new), NEW other, other # id
    PROVE  /\ Active(new, other) = Active(rows, other)
           /\ \A l \in DOMAIN rows : rows[l].id = other => new[l] = rows[l]
BY DEF OnlyRowsOf, Active

LEMMA ActiveWritten ==
    ASSUME NEW rows \in Seq(Leg), NEW k \in DOMAIN rows, NEW row \in Leg,
           row.id = rows[k].id, row.contact = rows[k].contact, row.ended = rows[k].ended
    PROVE  Active([rows EXCEPT ![k] = row], row.id) = Active(rows, row.id)
<1> DEFINE new == [rows EXCEPT ![k] = row]
<1>1. DOMAIN new = DOMAIN rows /\ new[k] = row /\ \A l \in DOMAIN rows : l # k => new[l] = rows[l]
  BY RowWritten
<1> HIDE DEF new
<1>2. Active(new, row.id) = Active(rows, row.id)
  BY <1>1 DEF Active
<1> QED BY <1>2 DEF new

LEMMA ActiveEnded ==
    ASSUME NEW rows \in Seq(Leg), NEW k \in DOMAIN rows, NEW row \in Leg,
           row.id = rows[k].id, row.contact = rows[k].contact, row.ended
    PROVE  Active([rows EXCEPT ![k] = row], row.id) = Active(rows, row.id) \ {k}
<1> DEFINE new == [rows EXCEPT ![k] = row]
<1>1. DOMAIN new = DOMAIN rows /\ new[k] = row /\ \A l \in DOMAIN rows : l # k => new[l] = rows[l]
  BY RowWritten
<1> HIDE DEF new
<1>2. ASSUME NEW l PROVE l \in Active(new, row.id) <=> l \in Active(rows, row.id) \ {k}
  <2>1. CASE l = k
    BY <1>1, <2>1 DEF Active
  <2>2. CASE l # k
    BY <1>1, <2>2 DEF Active
  <2> QED BY <2>1, <2>2
<1>3. Active(new, row.id) = Active(rows, row.id) \ {k}
  BY <1>2
<1> QED BY <1>3 DEF new

LEMMA ActiveAdded ==
    ASSUME NEW rows \in Seq(Leg), NEW row \in Leg, ~row.ended
    PROVE  Active(Append(rows, row), row.id) = Active(rows, row.id) \cup {Len(rows) + 1}
<1> DEFINE new == Append(rows, row)
<1>1. /\ DOMAIN new = DOMAIN rows \cup {Len(rows) + 1} /\ Len(rows) + 1 \notin DOMAIN rows
      /\ new[Len(rows) + 1] = row /\ \A l \in DOMAIN rows : new[l] = rows[l]
  BY RowAdded
<1> HIDE DEF new
<1>2. Active(new, row.id) = Active(rows, row.id) \cup {Len(rows) + 1}
  BY <1>1 DEF Active
<1> QED BY <1>2 DEF new

-----------------------------------------------------------------------------
(* A step keeps the invariant when it does for the call or thread it is of. *)

LEMMA OthersFit ==
    ASSUME JobsInv, LegsInv, NEW w \in Workers, workers[w].kind # "none",
           OnlyRowsOf(workers[w].id, legs, legs'),
           workers[w].kind = "status" =>
               Active(legs', workers[w].id) \subseteq Active(legs, workers[w].id),
           NEW v \in Workers, v # w
    PROVE  EngineFits(workers[v], legs', sent) /\ ReportFits(workers[v], legs', crossed)
<1>1. /\ EngineFits(workers[v], legs, sent) /\ ReportFits(workers[v], legs, crossed)
      /\ HoldsItsRow(workers[v], legs, contacts) /\ StageFits(workers[v])
  BY DEF LegsInv, JobsInv
<1>2. /\ workers[v].kind \in {"none", "new", "continue", "sms", "status"}
      /\ workers[w].kind \in {"none", "new", "continue", "sms", "status"}
  BY JobNow DEF Worker
<1>3. CASE workers[v].id # workers[w].id
  <2> DEFINE id == workers[v].id
             leg == workers[v].leg
  <2>1. Active(legs', id) = Active(legs, id)
        /\ \A l \in DOMAIN legs : legs[l].id = id => legs'[l] = legs[l]
    BY <1>3, ActiveApart
  <2>2. workers[v].pc \in {"serve", "run", "exit", "transfer", "end"} => legs'[leg] = legs[leg]
    BY <1>1, <2>1 DEF HoldsItsRow
  <2>3. \A l \in Active(legs, id) : legs'[l] = legs[l]
    BY <2>1 DEF Active
  <2>4. EngineFits(workers[v], legs', sent)
    BY <1>1, <2>1, <2>2, <2>3 DEF EngineFits
  <2>5. ReportFits(workers[v], legs', crossed)
    BY <1>1, <2>1, <2>2 DEF ReportFits
  <2> QED BY <2>4, <2>5
<1>4. CASE workers[v].id = workers[w].id /\ ForEngine(workers[v])
  <2>1. workers[w].kind = "status"
    BY <1>2, <1>4 DEF LegsInv, Alone, ForEngine
  <2>2. workers[v].id \in sent
    BY <1>4, <2>1 DEF JobsInv
  <2>3. Active(legs', workers[v].id) \subseteq Active(legs, workers[v].id)
    BY <1>4, <2>1
  <2>4. EngineFits(workers[v], legs', sent)
    BY <1>1, <2>2, <2>3 DEF EngineFits
  <2>5. ReportFits(workers[v], legs', crossed)
    BY <1>4 DEF ReportFits, ForEngine
  <2> QED BY <2>4, <2>5
<1>5. CASE workers[v].id = workers[w].id /\ ~ForEngine(workers[v])
  <2>1. EngineFits(workers[v], legs', sent)
    BY <1>5 DEF EngineFits
  <2>2. ReportFits(workers[v], legs', crossed)
    <3> SUFFICES ASSUME workers[v].kind = "status" PROVE workers[v].id \in crossed
      BY DEF ReportFits
    <3>1. ForEngine(workers[w])
      BY <1>2, <1>5 DEF LegsInv, Alone, ForEngine
    <3>2. workers[w].id \in sent
      BY <1>5 DEF JobsInv
    <3> QED BY <1>5, <3>1, <3>2 DEF LegsInv, CrossedKnown
  <2> QED BY <2>1, <2>2
<1> QED BY <1>3, <1>4, <1>5

LEMMA Elsewhere ==
    ASSUME NEW w, OnlyRowsOf(workers[w].id, legs, legs')
    PROVE  \A i : i # workers[w].id =>
              /\ Active(legs', i) = Active(legs, i)
              /\ \A l \in DOMAIN legs : legs[l].id = i => legs'[l] = legs[l]
BY ActiveApart

LEMMA LegsStep ==
    ASSUME JobsInv, LegsInv, NEW w \in Workers, workers[w].kind # "none",
           NEW job, workers' = [workers EXCEPT ![w] = job],
           job = Idle \/ (job.kind = workers[w].kind /\ job.id = workers[w].id),
           OnlyRowsOf(workers[w].id, legs, legs'), UNCHANGED <<sent, crossed>>,
           workers[w].kind = "status" =>
               /\ Active(legs', workers[w].id) \subseteq Active(legs, workers[w].id)
               /\ heard' = heard,
           EngineFits(job, legs', sent), ReportFits(job, legs', crossed),
           OneOf(Active(legs', workers[w].id)),
           \A l \in DOMAIN legs' : legs'[l].id = workers[w].id => RowFits(legs'[l], crossed),
           \A i \in Ids : i # workers[w].id => heard'[i] = heard[i],
           job = Idle /\ ForEngine(workers[w]) =>
               HeardFits(workers[w].id, legs', heard'[workers[w].id], sent),
           notified' \subseteq notified \cup {workers[w].id},
           workers[w].id \in notified' \ crossed => Active(legs', workers[w].id) = {}
    PROVE  LegsInv'
<1> DEFINE id == workers[w].id
<1>0. ASSUME NEW i, i # id
      PROVE  /\ Active(legs', i) = Active(legs, i)
             /\ \A l \in DOMAIN legs : legs[l].id = i => legs'[l] = legs[l]
  BY <1>0, Elsewhere
<1>1. workers'[w] = job /\ \A v \in Workers : v # w => workers'[v] = workers[v]
  BY JobNow
<1>2. sent' = sent /\ crossed' = crossed
  OBVIOUS
<1>3. Idle.kind = "none" /\ Idle.id = "none" /\ id \in Ids
  BY JobNow DEF Idle, StageFits
<1>4. Alone'
  BY <1>1, <1>3 DEF LegsInv, Alone, ForEngine
<1>5. CrossedKnown'
  BY <1>1, <1>2, <1>3 DEF LegsInv, CrossedKnown, ForEngine
<1>6. \A v \in Workers : EngineFits(workers'[v], legs', sent')
  BY <1>1, <1>2, OthersFit
<1>7. \A v \in Workers : ReportFits(workers'[v], legs', crossed')
  BY <1>1, <1>2, OthersFit
<1>8. ASSUME NEW i \in Ids, \A v \in Workers : ForEngine(workers'[v]) => workers'[v].id # i
      PROVE  HeardFits(i, legs', heard'[i], sent')
  <2>1. CASE i # id
    <3>1. \A v \in Workers : ForEngine(workers[v]) => workers[v].id # i
      BY <1>1, <1>8, <2>1
    <3>2. HeardFits(i, legs, heard[i], sent)
      BY <3>1 DEF LegsInv
    <3>3. Active(legs', i) = Active(legs, i)
          /\ \A l \in DOMAIN legs : legs[l].id = i => legs'[l] = legs[l]
      BY <1>0, <2>1
    <3>4. heard'[i] = heard[i]
      BY <2>1
    <3> QED BY <1>2, <3>2, <3>3, <3>4 DEF HeardFits, Active
  <2>2. CASE i = id /\ ForEngine(workers[w])
    <3>1. job = Idle
      BY <1>1, <1>8, <2>2 DEF ForEngine
    <3> QED BY <1>2, <2>2, <3>1
  <2>3. CASE i = id /\ ~ForEngine(workers[w])
    <3>1. workers[w].kind = "status" /\ id \in sent
      BY <2>3, JobNow DEF ForEngine, Worker, JobsInv
    <3>2. \A v \in Workers : ForEngine(workers[v]) => workers[v].id # i
      BY <1>1, <1>8, <2>3
    <3>3. HeardFits(i, legs, heard[i], sent)
      BY <3>2 DEF LegsInv
    <3> QED BY <1>2, <2>3, <3>1, <3>3 DEF HeardFits
  <2> QED BY <2>1, <2>2, <2>3
<1>9. \A i \in Ids : OneOf(Active(legs', i))
  <2> SUFFICES ASSUME NEW i \in Ids, i # id PROVE OneOf(Active(legs', i))
    OBVIOUS
  <2>1. Active(legs', i) = Active(legs, i)
    BY <1>0
  <2> QED BY <2>1 DEF LegsInv
<1>10. \A l \in DOMAIN legs' : RowFits(legs'[l], crossed')
  <2> SUFFICES ASSUME NEW l \in DOMAIN legs', legs'[l].id # id PROVE RowFits(legs'[l], crossed)
    BY <1>2
  <2>1. l \in DOMAIN legs /\ legs'[l] = legs[l]
    BY DEF OnlyRowsOf
  <2> QED BY <2>1 DEF LegsInv
<1>11. \A c \in notified' \ crossed' : Active(legs', c) = {}
  <2> SUFFICES ASSUME NEW c \in notified' \ crossed, c # id PROVE Active(legs', c) = {}
    BY <1>2
  <2>1. Active(legs', c) = Active(legs, c)
    BY <1>0
  <2> QED BY <2>1 DEF LegsInv
<1>12. \A i \in Ids : (\A v \in Workers : ForEngine(workers'[v]) => workers'[v].id # i)
                         => HeardFits(i, legs', heard'[i], sent')
  BY <1>8
<1> QED BY <1>4, <1>5, <1>6, <1>7, <1>9, <1>10, <1>11, <1>12 DEF LegsInv

\* What remains to be shown of a step that its job comes out of.
OwnFits(w, job) ==
    /\ EngineFits(job, legs', sent) /\ ReportFits(job, legs', crossed)
    /\ OneOf(Active(legs', workers[w].id))
    /\ \A l \in DOMAIN legs' : legs'[l].id = workers[w].id => RowFits(legs'[l], crossed)
    /\ workers[w].kind = "status" =>
           Active(legs', workers[w].id) \subseteq Active(legs, workers[w].id)

LEMMA OwnFitsSuffices ==
    ASSUME JobsInv, LegsInv, NEW w \in Workers, workers[w].kind # "none",
           NEW job, Becomes(w, job), OwnFits(w, job)
    PROVE  LegsInv'
<1>1. UNCHANGED <<heard, sent, crossed, notified>>
  BY DEF Becomes, outside
<1>2. workers[w].id \in notified' \ crossed => Active(legs', workers[w].id) = {}
  <2> SUFFICES ASSUME workers[w].id \in notified \ crossed PROVE Active(legs', workers[w].id) = {}
    BY <1>1
  <2>1. workers[w].id \in sent
    BY DEF JobsInv, LegsTypeOK
  <2>2. ~ForEngine(workers[w])
    BY <2>1 DEF LegsInv, CrossedKnown
  <2>3. workers[w].kind = "status"
    BY <2>2, JobNow DEF ForEngine, Worker
  <2>4. Active(legs, workers[w].id) = {}
    BY DEF LegsInv
  <2> QED BY <2>3, <2>4 DEF OwnFits
<1>3. job.kind = workers[w].kind /\ job # Idle
  BY DEF Becomes, Idle
<1> QED BY <1>1, <1>2, <1>3, LegsStep DEF Becomes, OwnFits

-----------------------------------------------------------------------------
(* What each action leaves of the call or thread it serves.                 *)

LEMMA EngineNow ==
    ASSUME JobsInv, LegsInv, NEW w \in Workers,
           workers[w].pc \in {"contact", "leg", "serve", "run", "exit", "transfer"}
    PROVE  /\ ForEngine(workers[w]) /\ workers[w].kind \notin {"none", "status"}
           /\ EngineFits(workers[w], legs, sent) /\ workers[w].id \in Ids
           /\ workers[w].id \in sent => workers[w].id \in crossed
<1>1. workers[w].kind \notin {"none", "status"} /\ workers[w].id \in Ids
  BY JobNow DEF StageFits
<1>2. ForEngine(workers[w])
  BY <1>1, JobNow DEF ForEngine, Worker
<1> QED BY <1>1, <1>2 DEF LegsInv, CrossedKnown

\* A step that writes no row.
LEMMA OwnUnwritten ==
    ASSUME JobsInv, LegsInv, NEW w \in Workers, workers[w].id \in Ids, UNCHANGED legs,
           NEW job, EngineFits(job, legs, sent), ReportFits(job, legs, crossed)
    PROVE  OwnFits(w, job)
BY DEF OwnFits, LegsInv

LEMMA LookUpFits ==
    ASSUME JobsInv, LegsInv, NEW w \in Workers, LookUp(w)
    PROVE  LegsInv'
<1>1. PICK l \in ActiveLegs(workers[w].id) :
         /\ workers[w].pc = "lookup"
         /\ Becomes(w, [workers[w] EXCEPT
               !.pc = IF workers[w].kind = "status" THEN "end" ELSE "serve",
               !.leg = l, !.run = legs[l].run])
         /\ UNCHANGED legs
  BY LookUpDoes
<1> DEFINE job == [workers[w] EXCEPT !.pc = IF workers[w].kind = "status" THEN "end" ELSE "serve",
                                     !.leg = l, !.run = legs[l].run]
<1>2. /\ job.pc = IF workers[w].kind = "status" THEN "end" ELSE "serve"
      /\ job.kind = workers[w].kind /\ job.id = workers[w].id /\ job.leg = l /\ job.run = legs[l].run
  BY JobNow DEF Worker
<1>3. workers[w].kind # "none" /\ workers[w].id \in Ids
  BY <1>1, JobNow DEF StageFits
<1>4. l \in Active(legs, workers[w].id) /\ ~legs[l].ended
  BY DEF Active, ActiveLegs
<1>5. Active(legs, workers[w].id) = {l}
  BY <1>3, <1>4 DEF LegsInv, OneOf
<1> HIDE DEF job
<1>6. EngineFits(job, legs, sent) /\ ReportFits(job, legs, crossed)
  BY <1>2, <1>4, <1>5 DEF EngineFits, ReportFits, ForEngine
<1>7. Becomes(w, job)
  BY <1>1 DEF job
<1> QED BY <1>1, <1>3, <1>6, <1>7, OwnUnwritten, OwnFitsSuffices

\* A request that comes to its answer and writes no row.
LEMMA AnswerFits ==
    ASSUME JobsInv, LegsInv, NEW w \in Workers, workers[w].kind # "none", UNCHANGED legs,
           NEW a \in {"over", "error"},
           Becomes(w, [workers[w] EXCEPT !.pc = "reply", !.answer = a]),
           a = "over" \/ workers[w].kind = "status" => Active(legs, workers[w].id) = {}
    PROVE  LegsInv'
<1> DEFINE job == [workers[w] EXCEPT !.pc = "reply", !.answer = a]
<1>1. /\ job.pc = "reply" /\ job.answer = a
      /\ job.kind = workers[w].kind /\ job.id = workers[w].id
  BY JobNow DEF Worker
<1>2. workers[w].id \in Ids
  BY JobNow DEF StageFits
<1> HIDE DEF job
<1>3. EngineFits(job, legs, sent) /\ ReportFits(job, legs, crossed)
  BY <1>1 DEF EngineFits, ReportFits, ForEngine
<1>4. Becomes(w, job)
  BY DEF job
<1> QED BY <1>2, <1>3, <1>4, OwnUnwritten, OwnFitsSuffices

LEMMA NotFoundFits ==
    ASSUME JobsInv, LegsInv, NEW w \in Workers, NotFound(w)
    PROVE  LegsInv'
<1>1. workers[w].pc = "lookup" /\ Active(legs, workers[w].id) = {} /\ UNCHANGED legs
  BY NotFoundDoes DEF Active, ActiveLegs
<1>2. workers[w].kind # "none" /\ workers[w].id \in Ids
  BY <1>1, JobNow DEF StageFits
<1>3. CASE workers[w].kind = "sms" /\ Becomes(w, [workers[w] EXCEPT !.pc = "contact"])
  <2> DEFINE job == [workers[w] EXCEPT !.pc = "contact"]
  <2>1. job.pc = "contact" /\ job.kind = workers[w].kind /\ job.id = workers[w].id
    BY JobNow DEF Worker
  <2> HIDE DEF job
  <2>2. EngineFits(job, legs, sent) /\ ReportFits(job, legs, crossed)
    BY <1>1, <2>1 DEF EngineFits, ReportFits
  <2>3. Becomes(w, job)
    BY <1>3 DEF job
  <2> QED BY <1>1, <1>2, <2>2, <2>3, OwnUnwritten, OwnFitsSuffices
<1>4. CASE Becomes(w, [workers[w] EXCEPT !.pc = "reply", !.answer = "error"])
  BY <1>1, <1>2, <1>4, AnswerFits
<1>5. CASE Becomes(w, [workers[w] EXCEPT !.pc = "reply", !.answer = "over"])
  BY <1>1, <1>2, <1>5, AnswerFits
<1> QED BY <1>3, <1>4, <1>5, NotFoundDoes

LEMMA TurnAwayFits ==
    ASSUME JobsInv, LegsInv, NEW w \in Workers, TurnAway(w)
    PROVE  LegsInv'
<1>1. workers[w].pc = "contact" /\ UNCHANGED legs
  BY TurnAwayDoes
<1>2. PICK a \in {"over", "error"} : Becomes(w, [workers[w] EXCEPT !.pc = "reply", !.answer = a])
  BY TurnAwayDoes
<1>3. workers[w].kind # "none" /\ Active(legs, workers[w].id) = {}
  BY <1>1, EngineNow DEF EngineFits
<1> QED BY <1>1, <1>2, <1>3, AnswerFits

LEMMA LegRaisesFits ==
    ASSUME JobsInv, LegsInv, NEW w \in Workers, LegRaises(w)
    PROVE  LegsInv'
<1>1. /\ workers[w].pc = "leg" /\ UNCHANGED legs
      /\ Becomes(w, [workers[w] EXCEPT !.pc = "reply", !.answer = "error"])
  BY LegRaisesDoes
<1>2. workers[w].kind \notin {"none", "status"}
  BY <1>1, EngineNow
<1> QED BY <1>1, <1>2, AnswerFits

LEMMA RejectRunFits ==
    ASSUME JobsInv, LegsInv, NEW w \in Workers, RejectRun(w)
    PROVE  LegsInv'
<1>1. /\ workers[w].pc = "serve" /\ UNCHANGED legs
      /\ Becomes(w, [workers[w] EXCEPT !.pc = "reply", !.answer = "error"])
  BY RejectRunDoes
<1>2. workers[w].kind \notin {"none", "status"}
  BY <1>1, EngineNow
<1> QED BY <1>1, <1>2, AnswerFits

LEMMA CreateContactFits ==
    ASSUME JobsInv, LegsInv, NEW w \in Workers, CreateContact(w)
    PROVE  LegsInv'
<1> DEFINE job == [workers[w] EXCEPT !.pc = "leg", !.contact = contacts[workers[w].id] + 1]
<1>1. workers[w].pc = "contact" /\ UNCHANGED legs /\ Becomes(w, job)
  BY CreateContactDoes
<1>2. job.pc = "leg" /\ job.kind = workers[w].kind /\ job.id = workers[w].id
  BY JobNow DEF Worker
<1>3. /\ workers[w].kind \notin {"none", "status"} /\ workers[w].id \in Ids
      /\ Active(legs, workers[w].id) = {}
  BY <1>1, EngineNow DEF EngineFits
<1> HIDE DEF job
<1>4. EngineFits(job, legs, sent) /\ ReportFits(job, legs, crossed)
  BY <1>2, <1>3 DEF EngineFits, ReportFits
<1> QED BY <1>1, <1>3, <1>4, OwnUnwritten, OwnFitsSuffices

LEMMA GiveUpFits ==
    ASSUME JobsInv, LegsInv, NEW w \in Workers, GiveUp(w)
    PROVE  LegsInv'
<1>1. workers[w].pc = "run" /\ UNCHANGED legs
  BY GiveUpDoes
<1>2. PICK e \in {"error", "sms"} :
         Becomes(w, [workers[w] EXCEPT !.pc = "exit", !.run = "error", !.exit = e])
  BY GiveUpDoes
<1> DEFINE job == [workers[w] EXCEPT !.pc = "exit", !.run = "error", !.exit = e]
<1>3. /\ job.pc = "exit" /\ job.kind = workers[w].kind /\ job.id = workers[w].id
      /\ job.leg = workers[w].leg /\ job.run = "error"
  BY JobNow DEF Worker
<1>4. /\ workers[w].kind \notin {"none", "status"} /\ workers[w].id \in Ids
      /\ Active(legs, workers[w].id) \subseteq {workers[w].leg}
      /\ workers[w].id \notin sent => ~legs[workers[w].leg].ended
  BY <1>1, EngineNow DEF EngineFits
<1> HIDE DEF job
<1>5. EngineFits(job, legs, sent) /\ ReportFits(job, legs, crossed)
  BY <1>3, <1>4 DEF EngineFits, ReportFits
<1>6. Becomes(w, job)
  BY <1>2 DEF job
<1> QED BY <1>1, <1>4, <1>5, <1>6, OwnUnwritten, OwnFitsSuffices

\* A leg is added where there was none active, and is served.
LEMMA AddedFits ==
    ASSUME JobsInv, LegsInv, NEW w \in Workers, workers[w].pc \in {"leg", "transfer"},
           NEW contact \in Nat \ {0}, legs' = Append(legs, NewLeg(workers[w].id, contact)),
           NEW job, Becomes(w, job), job.pc = "serve", job.leg = Len(legs) + 1
    PROVE  LegsInv'
<1>1. /\ workers[w].kind \notin {"none", "status"} /\ workers[w].id \in Ids
      /\ Active(legs, workers[w].id) = {}
  BY EngineNow DEF EngineFits
<1> DEFINE row == NewLeg(workers[w].id, contact)
<1>2. /\ row \in Leg /\ row.id = workers[w].id /\ ~row.ended /\ ~row.routed
      /\ row.disposition = "none"
  BY <1>1, NewLegIsLeg
<1> HIDE DEF row
<1>3. legs' = Append(legs, row) /\ legs \in Seq(Leg)
  BY JobNow DEF row
<1>4. /\ DOMAIN legs' = DOMAIN legs \cup {Len(legs) + 1} /\ legs'[Len(legs) + 1] = row
      /\ \A l \in DOMAIN legs : legs'[l] = legs[l]
  BY <1>2, <1>3, RowAdded
<1>5. Active(legs', workers[w].id) = {Len(legs) + 1}
  BY <1>1, <1>2, <1>3, ActiveAdded
<1>6. job.kind = workers[w].kind /\ job.id = workers[w].id
  BY DEF Becomes
<1>7. EngineFits(job, legs', sent) /\ ReportFits(job, legs', crossed)
  BY <1>1, <1>2, <1>4, <1>5, <1>6 DEF EngineFits, ReportFits
<1>8. OneOf(Active(legs', workers[w].id))
  BY <1>5 DEF OneOf
<1>9. \A l \in DOMAIN legs' : RowFits(legs'[l], crossed)
  <2>1. RowFits(row, crossed)
    BY <1>2 DEF RowFits
  <2> QED BY <1>4, <2>1 DEF LegsInv
<1>10. OwnFits(w, job)
  BY <1>1, <1>7, <1>8, <1>9 DEF OwnFits
<1> QED BY <1>1, <1>10, OwnFitsSuffices

LEMMA CreateLegFits ==
    ASSUME JobsInv, LegsInv, NEW w \in Workers, CreateLeg(w)
    PROVE  LegsInv'
<1> DEFINE job == [workers[w] EXCEPT !.pc = "serve", !.leg = Len(legs) + 1]
<1>1. /\ workers[w].pc = "leg" /\ workers[w].contact \in Nat \ {0}
      /\ legs' = Append(legs, NewLeg(workers[w].id, workers[w].contact))
      /\ Becomes(w, job)
  BY CreateLegDoes
<1>2. job.pc = "serve" /\ job.leg = Len(legs) + 1
  BY JobNow DEF Worker
<1> HIDE DEF job
<1> QED BY <1>1, <1>2, AddedFits

LEMMA TransferFits ==
    ASSUME JobsInv, LegsInv, NEW w \in Workers, Transfer(w)
    PROVE  LegsInv'
<1> DEFINE job == [workers[w] EXCEPT !.pc = "serve", !.leg = Len(legs) + 1, !.run = "initialized",
                                     !.exit = "none", !.transfers = @ + 1, !.answer = "nothing"]
<1>1. workers[w].pc = "transfer" /\ Becomes(w, job)
  BY TransferDoes
<1>2. PICK contact \in Nat \ {0} : legs' = Append(legs, NewLeg(workers[w].id, contact))
  BY TransferDoes
<1>3. job.pc = "serve" /\ job.leg = Len(legs) + 1
  BY JobNow DEF Worker
<1> HIDE DEF job
<1> QED BY <1>1, <1>2, <1>3, AddedFits

\* The run of the leg that is served is written, and goes on or is at its end.
LEMMA WrittenFits ==
    ASSUME JobsInv, LegsInv, NEW w \in Workers, workers[w].pc \in {"serve", "run"},
           NEW s \in RunStates, RunWritten(w, s),
           NEW job, Becomes(w, job), job.leg = workers[w].leg,
           \/ job.pc = "run"
           \/ job.pc = "exit" /\ job.run = s
           \/ job.pc = "reply" /\ job.answer = "prompt" /\ s \in Waiting
    PROVE  LegsInv'
<1> DEFINE k == workers[w].leg
           row == [legs[k] EXCEPT !.run = s]
<1>1. /\ workers[w].kind \notin {"none", "status"} /\ workers[w].id \in Ids
      /\ Active(legs, workers[w].id) \subseteq {k}
      /\ workers[w].id \notin sent => ~legs[k].ended
      /\ workers[w].id \in sent => workers[w].id \in crossed
  BY EngineNow DEF EngineFits
<1>2. k \in DOMAIN legs /\ legs[k].id = workers[w].id /\ legs \in Seq(Leg)
  BY JobNow DEF HoldsItsRow
<1>3. /\ row \in Leg /\ row.run = s /\ legs' = [legs EXCEPT ![k] = row]
      /\ row.id = workers[w].id /\ row.contact = legs[k].contact
      /\ row.ended = legs[k].ended /\ row.disposition = legs[k].disposition
      /\ row.routed = legs[k].routed
  BY DEF RunWritten
<1> HIDE DEF k, row
<1>4. /\ DOMAIN legs' = DOMAIN legs /\ legs'[k] = row
      /\ \A l \in DOMAIN legs : l # k => legs'[l] = legs[l]
  BY <1>2, <1>3, RowWritten
<1>5. Active(legs', workers[w].id) = Active(legs, workers[w].id)
  BY <1>2, <1>3, ActiveWritten
<1>6. job.kind = workers[w].kind /\ job.id = workers[w].id /\ job.leg = k
  BY DEF Becomes, k
<1>7. workers[w].id \notin sent => k \in Active(legs', workers[w].id)
  BY <1>1, <1>2, <1>5 DEF Active
<1>8. EngineFits(job, legs', sent)
  BY <1>1, <1>3, <1>4, <1>5, <1>6, <1>7 DEF EngineFits
<1>9. ReportFits(job, legs', crossed)
  BY <1>1, <1>6 DEF ReportFits
<1>10. OneOf(Active(legs', workers[w].id))
  BY <1>1, <1>5 DEF OneOf
<1>11. RowFits(row, crossed)
  <2>1. RowFits(legs[k], crossed)
    BY <1>2 DEF LegsInv
  <2> QED BY <1>1, <1>3, <2>1 DEF RowFits
<1>12. \A l \in DOMAIN legs' : RowFits(legs'[l], crossed)
  BY <1>4, <1>11 DEF LegsInv
<1>13. OwnFits(w, job)
  BY <1>1, <1>8, <1>9, <1>10, <1>12 DEF OwnFits
<1> QED BY <1>1, <1>13, OwnFitsSuffices

LEMMA BeginFits ==
    ASSUME JobsInv, LegsInv, NEW w \in Workers, Begin(w)
    PROVE  LegsInv'
<1>1. PICK s \in RunStates : /\ workers[w].pc = "serve" /\ RunWritten(w, s)
                             /\ Becomes(w, [workers[w] EXCEPT !.pc = "run", !.run = s])
  BY BeginDoes
<1> DEFINE job == [workers[w] EXCEPT !.pc = "run", !.run = s]
<1>2. job.pc = "run" /\ job.leg = workers[w].leg
  BY JobNow DEF Worker
<1> HIDE DEF job
<1>3. Becomes(w, job)
  BY <1>1 DEF job
<1> QED BY <1>1, <1>2, <1>3, WrittenFits

LEMMA AskFits ==
    ASSUME JobsInv, LegsInv, NEW w \in Workers, Ask(w)
    PROVE  LegsInv'
<1>1. PICK s \in Waiting :
         /\ workers[w].pc = "run" /\ RunWritten(w, s)
         /\ Becomes(w, [workers[w] EXCEPT !.pc = "reply", !.answer = "prompt", !.run = s])
  BY AskDoes
<1> DEFINE job == [workers[w] EXCEPT !.pc = "reply", !.answer = "prompt", !.run = s]
<1>2. /\ job.pc = "reply" /\ job.answer = "prompt" /\ job.leg = workers[w].leg
      /\ s \in RunStates
  BY JobNow DEF Worker, Waiting, RunStates
<1> HIDE DEF job
<1>3. Becomes(w, job)
  BY <1>1 DEF job
<1> QED BY <1>1, <1>2, <1>3, WrittenFits

LEMMA LeaveFits ==
    ASSUME JobsInv, LegsInv, NEW w \in Workers, Leave(w)
    PROVE  LegsInv'
<1>1. workers[w].pc = "run" /\ RunWritten(w, "finished")
  BY LeaveDoes
<1>2. PICK e \in {"queue", "hangup", "pstn", "workflow", "sms"} :
         Becomes(w, [workers[w] EXCEPT !.pc = "exit", !.exit = e, !.run = "finished"])
  BY LeaveDoes
<1> DEFINE job == [workers[w] EXCEPT !.pc = "exit", !.exit = e, !.run = "finished"]
<1>3. /\ job.pc = "exit" /\ job.run = "finished" /\ job.leg = workers[w].leg
      /\ "finished" \in RunStates
  BY JobNow DEF Worker, RunStates
<1> HIDE DEF job
<1>4. Becomes(w, job)
  BY <1>2 DEF job
<1> QED BY <1>1, <1>3, <1>4, WrittenFits

\* The leg that is served, or that a report has loaded, is ended.
LEMMA EndedFits ==
    ASSUME JobsInv, LegsInv, NEW w \in Workers, workers[w].kind # "none",
           workers[w].pc \in {"exit", "end"},
           NEW row \in Leg, legs' = [legs EXCEPT ![workers[w].leg] = row],
           row.id = workers[w].id, row.contact = legs[workers[w].leg].contact, row.ended,
           RowFits(row, crossed),
           workers[w].id \notin crossed => Active(legs, workers[w].id) \subseteq {workers[w].leg},
           workers[w].pc = "exit" => Active(legs, workers[w].id) \subseteq {workers[w].leg},
           NEW job, Becomes(w, job), job.pc \in {"transfer", "reply"}, job.answer # "prompt"
    PROVE  LegsInv'
<1> DEFINE k == workers[w].leg
<1>1. k \in DOMAIN legs /\ legs[k].id = workers[w].id /\ legs \in Seq(Leg)
  BY JobNow DEF HoldsItsRow
<1> HIDE DEF k
<1>2. legs' = [legs EXCEPT ![k] = row] /\ row.contact = legs[k].contact
  BY DEF k
<1>3. /\ DOMAIN legs' = DOMAIN legs /\ legs'[k] = row
      /\ \A l \in DOMAIN legs : l # k => legs'[l] = legs[l]
  BY <1>1, <1>2, RowWritten
<1>4. Active(legs', workers[w].id) = Active(legs, workers[w].id) \ {k}
  <2>1. row \in Leg /\ row.ended /\ row.id = legs[k].id
    BY <1>1
  <2>2. Active([legs EXCEPT ![k] = row], row.id) = Active(legs, row.id) \ {k}
    BY ONLY <1>1, <1>2, <2>1, ActiveEnded
  <2> QED BY <1>2, <2>2
<1>5. job.kind = workers[w].kind /\ job.id = workers[w].id
  BY DEF Becomes
<1>6. workers[w].id \in Ids /\ (workers[w].pc = "exit" <=> ForEngine(workers[w]))
  BY JobNow DEF StageFits, ForEngine, Worker
<1>7. EngineFits(job, legs', sent)
  <2>1. ForEngine(job) => Active(legs', workers[w].id) = {}
    BY <1>4, <1>5, <1>6 DEF ForEngine, k
  <2> QED BY <1>5, <2>1 DEF EngineFits
<1>8. ReportFits(job, legs', crossed)
  <2>1. workers[w].id \notin crossed => Active(legs', workers[w].id) = {}
    BY <1>4 DEF k
  <2> QED BY <1>5, <2>1 DEF ReportFits
<1>9. OneOf(Active(legs', workers[w].id))
  BY <1>4, <1>6 DEF OneOf, LegsInv
<1>10. \A l \in DOMAIN legs' : RowFits(legs'[l], crossed)
  BY <1>3 DEF LegsInv
<1>11. OwnFits(w, job)
  BY <1>4, <1>7, <1>8, <1>9, <1>10 DEF OwnFits
<1> QED BY <1>11, OwnFitsSuffices

LEMMA EndLegFits ==
    ASSUME JobsInv, LegsInv, NEW w \in Workers, EndLeg(w)
    PROVE  LegsInv'
<1> DEFINE job == [workers[w] EXCEPT
                      !.pc = IF workers[w].exit = "workflow" THEN "transfer" ELSE "reply",
                      !.answer = AnswerOnExit(workers[w].id, workers[w].exit)]
<1>1. workers[w].pc = "exit" /\ Becomes(w, job)
  BY EndLegDoes
<1>2. PICK routed \in BOOLEAN, row \in Leg :
         /\ legs' = [legs EXCEPT ![workers[w].leg] = row]
         /\ row.id = workers[w].id /\ row.contact = legs[workers[w].leg].contact
         /\ row.ended /\ row.disposition = workers[w].exit
         /\ row.run = IF workers[w].run = "error" THEN "error" ELSE legs[workers[w].leg].run
         /\ row.routed = routed
         /\ routed => workers[w].exit \in {"queue", "error"}
  BY EndLegDoes
<1>3. job.pc \in {"transfer", "reply"} /\ job.answer \in {"over", "null"}
  BY JobNow DEF Worker, AnswerOnExit
<1> HIDE DEF job
<1>4. /\ workers[w].kind \notin {"none", "status"} /\ workers[w].id \in Ids
      /\ Active(legs, workers[w].id) \subseteq {workers[w].leg}
      /\ workers[w].run = "finished" /\ workers[w].id \notin sent =>
             legs[workers[w].leg].run = "finished"
      /\ workers[w].id \in sent => workers[w].id \in crossed
  BY <1>1, EngineNow DEF EngineFits
<1>5. RowFits(row, crossed)
  <2>1. /\ workers[w].exit \in {"queue", "hangup", "pstn", "workflow", "sms", "error"}
        /\ workers[w].exit \notin {"sms", "error"} => workers[w].run = "finished"
        /\ workers[w].exit = "sms" => workers[w].run \in {"finished", "error"}
        /\ workers[w].exit = "error" => workers[w].run = "error"
    BY <1>1, JobNow DEF StageFits
  <2>2. workers[w].id \notin crossed /\ workers[w].run \in {"finished", "error"} =>
           row.run = workers[w].run
    BY <1>2, <1>4
  <2>3. row.ended /\ row.disposition = workers[w].exit /\ row.id = workers[w].id
        /\ (row.routed => workers[w].exit \in {"queue", "error"})
    BY <1>2
  <2> QED BY <2>1, <2>2, <2>3 DEF RowFits
<1> QED BY <1>1, <1>2, <1>3, <1>4, <1>5, EndedFits

LEMMA EndOnStatusFits ==
    ASSUME JobsInv, LegsInv, NEW w \in Workers, EndOnStatus(w)
    PROVE  LegsInv'
<1> DEFINE job == [workers[w] EXCEPT !.pc = "reply", !.answer = "over"]
<1>1. workers[w].pc = "end" /\ Becomes(w, job)
  BY EndOnStatusDoes
<1>2. PICK row \in Leg :
         /\ legs' = [legs EXCEPT ![workers[w].leg] = row]
         /\ row.id = workers[w].id /\ row.contact = legs[workers[w].leg].contact
         /\ row.ended /\ row.routed = legs[workers[w].leg].routed
         /\ row.disposition = IF workers[w].run # "finished" THEN "disconnect" ELSE "completed"
         /\ row.run = IF workers[w].run = "error" THEN "error" ELSE legs[workers[w].leg].run
  BY EndOnStatusDoes
<1>3. job.pc = "reply" /\ job.answer = "over"
  BY JobNow DEF Worker
<1> HIDE DEF job
<1>4. workers[w].kind = "status" /\ workers[w].leg \in DOMAIN legs
  BY <1>1, JobNow DEF StageFits, HoldsItsRow
<1>5. workers[w].id \notin crossed =>
         /\ Active(legs, workers[w].id) = {workers[w].leg}
         /\ workers[w].run = legs[workers[w].leg].run
  BY <1>1, <1>4 DEF LegsInv, ReportFits
<1>6. RowFits(row, crossed)
  <2>1. RowFits(legs[workers[w].leg], crossed)
    BY <1>4 DEF LegsInv
  <2>2. workers[w].id \notin crossed => ~legs[workers[w].leg].ended
    BY <1>5 DEF Active
  <2>3. workers[w].id \notin crossed => ~row.routed /\ row.run = workers[w].run
    BY <1>2, <1>5, <2>1, <2>2 DEF RowFits
  <2> QED BY <1>2, <2>3 DEF RowFits
<1> QED BY <1>1, <1>2, <1>3, <1>4, <1>5, <1>6, EndedFits

\* The vendor hears the answer that the stage of the request stands for.
LEMMA ReplyFits ==
    ASSUME JobsInv, LegsInv, NEW w \in Workers, Reply(w)
    PROVE  LegsInv'
<1>1. /\ workers[w].pc = "reply" /\ workers[w].kind # "none" /\ workers[w].id \in Ids
      /\ workers' = [workers EXCEPT ![w] = Idle] /\ UNCHANGED <<contacts, legs, sent, crossed>>
      /\ IF workers[w].kind = "status"
         THEN notified' = notified \cup {workers[w].id} /\ heard' = heard
         ELSE notified' = notified /\ heard' = [heard EXCEPT ![workers[w].id] = workers[w].answer]
  BY ReplyTyped
<1>2. EngineFits(Idle, legs', sent) /\ ReportFits(Idle, legs', crossed)
  BY IdleFits DEF EngineFits, ReportFits, ForEngine
<1>3. OnlyRowsOf(workers[w].id, legs, legs')
  BY <1>1, JobNow
<1>4. OneOf(Active(legs', workers[w].id)) /\ \A l \in DOMAIN legs' : RowFits(legs'[l], crossed)
  BY <1>1 DEF LegsInv
<1>5. \A i \in Ids : i # workers[w].id => heard'[i] = heard[i]
  BY <1>1, JobNow
<1>6. ForEngine(workers[w]) => HeardFits(workers[w].id, legs', heard'[workers[w].id], sent)
  <2> SUFFICES ASSUME ForEngine(workers[w])
               PROVE  HeardFits(workers[w].id, legs', heard'[workers[w].id], sent)
    OBVIOUS
  <2>1. heard'[workers[w].id] = workers[w].answer
    BY <1>1, JobNow DEF ForEngine
  <2>2. EngineFits(workers[w], legs, sent) /\ workers[w].answer # "nothing"
    BY <1>1, JobNow DEF LegsInv, StageFits
  <2> QED BY <1>1, <2>1, <2>2 DEF EngineFits, HeardFits
<1>7. workers[w].id \in notified' \ crossed => Active(legs', workers[w].id) = {}
  <2>1. CASE workers[w].kind = "status"
    BY <1>1, <2>1 DEF LegsInv, ReportFits
  <2>2. CASE workers[w].kind # "status"
    BY <1>1, <2>2 DEF LegsInv
  <2> QED BY <2>1, <2>2
<1>8. notified' \subseteq notified \cup {workers[w].id}
  BY <1>1
<1> QED BY <1>1, <1>2, <1>3, <1>4, <1>5, <1>6, <1>7, <1>8, LegsStep

LEMMA FailFits ==
    ASSUME JobsInv, LegsInv, NEW w \in Workers, Fail(w)
    PROVE  LegsInv'
<1>1. /\ workers[w].kind # "none" /\ workers[w].id \in Ids
      /\ workers' = [workers EXCEPT ![w] = Idle]
      /\ UNCHANGED <<contacts, legs, sent, crossed, notified>>
      /\ heard' = IF workers[w].kind = "status" THEN heard
                  ELSE [heard EXCEPT ![workers[w].id] = "error"]
  BY FailTyped
<1>2. EngineFits(Idle, legs', sent) /\ ReportFits(Idle, legs', crossed)
  BY IdleFits DEF EngineFits, ReportFits, ForEngine
<1>3. OnlyRowsOf(workers[w].id, legs, legs')
  BY <1>1, JobNow
<1>4. OneOf(Active(legs', workers[w].id)) /\ \A l \in DOMAIN legs' : RowFits(legs'[l], crossed)
  BY <1>1 DEF LegsInv
<1>5. \A i \in Ids : i # workers[w].id => heard'[i] = heard[i]
  BY <1>1, JobNow
<1>6. ForEngine(workers[w]) => HeardFits(workers[w].id, legs', heard'[workers[w].id], sent)
  <2>1. ForEngine(workers[w]) => heard'[workers[w].id] = "error"
    BY <1>1, JobNow DEF ForEngine
  <2> QED BY <2>1 DEF HeardFits
<1>7. workers[w].id \in notified' \ crossed => Active(legs', workers[w].id) = {}
  BY <1>1 DEF LegsInv
<1>8. notified' \subseteq notified \cup {workers[w].id}
  BY <1>1
<1> QED BY <1>1, <1>2, <1>3, <1>4, <1>5, <1>6, <1>7, <1>8, LegsStep

\* Where requests come one at a time, the next one finds none served.
LEMMA NoneServed ==
    ASSUME InFlight <= 1, JobsInv, NEW id \in Ids, NEW kind, MayAsk(id, kind)
    PROVE  /\ Served(id) = {} /\ id \notin sent
           /\ \A v \in Workers : ForEngine(workers[v]) => workers[v].id # id
           /\ kind = "new" => heard[id] \in {"nothing", "over"}
<1>1. Served(id) = {}
  <2>1. CASE id \in Calls
    BY <2>1 DEF MayAsk
  <2>2. CASE id \notin Calls
    <3>1. Cardinality(Served(id)) < InFlight
      BY <2>2 DEF MayAsk
    <3>2. Served(id) \subseteq Workers
      BY DEF Served
    <3>3. IsFiniteSet(Served(id))
      BY <3>2, WorkersAssumption, FS_Subset
    <3>4. Cardinality(Served(id)) \in Nat
      BY <3>3, FS_CardinalityType
    <3>5. InFlight \in Nat
      BY LegBoundsAssumption
    <3>6. Cardinality(Served(id)) = 0
      BY <3>1, <3>4, <3>5
    <3> QED BY <3>3, <3>6, FS_EmptySet
  <2> QED BY <2>1, <2>2
<1>2. \A v \in Workers : ForEngine(workers[v]) => workers[v].id # id
  BY <1>1 DEF Served, ForEngine
<1>3. id \notin sent
  <2>1. sent \subseteq Calls
    BY DEF JobsInv, LegsTypeOK
  <2> QED BY <2>1 DEF MayAsk
<1>4. kind = "new" => heard[id] \in {"nothing", "over"}
  BY DEF MayAsk
<1> QED BY <1>1, <1>2, <1>3, <1>4

LEMMA ArriveFits ==
    ASSUME InFlight <= 1, JobsInv, LegsInv, NEW w \in Workers, NEW id \in Ids,
           NEW kind \in {"new", "continue", "sms"}, Arrive(w, id, kind)
    PROVE  LegsInv'
<1>1. /\ workers[w] = Idle /\ MayAsk(id, kind)
      /\ workers' = [workers EXCEPT ![w] = Asked(id, kind)]
      /\ UNCHANGED <<contacts, legs, heard, sent, crossed, notified>>
  BY ArriveTyped
<1> DEFINE job == Asked(id, kind)
<1>2. job.kind = kind /\ job.id = id /\ job.pc = IF kind = "new" THEN "contact" ELSE "lookup"
  BY AskedFits
<1> HIDE DEF job
<1>3. workers' = [workers EXCEPT ![w] = job]
  BY <1>1 DEF job
<1>4. workers'[w] = job /\ \A v \in Workers : v # w => workers'[v] = workers[v]
  BY <1>3, JobNow
<1>5. /\ id \notin sent /\ \A v \in Workers : ForEngine(workers[v]) => workers[v].id # id
      /\ kind = "new" => heard[id] \in {"nothing", "over"}
  BY <1>1, NoneServed
<1>6. Idle.kind = "none" /\ ForEngine(job)
  BY <1>2, IdleFits DEF ForEngine
<1>7. Alone'
  BY <1>1, <1>2, <1>4, <1>5, <1>6 DEF LegsInv, Alone
<1>8. CrossedKnown'
  BY <1>1, <1>2, <1>4, <1>5 DEF LegsInv, CrossedKnown
<1>9. EngineFits(job, legs, sent) /\ ReportFits(job, legs, crossed)
  <2>1. kind = "new" => Active(legs, id) = {}
    BY <1>5 DEF LegsInv, HeardFits
  <2> QED BY <1>2, <2>1 DEF EngineFits, ReportFits
<1>10. \A v \in Workers : EngineFits(workers'[v], legs', sent') /\ ReportFits(workers'[v], legs', crossed')
  BY <1>1, <1>4, <1>9 DEF LegsInv
<1>11. \A i \in Ids : (\A v \in Workers : ForEngine(workers'[v]) => workers'[v].id # i)
                         => HeardFits(i, legs', heard'[i], sent')
  <2> SUFFICES ASSUME NEW i \in Ids, \A v \in Workers : ForEngine(workers'[v]) => workers'[v].id # i
               PROVE  HeardFits(i, legs, heard[i], sent)
    BY <1>1
  <2>1. \A v \in Workers : ForEngine(workers[v]) => workers[v].id # i
    BY <1>1, <1>4, <1>6 DEF ForEngine
  <2> QED BY <2>1 DEF LegsInv
<1> QED BY <1>1, <1>7, <1>8, <1>10, <1>11 DEF LegsInv

LEMMA ReportFitsIn ==
    ASSUME JobsInv, LegsInv, NEW w \in Workers, NEW c \in Calls, Report(w, c)
    PROVE  LegsInv'
<1>1. /\ workers[w] = Idle /\ c \notin sent
      /\ workers' = [workers EXCEPT ![w] = Asked(c, "status")]
      /\ sent' = sent \cup {c}
      /\ crossed' = IF Served(c) = {} THEN crossed ELSE crossed \cup {c}
      /\ UNCHANGED <<contacts, legs, heard, notified>>
  BY ReportTyped
<1> DEFINE job == Asked(c, "status")
<1>2. job.kind = "status" /\ job.id = c /\ job.pc = "lookup"
  BY AskedFits DEF Ids
<1> HIDE DEF job
<1>3. workers' = [workers EXCEPT ![w] = job]
  BY <1>1 DEF job
<1>4. workers'[w] = job /\ \A v \in Workers : v # w => workers'[v] = workers[v]
  BY <1>3, JobNow
<1>5. Idle.kind = "none" /\ ~ForEngine(job) /\ ~ForEngine(Idle)
  BY <1>2, IdleFits DEF ForEngine
<1>6. sent \subseteq sent' /\ crossed \subseteq crossed'
  BY <1>1
<1>7. Alone'
  <2>1. \A v \in Workers : workers[v].id = c /\ workers[v].kind # "none" => ForEngine(workers[v])
    BY <1>1, JobNow DEF JobsInv, ForEngine, Worker
  <2> QED BY <1>1, <1>2, <1>4, <1>5, <2>1 DEF LegsInv, Alone
<1>8. CrossedKnown'
  <2> SUFFICES ASSUME NEW v \in Workers, ForEngine(workers'[v]), workers'[v].id \in sent'
               PROVE  workers'[v].id \in crossed'
    BY DEF CrossedKnown
  <2>1. workers'[v] = workers[v] /\ ForEngine(workers[v])
    BY <1>4, <1>5
  <2>2. CASE workers[v].id = c
    <3>1. Served(c) # {}
      BY <2>1, <2>2 DEF Served, ForEngine
    <3> QED BY <1>1, <2>1, <2>2, <3>1
  <2>3. CASE workers[v].id # c
    BY <1>1, <1>6, <2>1, <2>3 DEF LegsInv, CrossedKnown
  <2> QED BY <2>2, <2>3
<1>9. \A v \in Workers : EngineFits(workers'[v], legs', sent')
  <2> SUFFICES ASSUME NEW v \in Workers PROVE EngineFits(workers'[v], legs, sent')
    BY <1>1
  <2>1. CASE v = w
    BY <1>4, <1>5, <2>1 DEF EngineFits
  <2>2. CASE v # w
    BY <1>4, <1>6, <2>2 DEF LegsInv, EngineFits
  <2> QED BY <2>1, <2>2
<1>10. \A v \in Workers : ReportFits(workers'[v], legs', crossed')
  <2> SUFFICES ASSUME NEW v \in Workers PROVE ReportFits(workers'[v], legs, crossed')
    BY <1>1
  <2>1. CASE v = w
    BY <1>2, <1>4, <2>1 DEF ReportFits
  <2>2. CASE v # w
    BY <1>4, <1>6, <2>2 DEF LegsInv, ReportFits
  <2> QED BY <2>1, <2>2
<1>11. \A i \in Ids : (\A v \in Workers : ForEngine(workers'[v]) => workers'[v].id # i)
                         => HeardFits(i, legs', heard'[i], sent')
  <2> SUFFICES ASSUME NEW i \in Ids, \A v \in Workers : ForEngine(workers'[v]) => workers'[v].id # i
               PROVE  HeardFits(i, legs, heard[i], sent')
    BY <1>1
  <2>1. \A v \in Workers : ForEngine(workers[v]) => workers[v].id # i
    BY <1>1, <1>4, <1>5
  <2>2. HeardFits(i, legs, heard[i], sent)
    BY <2>1 DEF LegsInv
  <2> QED BY <1>6, <2>2 DEF HeardFits
<1>12. \A l \in DOMAIN legs' : RowFits(legs'[l], crossed')
  BY <1>1, <1>6 DEF LegsInv, RowFits
<1>13. \A i \in notified' \ crossed' : Active(legs', i) = {}
  BY <1>1, <1>6 DEF LegsInv
<1>14. \A i \in Ids : OneOf(Active(legs', i))
  BY <1>1 DEF LegsInv
<1> QED BY <1>7, <1>8, <1>9, <1>10, <1>11, <1>12, <1>13, <1>14 DEF LegsInv

LEMMA ServeFits ==
    ASSUME JobsInv, LegsInv, NEW w \in Workers, Serve(w)
    PROVE  LegsInv'
<1>1. LookUp(w) \/ NotFound(w) \/ TurnAway(w) \/ CreateContact(w) \/ LegRaises(w) \/ CreateLeg(w)
      => LegsInv'
  BY LookUpFits, NotFoundFits, TurnAwayFits, CreateContactFits, LegRaisesFits, CreateLegFits
<1>2. Begin(w) \/ RejectRun(w) \/ Ask(w) \/ Leave(w) \/ GiveUp(w) => LegsInv'
  BY BeginFits, RejectRunFits, AskFits, LeaveFits, GiveUpFits
<1>3. EndLeg(w) \/ Transfer(w) \/ EndOnStatus(w) \/ Reply(w) => LegsInv'
  BY EndLegFits, TransferFits, EndOnStatusFits, ReplyFits
<1> QED BY <1>1, <1>2, <1>3 DEF Serve

-----------------------------------------------------------------------------
(* The theorems.                                                            *)

\* Where the requests of a thread come one at a time, as those of a call do: one
\* request and one report serve a contact, each with the leg it has loaded.
THEOREM LegsInvHolds ==
    ASSUME InFlight <= 1
    PROVE  Spec => []LegsInv
<1>1. Init => LegsInv
  <2> SUFFICES ASSUME Init PROVE LegsInv
    OBVIOUS
  <2>1. \A w \in Workers : workers[w] = Idle
    BY DEF Init
  <2>2. legs = <<>> /\ \A id : Active(legs, id) = {}
    BY DEF Init, Active
  <2>3. \A id \in Ids : heard[id] = "nothing"
    BY DEF Init
  <2>4. Idle.kind = "none" /\ ~ForEngine(Idle)
    BY IdleFits DEF ForEngine
  <2>5. Alone /\ CrossedKnown
    BY <2>1, <2>4 DEF Alone, CrossedKnown
  <2>6. \A w \in Workers : EngineFits(workers[w], legs, sent) /\ ReportFits(workers[w], legs, crossed)
    BY <2>1, <2>4 DEF EngineFits, ReportFits
  <2>7. \A id \in Ids : HeardFits(id, legs, heard[id], sent)
    BY <2>2, <2>3 DEF HeardFits
  <2>8. \A id \in Ids : OneOf(Active(legs, id))
    BY <2>2 DEF OneOf
  <2> QED BY <2>2, <2>5, <2>6, <2>7, <2>8 DEF LegsInv, Init
<1>2. JobsInv /\ LegsInv /\ [Next]_vars => LegsInv'
  <2> SUFFICES ASSUME JobsInv, LegsInv, [Next]_vars PROVE LegsInv'
    OBVIOUS
  <2>1. CASE UNCHANGED vars
    BY <2>1 DEF vars, outside, LegsInv, Alone, CrossedKnown
  <2>2. ASSUME NEW c \in Calls, HangUp(c) PROVE LegsInv'
    BY <2>2, HangUpTyped DEF LegsInv, Alone, CrossedKnown
  <2>3. CASE Next
    BY <2>2, <2>3, ServeFits, FailFits, ArriveFits, ReportFitsIn DEF Next
  <2> QED BY <2>1, <2>3
<1> QED BY <1>1, <1>2, JobsInvHolds, PTL DEF Spec

LEMMA AtMostOne ==
    ASSUME NEW S, OneOf(S)
    PROVE  Cardinality(S) <= 1
<1>1. CASE S = {}
  BY <1>1, FS_EmptySet
<1>2. CASE S # {}
  <2>1. PICK x \in S : S = {x}
    BY <1>2 DEF OneOf
  <2>2. Cardinality({x}) = 1
    BY FS_Singleton
  <2> QED BY <2>1, <2>2
<1> QED BY <1>1, <1>2

\* A call or a thread has at most one active leg, so that the lookups of
\* calls.py:24 and sms.py:18 find the leg there is, through transfers, reports
\* that come in between, and requests cut short.
THEOREM OneActiveLegHolds ==
    ASSUME InFlight <= 1
    PROVE  Spec => []OneActiveLeg
<1>1. LegsInv => OneActiveLeg
  <2>1. ASSUME LegsInv, NEW id \in Ids PROVE Cardinality(ActiveLegs(id)) <= 1
    <3>1. OneOf(ActiveLegs(id))
      BY <2>1 DEF LegsInv, Active, ActiveLegs
    <3> QED BY <3>1, AtMostOne
  <2> QED BY <2>1 DEF OneActiveLeg
<1> QED BY <1>1, LegsInvHolds, PTL

\* Between requests the vendor and the database agree on whether a call or a
\* thread goes on: what the vendor heard last is what the rows say.
THEOREM VendorAgreesHolds ==
    ASSUME InFlight <= 1
    PROVE  Spec => []VendorAgrees
<1>1. LegsInv => VendorAgrees
  <2> SUFFICES ASSUME LegsInv, NEW id \in Ids,
                      {w \in Workers : workers[w].id = id} = {}, id \notin sent
               PROVE  /\ heard[id] = "prompt" => \E l \in ActiveLegs(id) : legs[l].run \in Waiting
                      /\ heard[id] \in {"over", "null"} => ActiveLegs(id) = {}
    BY DEF VendorAgrees
  <2>1. HeardFits(id, legs, heard[id], sent)
    BY DEF LegsInv
  <2>2. ActiveLegs(id) = Active(legs, id)
    BY DEF ActiveLegs, Active
  <2> QED BY <2>1, <2>2 DEF HeardFits
<1> QED BY <1>1, LegsInvHolds, PTL

\* A report of completion that crosses no request leaves no leg of the call
\* active, whatever was cut short before it (twilio.py:319-337).
THEOREM ReportEndsCallHolds ==
    ASSUME InFlight <= 1
    PROVE  Spec => []ReportEndsCall
<1>1. LegsInv => ReportEndsCall
  BY DEF LegsInv, ReportEndsCall, ActiveLegs, Active
<1> QED BY <1>1, LegsInvHolds, PTL

\* The disposition of a leg tells how its run ended, unless a report and a
\* request of its call crossed.
THEOREM DispositionTellsHolds ==
    ASSUME InFlight <= 1
    PROVE  Spec => []DispositionTells
<1>1. LegsInv => DispositionTells
  BY DEF LegsInv, RowFits, DispositionTells
<1> QED BY <1>1, LegsInvHolds, PTL

-----------------------------------------------------------------------------
(* What no step does to a leg that has ended.                               *)

\* A leg that has ended stays as it is, unless a report and a request crossed.
EndedStands == \A l \in DOMAIN legs : legs[l].ended /\ legs[l].id \notin crossed => legs'[l] = legs[l]

\* A worker that writes the leg it has loaded finds it active, unless they crossed.
LEMMA OnlyActiveWritten ==
    ASSUME JobsInv, LegsInv, NEW w \in Workers, workers[w].pc \in {"serve", "run", "exit", "end"},
           NEW row \in Leg, legs' = [legs EXCEPT ![workers[w].leg] = row]
    PROVE  EndedStands
<1> DEFINE k == workers[w].leg
<1>1. k \in DOMAIN legs /\ legs[k].id = workers[w].id /\ legs \in Seq(Leg)
  BY JobNow DEF HoldsItsRow
<1>2. workers[w].id \notin crossed => ~legs[k].ended
  <2>1. CASE workers[w].pc = "end"
    <3>1. workers[w].kind = "status"
      BY <2>1, JobNow DEF StageFits
    <3>2. workers[w].id \notin crossed => k \in Active(legs, workers[w].id)
      BY <2>1, <3>1 DEF LegsInv, ReportFits
    <3> QED BY <3>2 DEF Active
  <2>2. CASE workers[w].pc # "end"
    BY <2>2, EngineNow DEF EngineFits
  <2> QED BY <2>1, <2>2
<1> HIDE DEF k
<1>3. \A l \in DOMAIN legs : l # k => legs'[l] = legs[l]
  BY DEF k
<1> QED BY <1>1, <1>2, <1>3 DEF EndedStands

LEMMA ServeStands ==
    ASSUME JobsInv, LegsInv, NEW w \in Workers, Serve(w)
    PROVE  EndedStands
<1>1. LookUp(w) \/ NotFound(w) \/ TurnAway(w) \/ CreateContact(w) \/ LegRaises(w) \/ RejectRun(w)
      \/ GiveUp(w) \/ Reply(w) => UNCHANGED legs
  BY DEF LookUp, NotFound, TurnAway, CreateContact, LegRaises, RejectRun, GiveUp, Reply
<1>2. CASE UNCHANGED legs
  BY <1>2 DEF EndedStands
<1>3. ASSUME NEW row \in Leg, legs' = Append(legs, row) PROVE EndedStands
  BY <1>3, RowAdded, JobNow DEF EndedStands
<1>4. CASE CreateLeg(w) \/ Transfer(w)
  <2>1. PICK contact \in Nat \ {0} : legs' = Append(legs, NewLeg(workers[w].id, contact))
    BY <1>4, CreateLegDoes, TransferDoes
  <2>2. workers[w].id \in Ids
    BY <1>4, JobNow DEF CreateLeg, Transfer
  <2> QED BY <1>3, <2>1, <2>2, NewLegIsLeg
<1>5. CASE Begin(w) \/ Ask(w) \/ Leave(w)
  <2>1. PICK s : RunWritten(w, s)
    BY <1>5, BeginDoes, AskDoes, LeaveDoes
  <2>2. workers[w].pc \in {"serve", "run"}
    BY <1>5 DEF Begin, Ask, Leave
  <2> QED BY <2>1, <2>2, OnlyActiveWritten DEF RunWritten
<1>6. CASE EndLeg(w) \/ EndOnStatus(w)
  <2>1. PICK row \in Leg : legs' = [legs EXCEPT ![workers[w].leg] = row]
    <3>1. CASE EndLeg(w)
      BY <3>1, EndLegDoes
    <3>2. CASE EndOnStatus(w)
      BY <3>2, EndOnStatusDoes
    <3> QED BY <1>6, <3>1, <3>2
  <2>2. workers[w].pc \in {"exit", "end"}
    BY <1>6 DEF EndLeg, EndOnStatus
  <2> QED BY <2>1, <2>2, OnlyActiveWritten
<1> QED BY <1>1, <1>2, <1>4, <1>5, <1>6 DEF Serve

\* A leg that has ended is not written again, neither by the request that is
\* still answered nor by a report that comes late, unless the two crossed.
THEOREM EndedLegsStand ==
    ASSUME InFlight <= 1
    PROVE  Spec => [][EndedStands]_vars
<1>1. JobsInv /\ LegsInv /\ [Next]_vars => [EndedStands]_vars
  <2> SUFFICES ASSUME JobsInv, LegsInv, Next PROVE EndedStands
    OBVIOUS
  <2>1. CASE UNCHANGED legs
    BY <2>1 DEF EndedStands
  <2>2. CASE \E w \in Workers : Serve(w)
    BY <2>2, ServeStands
  <2> QED BY <2>1, <2>2 DEF Next, Fail, Arrive, Report, HangUp
<1> QED BY <1>1, JobsInvHolds, LegsInvHolds, PTL DEF Spec
=============================================================================
