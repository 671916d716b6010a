----------------------------- MODULE ContactLegs -----------------------------
(***************************************************************************)
(* The legs of calls and of text threads while several workers serve the    *)
(* requests of their vendors: services/calls.py, services/sms.py, and the   *)
(* entry points, transfers and status callbacks of the adapters.            *)
(*                                                                          *)
(* A worker loads a leg and its run once and decides from what it loaded:   *)
(* the database session keeps loaded values after a commit (db.py:20).  An  *)
(* action is one query or one commit.  What the workflow engine does in     *)
(* between is reduced to the state of the run it starts from and the ones   *)
(* it can leave; module WorkflowEngine has it in full.                      *)
(***************************************************************************)
EXTENDS Naturals, Sequences, FiniteSets

CONSTANTS
    Calls,        \* Twilio calls, by their CallSid
    Threads,      \* LiveVox threads, by their thread_id
    Workers,      \* the processes that serve requests
    InFlight,     \* requests of one thread that may be served at once
    MaxContacts,  \* bound: calls and threads that are opened
    MaxRequests,  \* bound: requests made
    MaxTransfers, \* bound: transfers to another workflow in one request
    MaxFailures   \* bound: requests cut short

ASSUME ContactsAssumption == Calls \cap Threads = {} /\ "none" \notin Calls \cup Threads
ASSUME WorkersAssumption == IsFiniteSet(Workers)
ASSUME LegBoundsAssumption ==
    {InFlight, MaxContacts, MaxRequests, MaxTransfers, MaxFailures} \subseteq Nat

Ids == Calls \cup Threads

VARIABLES
    contacts,  \* how many Contact rows each call or thread has
    legs,      \* the ContactLeg rows with the state of their runs, as created
    workers,   \* the request each worker serves, with the leg as it loaded it
    \* outside
    heard,     \* the last answer the vendor got for a call or thread
    over,      \* calls whose caller has hung up
    sent,      \* calls whose completion Twilio has reported
    notified,  \* calls whose report was answered
    crossed,   \* calls whose report was served along with a request
    requests, failures

outside == <<heard, over, sent, notified, crossed, requests, failures>>
vars    == <<contacts, legs, workers, outside>>

RunStates == {"initialized", "step_in_progress", "requesting_user_input", "processing_input",
              "error", "finished"}

\* States in which a run takes the next request.
Waiting == {"requesting_user_input", "step_in_progress"}

\* What the exit paths and the callbacks leave on a leg.
Dispositions == {"none", "queue", "hangup", "pstn", "workflow", "sms", "error", "disconnect", "completed"}

Leg == [id : Ids, contact : Nat \ {0}, ended : BOOLEAN, disposition : Dispositions,
        routed : BOOLEAN, run : RunStates]

Answers == {"nothing", "prompt", "over", "null", "error"}

Worker == [pc        : {"idle", "lookup", "contact", "leg", "serve", "run", "exit", "transfer", "end", "reply"},
           kind      : {"none", "new", "continue", "sms", "status"},
           id        : Ids \cup {"none"},
           contact   : Nat,
           leg       : Nat,
           run       : RunStates,
           exit      : Dispositions,
           transfers : 0 .. MaxTransfers,
           answer    : Answers]

Idle == [pc |-> "idle", kind |-> "none", id |-> "none", contact |-> 0, leg |-> 0,
         run |-> "initialized", exit |-> "none", transfers |-> 0, answer |-> "nothing"]

ActiveLegs(id) == {l \in DOMAIN legs : legs[l].id = id /\ ~legs[l].ended}

\* The requests of id that are being served, but for reports of its status.
Served(id) == {w \in Workers : workers[w].id = id /\ workers[w].kind # "status"}

NewLeg(id, contact) ==
    [id |-> id, contact |-> contact, ended |-> FALSE, disposition |-> "none",
     routed |-> FALSE, run |-> "initialized"]

Init ==
    /\ contacts = [id \in Ids |-> 0]
    /\ legs = <<>>
    /\ workers = [w \in Workers |-> Idle]
    /\ heard = [id \in Ids |-> "nothing"]
    /\ over = {} /\ sent = {} /\ notified = {} /\ crossed = {}
    /\ requests = 0 /\ failures = 0

-----------------------------------------------------------------------------
(* The vendors.                                                            *)

\* Twilio opens a call with one request and sends the next one when the caller
\* has answered the prompt.  LiveVox posts texts as they come, or opens and
\* continues a thread by what it was last answered.
MayAsk(id, kind) ==
    IF id \in Calls
    THEN /\ id \notin over \cup sent
         /\ Served(id) = {}
         /\ \/ kind = "new" /\ heard[id] = "nothing" /\ contacts[id] = 0
            \/ kind = "continue" /\ heard[id] = "prompt"
    ELSE /\ Cardinality(Served(id)) < InFlight
         /\ \/ kind = "sms"
            \/ kind = "new" /\ heard[id] \in {"nothing", "over"}
            \/ kind = "continue" /\ heard[id] = "prompt"

Opened == {id \in Ids : heard[id] # "nothing" \/ Served(id) # {}}

Arrive(w, id, kind) ==
    /\ workers[w] = Idle
    /\ requests < MaxRequests
    /\ Cardinality(Opened \cup {id}) <= MaxContacts
    /\ MayAsk(id, kind)
    /\ workers' = [workers EXCEPT ![w] = [Idle EXCEPT
                      !.pc = IF kind = "new" THEN "contact" ELSE "lookup",
                      !.kind = kind, !.id = id]]
    /\ requests' = requests + 1
    /\ UNCHANGED <<contacts, legs, heard, over, sent, notified, crossed, failures>>

HangUp(c) ==
    /\ c \notin over
    /\ heard[c] # "nothing" \/ Served(c) # {}
    /\ over' = over \cup {c}
    /\ UNCHANGED <<contacts, legs, workers, heard, sent, notified, crossed, requests, failures>>

\* A call is complete when the caller hangs up, when it is told to end or goes
\* to its queue, or when its request failed.
Report(w, c) ==
    /\ workers[w] = Idle
    /\ c \notin sent
    /\ c \in over \/ (heard[c] \in {"over", "error"} /\ Served(c) = {})
    /\ workers' = [workers EXCEPT ![w] = [Idle EXCEPT !.pc = "lookup", !.kind = "status", !.id = c]]
    /\ sent' = sent \cup {c}
    /\ crossed' = IF Served(c) = {} THEN crossed ELSE crossed \cup {c}
    /\ UNCHANGED <<contacts, legs, heard, over, notified, requests, failures>>

-----------------------------------------------------------------------------
(* Finding the leg of a request, or creating it.                           *)

Goes(w, f) == workers' = [workers EXCEPT ![w] = f]

AnswerWith(w, a) == Goes(w, [workers[w] EXCEPT !.pc = "reply", !.answer = a])

\* The query has no order, so that any active leg may be the first.
LookUp(w) ==
    /\ workers[w].pc = "lookup"
    /\ \E l \in ActiveLegs(workers[w].id) :
         Goes(w, [workers[w] EXCEPT !.pc = IF workers[w].kind = "status" THEN "end" ELSE "serve",
                                    !.leg = l, !.run = legs[l].run])
    /\ UNCHANGED <<contacts, legs, outside>>

\* A text that finds no leg opens one; to continue without one is an error.
NotFound(w) ==
    /\ workers[w].pc = "lookup"
    /\ ActiveLegs(workers[w].id) = {}
    /\ \/ workers[w].kind = "sms" /\ Goes(w, [workers[w] EXCEPT !.pc = "contact"])
       \/ workers[w].kind = "continue" /\ AnswerWith(w, "error")
       \/ workers[w].kind = "status" /\ AnswerWith(w, "over")
    /\ UNCHANGED <<contacts, legs, outside>>

\* In an emergency, and on a number kept for administrators, a caller who is not
\* one is told to hang up and nothing is written; a number without a routing is
\* an error.
TurnAway(w) ==
    /\ workers[w].pc = "contact" /\ workers[w].id \in Calls
    /\ \E a \in {"over", "error"} : AnswerWith(w, a)
    /\ UNCHANGED <<contacts, legs, outside>>

\* Slip: the contact is added and left to be committed with its leg.
CreateContactLater(w) ==
    /\ workers[w].pc = "contact"
    /\ Goes(w, [workers[w] EXCEPT !.pc = "leg", !.contact = contacts[workers[w].id] + 1])
    /\ UNCHANGED <<contacts, legs, outside>>

CreateContact(w) ==
    /\ workers[w].pc = "contact"
    /\ contacts' = [contacts EXCEPT ![workers[w].id] = @ + 1]
    /\ Goes(w, [workers[w] EXCEPT !.pc = "leg", !.contact = contacts[workers[w].id] + 1])
    /\ UNCHANGED <<legs, outside>>

\* A text to a number without a routing: the contact is there when the workflow of
\* the routing is asked for.
LegRaises(w) ==
    /\ workers[w].pc = "leg" /\ workers[w].id \notin Calls
    /\ AnswerWith(w, "error")
    /\ UNCHANGED <<contacts, legs, outside>>

CreateLeg(w) ==
    /\ workers[w].pc = "leg"
    /\ legs' = Append(legs, NewLeg(workers[w].id, workers[w].contact))
    /\ Goes(w, [workers[w] EXCEPT !.pc = "serve", !.leg = Len(legs) + 1])
    /\ UNCHANGED <<contacts, outside>>

-----------------------------------------------------------------------------
(* Serving it: the engine, then the exit path it comes to.                 *)

Writes(w, s) == legs' = [legs EXCEPT ![workers[w].leg].run = s]

Begin(w) ==
    /\ workers[w].pc = "serve"
    /\ \E s \in CASE workers[w].run = "requesting_user_input" -> {"processing_input", "requesting_user_input"}
                  [] workers[w].run \in {"initialized", "step_in_progress"} -> {"step_in_progress"}
                  [] OTHER -> {} :
         /\ Writes(w, s)
         /\ Goes(w, [workers[w] EXCEPT !.pc = "run", !.run = s])
    /\ UNCHANGED <<contacts, outside>>

RejectRun(w) ==
    /\ workers[w].pc = "serve"
    /\ workers[w].run \in {"processing_input", "error", "finished"}
    /\ AnswerWith(w, "error")
    /\ UNCHANGED <<contacts, legs, outside>>

Ask(w) ==
    /\ workers[w].pc = "run"
    /\ \E s \in Waiting :
         /\ Writes(w, s)
         /\ Goes(w, [workers[w] EXCEPT !.pc = "reply", !.answer = "prompt", !.run = s])
    /\ UNCHANGED <<contacts, outside>>

Leave(w) ==
    /\ workers[w].pc = "run"
    /\ \E e \in {"queue", "hangup", "pstn", "workflow"} \cup (IF workers[w].id \in Threads THEN {"sms"} ELSE {}) :
         /\ e = "workflow" => workers[w].transfers < MaxTransfers
         /\ Goes(w, [workers[w] EXCEPT !.pc = "exit", !.exit = e, !.run = "finished"])
    /\ Writes(w, "finished")
    /\ UNCHANGED <<contacts, outside>>

\* The error of the run is written with the end of the leg.  A call leaves for
\* its queue, a thread with a message like any other.
GiveUp(w) ==
    /\ workers[w].pc = "run"
    /\ Goes(w, [workers[w] EXCEPT !.pc = "exit", !.run = "error",
                                  !.exit = IF workers[w].id \in Calls THEN "error" ELSE "sms"])
    /\ UNCHANGED <<contacts, legs, outside>>

\* A call is routed to a queue unless it has none or the queue has no routing.
\* LiveVox threads know no exit but to a message or to another workflow, and
\* for any other the vendor is answered with nothing.
AnswerOnExit(id, e) ==
    IF id \in Calls \/ e = "sms" THEN "over" ELSE "null"

Ended(row, disposition, run) ==
    [row EXCEPT !.ended = TRUE, !.disposition = disposition, !.run = IF run = "error" THEN run ELSE @]

\* Slip: a transfer leaves the leg it comes from as it is.
EndedRowUnlessTransferred(row, exit, routed, run) ==
    IF exit = "workflow" THEN row ELSE Ended(row, exit, run)

\* Slip: only a leg that goes to a queue, to a message or to a workflow is ended.
EndedRowUnlessHungUp(row, exit, routed, run) ==
    IF exit \in {"hangup", "pstn"} THEN row ELSE Ended(row, exit, run)

EndedRow(row, exit, routed, run) == [Ended(row, exit, run) EXCEPT !.routed = routed]

EndLeg(w) ==
    /\ workers[w].pc = "exit"
    /\ \E routed \in (IF workers[w].id \in Calls /\ workers[w].exit \in {"queue", "error"}
                      THEN BOOLEAN ELSE {FALSE}) :
         legs' = [legs EXCEPT ![workers[w].leg] = EndedRow(@, workers[w].exit, routed, workers[w].run)]
    /\ Goes(w, [workers[w] EXCEPT
           !.pc = IF workers[w].exit = "workflow" THEN "transfer" ELSE "reply",
           !.answer = AnswerOnExit(workers[w].id, workers[w].exit)])
    /\ UNCHANGED <<contacts, outside>>

\* The leg of the other workflow is served in the same request.
Transfer(w) ==
    /\ workers[w].pc = "transfer"
    /\ legs' = Append(legs, NewLeg(workers[w].id, legs[workers[w].leg].contact))
    /\ Goes(w, [workers[w] EXCEPT !.pc = "serve", !.leg = Len(legs) + 1, !.run = "initialized",
                                  !.exit = "none", !.transfers = @ + 1, !.answer = "nothing"])
    /\ UNCHANGED <<contacts, outside>>

\* Slip: the leg of a run that has finished is left to the request that finished it.
CompletedRowUnlessFinished(row, run) == IF run = "finished" THEN row ELSE Ended(row, "disconnect", run)

\* Slip: every call reported complete counts as cut off by its caller.
CompletedRowAsDisconnect(row, run) == Ended(row, "disconnect", run)

\* A leg is cut off by the end of its call unless its run is over.
CompletedRow(row, run) == Ended(row, IF run # "finished" THEN "disconnect" ELSE "completed", run)

EndOnStatus(w) ==
    /\ workers[w].pc = "end"
    /\ legs' = [legs EXCEPT ![workers[w].leg] = CompletedRow(@, workers[w].run)]
    /\ AnswerWith(w, "over")
    /\ UNCHANGED <<contacts, outside>>

-----------------------------------------------------------------------------
(* The end of a request.                                                   *)

Reply(w) ==
    /\ workers[w].pc = "reply"
    /\ Goes(w, Idle)
    /\ IF workers[w].kind = "status"
       THEN /\ notified' = notified \cup {workers[w].id}
            /\ UNCHANGED heard
       ELSE /\ heard' = [heard EXCEPT ![workers[w].id] = workers[w].answer]
            /\ UNCHANGED notified
    /\ UNCHANGED <<contacts, legs, over, sent, crossed, requests, failures>>

\* The worker is killed after sixty seconds, or something in it fails.
Fail(w) ==
    /\ workers[w] # Idle
    /\ failures < MaxFailures
    /\ failures' = failures + 1
    /\ Goes(w, Idle)
    /\ heard' = IF workers[w].kind = "status" THEN heard
                ELSE [heard EXCEPT ![workers[w].id] = "error"]
    /\ UNCHANGED <<contacts, legs, over, sent, notified, crossed, requests>>

Serve(w) ==
    \/ LookUp(w) \/ NotFound(w) \/ TurnAway(w) \/ CreateContact(w)
    \/ LegRaises(w) \/ CreateLeg(w)
    \/ Begin(w) \/ RejectRun(w) \/ Ask(w) \/ Leave(w) \/ GiveUp(w)
    \/ EndLeg(w) \/ Transfer(w) \/ EndOnStatus(w) \/ Reply(w)

Next ==
    \/ \E w \in Workers : Serve(w) \/ Fail(w)
    \/ \E w \in Workers, id \in Ids, kind \in {"new", "continue", "sms"} : Arrive(w, id, kind)
    \/ \E w \in Workers, c \in Calls : Report(w, c)
    \/ \E c \in Calls : HangUp(c)

Spec == Init /\ [][Next]_vars

-----------------------------------------------------------------------------
(* What is to hold.                                                        *)

\* The rows and the requests have the shape the models give them.
LegsTypeOK ==
    /\ contacts \in [Ids -> Nat]
    /\ legs \in Seq(Leg)
    /\ \A l \in DOMAIN legs : legs[l].contact \in 1 .. contacts[legs[l].id]
    /\ workers \in [Workers -> Worker]
    /\ \A w \in Workers : workers[w].leg \in 0 .. Len(legs)
    /\ heard \in [Ids -> Answers]
    /\ notified \subseteq sent /\ crossed \subseteq sent /\ sent \cup over \subseteq Calls

\* While the requests of a thread come one at a time, a call or a thread has at
\* most one active leg: the lookups of calls.py:24 and sms.py:18 take the first
\* one there is, whichever it is.  It is kept through transfers, through
\* reports that come in between, and when a request is cut short.
OneActiveLeg == \A id \in Ids : Cardinality(ActiveLegs(id)) <= 1

\* Between requests the vendor and the database agree: a contact that was
\* prompted has a leg whose run takes the answer, and one that was told it is
\* over, or whose exit LiveVox was answered nothing for, has none.
VendorAgrees ==
    \A id \in Ids :
        {w \in Workers : workers[w].id = id} = {} /\ id \notin sent =>
            /\ heard[id] = "prompt" => \E l \in ActiveLegs(id) : legs[l].run \in Waiting
            /\ heard[id] \in {"over", "null"} => ActiveLegs(id) = {}

\* A report of completion that no request of the call crosses leaves nothing of
\* the call active, whatever was cut short before (twilio.py:319-337).
ReportEndsCall == \A c \in notified \ crossed : ActiveLegs(c) = {}

\* The disposition of a leg tells how its run ended, unless a report and a
\* request of its call crossed: the exits of the workflow stand on runs that
\* finished, an error on one in error, a message on either, a disconnect on one
\* that was cut off; and only a leg that left for a queue has a routing.
DispositionTells ==
    \A l \in DOMAIN legs : legs[l].id \notin crossed =>
        /\ legs[l].disposition \in {"queue", "hangup", "pstn", "workflow", "completed"} =>
               legs[l].run = "finished"
        /\ legs[l].disposition = "sms" => legs[l].run \in {"finished", "error"}
        /\ legs[l].disposition = "error" => legs[l].run = "error"
        /\ legs[l].disposition = "disconnect" => legs[l].run # "finished"
        /\ legs[l].routed => legs[l].ended /\ legs[l].disposition \in {"queue", "error"}
=============================================================================
