--------------------------- MODULE WorkflowEngine ---------------------------
(***************************************************************************)
(* One contact leg and its workflow run, driven by the requests of the      *)
(* telephony or SMS vendor: engines/workflows.py, engines/steps.py, the     *)
(* state machine of models/workflows.py, process_step_result of             *)
(* services/workflows, and the loop of the adapters that runs steps until   *)
(* the contact has to answer or leaves (adapters/twilio.py,                 *)
(* adapters/livevox.py).                                                    *)
(*                                                                          *)
(* The requests of a leg come one at a time here.  An action is what one    *)
(* database commit makes durable, so that a request can be cut short        *)
(* between any two of them (a worker killed, a statement that fails, an     *)
(* exception that no handler catches) and leaves the rows as the last       *)
(* commit wrote them.                                                       *)
(***************************************************************************)
EXTENDS StepTree, FiniteSets

CONSTANTS
    MaxRequests,  \* bound: requests the vendor makes for the leg
    MaxFailures   \* bound: requests cut short

ASSUME BoundsAssumption == MaxRequests \in Nat /\ MaxFailures \in Nat

VARIABLES
    \* rows
    state,     \* WorkflowRun.state
    branch,    \* WorkflowRun.current_step_branch_name
    wsrs,      \* the WorkflowStepRun rows, at the position of their run_order
    stepRuns,  \* the StepRun rows, numbered as they are created
    leg,       \* "active" while ContactLeg.end_time is null, then "ended"
    \* the request being served
    pc,        \* where it is between two commits
    result,    \* what the step that was just run returned
    reply,     \* what will be sent back: [kind, step_run]
    applied,   \* how many times it has handed its input to a step
    \* outside
    heard,     \* the step run whose prompt the contact heard last, 0 for none
    requests,  \* requests made
    failures   \* requests cut short

run     == <<state, branch, wsrs, stepRuns>>
request == <<pc, result, reply, applied>>
outside == <<heard, requests, failures>>
vars    == <<run, leg, request, outside>>

WorkflowStates == {"uninitialized", "initialized", "step_in_progress", "requesting_user_input",
                   "processing_input", "error", "finished"}

StepStates == {"none", "success", "replay", "exit_queue", "error"}

StepRun == [name : StepNames, branch : BranchNames, run_count : Nat]

WorkflowStepRun == [step_run          : Nat \ {0},
                    step_state        : StepStates,
                    branched_on_error : BranchNames \cup {NoBranch}]

Reply == [kind : {"none", "prompt", "exit", "failed"}, step_run : Nat]

NoReply   == [kind |-> "none", step_run |-> 0]
Prompt(r) == [kind |-> "prompt", step_run |-> r]
Leave     == [kind |-> "exit", step_run |-> 0]
Failed    == [kind |-> "failed", step_run |-> 0]

TypeOK ==
    /\ state \in WorkflowStates
    /\ branch \in BranchNames
    /\ wsrs \in Seq(WorkflowStepRun)
    /\ stepRuns \in Seq(StepRun)
    /\ leg \in {"active", "ended"}
    /\ pc \in {"idle", "initialize", "prepare", "run", "handle", "exit", "respond"}
    /\ result \in Result
    /\ reply \in Reply
    /\ applied \in Nat
    /\ heard \in Nat
    /\ requests \in Nat
    /\ failures \in Nat

-----------------------------------------------------------------------------
(* The rows of the run *)

StepRunAt(i) == stepRuns[wsrs[i].step_run]

\* The row with the highest run_order.
CurrentId == wsrs[Len(wsrs)].step_run
Current   == stepRuns[CurrentId]

\* The step object is built from the template on the branch the run is on.
CurrentStep == Template(branch, Current.name)

\* Slip: the step run is created before the run is switched to the branch.
FreshStepRunOnOldBranch(b, n) == [name |-> n, branch |-> branch, run_count |-> 0]

FreshStepRun(b, n) == [name |-> n, branch |-> b, run_count |-> 0]

Wsr(r) == [step_run |-> r, step_state |-> "none", branched_on_error |-> NoBranch]

\* The state the step run has just been given is attached to the current row.
Recorded == [wsrs EXCEPT ![Len(wsrs)].step_state = IF result.saved THEN result.kind ELSE "none"]

BranchedOnError(b) == [Recorded EXCEPT ![Len(wsrs)].branched_on_error = b]

\* Visits of the branch, and of one of its steps, so far.
VisitsOf(b)        == {i \in DOMAIN wsrs : StepRunAt(i).branch = b}
StepRunsOf(b, n)   == {wsrs[i].step_run : i \in {j \in VisitsOf(b) : StepRunAt(j).name = n}}
LastVisit(b)       == CHOOSE i \in VisitsOf(b) : \A j \in i + 1 .. Len(wsrs) : StepRunAt(j).branch # b

-----------------------------------------------------------------------------
(* process_step_result: the step after the current one, on a branch to       *)
(* which the run may just have been switched                                 *)

\* Slip: a branch always goes on where it was left.
StartsOverOnce(b) == VisitsOf(b) = {}

StartsOver(b) ==
    \/ \A i \in DOMAIN wsrs : StepRunAt(i).branch # b
    \/ Current.branch # b /\ Tree[b].reset_on_switch

\* Slip: the next step is looked for after the step that follows.
NextIndexSkips(b) ==
    IF StartsOver(b) \/ ~HasStep(b, StepRunAt(LastVisit(b)).name)
        THEN 1
        ELSE IndexOf(b, StepRunAt(LastVisit(b)).name) + 2

NextIndex(b) ==
    IF StartsOver(b) \/ ~HasStep(b, StepRunAt(LastVisit(b)).name)
        THEN 1
        ELSE IndexOf(b, StepRunAt(LastVisit(b)).name) + 1

\* Neither an unknown branch nor running off its end is handled.
CanAdvance(b) == b \in DOMAIN Tree /\ NextIndex(b) <= Len(Tree[b].steps)

NextStep(b) == Tree[b].steps[NextIndex(b)]

\* The template that decides whether the run leaves is the one of the branch
\* the current step run was created on.
ExitOfCurrent == Template(Current.branch, Current.name).exit

-----------------------------------------------------------------------------
(* The transitions of the run's state machine *)

Transition(sources, target) == state \in sources /\ state' = target

\* Appends a row for a step that gets a step run of its own, after rows.
AppendFresh(rows, b, n) ==
    /\ stepRuns' = Append(stepRuns, FreshStepRun(b, n))
    /\ wsrs' = Append(rows, Wsr(Len(stepRuns) + 1))

\* Appends a row that runs an existing step run again.
AppendAgain(rows, r) ==
    /\ stepRuns' = stepRuns
    /\ wsrs' = Append(rows, Wsr(r))

InitializeFirstStep(n) == Transition({"uninitialized"}, "initialized") /\ AppendFresh(wsrs, branch, n)

AdvanceStep(rows, b, n) ==
    /\ Transition({"initialized", "step_in_progress", "processing_input"}, "step_in_progress")
    /\ AppendFresh(rows, b, n)

\* Slip: the replay is not recorded on the row it was the result of.
ReplayStepUnrecorded(rows, r) ==
    /\ Transition({"processing_input"}, "requesting_user_input")
    /\ AppendAgain(wsrs, r)

ReplayStep(rows, r) ==
    /\ Transition({"processing_input"}, "requesting_user_input")
    /\ AppendAgain(rows, r)

\* Only the names are compared when it is decided whether the step is new.
RequestUserInput(rows, b, n) ==
    /\ Transition({"step_in_progress", "processing_input"}, "requesting_user_input")
    /\ IF Current.name # n
           THEN AppendFresh(rows, b, n)
           ELSE wsrs' = rows /\ UNCHANGED stepRuns

\* Slip: a state the run does not have.
ProcessingUserInputMisspelt == Transition({"requesting_user_input"}, "processing_user_input")

ProcessingUserInput == Transition({"requesting_user_input"}, "processing_input")

Finish == Transition({"step_in_progress", "processing_input"}, "finished")

\* Slip: a retried step is always taken up as one that does not ask.
RegisterErrorThenProceeds(target) ==
    Transition({"step_in_progress", "processing_input"},
               IF target = "error" THEN "error" ELSE "step_in_progress")

\* register_error is followed, before any commit, by retry_input_step or
\* retry_step, by unregister_error, or by the end of the leg.
RegisterErrorThen(target) == Transition({"step_in_progress", "processing_input"}, target)

-----------------------------------------------------------------------------
Init ==
    /\ state = "uninitialized"
    /\ branch = Root
    /\ wsrs = <<>>
    /\ stepRuns = <<>>
    /\ leg = "active"
    /\ pc = "idle"
    /\ result = Success
    /\ reply = NoReply
    /\ applied = 0
    /\ heard = 0
    /\ requests = 0
    /\ failures = 0

\* A new call or message, or a continuation of it with the contact's input.
Request ==
    /\ pc = "idle"
    /\ leg = "active"
    /\ requests < MaxRequests
    /\ pc' = "initialize"
    /\ requests' = requests + 1
    /\ reply' = NoReply
    /\ applied' = 0
    /\ UNCHANGED <<run, leg, result, heard, failures>>

InitializeFirst ==
    /\ pc = "initialize"
    /\ wsrs = <<>>
    /\ InitializeFirstStep(Tree[Root].steps[1].name)
    /\ pc' = "prepare"
    /\ UNCHANGED <<branch, leg, result, reply, applied, outside>>

\* Every step of the loop makes a new engine from the rows.
InitializeCurrent ==
    /\ pc = "initialize"
    /\ wsrs # <<>>
    /\ HasStep(branch, Current.name)
    /\ pc' = "prepare"
    /\ UNCHANGED <<run, leg, result, reply, applied, outside>>

\* There is no template to build the current step from.
InitializeRaises ==
    /\ pc = "initialize"
    /\ wsrs # <<>>
    /\ ~HasStep(branch, Current.name)
    /\ pc' = "respond"
    /\ reply' = Failed
    /\ UNCHANGED <<run, leg, result, applied, outside>>

Start ==
    /\ pc = "prepare"
    /\ Transition({"initialized"}, "step_in_progress")
    /\ UNCHANGED <<branch, wsrs, stepRuns, leg, request, outside>>

\* Slip: only the runs that are over are refused.
RejectStateOver ==
    /\ pc = "prepare"
    /\ state \in {"error", "finished"}
    /\ pc' = "respond"
    /\ reply' = Failed
    /\ UNCHANGED <<run, leg, result, applied, outside>>

\* The engine is in its error state for any other state of the run, and
\* raises an exception that the adapters do not catch.
RejectState ==
    /\ pc = "prepare"
    /\ state \notin {"initialized", "step_in_progress", "requesting_user_input"}
    /\ pc' = "respond"
    /\ reply' = Failed
    /\ UNCHANGED <<run, leg, result, applied, outside>>

AcceptInput ==
    /\ pc = "prepare"
    /\ IsInput(CurrentStep)
    /\ ProcessingUserInput
    /\ applied' = applied + 1
    /\ pc' = "run"
    /\ UNCHANGED <<branch, wsrs, stepRuns, leg, result, reply, outside>>

\* Slip: having marked the step as asking, the request goes on with its input.
AskForInputAndTakeIt ==
    /\ pc = "prepare"
    /\ IsInput(CurrentStep)
    /\ state = "step_in_progress"
    /\ RequestUserInput(wsrs, branch, Current.name)
    /\ UNCHANGED <<branch, leg, request, outside>>

\* A cold start: the step has not asked yet, so the input of the request, if
\* it has one, is dropped and the step asks.
AskForInput ==
    /\ pc = "prepare"
    /\ IsInput(CurrentStep)
    /\ state = "step_in_progress"
    /\ RequestUserInput(wsrs, branch, Current.name)
    /\ reply' = Prompt(CurrentId)
    /\ pc' = "respond"
    /\ UNCHANGED <<branch, leg, result, applied, outside>>

\* Slip: a run that is over is not told from one that is under way.
PrepareOtherStepAlways ==
    /\ pc = "prepare"
    /\ ~IsInput(CurrentStep)
    /\ state \in {"step_in_progress", "requesting_user_input", "finished"}
    /\ pc' = "run"
    /\ UNCHANGED <<run, leg, result, reply, applied, outside>>

PrepareOtherStep ==
    /\ pc = "prepare"
    /\ ~IsInput(CurrentStep)
    /\ state \in {"step_in_progress", "requesting_user_input"}
    /\ pc' = "run"
    /\ UNCHANGED <<run, leg, result, reply, applied, outside>>

\* The step saves a new state for its step run; one kind of error does not.
RunStep ==
    /\ pc = "run"
    /\ \E r \in Outcomes(CurrentStep) :
        /\ result' = r
        /\ stepRuns' = [stepRuns EXCEPT ![CurrentId].run_count = IF r.saved THEN @ + 1 ELSE @]
    /\ pc' = "handle"
    /\ UNCHANGED <<state, branch, wsrs, leg, reply, applied, outside>>

HandlePressZero ==
    /\ pc = "handle"
    /\ result.kind = "exit_queue"
    /\ Finish
    /\ wsrs' = Recorded
    /\ pc' = "exit"
    /\ UNCHANGED <<branch, stepRuns, leg, result, reply, applied, outside>>

HandleReplay ==
    /\ pc = "handle"
    /\ result.kind = "replay"
    /\ ReplayStep(Recorded, CurrentId)
    /\ reply' = Prompt(CurrentId)
    /\ pc' = "respond"
    /\ UNCHANGED <<branch, leg, result, applied, outside>>

BranchAfterSuccess == IF IsBranch(CurrentStep) THEN result.branch ELSE branch

HandleExit ==
    /\ pc = "handle"
    /\ result.kind = "success"
    /\ ExitOfCurrent # NoExit
    /\ Finish
    /\ branch' = BranchAfterSuccess
    /\ wsrs' = Recorded
    /\ pc' = "exit"
    /\ UNCHANGED <<stepRuns, leg, result, reply, applied, outside>>

\* The adapter answers when the next step needs the contact and otherwise
\* runs the next step.
ContinueWith(next) ==
    IF IsInput(next)
        THEN /\ pc' = "respond"
             /\ reply' = Prompt(wsrs'[Len(wsrs')].step_run)
        ELSE /\ pc' = "initialize"
             /\ UNCHANGED reply

HandleNextInput ==
    /\ pc = "handle"
    /\ result.kind = "success"
    /\ ExitOfCurrent = NoExit
    /\ branch' = BranchAfterSuccess
    /\ CanAdvance(branch')
    /\ \E next \in {NextStep(branch')} :
           /\ IsInput(next)
           /\ RequestUserInput(Recorded, branch', next.name)
           /\ ContinueWith(next)
    /\ UNCHANGED <<leg, result, applied, outside>>

HandleNextStep ==
    /\ pc = "handle"
    /\ result.kind = "success"
    /\ ExitOfCurrent = NoExit
    /\ branch' = BranchAfterSuccess
    /\ CanAdvance(branch')
    /\ \E next \in {NextStep(branch')} :
           /\ ~IsInput(next)
           /\ AdvanceStep(Recorded, branch', next.name)
           /\ ContinueWith(next)
    /\ UNCHANGED <<leg, result, applied, outside>>

\* The step runs whose run_count is held against a retry count: the step's
\* own, or those of the step of this branch it sends the contact back to.
\* The rows come in no order, so any of them may be the one that is taken.
RetryTargets ==
    IF CurrentStep.reset_to = NoStep
        THEN {CurrentId}
        ELSE StepRunsOf(branch, CurrentStep.reset_to)

RetryStep == IF CurrentStep.reset_to = NoStep THEN Current.name ELSE CurrentStep.reset_to

\* Slip: off by one.
RetriesLeftOneMore(r) == stepRuns[r].run_count <= RetryCountOf(branch, RetryStep)

RetriesLeft(r) == stepRuns[r].run_count < RetryCountOf(branch, RetryStep)

HandleRetry ==
    /\ pc = "handle"
    /\ result.kind = "error"
    /\ result.retryable
    /\ HasStep(branch, RetryStep)
    /\ \E r \in RetryTargets :
        /\ RetriesLeft(r)
        /\ AppendAgain(Recorded, r)
    /\ LET step == Template(branch, RetryStep)
       IN  /\ RegisterErrorThen(IF IsInput(step) THEN "requesting_user_input" ELSE "step_in_progress")
           /\ ContinueWith(step)
    /\ UNCHANGED <<branch, leg, result, applied, outside>>

\* The error is fatal, or its retries are used up.
OutOfRetries ==
    /\ result.kind = "error"
    /\ result.retryable => \E r \in RetryTargets : ~RetriesLeft(r)

\* The first step of the other branch is advanced to whatever its type.
HandleErrorSwitch ==
    /\ pc = "handle"
    /\ OutOfRetries
    /\ CurrentStep.switch_to # NoBranch
    /\ ExitOfCurrent = NoExit
    /\ CanAdvance(CurrentStep.switch_to)
    /\ LET b    == CurrentStep.switch_to
           next == NextStep(b)
       IN  /\ RegisterErrorThen("step_in_progress")
           /\ AppendFresh(BranchedOnError(b), b, next.name)
           /\ ContinueWith(next)
           /\ branch' = b
    /\ UNCHANGED <<leg, result, applied, outside>>

\* The adapter catches the exception and transfers the contact, and the
\* commit that ends the leg also writes the error of the run.
HandleUnrecoverable ==
    /\ pc = "handle"
    /\ OutOfRetries
    /\ CurrentStep.switch_to = NoBranch
    /\ RegisterErrorThen("error")
    /\ wsrs' = Recorded
    /\ leg' = "ended"
    /\ reply' = Leave
    /\ pc' = "respond"
    /\ UNCHANGED <<branch, stepRuns, result, applied, outside>>

\* Where the tree leads nowhere the handler raises, and nothing of it is kept.
DeadEnd ==
    \/ /\ result.kind = "success"
       /\ ExitOfCurrent = NoExit
       /\ ~CanAdvance(BranchAfterSuccess)
    \/ /\ result.kind = "error"
       /\ result.retryable
       /\ \/ RetryTargets = {}
          \/ ~HasStep(branch, RetryStep) /\ \E r \in RetryTargets : RetriesLeft(r)
    \/ /\ OutOfRetries
       /\ CurrentStep.switch_to # NoBranch
       /\ ExitOfCurrent # NoExit \/ ~CanAdvance(CurrentStep.switch_to)

HandleDeadEnd ==
    /\ pc = "handle"
    /\ DeadEnd
    /\ reply' = Failed
    /\ pc' = "respond"
    /\ UNCHANGED <<run, leg, result, applied, outside>>

EndLeg ==
    /\ pc = "exit"
    /\ leg' = "ended"
    /\ reply' = Leave
    /\ pc' = "respond"
    /\ UNCHANGED <<run, result, applied, outside>>

Respond ==
    /\ pc = "respond"
    /\ pc' = "idle"
    /\ heard' = IF reply.kind = "prompt" THEN reply.step_run ELSE heard
    /\ UNCHANGED <<run, leg, result, reply, applied, requests, failures>>

\* The request is cut short after its last commit, or its answer is lost.
Fail ==
    /\ pc # "idle"
    /\ failures < MaxFailures
    /\ pc' = "idle"
    /\ reply' = Failed
    /\ failures' = failures + 1
    /\ UNCHANGED <<run, leg, result, applied, heard, requests>>

Serve ==
    \/ InitializeFirst \/ InitializeCurrent \/ InitializeRaises
    \/ Start \/ RejectState \/ AcceptInput \/ AskForInput \/ PrepareOtherStep
    \/ RunStep
    \/ HandlePressZero \/ HandleReplay \/ HandleExit \/ HandleNextInput \/ HandleNextStep
    \/ HandleRetry \/ HandleErrorSwitch \/ HandleUnrecoverable \/ HandleDeadEnd
    \/ EndLeg \/ Respond

Next == Request \/ Serve \/ Fail

Spec == Init /\ [][Next]_vars

\* A worker goes on with the request it serves; the vendor need not call.
FairSpec == Spec /\ WF_vars(Serve)

-----------------------------------------------------------------------------
(* The inductive invariant *)

\* Each row has its step run, and each step run a step of the tree.
RowsResolve ==
    /\ \A i \in DOMAIN wsrs : wsrs[i].step_run \in DOMAIN stepRuns
    /\ \A r \in DOMAIN stepRuns : HasStep(stepRuns[r].branch, stepRuns[r].name)

\* Only a run that was never served has no rows; it has no step runs either and
\* is on the first branch.
Unstarted ==
    /\ wsrs = <<>> <=> state = "uninitialized"
    /\ wsrs = <<>> => branch = Root /\ stepRuns = <<>>

\* Until a run finishes, its branch has the step of its current step run.
OnTree == state # "finished" =>
              /\ branch \in DOMAIN Tree
              /\ wsrs # <<>> => HasStep(branch, Current.name)

\* A step is being prepared, run or handled only if it can be built, and is run
\* only for a run that is under way.
AtStep ==
    /\ pc \in {"prepare", "run", "handle"} => wsrs # <<>> /\ HasStep(branch, Current.name)
    /\ pc \in {"run", "handle"} =>
           state \in {"step_in_progress", "requesting_user_input", "processing_input"}
    /\ pc = "handle" => result \in Outcomes(CurrentStep)

EngineInv == TypeOK /\ RowsResolve /\ Unstarted /\ OnTree /\ AtStep

\* On a tree with well-chosen names, the current step run of a run that has not
\* finished was created on the branch the run is on.
OnBranch == wsrs # <<>> /\ state # "finished" => Current.branch = branch

\* A branch is left only by a step that succeeded or that left it on its error.
Done(i) == wsrs[i].step_state = "success" \/ wsrs[i].branched_on_error # NoBranch

LeftWhenDone ==
    \A i \in DOMAIN wsrs :
        i < Len(wsrs) /\ StepRunAt(i).branch # StepRunAt(i + 1).branch => Done(i)

-----------------------------------------------------------------------------
(* Properties *)

\* A run that is not over points at a step of its tree: the branch it is on has
\* a step with the name of the current step run, so that every new engine can
\* build the current step from the template, and so has the branch that step
\* run was created on, where the next step is looked for.
CurrentStepResolves ==
    wsrs # <<>> /\ state # "finished" =>
        /\ HasStep(branch, Current.name)
        /\ HasStep(Current.branch, Current.name)

\* No step of a branch is reached around the step before it: each row stands
\* for the first step of a branch, or an earlier row has the preceding step of
\* that branch either succeeding or leaving the branch on its error.  (A caller
\* cannot get past the confirmation of an identity by retries, resets, switches
\* of branch or requests that are cut short.)
NoStepSkipped ==
    \A i \in DOMAIN wsrs :
        LET here == StepRunAt(i) IN
        \/ IndexOf(here.branch, here.name) = 1
        \/ \E j \in 1 .. i - 1 :
              /\ StepRunAt(j).branch = here.branch
              /\ IndexOf(here.branch, StepRunAt(j).name) = IndexOf(here.branch, here.name) - 1
              /\ Done(j)

\* A step run is tried no more often than its retry count allows (once, when
\* that is 0), counting neither the tries that asked to hear it again nor
\* whether the step itself or a later one sent the contact back to it.
RetryBudget ==
    \A r \in DOMAIN stepRuns :
        LET allowed == RetryCountOf(stepRuns[r].branch, stepRuns[r].name)
            tries   == Cardinality({i \in DOMAIN wsrs :
                                       wsrs[i].step_run = r /\ wsrs[i].step_state # "replay"})
        IN  tries <= IF allowed = 0 THEN 1 ELSE allowed

\* The history agrees with the step runs: no step run has more results attached
\* to its rows than it has states, and as long as no request was cut short
\* every state it has is attached to a row of its own.
HistoryComplete ==
    \A r \in DOMAIN stepRuns :
        LET attached == Cardinality({i \in DOMAIN wsrs :
                                        wsrs[i].step_run = r /\ wsrs[i].step_state # "none"})
        IN  /\ attached <= stepRuns[r].run_count
            /\ failures = 0 /\ pc # "handle" => attached = stepRuns[r].run_count

\* Between two requests of a contact that has not left, the run waits for the
\* answer to the prompt the contact heard last: the input of the next request
\* will be taken for that answer.
WaitsForAnswer ==
    pc = "idle" /\ leg = "active" /\ requests > 0 /\ failures = 0 =>
        /\ state = "requesting_user_input"
        /\ heard = CurrentId

\* The input a step is run with is the answer to that step's own prompt, and
\* no request has its input taken twice.
AnswersWhatWasAsked ==
    pc = "run" /\ IsInput(CurrentStep) /\ failures = 0 =>
        /\ heard = CurrentId
        /\ applied = 1

\* On a well-formed tree no handler runs off the end of a branch or looks for a
\* branch or a step that is not there.
NoDeadEnd == ~(pc = "handle" /\ DeadEnd)

\* A run that has finished takes no further step, whatever requests still come
\* for a leg that was not ended with it.
FinishedIsFinal == [][state = "finished" => UNCHANGED run]_vars

\* Every request is answered.
RequestsAnswered == pc # "idle" ~> pc = "idle"
=============================================================================
