# The IVR gateway, modelled, checked and proved

This directory holds the TLA+ modules of the gateway that answers calls and
text messages by walking customers through step trees. It documents what was
modelled from which code, what TLC checks on small instances, and what TLAPS
proves for all of them. Paths are relative to `src/`; `PROJECT.json` maps every
definition to the lines it stands for and lists the hazards each property is
about.

- [1. The system](#1-the-system)
- [2. Modules](#2-modules)
- [3. The engine](#3-the-engine)
- [4. The trees](#4-the-trees)
- [5. The legs](#5-the-legs)
- [6. Queues](#6-queues)
- [7. Administrators' calls](#7-administrators-calls)
- [8. What is typed and what is sent](#8-what-is-typed-and-what-is-sent)
- [9. Configurations and commands](#9-configurations-and-commands)
- [10. Runs and bounds](#10-runs-and-bounds)
- [11. Proofs](#11-proofs)
- [12. Findings](#12-findings)
- [13. What is not modelled](#13-what-is-not-modelled)
- [14. Plan](#14-plan)

## 1. The system

A vendor (Twilio for calls, LiveVox for texts) sends an HTTP request for every
turn of a conversation. Any of two or three synchronous gunicorn workers
(`bin/entrypoint.sh:9,13`, killed after 60 seconds) serves it: it finds the
active *leg* of the contact in the database or creates one, walks the leg's
*workflow run* through its step tree until a step has to ask something, and
sends the prompt back. All state is rows in PostgreSQL; every helper commits for
itself, and a session keeps what it has loaded after a commit
(`ivr_gateway/db.py:20`).

| component | state it keeps | operations | what makes it correct |
|---|---|---|---|
| workflow engine (`engines/workflows.py`, `engines/steps.py`) | none of its own: it works on the rows of a run | `initialize`, `run_current_workflow_step` (prepare, run, handle success, replay, press-zero, retry, switch on error, unrecoverable error) | a run moves only along its tree; retries are bounded; an answer goes to the step that asked |
| run state machine and history (`models/workflows.py`, `models/steps.py`) | `WorkflowRun` (state, branch, session), `WorkflowStepRun` (run order, result), `StepRun` (run count) | `initialize_first_step`, `advance_step`, `replay_step`, `request_user_input`, `processing_user_input`, `register_error`, `retry_*`, `finish` | only legal transitions; the history tells what happened |
| workflow service (`services/workflows`) | workflow configurations (`WorkflowConfig`, the active tag) | `process_step_result`, `create_step_for_workflow`; creating, tagging and activating configurations | where a branch goes on after switches and retries; a run keeps its tree and calls find the active one |
| step types (`steps/api/v1`) | session fields, the position of external workflows | one `run()` each | outcomes as the engine expects them; nothing read that was not stored |
| adapters (`adapters/`) | none | `new_call`, `continue_call`, `update_call_status`, transfers; new and continued texts; administrators' questions | the vendor is told to go on exactly while there is a leg that does |
| legs (`services/calls.py`, `services/sms.py`, `models/contacts.py`) | `Contact`, `ContactLeg` (ended or not, disposition) | create, find, end, transfer | one active leg for a contact; a disposition that tells how it ended |
| input types (`steps/inputs.py`) | none | `bind` of each type | an answer is taken for what it says, or refused |
| shipped trees (`step_trees/`) | session fields | card activation, payment by text, banking menu | money moves and cards are activated only as the customer agreed |
| queues (`services/queues.py`, `services/operating_times.py`) | hours, holidays, emergencies, routings | adding hours and holidays, which routing a call is given | calls go to somebody listed and open |
| administration (`services/admin.py`, `api/endpoints/admin.py`) | `AdminCall`, `ScheduledCall`, users, numbers | PIN check, numbers, scheduled calls | a scheduled call is used once, roles are kept |
| amount services, field lookups (`services/amount`) | none | HTTP clients | what was done on the other side, when no answer comes back, is not done twice |
| commands (`commands/`) | `InboundRouting`, `Greeting`, `QueueHoliday` and the rows above | setting up and updating from files | a command that ends has done what its file says, whatever was cut short before |
| REST API, graphs | none of their own | endpoints over the services | those of the services |

How they interact. An adapter calls the leg services, makes one engine for each
step of its loop, and follows the *exit path* a finished run names: the queue
service picks a routing and the leg ends, or the leg ends and a new one is
created for another workflow, or the contact is told to hang up. The engine calls
the step, which stores in the run's session, and the workflow service, which says
what comes next. Nothing is called back except by the vendors: the next request,
and Twilio's report that a call is complete, which another worker may serve while
a request of the same call is still being served.

What is hard here:

- **Requests cut short.** A request is a sequence of commits. A worker that
  is killed, or an exception nobody catches, leaves the rows as the last one wrote
  them, and the vendor's next request starts from there.
- **Where a branch goes on.** It is found from the history by name: retries,
  resets, replays, switches of branch on success and on errors, and branches that
  go on where they were left all write to one history.
- **Stale values.** What a worker decides from was loaded before the commits of
  others.
- **Reports that cross requests**, and texts that arrive together.
- **Services that do not answer.** The payment workflow may have taken an agreement
  when its answer is lost, or when the worker ends before it is recorded.
- **Commands cut short.** A file is applied row by row, and mended by applying a
  file again.
- **Sessions.** Fields stay when a customer is sent back: an answer given to other
  digits or other terms must not count for the present ones.

## 2. Modules

    StepTree              a configuration: templates, outcomes, lookups
      WorkflowEngine      one leg and its run, commit by commit
        EngineWalk        refinement mapping to  TreeWalk, the abstract specification
          MCEngine        small trees for TLC
        ActivateCard      the engine on the card activation tree, with its session
        MakePayment       the engine on the payment tree, its session, and the
                          external payment workflow
      WorkflowEngineProofs, EngineHistoryProofs, ActivateCardProofs, MakePaymentProofs
    ContactLegs           legs of calls and threads, several workers
      ContactLegsProofs
    QueueRouting          a queue's hours and routings, and the lookup
      MCQueueRouting      three small queues
      QueueRoutingProofs
    AdminCalls            administrators' and scheduled calls, several workers
      MCAdminCalls        calls and workers that may change places
      AdminCallsProofs
    WorkflowConfigs       versions of a workflow, and the runs that begin on them
    Provisioning          the operators' commands that apply files
      MCProvisioning      both, with small files
      ProvisioningProofs  of both
    Inputs                what was typed, and what an input step makes of it
    TextChunks            the texts of a response to LiveVox
      MCInputs            both, with small texts

`WorkflowEngine` has the engine in full for one leg whose requests come one at a
time; `ContactLegs` has many legs and workers and keeps of the engine only the
state a run starts from and those it can leave. The two meet at the states of a run
in which a request is taken (`Waiting` in `ContactLegs`, `RejectState` in
`WorkflowEngine`) and at the exits. `ActivateCard` and `MakePayment` compose the
engine with a tree and its session: each of their steps is a step of the engine,
joined with what the step that runs reads and stores. `AdminCalls` ends where a leg
has been created, which is where `ContactLegs` begins. `WorkflowConfigs` says which
tree a run starts with; `StepTree` and the modules on it take that tree as given,
which is what `RunKeepsItsTree` allows them to. `Inputs` refines the outcomes that
`StepTree!InputOutcomes` gives an input step, and `TextChunks` what `Respond` of the
engine sends.

Modules that are proved about, and those they use, declare no `RECURSIVE`
operator; constants come with named assumptions (`TreeAssumption`,
`BoundsAssumption`, ...), which TLC evaluates in the runs. Definitions whose
comment begins with "Slip:" are bugs somebody might write; the mutants of
`PROJECT.json` put each in the place of the definition below it, and TLC then finds
the property violated. No specification uses them otherwise.

## 3. The engine

### State and actions

| variable | code |
|---|---|
| `state`, `branch` | `WorkflowRun.state`, `.current_step_branch_name` |
| `wsrs` | the `WorkflowStepRun` rows by `run_order`: their step run, the result attached to them, and `branched_on_error` |
| `stepRuns` | the `StepRun` rows: name, branch, `run_count` |
| `leg` | whether `ContactLeg.end_time` is null |
| `pc`, `result`, `reply`, `applied` | where the request is between two commits, what the step returned, what will be sent, and how often the request's input was used |
| `heard`, `requests`, `failures` | outside: the prompt the contact heard last, and the bounds |

An action is what one commit makes durable, with everything the handler does
before that commit.

| action | code |
|---|---|
| `Request` | the vendor |
| `InitializeFirst`, `InitializeCurrent`, `InitializeRaises` | `WorkflowEngine.initialize` |
| `Start`, `RejectState`, `AcceptInput`, `AskForInput`, `PrepareOtherStep` | `_prepare_for_step_engine_execution` |
| `RunStep` | `StepEngine.run_step`: any outcome the step type has (`StepTree!Outcomes`) |
| `HandlePressZero`, `HandleReplay`, `HandleExit`, `HandleNextInput`, `HandleNextStep` | the handlers of a result that is not an error, with `process_step_result` |
| `HandleRetry`, `HandleErrorSwitch`, `HandleUnrecoverable` | the handlers of errors, retries counted against the step itself or the step it resets to |
| `HandleDeadEnd` | the exceptions raised where the tree leads nowhere |
| `EndLeg`, `Respond` | the adapters' exit and answer |
| `Fail` | a request cut short after any of its commits |

Steps are told apart by their type's outcomes; prompts, texts and values are left
out. A tree is any function from branch names to sequences of templates, misspelt
branch names and branches without an exit included.

### Properties

- `NoStepSkipped`: no step of a branch is reached around the one before it.
  Confirmations of an identity are steps of this kind.
- `RetryBudget`: a step run is not tried more often than its retry count allows,
  whether it fails itself or is sent back to by later steps that share its budget.
- `HistoryComplete`: results are attached to rows neither twice nor not at all.
- `WaitsForAnswer`, `AnswersWhatWasAsked`: the run waits for the answer to the
  prompt that was heard last, and an input goes to the step that asked for it. Both
  are about runs none of whose requests was cut short: otherwise the contact may not
  have heard the last prompt.
- `CurrentStepResolves`: every new engine can build the current step, on malformed
  trees too.
- `FinishedIsFinal`: a finished run takes no step, though its leg may not have
  been ended with it.
- `NoDeadEnd`: on a tree that leads on (`StepTree!LeadsOn`) no handler runs off a branch.
- `RequestsAnswered`: the loop of the adapters comes to an end, although branches
  lead back to each other. It does because what leads back asks, or is bounded by
  retries.
- `ImplementsTreeWalk`: the rows, commits, retries and failures implement
  `TreeWalk`, in which a contact is at one step, is asked only by steps, and moves
  to the next step, to the start of a branch, on from a step it has met, or back to
  one. `walkAt` is the position of the current step run, `walkMet` those of all step
  runs, `walkMode` follows the state of the run.

**Fairness.** `FairSpec` is weak fairness of `Serve`, all steps of the worker taken
together: a synchronous worker that has a request does nothing else until it has
answered. Nothing is assumed of the vendor, nor that a request is ever cut short.

## 4. The trees

**ActivateCard** (`step_trees/avant/ivr/activate_card.py`). The caller is
found by the calling number or by one that is entered, enters the last digits of
the card and of the social security number, confirms each, and the card is
activated. Added to the engine: whether an account was found, the answers to the
confirmations, which keys' present digits the caller has agreed to, and which of them
without having heard them.
`UsesConfirmedDigits`: activation and lookup use only digits that were heard back
and called correct *since they were entered*, although the earlier answer stays in
the session when the caller is sent back. "Heard back" is said only of runs none of whose
requests was cut short: the run is taken to the confirmation by the commit before the
answer that reads the digits back, and if that answer is lost, the next input counts as
the caller's word on digits that were not heard (`unheard`). `LeavesAsFound`: a caller without an
account leaves for a queue, and hears that the card is active only if it is.

**MakePayment** (`step_trees/avant/sms/make_payment_sms.py`). The tree drives an
external payment workflow (`steps/api/v1/avant_basic_workflow.py`), which takes its
steps in the orders `Plans`. The external workflow is not in the repository: the
orders `RecordedPlans` are those of its recorded answers
(`tests/fixtures/external_workflows/make_payment`). Added to the engine: the session
fields that are read, the position of the external workflow, whether the terms of
the present payment were sent and agreed to (`consent`), and whether a payment was submitted.

- `PaysWhatWasAgreed`: an agreement is given to the external workflow only after a
  PAY that came upon the terms of this payment, although PAY stays in the session when a
  payment is refused and started anew with other terms. The terms had been sent, unless a
  request was cut short: they leave with the answer to the request (`TermsSent`), and the
  run waits for the reply to them from the commit before. If that answer is lost, a PAY
  that comes next pays for terms the customer has never seen (`consent = "blind"`).
- `ToldOnlyWhenSubmitted`: "submitted" is said only of submitted payments and,
  unless a request was cut short, nothing else follows a submission.
- `FieldsStoredBeforeRead`: no step branches on a field, or copies or compares the dates,
  before it is stored. Fields that only a text mentions are left out with the texts.
- `PaysAgainOnlyWhenUnheard`: each payment after the first has an answer that was
  lost or a request that was cut short; the ways through the branches, retries
  and cutoffs do not pay again for what the run knows was accepted.
- `FailsOnlyAfterCutoff`: the only unhandled error is the one of section 12.

The external workflow takes a step when it is asked to (`Answered`), and the run
hears of it or not: `Answer` is an answer that arrives and is committed;
`NoAnswer` is an error status, a connection that fails, five seconds without an
answer or an answer that is not JSON, all one error (`services/amount/__init__.py:61`,
`workflow_runner.py:43`), with the payment made (`AcceptedUnheard`) or not;
`CutShortAtAnswer` ends the worker between the acceptance and the commit. The run posts
the position it knows, so that after an answer it did not hear the external workflow
is where the run believes it to be, and can be agreed with again.

The second half of `ToldOnlyWhenSubmitted` is about runs in which no request was cut
short and no answer lost, and `FailsOnlyAfterCutoff` about those in which no request was
cut short, because the code does not keep them otherwise: when a request is cut short
between the commit of an accepted agreement and its handling, the next one runs the step
again. The external workflow is no longer where it asks for an agreement, the step counts
as refused, and the tree goes to its cutoff and starts another payment.

## 5. The legs

`ContactLegs` has calls and text threads, and workers that each serve one request.
Each action is one query or one commit. A worker decides from the leg as it loaded it.

| action | code |
|---|---|
| `Arrive`, `HangUp`, `Report` | Twilio and LiveVox: what they send depends on the last answer (`MayAsk`) |
| `LookUp`, `NotFound` | `find_active_call_leg...` of `services/calls.py`, `services/sms.py` |
| `TurnAway`, `CreateContact`, `CreateLeg` | `new_call`, `create_call`, and their counterparts for texts |
| `LegRaises` | a text to a number without a routing, whose contact is committed before the workflow is asked for (`services/sms.py:39,100-102`) |
| `Begin`, `RejectRun`, `Ask`, `Leave`, `GiveUp` | the engine, reduced to the states of the run |
| `EndLeg`, `Transfer` | the exit paths: queue, hang-up, telephone number, another workflow, message |
| `EndOnStatus` | `update_call_status` |
| `Reply`, `Fail` | the answer; the worker is killed |

`OneActiveLeg` (the lookups take the first active leg, whichever it is),
`VendorAgrees` (between requests the last answer and the database agree),
`ReportEndsCall`, `DispositionTells`. `DispositionTells` leaves out calls whose
report crossed a request: the last writer's disposition then stands, because each
decided from what it had loaded. Texts of one thread come one at a time
(`InFlight = 1`): two that are served at once can each find no leg and create one.

## 6. Queues

`QueueRouting` has the rows of a few queues for one day: the spans of hours, a
holiday, the emergencies, the routings and the list they were last updated from
(`commands/update.py`). A lookup reads one queue in one action; where it falls over
to another queue it starts again there, and rows and clock may have changed.

`DialsListed`: a routing taken off the list keeps its row with a negative priority
and is not dialed, however often lists come and go. `LeavesOnlyWhenClosed`: a
call leaves its queue only when that is closed, for one that is open.
`LookupsEnd` (under weak fairness of `Find`, the steps of one synchronous call):
queues that name each other do not send a lookup round for ever, since a queue is
only fallen over to when it was open a moment before. `DialsListed` and
`LeavesOnlyWhenClosed` speak of lookups during which nothing changed.

Seen on the way, and not held against the code, since nothing in the repository
says otherwise: a closed queue still falls over to a queue that was taken off its
list (`services/queues.py:187` does not look at the priority); the emergency of one
queue is compared as a Boolean with an enumeration (`:172`), so that this branch is
taken only for the system's emergency, but the outcome is the same.

## 7. Administrators' calls

`AdminCalls` has the questions a call from an administrator's phone is asked
(short id, PIN, calling number, called number, routing priority), the scheduled
call it may be traded for instead, and what the API does meanwhile: it schedules calls,
schedules one again by copying it (`CopyScheduled`), and changes scheduled calls
(`UpdateScheduled`), the roles of users (`UpdateUser`) and their phones (`ChangePhone`),
and deletes users that no row of a call names (`DeleteUser`).

- `TradedOnce`: a scheduled call is traded for one leg, unless two calls of its user
  found it before either had claimed it, or a copy freed it.
- `ClaimedIsServed`: once claimed it is not lost, but for requests cut short.
- `NumbersAllowed`: a number that a leg is begun with and that was dialed, was dialed in a
  call whose user was an admin at some time of it, this call or one whose numbers were
  copied to a scheduled call of somebody else; a call that was asked for its numbers
  has both, dialed in this call or of a shortcut; one that was scheduled has what its
  scheduled call has, *none* included, unless that was given others since. The role is
  looked at for each number, in requests of their own, so that one who is demoted between
  them keeps the number dialed before.
- `ScheduledForCaller`: who is given a scheduled call is the one it is scheduled for,
  unless it was moved to another user after it had been found. A request that has found
  it goes on with what it loaded: it claims a row that may be another user's by then,
  and leads to the routing the row had (`UpdateScheduled` between `FindScheduled` and
  `Claim`).
- `OneLegEach`: a call that is still asked, or was turned away, has neither contact
  nor leg; one that goes on has one of each.

A number is known by where it comes from (`Numbers`): a shortcut, the API, the call it was
dialed in, or nowhere. The columns are nullable (`models/admin.py:85-86`), and what is
scheduled for a workflow may come without numbers (`CreatedWith`); the claim copies what
is there, and the leg is created all the same (`tests/integration/twilio/test_admin.py:555-593`). A change
names the numbers it changes (`ChangedTo`), and a copy has those of the admin call,
of which the call may not have been asked yet (`services/admin.py:324-325`).

An admin call has one scheduled call, which the ORM loads with it: setting another one
frees the row that was loaded (`LoadedOf`, `Freed`). Hence a copy
(`services/admin.py:326`) is itself claimed, and what is offered again is the row
copied *before*; and a call that was scheduled for a workflow is copied without
it, so that being traded for that copy leaves a contact without a leg
(`LegRaises`, `services/calls.py:38-41`).

## 8. What is typed and what is sent

`Inputs` has one operator for each input type (`steps/inputs.py`), named as the class:
it binds a text or refuses it (`Refused`, which asks again) or raises what nobody
catches (`Raised`). A text is a sequence of digits and of one model value for every
other kind of character the code tells apart: the separators, a blank, a letter and a
capital, and a character such as a half that `isnumeric` takes and `int` does not.
`Answer` is a step that stores what it takes.

- `AmountsReadAsWritten`: an amount is stored for what its digits are worth, place by
  place (`Worth`, which adds up powers of ten and shares nothing with the model of
  the conversion); nothing that is not written like an amount is taken for one, but
  for digits after a leading separator.
- `BindsOrRefuses`: what is typed is taken or refused and raises nothing, but for the
  cases it names; menus take only what they list, and silence is no answer.

`TextChunks` has the array of texts of one response (`adapters/livevox.py:193-212`).
Every character of a response is a number of its own, so that `ReadsAsSent` can say
that everything is read once and in order, in texts that are not too long, with
messages apart and broken only where they must be.

## 9. Configurations and commands

`WorkflowConfigs` has the rows of `WorkflowConfig` of one workflow, the name of the
active one, and workers that each do one thing, query by query and commit by commit:

| action | code |
|---|---|
| `CheckTag`, `InsertConfig` | `create_config_for_workflow`, and `commands/update.py:37-51` |
| `CheckActive`, `SetActive` | `update_active_workflow_config`, of operators and of scheduled calls (`api/endpoints/admin.py:326`) |
| `Edit`, `UpdateConfig` | a change of a row, and the listener `receive_before_update` that refuses it |
| `ReadActive`, `ReadVersion`, `Resolve`, `BeginRun` | `create_call_leg`, `create_call_leg_from_scheduled_call`, `active_config` |

Nothing in `src` edits a row today, apart from tests; the listener is there for when
something does.

- `RunKeepsItsTree`: a row whose tree is not the one a run was begun with was edited
  by a worker that counted its runs before that run was there (section 12).
- `ActiveNameResolves`: the active name is, or was, that of a row, and it is
  ambiguous, so that `one()` raises for every call, only as the sha of a tree that was
  deployed twice. Tags are checked before the insert and may be taken in between;
  the table's constraint then refuses the insert.

`Provisioning` has the commands that set up inbound routings, greetings and holidays
from files (`commands/scaffold.py`). Each entry is a commit or two; a command fails at
an entry, or is cut short anywhere, and another is run to mend it.
`CommandsDoAsListed`: a command that comes to its end has done what its file says:
its numbers are in service with its entries and those alone, although earlier
commands left rows in service or out of it; the greetings are the last of the file;
every queue has its holidays. An entry without a greeting's message ends its command where
it stands, with the entries after it left as they are (`StopAtEntry`,
`commands/scaffold.py:550-552`): such a command does not come to its end.

## 10. Runs and bounds

Failures (`MaxFailures`) are requests cut short at any point between two commits.
Deadlock is checked where something can always happen (the queues); the other
specifications stop when the bounds on requests are used up, and their cfg says
`CHECK_DEADLOCK FALSE`.

| run | checks | bounds, and why they suffice |
|---|---|---|
| `engine_core` | `TypeOK`, `RetryBudget`, `HistoryComplete`, `WaitsForAnswer`, `NoStepSkipped`, `NoDeadEnd`, `ImplementsTreeWalk`, `RequestsAnswered` | `CoreTree` has one of everything the engine treats in its own way; five requests use up a retry count of 2 on each of two steps and go on; one failure; liveness under `FairSpec` |
| `engine_rough` | `CurrentStepResolves`, `AnswersWhatWasAsked`, `FinishedIsFinal` | `RoughTree` has the malformed things a configuration can hold: missing branches, resets to steps never met, branches without exits; four requests, one failure |
| `ask_on_error` | violation of `WaitsForAnswer` | section 12 |
| `activate_card` | `UsesConfirmedDigits`, `LeavesAsFound`, `NoDeadEnd` | the shipped tree; eight requests are the longer way to an activation (seven) and a retry to spare; one failure |
| `make_payment` | `PaysWhatWasAgreed`, `ToldOnlyWhenSubmitted`, `PaysAgainOnlyWhenUnheard`, `FieldsStoredBeforeRead`, `FailsOnlyAfterCutoff` | the shipped tree with the two recorded plans that begin with the bank account; four requests reach a second payment after a refused one; one failure |
| `payment_cutoff_twice` | violation of `SwitchGoesOn` | all recorded plans, no failure; section 12 |
| `contact_legs` | `LegsTypeOK`, `OneActiveLeg`, `VendorAgrees`, `ReportEndsCall`, `DispositionTells` | one contact, a call or a thread, since contacts share no rows; two workers, so that a report can cross a request; four requests, one transfer, one failure |
| `queue_routing` | `RoutingTypeOK`, `DialsListed`, `LeavesOnlyWhenClosed`, `LookupsEnd` | three queues, two that name each other, two points of time, two changes: off the list and on it again |
| `hours_overlap` | violation of `NoOverlappingHours` | one queue, two spans; section 12 |
| `admin_calls` | `AdminTypeOK`, `TradedOnce`, `ClaimedIsServed`, `NumbersAllowed`, `ScheduledForCaller`, `OneLegEach` | two calls, so that both can find one scheduled call; six requests take one through every question, the short id included; two changes or copies, as one copy frees what the next is made from, and a copy can be moved; one failure. Workflow calls are scheduled with neither number, those with a routing with both, and a change names the calling number: so a scheduled call has none, one or two (the theorems have any pairs). Calls and workers are symmetric: a call differs only in the user of its phone, which is a variable |
| `inputs_and_texts` | `AmountsReadAsWritten`, `BindsOrRefuses`, `ReadsAsSent` | amounts of up to six characters have three digits before the separator and two too many after it; lengths that types expect are 2 and 3 instead of 4 to 10, with texts shorter and longer; texts of three characters instead of 160 and messages of none to four: shorter, as long and longer than a text; four messages |
| `provisioning` | `RunKeepsItsTree`, `ActiveNameResolves`, `CommandsDoAsListed` | two rows, two trees, two tags of which one is "latest", two workers; one edit suffices as an edit is refused or not; one run, as runs share only their row, and a run is what an edit crosses; the theorems of section 11 have any number. Three commands: one that is cut short, one that goes over it, and one more |

`MCInputs` and `MCProvisioning` put two modules side by side that share no state, and
let only one of them move in a behaviour; the states of the run are those of the one
and those of the other.

## 11. Proofs

TLAPS proves, for every tree that satisfies `TreeAssumption`, every number of
requests and every number of failures (the configurations': for all trees, tags and
workers, and every number of configurations, runs and edits; the administrators' calls':
for all calls, users and workers, and every number of requests, schedules, changes and
failures; the legs': for all calls, threads and workers, and every number of requests,
contacts, transfers and failures; the queues': for all queues, lists, spans and changes; the
payment tree's: for every external workflow that takes its agreement last, and every number of
requests, failures and lost answers; the commands': for all files, and every number of commands):

| theorem | states | module |
|---|---|---|
| `EngineInvariant` | `Spec => []EngineInv` | `WorkflowEngineProofs` |
| `TypeCorrect` | `Spec => []TypeOK` | `WorkflowEngineProofs` |
| `CurrentStepResolvesHolds` | `Spec => []CurrentStepResolves` | `WorkflowEngineProofs` |
| `FinishedIsFinalHolds` | `Spec => FinishedIsFinal` | `WorkflowEngineProofs` |
| `AnswersWhatWasAskedHolds` | `Spec => []AnswersWhatWasAsked` | `WorkflowEngineProofs` |
| `NoStepSkippedHolds` | `WellNamed` implies `Spec => []NoStepSkipped` | `EngineHistoryProofs` |
| `NoDeadEndHolds` | `WellNamed` and `LeadsOn` imply `Spec => []NoDeadEnd` | `EngineHistoryProofs` |
| `WaitsForAnswerHolds` | `WellNamed`, `LeadsOn` and `SpeaksOnError` imply `Spec => []WaitsForAnswer` | `EngineHistoryProofs` |
| `HistoryCompleteHolds` | `WellNamed` and `LeadsOn` imply `Spec => []HistoryComplete` | `EngineHistoryProofs` |
| `RetryBudgetHolds` | `WellNamed` and `ResetsCount` imply `Spec => []RetryBudget` | `EngineHistoryProofs` |
| `UsesConfirmedDigitsHolds` | `Tree = ActivateCardTree` implies `ActivationSpec => []UsesConfirmedDigits` | `ActivateCardProofs` |
| `LeavesAsFoundHolds` | `Tree = ActivateCardTree` implies `ActivationSpec => []LeavesAsFound` | `ActivateCardProofs` |
| `PaysWhatWasAgreedHolds` | `Tree = MakePaymentTree` implies `PaymentSpec => []PaysWhatWasAgreed` | `MakePaymentProofs` |
| `ToldOnlyWhenSubmittedHolds` | `Tree = MakePaymentTree` implies `PaymentSpec => []ToldOnlyWhenSubmitted` | `MakePaymentProofs` |
| `PaysAgainOnlyWhenUnheardHolds` | `Tree = MakePaymentTree` implies `PaymentSpec => []PaysAgainOnlyWhenUnheard` | `MakePaymentProofs` |
| `FieldsStoredBeforeReadHolds` | `Tree = MakePaymentTree`, and every plan is `DatedFirst`, imply `PaymentSpec => []FieldsStoredBeforeRead` | `MakePaymentProofs` |
| `FailsOnlyAfterCutoffHolds` | `Tree = MakePaymentTree`, and every plan is `DatedOnce`, imply `PaymentSpec => []FailsOnlyAfterCutoff` | `MakePaymentProofs` |
| `EngineImplementsTreeWalk` | `Spec => ImplementsTreeWalk` | `WorkflowEngineProofs` |
| `ConfigsInvariant` | `ConfigsSpec => []ConfigsInv` | `ProvisioningProofs` |
| `RunKeepsItsTreeHolds` | `ConfigsSpec => []RunKeepsItsTree` | `ProvisioningProofs` |
| `ActiveNameResolvesHolds` | `ConfigsSpec => []ActiveNameResolves` | `ProvisioningProofs` |
| `CommandsDoAsListedHolds` | `ProvisioningSpec => []CommandsDoAsListed` | `ProvisioningProofs` |
| `AdminTypes` | `Spec => []AdminTypeOK` | `AdminCallsProofs` |
| `TradedOnceHolds` | `Spec => []TradedOnce` | `AdminCallsProofs` |
| `ClaimedIsServedHolds` | `Spec => []ClaimedIsServed` | `AdminCallsProofs` |
| `NumbersAllowedHolds` | `Spec => []NumbersAllowed` | `AdminCallsProofs` |
| `ScheduledForCallerHolds` | `Spec => []ScheduledForCaller` | `AdminCallsProofs` |
| `OneLegEachHolds` | `Spec => []OneLegEach` | `AdminCallsProofs` |
| `LegsTyped` | `Spec => []LegsTypeOK` | `ContactLegsProofs` |
| `OneActiveLegHolds` | `InFlight <= 1` implies `Spec => []OneActiveLeg` | `ContactLegsProofs` |
| `VendorAgreesHolds` | `InFlight <= 1` implies `Spec => []VendorAgrees` | `ContactLegsProofs` |
| `ReportEndsCallHolds` | `InFlight <= 1` implies `Spec => []ReportEndsCall` | `ContactLegsProofs` |
| `DispositionTellsHolds` | `InFlight <= 1` implies `Spec => []DispositionTells` | `ContactLegsProofs` |
| `EndedLegsStand` | `InFlight <= 1` implies `Spec => [][EndedStands]_vars` | `ContactLegsProofs` |
| `RoutingTyped` | `Spec => []RoutingTypeOK` | `QueueRoutingProofs` |
| `DialsListedHolds` | `Spec => []DialsListed` | `QueueRoutingProofs` |
| `LeavesOnlyWhenClosedHolds` | `Spec => []LeavesOnlyWhenClosed` | `QueueRoutingProofs` |

**The inductive invariant.** `TypeOK` is not inductive: an action that runs the
current step must know that the row has a step run and that the tree has its step.
`EngineInv` adds

- `RowsResolve`: every row has its step run, every step run a step of the tree;
- `Unstarted`: a run without rows is the one that was never served;
- `OnTree`: the branch a run is on has a step of the current name, though it need
  not be the branch the step run was created on;
- `AtStep`: while a step is prepared, run or handled, it can be built, the run is
  under way, and the result is one the step can return.

`CurrentStepResolves` follows from `RowsResolve` and `OnTree`; `FinishedIsFinal` from
`AtStep`: a finished run is turned away when its step is prepared.

**What is assumed of a tree.** Nothing in the code enforces it, and each assumption is
needed: the row names what happens on a tree without it.

| assumption | says | without it |
|---|---|---|
| `WellNamed` | the steps of a branch have different names, and a step that leads to another branch is not called like one that asks | whether a step that asks is new is decided by its name alone (`models/workflows.py:310`), so that a branch is entered in its middle |
| `LeadsOn` | no branch is left off its end, and a contact is sent back only to a step it has been at | `payment_cutoff_twice`: the request fails without an answer |
| `SpeaksOnError` | a branch taken on an error does not go on with a step that asks | `ask_on_error`: the answer to its prompt is dropped |
| `ResetsCount` | a contact is sent back only to steps all of whose errors are saved | a step that switches on an error that is not saved (`engines/workflows.py:329-344`, a `BooleanLogicStep`) leaves a row without a result each time, and no retry count ends it |

TLC evaluates them: `CoreTree` of `engine_core` and the card activation tree satisfy all
four (`CoreTreeIsSound`, `ActivationTreeIsSound`); the payment tree all but `LeadsOn`, which
is its finding, and of which it keeps `LeadsOnBut({"cutoff"})`: no branch but the cutoff one,
which others switch to, is left off its end (`PaymentTreeIsSound`). Of the other trees of `step_trees/`, read and not
checked, all satisfy `WellNamed`, `SpeaksOnError` and `ResetsCount`, and the banking menu
misses `LeadsOn` only by a default branch that is never taken.

**The history of a run.** `NoStepSkipped`, `NoDeadEnd`, `HistoryComplete` and `RetryBudget`
speak of all rows at once. Rows before the last never change, so an induction step looks
at the last row and at the one appended. The conjuncts that carry them are

- `OnBranch`: the current step run was created on the branch the run is on;
- `LeftWhenDone`: a branch is left only by a step that succeeded or that left it on its
  error. It makes "where the branch was left" a step that is done, from which the next one
  may be reached;
- `LastOpen`: the last row of a run that goes on has no result yet, so that attaching one
  is the first time that it is attached;
- `WentOn`: the run went on only from steps that do not leave, so that a branch that is
  taken up again has been left before its last step, and `LeadsOn` gives it a next one;
- `CountInv`: the rows with a result of a step run, and the state it has been given that no
  row has yet (`Pending`, between the commit of the step and that of its handler), are
  no more than its `run_count`; as many, if no request was cut short. With `HistoryComplete`
  alone the step between the two commits could not be told from a result that was lost;
- `OnceInv`: a step run that can fail without a state to count is run once, by
  `ResetsCount`; of the others only the last row has no result. So the tries that
  `retries_left` does not see are one at the most, the one under way.

**What the contact hears.** `AskedInv` (`Asking`, `Answering`) says where the prompt of the
current step is on its way between `AskForInput` and the next `RunStep`: as the reply, with
the vendor, or answered by the request that is served. It is inductive for every tree.
`ServedInv` says which states a request can find and leave behind when none was cut short;
with it, and `NoDeadEnd`, the run waits for the answer to the last prompt.

**The card activation tree.** These two theorems are about one tree, the shipped one, and
its session, and go from the general to the particular in three steps. `StepMoves` says
for every well-named tree where a commit takes the run: to the next step of its branch, to
the first step of another (`Enters`), back to a step, or nowhere, and each of them only when
a result is handled. `TreeFits` reads off `ActivateCardTree` what that comes to
(`Following`, `Leading`, `Starting`, `Resetting`: pairs of names), so that `GoesNext` speaks
of step names alone. Along these pairs go the invariants of the session:

- `AgreedInv`: neither property is inductive, since the digits were agreed to some steps
  before they are used. From the confirmation to the decision the stored answer vouches
  for the digits, also in the states between the commit of the step and that of its handler;
  after the decision the steps themselves do (`AfterCard`), because nothing enters the
  digits of a key anew but the first step of its branch;
- `UnheardInv`: a confirmation asks, so that by `AnswersWhatWasAsked` its answer is one to what
  was heard last;
- `FoundInv`: without an account the run is at none of the steps that need one;
- `ExitInv`, `ActivatedInv`: a run leaves by a key or by a step that leaves, and the
  message that the card is active follows a success of the activation, whose row stays.

That the tree is `WellNamed` is taken from `ActivationTreeIsSound`, which TLC evaluates for
this very tree; all else about it is proved.

**The payment tree.** These theorems follow the same way of proof on a larger tree, whose
branches come back to each other and whose session is driven by a program elsewhere. Where
a step can lead is stated as a fact about the tree, `PaymentTreeLeads`, which TLC evaluates
on the shipped tree as it does `PaymentTreeIsSound`: it takes every step and every step that
may come next on a success (`TakesTo`) or on an error (`FallsBackTo`) and says what of the
session is known there. `GoesNext` turns it, with `StepMoves`, into what a commit of the run
does. Nothing else is assumed of the tree. Of the external workflow, `PlansAssumption`
says that it takes its agreement last and has a step before its end; all the recorded ones do
(`RecordedPlansSound`). Along the way of the run go

- `AgreedAt`: `PaysWhatWasAgreed` is not inductive, since the terms are shown three steps
  before the agreement and PAY stays in the session of a payment that was refused. From the
  terms to the agreement the stored answer vouches for the consent, also between the commit
  of a step and that of its handler;
- `ConsentInv`: terms that are yet to be sent belong to the request under way, which is at the
  reply to them or about to be; they are lost only with a request that is cut short;
- `ConfirmedAt`: nobody leaves the branches of the zip code but by a map that has read it;
- `UnderWayAt`, `ExternalInv`: an external workflow is under way past the first steps, and
  the run knows the step it is at, whichever answers were lost: a lost answer leaves the
  position that the run posts next;
- `HeardInv`: the agreements accepted are no more than the answers lost and the requests cut
  short, and one more only while the customer is being told of it (`Telling`). The bound of
  `PaysAgainOnlyWhenUnheard` alone could be used up twice;
- `KnownAt`: the fields stored at each place of the tree, however it was come to (`Known`);
- `DateInv`: a date is stored before the external workflow is at a step that needs one. This
  is what `DatedFirst` is for: an external workflow without it, which nothing in the code
  rules out, would have the cutoff branch copy a date that was never stored;
- `CutoffInv`: the cutoff branch goes on where it was left, so that what it stored in its
  first half cannot be read off the place alone. It is read off the rows: a step before the
  one that is entered is done (`NoStepSkipped`), a row that is done stays so, and what it
  stored stays stored (`NewlyDone`).

`FailsOnlyAfterCutoff` is about the one place where this tree does not lead on. On a tree
that is `LeadsOnBut({"cutoff"})`, a request no handler answers has failed while its step was
handled (`ResumedInv`: a step that is found again can be built), and the run was to go on
with a cutoff branch left at its last step (`DeadEndOfCutoff`, from `DeadEndAtHandle`, of
which `NoDeadEnd` is the case without exceptions). There are two ways to the cutoff branch: a
payment is refused, which is what the property allows, or the date was agreed to
(`ReturnToCutoff`). That the second is closed once the branch was gone through is what the
invariant `OnceDatedInv` says:

- `DatedAt`: the run is where the external workflow sends it. Before the return to the cutoff
  branch, and on the branches behind it, the external workflow is `Past` its date;
- `Onward`: as the cutoff branch does not start over and no step sends back to an earlier one
  of it, each of its rows is at a step no earlier than those before, so that having been at
  its end is never undone (`BeenToEnd`, `FurthestLast`);
- `OverInv`: a run that was at its end is past the date for good, and on none of the branches
  (`Undated`) from which the date is asked for.

`DatedOnce` is needed for it: an external workflow that asked for the date again after the
amount would have the return to the cutoff branch end in the same error, with no payment
refused. The recorded workflows ask for it once (`RecordedPlansSound`).

**Refinement.** Each commit of the engine maps to one step of `TreeWalk` or to a
stutter; the lemmas on places say which: the same step (`SamePlace`), a fresh one
that the tree leads to (`NewPlace`, `NextEnters`), or one met before (`OldPlace`).
Failures stutter.

**Configurations.** What holds of the rows depends on what workers have read and not
yet written. `ConfigsInv` says of each such worker what its write will need: a name
that is about to be activated was that of a row (`Named`, which counts names that were
given up); an edit of a tree that is about to be written has counted every run of its
row that was there when it counted (`JobFits`). Rows only come to be and runs are only
added, so that none of this is lost to the others (`JobStaysFit`). With unique tags
(`TagsUnique`, the constraint of the table) the active name can only be shared as a
sha.

**Commands.** `CommandsDoAsListed` says nothing of a command before its end, and is not
inductive. `FilesInv` says how far a command is, whatever earlier ones left behind:

- `RoutingsFit`: the rows of a number in service, without those that the command has yet to
  take out of it (`command.rows`), are as many as the entries it has applied, and with their
  messages (`MadeFrom`). When the command has taken the last of them out, its rows are those
  of its file;
- `GreetingsFit`: an entry that was applied is what the row says unless a later one that was
  applied, too, names the number;
- `HolidaysFit`: the holidays of all entries before the present one are there, and of the
  present one those of the queues that are done (`command.planned`).

Any number of commands may have failed or been cut short before; nothing is assumed of a file
but that it is a sequence of entries.

**Administrators' calls.** The six properties follow from one invariant, `AdminInv`,
which says what each worker has in hand at each stage of a request:

- `OneServer`, `JobsFit`, `CallsFit`: a call is in the hands of one worker, who answers
  what the call was asked last; the numbers a call has are those its user was allowed;
- `InOneHand`: a scheduled call that is not contested is with one worker or has one leg,
  and one that nobody claimed is at most about to be claimed. `TradedOnce` is not
  inductive without it: between the claim and the leg no row tells;
- `NumbersInHand`: what a worker has loaded of a scheduled call is what the row says, unless
  the row was given another number since, and no row has a dialed number that was not allowed;
- `KeptByCopy`: a scheduled call that a call frees by claiming another one was offered to
  nobody. A copy makes this needed: it may be claimed by a call whose PIN is
  still to come, and be freed after that;
- `ClaimedInHand`, `OwnInHand`, `Traded`, `ContactsInStep`: the same for claims, users,
  legs and contacts.

The nineteen actions of a worker are sorted first into five kinds by what they do to
one job and one row (`Ended`, `WentOn`, `Found`, `Claims`, `Trades`; `ServeDoes`), and
the changes through the API into two (`ScheduledChanges`, `UsersChange`); each part of
the invariant is shown to be kept by the kinds. Of the assumptions, the proofs need that
`NoUser` is no user and `NoCall` no call, and none on the bounds.

**Legs.** `JobsInv` holds for any requests: what a worker has in hand at each stage is
one of the kind (`StageFits`) and a row that exists, of its own call or thread
(`HoldsItsRow`). `LegsInv` relates several requests and is proved where those of a contact
come one at a time; with `InFlight` 2 the first of the properties is false (section 5).

- `Alone`: a contact has one request and, beside it, one report being served;
- `EngineFits`: a request that is about to create a leg finds none active, and one that
  serves a leg has the only one there can be. `OneActiveLeg` is not inductive without the
  first: between the look-up and the commit no row tells;
- `ReportFits`: what a report has loaded is the active leg, unless a request crossed it;
- `HeardFits`: what the contact heard last is what the rows say, as soon as no request is
  being served;
- `RowFits`: a leg says nothing of its end before it has ended.

The fifteen steps of a worker are sorted by what they do to one job and one row (a job
goes on, a row is written, a row is added), and `Elsewhere` and `OthersFit` show once that
the jobs of other contacts see nothing of it. `EndedLegsStand` is an action property
that no run checks: an ended leg is never written again.

**Queues.** `RowsInv` says that the rows of a queue are the list it was configured with
last and, for destinations of earlier lists, rows of priority -1 (`RowsOfList`, kept by
`UpdatedDoes`); a lookup that goes by priority thus finds somebody of the list. It rests on
`ListingsAssumption`, which the configuration files keep: a list names a destination once
and dials somebody before it goes to another queue. `LookupInv` says why a lookup is at
another queue than the one it was asked for, and what it decided by, as long as nothing has
changed.

What is only model-checked is out of the prover's reach: liveness under fairness
(`RequestsAnswered`, `LookupsEnd`), `ENABLED`, and induction over data, which is all that the
properties of `Inputs` and `TextChunks` are about (what the recursive functions that read
amounts and cut texts compute for every input). All other invariants of the runs that pass
are theorems.

## 12. Findings

- **`ask_on_error`** (`engines/workflows.py:340`). A branch taken on an error is
  advanced to its first step whatever its type, unlike after a success (`:383-384`),
  though the comment says it is processed alike (`:338`). If that step asks, the
  contact hears its prompt, the answer is dropped, and the prompt is heard again.
- **`payment_cutoff_twice`** (`step_trees/avant/sms/make_payment_sms.py`). The
  cutoff branch does not start over when switched to: it is left in its middle and
  goes on there. After it has been run to its end, a payment that is refused again
  finds no next step, and the request fails without an answer.
- **`hours_overlap`** (`services/queues.py:17`). The check looks for an end point
  of the new span inside the existing one, and accepts a span that encloses it.

Seen while modelling, where no run shows a violation: a property leaves the case out,
or the model has it as the code does.

- *A scheduled call that is moved while it is claimed* (`services/admin.py:256-267`,
  `adapters/twilio.py:441-443`): the call of the first user is traded for it, and the
  row of the second user says that it was claimed.
- *An edit and a call* (`models/workflows.py:108`, "Do not modify live configs"). A run
  that begins between the count of the runs and the write goes on with the edited tree.
- *One sha twice*. A tree that is deployed again, or an edit that makes two trees the
  same, and is active by its sha, makes `active_config` raise for every call. A tag
  "latest" is never used: the newest row is taken.
- *A report of completion that crosses a request* (`adapters/twilio.py:322-324`) finds
  no leg before the first request has committed one, or between two legs, and says that
  the call is already complete; the leg that is created afterwards stays active.
- *Prompts that are lost* (`engines/workflows.py:362-401`, `adapters/livevox.py:111-115`). The
  run waits for an answer from the commit on, not from the answer to the request: a PAY after
  terms that were lost pays (`PaysWhatWasAgreed`), and a 1 after digits that were not
  read back confirms them (`UsesConfirmedDigits`).
- *Amounts* (`steps/inputs.py:301`, `:329`). After a leading separator any number of
  digits is cents, although the messages of the same methods say that there are at most
  two. A text without a digit ("$") or with a character like a half raises a
  `ValueError`, and the request fails.
- *Menus* (`steps/inputs.py:182`). "00" and " 0" take the last action of a menu.
- *No input at all* raises for dates, numbers and texts, which use `None` as a string.
- *A scheduled call for a version* (`api/endpoints/admin.py:326`) makes it the active
  one of all calls; when its row is not found, the call is given whatever is active.
- *Several active routings of a number* (`services/calls.py:157`): the first the
  database returns is taken, whatever their priorities. An administrator who names a
  priority may be given a routing that is out of service (`adapters/twilio.py:514`).
- *Holidays* are refused the second time: a file that failed in its middle cannot be
  applied again as it is (`services/queues.py:96-100`).

## 13. What is not modelled

- *Two requests of one leg at once in the engine*: `run_order` is the number of rows
  the session has loaded (`models/workflows.py:457`). Vendors send the next request
  of a call after the answer to the last one; texts may come together.
- *The banking menu* (`step_trees/shared/ivr/banking_menu.py`) and the trees of the
  test fixtures: planned, section 14.
- *How dateparser reads a date*: a date is none, or before, within or after the bounds
  of its type, whatever was typed.
- *Weights of routings, time zones, business days, the filter on the telephony
  system*: which of several equal routings is taken is left open.
- *HTTP clients, encryption, serialisation, screen pops, graphs, database
  migrations, the remaining REST endpoints*: input and output of rows or texts.

## 14. Plan

Done, in this order: `StepTree` and `WorkflowEngine` with their properties; `TreeWalk`
and the refinement; the proofs of the engine; `ActivateCard`, `MakePayment`;
`ContactLegs`; `QueueRouting`; `AdminCalls` and its proofs; `Inputs` and `TextChunks`;
`WorkflowConfigs` and its proofs; `Provisioning`; the external payment with the answers
that are lost; the proofs about the history of a run, the legs, the queues, the card activation
tree, the payment tree and the commands.

Next, most important first:

1. The engine with two requests of a leg in flight.
2. The banking menu as a tree of the engine, with the transfer to another workflow.
3. API credentials and tokens, with users that are deleted while a token is good.
