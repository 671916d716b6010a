---------------------------- MODULE MakePayment -----------------------------
(***************************************************************************)
(* The engine on the tree by which a customer pays by text message          *)
(* (step_trees/avant/sms/make_payment_sms.py), with the fields of the       *)
(* workflow session that the tree reads and writes, and with the external   *)
(* payment workflow that its steps drive (steps/api/v1/                     *)
(* avant_basic_workflow.py): one step forward when a step is accepted, the  *)
(* same step when it is not, or an error.                                   *)
(***************************************************************************)
EXTENDS WorkflowEngine

CONSTANT Plans  \* the orders in which the external workflow may take its steps

VARIABLES
    session,    \* WorkflowRun.session: the fields the tree reads
    external,   \* session.state, the position of the external workflow: the steps
                \* it has before it, the present one first
    consent,    \* what became of the terms of the present payment
    submitted,  \* how many agreements to pay the external workflow accepted
    lost        \* how many of its answers to them were lost on the way

dealings    == <<session, external, submitted, lost>>
payment     == <<dealings, consent>>
paymentVars == <<vars, payment>>

\* The terms are to be sent with the answer to the request, were sent or were lost
\* with it; then they were agreed to, by a customer who had been sent them or not.
Consents == {"none", "due", "shown", "unsent", "given", "blind"}

-----------------------------------------------------------------------------
(* The tree *)

FieldMap(field, branches, default) ==
    [field |-> field, branches |-> branches, default |-> default]

AvantBasicSteps == {"pay_with_bank_account_on_file", "apply_to_future_installments", "pay_amount_due",
                    "pay_on_earliest_date", "select_amount", "confirmation"}

\* Branches by the values of a field.
Only(v, b)           == [x \in {v} |-> b]
TrueOrFalse(b, c)    == [x \in {"True", "False"} |-> IF x = "True" THEN b ELSE c]
NothingDue(b)        == [x \in {"0", "None"} |-> b]

MapNames == {"branch-on-zip-code-response", "branch-on-zip-code-retry", "branch-on-lookup-error",
             "branch-to-initialize-payment-if-no-past-due", "branch-on-Iivr-basic-workflow-step",
             "jump-to-Iivr-basic-workflow-branch-step-or-return-to-cutoff",
             "branch-to-use-past-due-if-past-due-is-nonzero",
             "play-additional-confirmation-message-if-required", "continue-on-confirmation",
             "branch-to-play-upcoming-payment-message", "branch-to-play-delinquent-message",
             "branch-on-cutoff-or-error"}

\* The branches of the steps that read a field.
Maps == [n \in MapNames |->
    CASE n = "branch-on-zip-code-response" ->
             FieldMap("confirmed_zip_code", TrueOrFalse("get_customer_info", "root"), NoBranch)
      [] n = "branch-on-zip-code-retry" ->
             FieldMap("confirmed_zip_code", Only("True", "get_customer_info"), NoBranch)
      [] n = "branch-on-lookup-error" ->
             FieldMap("loan_id", Only("None", "payment_not_made"), "get_customer_info")
      [] n = "branch-to-initialize-payment-if-no-past-due" ->
             FieldMap("loan_past_due_amount_cents", NothingDue("initialize_payment"), "get_customer_info")
      [] n = "branch-on-Iivr-basic-workflow-step" ->
             FieldMap("Iivr_basic_step_name", [s \in AvantBasicSteps |-> s], "error_processing")
      [] n = "jump-to-Iivr-basic-workflow-branch-step-or-return-to-cutoff" ->
             FieldMap("potential_cutoff_scenario",
                      TrueOrFalse("cutoff", "Iivr-basic-workflow-branch-step"), "error_processing")
      [] n = "branch-to-use-past-due-if-past-due-is-nonzero" ->
             FieldMap("loan_past_due_amount_cents", NothingDue("select_amount"), "select_amount_use_past_due")
      [] n = "play-additional-confirmation-message-if-required" ->
             FieldMap("play_additional_confirmation_message",
                      TrueOrFalse("branch_to_additional_message", "confirmation"), NoBranch)
      [] n = "continue-on-confirmation" ->
             FieldMap("confirmation", Only("pay", "confirmation"), "payment_not_made")
      [] n = "branch-to-play-upcoming-payment-message" ->
             FieldMap("upcoming_payment", Only("True", "play_upcoming_payment_message"),
                      "branch_to_additional_message")
      [] n = "branch-to-play-delinquent-message" ->
             FieldMap("loan_past_due_amount_cents", NothingDue("confirmation"), "play_delinquent_message")
      [] OTHER ->
             FieldMap("cutoff_occurred", TrueOrFalse("cutoff", "error_processing"), NoBranch)]

OnError(t, b)   == [t EXCEPT !.switch_to = b]
BackTo(t, n)    == [t EXCEPT !.reset_to = n]
Retries(t, n)   == [t EXCEPT !.retry_count = n]
Leaving(t)      == [t EXCEPT !.exit = "SMS"]

Play(n)    == Step(n, "PlayMessageStep")
Set(n)     == Step(n, "BooleanLogicStep")

\* The branches that a map names.
BranchesOf(map) == {map.branches[v] : v \in DOMAIN map.branches} \cup {map.default}

MapStep(n) == Branching(n, "BranchMapWorkflowStep", BranchesOf(Maps[n]))
Jump(n, b) == Branching(n, "JumpBranchStep", {b})

\* A step that the external workflow gets one chance to accept.
Agree(n, b) == OnError(Retries(Step(n, "AvantBasicWorkflowStep"), 0), b)

ToWorkflowBranch == Jump("jump-to-Iivr-basic-workflow-branch-step", "Iivr-basic-workflow-branch-step")

PaymentRoot == Branch(<<
    Step("gather-zip-code", "InputStep"),
    Set("check-zip-code"),
    MapStep("branch-on-zip-code-response"),
    Retries(Step("regather-zip-code", "InputStep"), 2),
    Set("recheck-zip-code"),
    OnError(BackTo(MapStep("branch-on-zip-code-retry"), "regather-zip-code"), "payment_not_made")>>)

GetCustomerInfo == Branch(<<
    Set("set-upcoming-payment-false"),
    Step("get-product-info-for-customer", "AddFieldToWorkflowSessionStep"),
    MapStep("branch-on-lookup-error"),
    Set("set-play-confirmation-message-true"),
    Play("play-zip-code-confirmed-message"),
    Set("set-potential-cutoff-scenario-false"),
    MapStep("branch-to-initialize-payment-if-no-past-due"),
    Play("play_debt_collection_message"),
    Jump("jump_to_set_up_payment", "initialize_payment")>>)

InitializePayment == Branch(<<
    OnError(Step("initialize-make-payment", "AvantBasicWorkflowStep"), "error_processing"),
    ToWorkflowBranch>>)

WorkflowBranchStep == Branch(<<OnError(MapStep("branch-on-Iivr-basic-workflow-step"), "error_processing")>>)

PayWithBankAccountOnFile == Branch(<<
    Agree("agree-to-use-bank-account-on-file-in-workflow", "error_processing"), ToWorkflowBranch>>)

ApplyToFutureInstallments == Branch(<<
    Set("set-upcoming-payment-true"),
    Agree("agree-to-apply-to-future-installment", "error_processing"),
    ToWorkflowBranch>>)

PayOnEarliestDate == Branch(<<
    Agree("agree-to-pay-on-earliest-date", "error_processing"),
    MapStep("jump-to-Iivr-basic-workflow-branch-step-or-return-to-cutoff")>>)

PayAmountDue == Branch(<<Agree("use-amount-due-in-workflow", "error_processing"), ToWorkflowBranch>>)

SelectAmount == Branch(<<
    MapStep("branch-to-use-past-due-if-past-due-is-nonzero"),
    Play("play-additional-payment-message"),
    Step("get-payment-amount", "InputStep"),
    OnError(BackTo(Step("run-workflow-step-with-payment-amount", "AvantBasicWorkflowStep"),
                   "get-payment-amount"), "cutoff"),
    ToWorkflowBranch>>)

SelectAmountUsePastDue == Branch(<<
    Step("save-past-due-as-amount-in-workflow", "CopySessionVariable"),
    Agree("run-workflow-step-with-payment-amount", "error_processing"),
    ToWorkflowBranch>>)

Confirmation == Branch(<<
    MapStep("play-additional-confirmation-message-if-required"),
    Play("show-confirmation-of-payment-terms"),
    Step("get-confirmation-of-payment-terms", "InputStep"),
    MapStep("continue-on-confirmation"),
    Agree("run-workflow-step-with-agreement", "cutoff"),
    Leaving(Play("play-confirmation-payment-submitted"))>>)

BranchToAdditionalMessage == Branch(<<
    Set("set-play-additional-confirmation-message-false"),
    MapStep("branch-to-play-upcoming-payment-message"),
    MapStep("branch-to-play-delinquent-message")>>)

MessageBranch(n) == Branch(<<Play(n), Jump("return-to-confirmation-branch", "confirmation")>>)

PlayDelinquentMessage      == MessageBranch("play_delinquent_message")
PlayUpcomingPaymentMessage == MessageBranch("play_upcoming_payment_message")

\* The one branch that goes on where it was left.
Cutoff == [Branch(<<
    Step("copy-date-of-failed-payment", "CopySessionVariable"),
    Set("set-potential-cutoff-scenario-true"),
    Jump("jump-to-initialize-payment", "initialize_payment"),
    OnError(Set("evaluate-cutoff-possibility"), "error_processing"),
    MapStep("branch-on-cutoff-or-error"),
    Play("play-cutoff-message"),
    Set("set-play-confirmation-message-true"),
    ToWorkflowBranch>>) EXCEPT !.reset_on_switch = FALSE]

PaymentNotMade  == Branch(<<Leaving(Play("play-payment-not-made-message"))>>)
ErrorProcessing == Branch(<<Leaving(Step("no-op-error-processing", "NoopStep"))>>)

NamedBranches ==
    [root                          |-> PaymentRoot,
     get_customer_info             |-> GetCustomerInfo,
     initialize_payment            |-> InitializePayment,
     pay_with_bank_account_on_file |-> PayWithBankAccountOnFile,
     apply_to_future_installments  |-> ApplyToFutureInstallments,
     pay_on_earliest_date          |-> PayOnEarliestDate,
     pay_amount_due                |-> PayAmountDue,
     select_amount                 |-> SelectAmount,
     select_amount_use_past_due    |-> SelectAmountUsePastDue,
     confirmation                  |-> Confirmation,
     branch_to_additional_message  |-> BranchToAdditionalMessage,
     play_delinquent_message       |-> PlayDelinquentMessage,
     play_upcoming_payment_message |-> PlayUpcomingPaymentMessage,
     cutoff                        |-> Cutoff,
     payment_not_made              |-> PaymentNotMade,
     error_processing              |-> ErrorProcessing]

\* And the one whose name TLA+ has no field for.
WithWorkflowBranch(named) ==
    [b \in DOMAIN named \cup {"Iivr-basic-workflow-branch-step"} |->
        IF b = "Iivr-basic-workflow-branch-step" THEN WorkflowBranchStep ELSE named[b]]

MakePaymentTree == WithWorkflowBranch(NamedBranches)

MakePaymentBranches == DOMAIN MakePaymentTree
MakePaymentSteps    ==
    UNION {{MakePaymentTree[b].steps[i].name : i \in DOMAIN MakePaymentTree[b].steps} :
              b \in MakePaymentBranches}
MakePaymentExits    == {"SMS"}

\* The tree keeps the conventions under which the history of a run is sound, but
\* for one: it does not lead on after its second cutoff.
ASSUME PaymentTreeIsSound ==
    Tree = MakePaymentTree =>
        WellNamed /\ SpeaksOnError /\ ResetsCount /\ LeadsOnBut({"cutoff"}) /\ ~LeadsOn

-----------------------------------------------------------------------------
(* What the steps store *)

Days == {1, 2}

PlanAmountDue ==
    <<"pay_with_bank_account_on_file", "pay_amount_due", "pay_on_earliest_date", "confirmation", "end">>

\* The orders recorded in tests/fixtures/external_workflows/make_payment.
RecordedPlans == {
    PlanAmountDue,
    <<"apply_to_future_installments", "pay_with_bank_account_on_file", "pay_on_earliest_date",
      "pay_amount_due", "confirmation", "end">>,
    <<"pay_with_bank_account_on_file", "pay_on_earliest_date", "select_amount", "confirmation", "end">>}

\* Those that begin with the bank account.
BankAccountPlans == {p \in RecordedPlans : Head(p) = "pay_with_bank_account_on_file"}

\* An external workflow takes its agreement last, and has steps before it is at its end.
Agreeable(plan) ==
    /\ plan \in Seq(STRING \ {"unset"}) /\ plan # <<>>
    /\ plan[Len(plan)] = "end"
    /\ \A i \in 1 .. Len(plan) - 1 : plan[i] = "confirmation" <=> plan[i + 1] = "end"

\* One that asks for the date asks for it before the amount and the agreement.
DatedFirst(plan) ==
    \A i \in DOMAIN plan :
        plan[i] \in {"select_amount", "confirmation"} => \E j \in 1 .. i : plan[j] = "pay_on_earliest_date"

\* And does not ask for it again after it, the amount or the agreement.
AsksForDate(plan) == \E i \in DOMAIN plan : plan[i] = "pay_on_earliest_date"
DatedOnce(plan) ==
    \A i, j \in DOMAIN plan :
        plan[i] \in {"pay_on_earliest_date", "select_amount", "confirmation"} /\ i < j
            => plan[j] # "pay_on_earliest_date"

ASSUME RecordedPlansSound ==
    \A plan \in RecordedPlans : Agreeable(plan) /\ DatedFirst(plan) /\ DatedOnce(plan)
ASSUME PlansAssumption == \A plan \in Plans : Agreeable(plan) /\ Head(plan) # "end"

Store(field, value) == session' = [session EXCEPT ![field] = value]

\* A text is stored when it binds to the input type.
StoreInput(field, values) ==
    /\ IF result' = Success
           THEN \E v \in values : Store(field, v)
           ELSE UNCHANGED session
    /\ UNCHANGED <<external, submitted, lost>>

GatherZip ==
    /\ Current.name \in {"gather-zip-code", "regather-zip-code"}
    /\ StoreInput("entered_zip_code", {"right", "wrong"})
    /\ UNCHANGED consent

\* What amount it is makes no difference here.
GatherAmount ==
    /\ Current.name = "get-payment-amount"
    /\ UNCHANGED payment

\* What a PAY is the answer to, and any other text leaves.
AgreeingTo(pays) ==
    CASE pays /\ consent = "shown"  -> "given"
      [] pays /\ consent = "unsent" -> "blind"
      [] OTHER                      -> consent

\* Slip: any reply is taken for the agreement.
GatherAnyConfirmation ==
    /\ Current.name = "get-confirmation-of-payment-terms"
    /\ StoreInput("confirmation", {"pay"})
    /\ \E text \in {"pay", "other"} : consent' = AgreeingTo(result' = Success /\ text = "pay")

GatherConfirmation ==
    /\ Current.name = "get-confirmation-of-payment-terms"
    /\ StoreInput("confirmation", {"pay", "other"})
    /\ consent' = AgreeingTo(result' = Success /\ session'.confirmation = "pay")

\* The terms join what the request will be answered with.
ShowTerms ==
    /\ Current.name = "show-confirmation-of-payment-terms"
    /\ consent' = "due"
    /\ UNCHANGED dealings

\* They are sent with the answer, or lost with a request that is cut short.
TermsSent ==
    consent' = IF consent = "due" /\ pc' = "idle"
                   THEN IF reply'.kind = "failed" THEN "unsent" ELSE "shown"
                   ELSE consent

\* What the steps that set a field to a constant set.
Constants ==
    [n \in {"set-upcoming-payment-false", "set-upcoming-payment-true",
            "set-play-confirmation-message-true", "set-play-additional-confirmation-message-false",
            "set-potential-cutoff-scenario-false", "set-potential-cutoff-scenario-true"} |->
        CASE n = "set-upcoming-payment-false"         -> <<"upcoming_payment", "False">>
          [] n = "set-upcoming-payment-true"          -> <<"upcoming_payment", "True">>
          [] n = "set-play-confirmation-message-true" -> <<"play_additional_confirmation_message", "True">>
          [] n = "set-play-additional-confirmation-message-false" ->
                 <<"play_additional_confirmation_message", "False">>
          [] n = "set-potential-cutoff-scenario-false" -> <<"potential_cutoff_scenario", "False">>
          [] OTHER                                     -> <<"potential_cutoff_scenario", "True">>]

Truth(p) == IF p THEN "True" ELSE "False"

\* A value compared with itself, or two values of one type: always a boolean.
SetField ==
    /\ result' = Success
    /\ \/ /\ Current.name \in DOMAIN Constants
          /\ Store(Constants[Current.name][1], Constants[Current.name][2])
       \/ /\ Current.name \in {"check-zip-code", "recheck-zip-code"}
          /\ Store("confirmed_zip_code", Truth(session.entered_zip_code = "right"))
       \/ /\ Current.name = "evaluate-cutoff-possibility"
          /\ Store("cutoff_occurred", Truth(session.original_date < session.date))
    /\ UNCHANGED <<external, consent, submitted, lost>>

CopyDate ==
    /\ Current.name = "copy-date-of-failed-payment"
    /\ Store("original_date", session.date)
    /\ UNCHANGED <<external, consent, submitted, lost>>

LookUpCustomer ==
    /\ Current.name = "get-product-info-for-customer"
    /\ \E loan \in {"None", "loan"}, due \in {"0", "due"} :
           session' = [session EXCEPT !.loan_id = loan, !.loan_past_due_amount_cents = due]
    /\ UNCHANGED <<external, consent, submitted, lost>>

\* The branch the value of the field is mapped to, or the default; a value with
\* neither is an error.
Decide ==
    /\ Current.name \in DOMAIN Maps
    /\ LET map    == Maps[Current.name]
           value  == session[map.field]
           target == IF value \in DOMAIN map.branches THEN map.branches[value] ELSE map.default
       IN  result' = IF target = NoBranch THEN Retryable ELSE BranchTo(target)
    /\ UNCHANGED payment

\* The action a step of the tree gives the external workflow, and the actions
\* on which the recorded workflows went forward.
ActionOf(n) ==
    CASE n = "run-workflow-step-with-agreement"      -> "i_agree"
      [] n = "run-workflow-step-with-payment-amount" -> "next"
      [] OTHER                                       -> "yes"

Taken(s) ==
    CASE s = "confirmation"         -> {"i_agree"}
      [] s = "select_amount"        -> {"next"}
      [] s = "pay_on_earliest_date" -> {"yes", "next"}
      [] s = "end"                  -> {}
      [] OTHER                      -> {"yes"}

\* A new workflow; or the one that is under way, at its present step or, if the
\* action was one for that step, at the next.
Answered ==
    IF Current.name = "initialize-make-payment"
        THEN Plans
        ELSE {external} \cup {p \in {Tail(external)} : ActionOf(Current.name) \in Taken(Head(external))}

Submits(ahead) == Head(ahead) = "end" /\ ahead # external

\* An agreement is accepted and the run does not learn of it: the payment is under
\* way, and the run goes on from what it knew before, since the position of the
\* external workflow is what the run posts to it.
AcceptedUnheard ==
    /\ \E ahead \in Answered : Submits(ahead)
    /\ submitted' = submitted + 1
    /\ UNCHANGED <<session, external>>

\* An error status, a connection that fails, five seconds without an answer, or
\* an answer that is not JSON: all one error, whatever was done on the other side.
NoAnswer ==
    /\ result' = Fatal
    /\ \/ UNCHANGED payment
       \/ AcceptedUnheard /\ lost' = lost + 1 /\ UNCHANGED consent

\* Slip: the end is not taken for a step forward.
AcceptsBeforeEnd(ahead) == Head(ahead) \notin {session.Iivr_basic_step_name, "end"}

\* Slip: the step the workflow is at is not compared with the one it was at.
AcceptsAlways(ahead) == TRUE

Accepts(ahead) == Head(ahead) # session.Iivr_basic_step_name

Answer(ahead) ==
    /\ external' = ahead
    /\ submitted' = IF Submits(ahead) THEN submitted + 1 ELSE submitted
    /\ UNCHANGED lost
    /\ IF Accepts(ahead)
           THEN /\ result' = Success
                /\ \E day \in Days :
                      session' = [session EXCEPT
                                      !.Iivr_basic_step_name = Head(ahead),
                                      !.date = IF Head(ahead) = "pay_on_earliest_date" THEN day ELSE @]
                /\ consent' = "none"
           ELSE /\ result' = Retryable
                /\ UNCHANGED <<session, consent>>

RunAvantBasic ==
    /\ CurrentStep.type = "AvantBasicWorkflowStep"
    /\ NoAnswer \/ \E ahead \in Answered : Answer(ahead)

\* The worker ends between the acceptance and the commit that records it.
CutShortAtAnswer ==
    /\ pc = "run" /\ CurrentStep.type = "AvantBasicWorkflowStep"
    /\ Fail
    /\ AcceptedUnheard
    /\ TermsSent
    /\ UNCHANGED lost

StoresNothing ==
    /\ \/ CurrentStep.type \in {"JumpBranchStep", "NoopStep"}
       \/ CurrentStep.type = "PlayMessageStep" /\ Current.name # "show-confirmation-of-payment-terms"
       \/ Current.name = "save-past-due-as-amount-in-workflow"
    /\ UNCHANGED payment

-----------------------------------------------------------------------------
Dates  == {"date", "original_date"}
Fields == {"entered_zip_code", "confirmed_zip_code", "loan_id", "loan_past_due_amount_cents",
           "upcoming_payment", "play_additional_confirmation_message", "potential_cutoff_scenario",
           "cutoff_occurred", "confirmation", "Iivr_basic_step_name"} \cup Dates

PaymentInit ==
    /\ Init
    /\ session = [f \in Fields |-> IF f \in Dates THEN 0 ELSE "unset"]
    /\ external = <<>>
    /\ consent = "none"
    /\ submitted = 0
    /\ lost = 0

RunPaymentStep ==
    /\ RunStep
    /\ \/ GatherZip \/ GatherAmount \/ GatherConfirmation \/ ShowTerms \/ SetField \/ CopyDate
       \/ LookUpCustomer \/ Decide \/ RunAvantBasic \/ StoresNothing

PaymentNext ==
    \/ RunPaymentStep
    \/ CutShortAtAnswer
    \/ Next /\ pc' # "handle" /\ TermsSent /\ UNCHANGED dealings

PaymentSpec == PaymentInit /\ [][PaymentNext]_paymentVars

-----------------------------------------------------------------------------
(* Where the steps lead *)

\* The branches on which a customer may be whose zip code is not confirmed, and
\* the places at which no external workflow need be under way.
IdentityBranches == {"root", "payment_not_made"}
Early(b, n)      == \/ b \in IdentityBranches \cup {"get_customer_info", "error_processing"}
                    \/ n = "initialize-make-payment"

ZipCodeMaps == {"branch-on-zip-code-response", "branch-on-zip-code-retry"}

\* The steps that call the external workflow.
OutsideSteps == {"initialize-make-payment", "agree-to-use-bank-account-on-file-in-workflow",
                 "agree-to-apply-to-future-installment", "agree-to-pay-on-earliest-date",
                 "use-amount-due-in-workflow", "run-workflow-step-with-payment-amount",
                 "run-workflow-step-with-agreement"}

\* The fields that step n stores when it succeeds, of those that the maps read.
Stores(n) ==
    CASE n \in DOMAIN Constants                         -> {Constants[n][1]}
      [] n \in {"check-zip-code", "recheck-zip-code"}   -> {"confirmed_zip_code"}
      [] n = "get-product-info-for-customer"            -> {"loan_id", "loan_past_due_amount_cents"}
      [] n = "get-confirmation-of-payment-terms"        -> {"confirmation"}
      [] n = "initialize-make-payment"                  -> {"Iivr_basic_step_name"}
      [] n = "evaluate-cutoff-possibility"              -> {"cutoff_occurred"}
      [] n = "copy-date-of-failed-payment"              -> {"original_date"}
      [] OTHER                                          -> {}

CustomerFields == {"upcoming_payment", "loan_id", "loan_past_due_amount_cents",
                   "play_additional_confirmation_message", "potential_cutoff_scenario"}

\* The steps of an external workflow, and the branches, that come when it has a date.
DatedSteps    == {"pay_on_earliest_date", "select_amount", "confirmation"}
DatedBranches == DatedSteps \cup {"select_amount_use_past_due", "branch_to_additional_message",
                                  "play_delinquent_message", "play_upcoming_payment_message", "cutoff"}

\* The fields that are stored when the run is at step n of branch b, however it got
\* there.  A branch that goes on where it was left may be entered anywhere.
KnownOn(b) ==
    IF b \in {"root", "get_customer_info"} THEN {}
    ELSE CustomerFields \cup (IF b = "initialize_payment" THEN {} ELSE {"Iivr_basic_step_name"})
                       \cup (IF b \in DatedBranches THEN {"date"} ELSE {})
Known(b, n) ==
    IF b \in {"payment_not_made", "error_processing"} THEN {}
    ELSE KnownOn(b) \cup UNION {Stores(Tree[b].steps[i].name) :
                                   i \in {j \in 1 .. IndexOf(b, n) - 1 : Tree[b].reset_on_switch}}

\* The places to which the run comes when the external workflow has its date, and
\* the branches on which one is begun or has not.
ReturnToCutoff == "jump-to-Iivr-basic-workflow-branch-step-or-return-to-cutoff"
Dated(b, n)    == b \in DatedBranches \ {"pay_on_earliest_date"} \/ n = ReturnToCutoff
Undated        == {"root", "get_customer_info", "initialize_payment", "pay_on_earliest_date"}

\* What the steps of branch b are, by their names.
IsWhatItIsCalled(b, t) ==
    /\ t.name \in MapNames <=> t.type = "BranchMapWorkflowStep"
    /\ t.name \in OutsideSteps <=> t.type = "AvantBasicWorkflowStep"
    /\ t.name \in OutsideSteps /\ Early(b, t.name) => t.name = "initialize-make-payment"
    /\ t.name = "show-confirmation-of-payment-terms" => t.type = "PlayMessageStep"
    /\ t.name = "get-confirmation-of-payment-terms" => t.type = "InputStep"
    /\ t.name \in {"show-confirmation-of-payment-terms", "run-workflow-step-with-agreement"} => t.exit = NoExit
    /\ t.name \in {"check-zip-code", "recheck-zip-code"} => b = "root"
    /\ Stores(t.name) # {} => t.type \notin {"JumpBranchStep", "NoopStep", "PlayMessageStep"}
    /\ t.name = "copy-date-of-failed-payment" => t.type = "CopySessionVariable"
    /\ t.name = "evaluate-cutoff-possibility" => t.type = "BooleanLogicStep"
    /\ t.name \in {"copy-date-of-failed-payment", "evaluate-cutoff-possibility"} => "date" \in Known(b, t.name)
    /\ t.name = "branch-on-Iivr-basic-workflow-step" => ~Early(b, t.name)
    /\ t.name = "initialize-make-payment" => b = "initialize_payment"
    /\ t.name = "agree-to-pay-on-earliest-date" \/ t.name = ReturnToCutoff => b = "pay_on_earliest_date"
    /\ t.switch_to = "cutoff" => ~IsInput(t)
    /\ t.name \in MapNames \ {"branch-on-cutoff-or-error"} => Maps[t.name].field \in Known(b, t.name) \ Dates

\* A success takes the run from step n of branch b to step m of branch c only so:
\* to the agreement from the terms that were shown and answered.
TakesTo(b, n, c, m) ==
    /\ m = "get-confirmation-of-payment-terms" => n = "show-confirmation-of-payment-terms"
    /\ m = "continue-on-confirmation" => n = "get-confirmation-of-payment-terms"
    /\ m = "run-workflow-step-with-agreement" => n = "continue-on-confirmation" /\ c = "confirmation"
    /\ m = "play-confirmation-payment-submitted" => n = "run-workflow-step-with-agreement"
    /\ n = "run-workflow-step-with-agreement" => m = "play-confirmation-payment-submitted"
    /\ n # "play-confirmation-payment-submitted"
    /\ b \in IdentityBranches /\ c \notin IdentityBranches => n \in ZipCodeMaps /\ c = "get_customer_info"
    /\ Early(b, n) /\ ~Early(c, m) => n = "initialize-make-payment"
    /\ \A f \in Known(c, m) :
          \/ f \in Known(b, n) \cup Stores(n)
          \/ f = "date" /\ n = "branch-on-Iivr-basic-workflow-step" /\ c \in DatedSteps
    /\ Dated(c, m) =>
          \/ Dated(b, n) \/ n = "agree-to-pay-on-earliest-date"
          \/ n = "branch-on-Iivr-basic-workflow-step" /\ c \in DatedSteps \ {"pay_on_earliest_date"}
    /\ c \in Undated =>
          \/ b \in Undated /\ (c = "pay_on_earliest_date" => b = c)
          \/ n = "branch-on-Iivr-basic-workflow-step" /\ c \in DatedSteps
          \/ n = "jump-to-initialize-payment" /\ b = "cutoff"
    /\ c = "cutoff" => b = c \/ n = ReturnToCutoff

\* And an error, unless step n is run again.
FallsBackTo(b, n, c, m) ==
    /\ m \notin {"get-confirmation-of-payment-terms", "continue-on-confirmation",
                  "run-workflow-step-with-agreement", "play-confirmation-payment-submitted"}
    /\ n # "play-confirmation-payment-submitted"
    /\ b \in IdentityBranches => c \in IdentityBranches
    /\ Early(b, n) => Early(c, m)
    /\ Known(c, m) \subseteq Known(b, n)
    /\ Dated(c, m) => Dated(b, n)
    /\ c \in Undated => b \in Undated /\ (c = "pay_on_earliest_date" => b = c)

StepLeads(b, i) ==
    LET t == Tree[b].steps[i] IN
    /\ IsWhatItIsCalled(b, t)
    /\ t.name = "run-workflow-step-with-agreement" => i + 1 \in DOMAIN Tree[b].steps
    /\ t.name = "show-confirmation-of-payment-terms" =>
          i + 1 \in DOMAIN Tree[b].steps /\ Tree[b].steps[i + 1].name = "get-confirmation-of-payment-terms"
    /\ t.name = "copy-date-of-failed-payment" <=> b = "cutoff" /\ i = 1
    /\ t.name = "evaluate-cutoff-possibility" => b = "cutoff"
    /\ t.name = "branch-on-cutoff-or-error" =>
          i > 1 /\ Tree[b].steps[i - 1].name = "evaluate-cutoff-possibility"
    /\ t.reset_to # NoStep => FallsBackTo(b, t.name, b, t.reset_to)
    /\ \A c \in DOMAIN Tree : \A k \in DOMAIN Tree[c].steps :
          ComesNext(b, i, c, k) =>
              /\ c \in (IF IsBranch(t) THEN t.targets ELSE {b})
                     => TakesTo(b, t.name, c, Tree[c].steps[k].name)
              /\ c = t.switch_to => FallsBackTo(b, t.name, c, Tree[c].steps[k].name)

ASSUME PaymentTreeLeads ==
    Tree = MakePaymentTree =>
        /\ \A b \in DOMAIN Tree : \A i \in DOMAIN Tree[b].steps : StepLeads(b, i)
        /\ Tree[Root].steps[1].name = "gather-zip-code" /\ Known(Root, "gather-zip-code") = {}
        /\ ~Tree["cutoff"].reset_on_switch
        /\ \A i \in DOMAIN Tree["cutoff"].steps : Tree["cutoff"].steps[i].reset_to = NoStep
        /\ Tree["cutoff"].steps[Len(Tree["cutoff"].steps)].name =
               "jump-to-Iivr-basic-workflow-branch-step"

-----------------------------------------------------------------------------
(* Properties *)

\* The external workflow, when it waits for it, is given the agreement only for a
\* customer whose zip code was confirmed, and after a PAY that answered the terms
\* of this very payment, put together after the last step that could have changed
\* them.  The customer had been sent those terms, unless a request was cut short:
\* the run is taken on to the reply by a commit before the answer is sent, so that
\* when the terms are lost a PAY that comes next is taken for the reply to them.
PaysWhatWasAgreed ==
    pc = "run" /\ Current.name = "run-workflow-step-with-agreement" /\ Head(external) = "confirmation" =>
        /\ consent = "given" \/ (consent = "blind" /\ failures > 0)
        /\ session.confirmed_zip_code = "True"

\* A customer is told that the payment was submitted only if the external
\* workflow accepted an agreement; and unless a request was cut short or an
\* answer lost, telling the customer is all that is still done once it did.
ToldOnlyWhenSubmitted ==
    pc = "run" =>
        /\ Current.name = "play-confirmation-payment-submitted" => submitted > 0
        /\ submitted > 0 /\ failures = 0 /\ lost = 0 => Current.name = "play-confirmation-payment-submitted"

\* Each payment after the first has an answer that was lost, or a request that
\* was cut short: no way through the branches, their retries and the cutoff
\* agrees again to what the run knows was accepted.
PaysAgainOnlyWhenUnheard == submitted <= 1 + lost + failures

\* No step that branches on a field, or copies or compares the dates, reads one
\* that no step has stored: that would raise a KeyError which no handler catches.
\* (The fields that only a text mentions are left out, as the texts are.)
FieldsStoredBeforeRead ==
    pc = "run" =>
        /\ Current.name \in DOMAIN Maps => session[Maps[Current.name].field] # "unset"
        /\ Current.name \in {"copy-date-of-failed-payment", "evaluate-cutoff-possibility"} => session.date # 0
        /\ Current.name = "evaluate-cutoff-possibility" => session.original_date # 0

\* Unless one was cut short, the only request that is answered by no handler is
\* one of a second payment that is refused after the run was in the cutoff branch
\* to its end.
FailsOnlyAfterCutoff ==
    pc = "respond" /\ reply.kind = "failed" /\ failures = 0 =>
        /\ CurrentStep.switch_to = "cutoff"
        /\ StepRunAt(LastVisit("cutoff")).name = "jump-to-Iivr-basic-workflow-branch-step"

\* A step that fails and names a branch to switch to is followed by a step of
\* that branch.
SwitchGoesOn ==
    pc = "handle" /\ OutOfRetries /\ CurrentStep.switch_to # NoBranch => CanAdvance(CurrentStep.switch_to)
=============================================================================
