---------------------------- MODULE ActivateCard ----------------------------
(***************************************************************************)
(* The engine on the card activation tree of the voice line                 *)
(* (step_trees/avant/ivr/activate_card.py), together with the fields of the *)
(* workflow session that the tree reads and writes.  A field is stored by   *)
(* the commit that saves the state of the step, so every step of the engine *)
(* that runs a step also stores what the step stores, and the outcome of a  *)
(* step that reads a field is the one the field calls for.                  *)
(*                                                                          *)
(* The digits the caller enters are left out: a field with digits is told   *)
(* apart only by whether the caller has agreed to what it now holds, and     *)
(* whether the caller had then heard it: the answer that reads the digits    *)
(* back may be lost after the run has been taken to their confirmation.      *)
(***************************************************************************)
EXTENDS WorkflowEngine

VARIABLES
    account,  \* session.credit_card_account_id: "unset", "None" or "found"
    answer,   \* the session fields of the confirmations, by the key they confirm
    agreed,   \* the keys whose present digits the caller has said are correct
    unheard   \* those of them the caller said it of without having heard the digits

session     == <<account, answer, agreed, unheard>>
sessionVars == <<vars, session>>

Keys    == {"input_phone_number", "card_last_4", "ssn_last_4"}
Answers == {"unset", "correct", "incorrect", "repeat"}

-----------------------------------------------------------------------------
(* The tree *)

OnError(t, b)  == [t EXCEPT !.switch_to = b]
BackTo(t, n)   == [t EXCEPT !.reset_to = n]
Leaving(t, ex) == [t EXCEPT !.exit = ex]

LookUpBranch(lookup, missing) == Branch(<<
    Step(lookup, "AddFieldToWorkflowSessionStep"),
    Branching("branch-on-lookup-error", "BranchMapWorkflowStep",
              {missing, "get_customer_card_last_four"})>>)

\* Enter digits, confirm them, and go on only if they are correct.
Entry(enter, confirm, decide, next) == Branch(<<
    OnError(Step(enter, "InputStep"), "customer_info_input_failed_transfer"),
    Step(confirm, "ConfirmationStep"),
    OnError(BackTo(Branching(decide, "BranchMapWorkflowStep", {next, NoBranch}), enter),
            "customer_info_input_failed_transfer")>>)

CardEntry  == Entry("enter-card-last-4", "confirm-card-last-4", "reset-if-card-incorrect",
                    "get_customer_ssn_last_four")
SsnEntry   == Entry("enter-ssn", "confirm-ssn", "reset-if-ssn-incorrect", "card_activation")
PhoneEntry == Entry("enter-phone-number", "confirm-phone-number",
                    "reset-if-phone-number-incorrect", "customer_lookup_with_session")

CardActivation == Branch(<<
    OnError(Step("activate-card", "CallExternalServiceStep"), "card_activation_failed"),
    Leaving(Step("play-card-activation-succeeded-message", "PlayMessageStep"), "HangUp")>>)

ToCustomerService == Branch(<<
    Leaving(Step("connect-to-customer-service-message", "PlayMessageStep"), "CurrentQueue")>>)

ActivateCardTree == [
    root                                |-> LookUpBranch("get-card-id", "get_customer_phone_number"),
    get_customer_card_last_four         |-> CardEntry,
    get_customer_ssn_last_four          |-> SsnEntry,
    get_customer_phone_number           |-> PhoneEntry,
    customer_lookup_with_session        |-> LookUpBranch("customer-lookup-with-session-phone-number",
                                                         "customer_lookup_with_session_failed"),
    card_activation                     |-> CardActivation,
    card_activation_failed              |-> ToCustomerService,
    customer_lookup_with_session_failed |-> ToCustomerService,
    customer_info_input_failed_transfer |-> ToCustomerService]

ActivateCardBranches == DOMAIN ActivateCardTree
ActivateCardSteps    ==
    UNION {{ActivateCardTree[b].steps[i].name : i \in DOMAIN ActivateCardTree[b].steps} :
              b \in ActivateCardBranches}
ActivateCardExits    == {"HangUp", "CurrentQueue"}

\* The tree keeps the conventions under which the history of a run is sound.
ASSUME ActivationTreeIsSound ==
    Tree = ActivateCardTree => WellNamed /\ LeadsOn /\ SpeaksOnError /\ ResetsCount

-----------------------------------------------------------------------------
(* What the steps store, and which branch the fields call for *)

KeyEntered ==
    [n \in {"enter-phone-number", "enter-card-last-4", "enter-ssn"} |->
        CASE n = "enter-phone-number" -> "input_phone_number"
          [] n = "enter-card-last-4"  -> "card_last_4"
          [] n = "enter-ssn"          -> "ssn_last_4"]

KeyConfirmed ==
    [n \in {"confirm-phone-number", "confirm-card-last-4", "confirm-ssn"} |->
        CASE n = "confirm-phone-number" -> "input_phone_number"
          [] n = "confirm-card-last-4"  -> "card_last_4"
          [] n = "confirm-ssn"          -> "ssn_last_4"]

KeyDecided ==
    [n \in {"reset-if-phone-number-incorrect", "reset-if-card-incorrect", "reset-if-ssn-incorrect"} |->
        CASE n = "reset-if-phone-number-incorrect" -> "input_phone_number"
          [] n = "reset-if-card-incorrect"         -> "card_last_4"
          [] n = "reset-if-ssn-incorrect"          -> "ssn_last_4"]

Lookups == {"get-card-id", "customer-lookup-with-session-phone-number"}

\* An input that does not bind is not stored, and the digits stay as they were.
Enter ==
    /\ Current.name \in DOMAIN KeyEntered
    /\ \/ /\ result'.kind = "success"
          /\ agreed'  = agreed \ {KeyEntered[Current.name]}
          /\ unheard' = unheard \ {KeyEntered[Current.name]}
       \/ result'.kind # "success" /\ UNCHANGED <<agreed, unheard>>
    /\ UNCHANGED <<account, answer>>

\* The caller's answer is taken for one to the digits, heard or not.
Answered(key, a) ==
    /\ answer' = [answer EXCEPT ![key] = a]
    /\ agreed' = IF a = "correct" THEN agreed \cup {key} ELSE agreed \ {key}
    /\ unheard' = IF a = "correct" /\ heard # CurrentId THEN unheard \cup {key} ELSE unheard \ {key}

\* The name of the action is stored, that of the replay too.
Confirm ==
    /\ Current.name \in DOMAIN KeyConfirmed
    /\ LET key == KeyConfirmed[Current.name]
       IN  \/ /\ result'.kind = "success"
              /\ \E a \in {"correct", "incorrect"} : Answered(key, a)
           \/ /\ result'.kind = "replay"
              /\ answer' = [answer EXCEPT ![key] = "repeat"]
              /\ UNCHANGED <<agreed, unheard>>
           \/ /\ result'.kind \in {"error", "exit_queue"}
              /\ UNCHANGED <<answer, agreed, unheard>>
    /\ UNCHANGED account

LookUp ==
    /\ Current.name \in Lookups
    /\ account' \in {"None", "found"}
    /\ UNCHANGED <<answer, agreed, unheard>>

\* Slip: the entry has a default branch, for any other answer.
CalledForByDefault(outcome) ==
    \/ /\ Current.name \in DOMAIN KeyDecided
       /\ (outcome.kind = "success") = (answer[KeyDecided[Current.name]] # "unset")
    \/ /\ Current.name = "branch-on-lookup-error"
       /\ (outcome.branch # "get_customer_card_last_four") = (account = "None")

\* Slip: None is not compared as the string it is mapped under.
CalledForNone(outcome) ==
    \/ /\ Current.name \in DOMAIN KeyDecided
       /\ (outcome.kind = "success") = (answer[KeyDecided[Current.name]] = "correct")
    \/ /\ Current.name = "branch-on-lookup-error"
       /\ outcome.branch = "get_customer_card_last_four"

\* The branch a value of the field is mapped to.
CalledFor(outcome) ==
    \/ /\ Current.name \in DOMAIN KeyDecided
       /\ (outcome.kind = "success") = (answer[KeyDecided[Current.name]] = "correct")
    \/ /\ Current.name = "branch-on-lookup-error"
       /\ (outcome.branch # "get_customer_card_last_four") = (account = "None")

Decide == CalledFor(result') /\ UNCHANGED session

StoresNothing ==
    /\ CurrentStep.type \in {"CallExternalServiceStep", "PlayMessageStep"}
    /\ UNCHANGED session

-----------------------------------------------------------------------------
ActivationInit ==
    /\ Init
    /\ account = "unset"
    /\ answer = [k \in Keys |-> "unset"]
    /\ agreed = {}
    /\ unheard = {}

RunActivationStep == RunStep /\ (Enter \/ Confirm \/ LookUp \/ Decide \/ StoresNothing)

ActivationNext ==
    \/ RunActivationStep
    \/ Next /\ pc' # "handle" /\ UNCHANGED session

ActivationSpec == ActivationInit /\ [][ActivationNext]_sessionVars

-----------------------------------------------------------------------------
(* Properties *)

\* The keys whose digits the current step uses.
DigitsUsed ==
    CASE Current.name = "activate-card"                             -> {"card_last_4", "ssn_last_4"}
      [] Current.name = "customer-lookup-with-session-phone-number" -> {"input_phone_number"}
      [] OTHER                                                      -> {}

\* A card is activated, and an account looked up by a number the caller entered,
\* only with digits the caller has called correct since entering them, however
\* often the entry was retried, reset or cut short; and, as long as no request
\* was cut short, of digits that were read back to the caller before.  (The run
\* is taken to the confirmation by the commit before the answer that reads the
\* digits back, and takes the next input for the caller's word on them.)
UsesConfirmedDigits ==
    pc = "run" =>
        /\ DigitsUsed \subseteq agreed
        /\ failures = 0 => DigitsUsed \cap unheard = {}

\* A caller of whom no account was found leaves only through a queue, and one
\* who is told that the card is active had the card activated.
LeavesAsFound ==
    /\ account = "None" /\ pc = "exit" => ExitOfCurrent = "CurrentQueue" \/ result.kind = "exit_queue"
    /\ pc = "exit" /\ ExitOfCurrent = "HangUp" /\ result.kind = "success" =>
           \E i \in DOMAIN wsrs : StepRunAt(i).name = "activate-card" /\ wsrs[i].step_state = "success"
=============================================================================
