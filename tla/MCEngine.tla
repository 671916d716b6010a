------------------------------ MODULE MCEngine ------------------------------
(***************************************************************************)
(* Small trees for the engine.  CoreTree is well formed and has one of each *)
(* thing the engine treats in its own way: a menu that can be replayed and  *)
(* leads to the queue on "0", a step that sends the contact back to an      *)
(* earlier one, a switch of branch on an error (both before and after the   *)
(* retries are used up), a branch that goes on where it was left, and both  *)
(* ways of leaving.                                                         *)
(***************************************************************************)
EXTENDS EngineWalk

MCBranchNames == {"root", "pay", "help", "missing"}
MCStepNames   == {"greet", "menu", "pick", "amount", "check", "bank", "confirm",
                  "sorry", "back", "bye", "ask", "lost"}
MCExits       == {"HangUp", "CurrentQueue"}

CoreTree == [
    root |-> Branch(<<
        Step("greet", "PlayMessageStep"),
        [Step("menu", "InputActionStep") EXCEPT !.replayable = TRUE, !.retry_count = 2,
                                                !.switch_to = "help"],
        [Branching("pick", "BranchMapWorkflowStep", {"pay", NoBranch}) EXCEPT !.reset_to = "menu",
                                                !.switch_to = "help"]>>),
    pay |-> Branch(<<
        [Step("amount", "InputStep") EXCEPT !.retry_count = 2],
        [Step("check", "AvantBasicWorkflowStep") EXCEPT !.reset_to = "amount", !.switch_to = "help"],
        [Step("bank", "BooleanLogicStep") EXCEPT !.switch_to = "help"],
        [Step("bye", "PlayMessageStep") EXCEPT !.exit = "HangUp"]>>),
    help |-> [Branch(<<
        Step("sorry", "PlayMessageStep"),
        Branching("back", "JumpBranchStep", {"root"}),
        [Step("bye", "CallExternalServiceStep") EXCEPT !.exit = "CurrentQueue"]>>)
            EXCEPT !.reset_on_switch = FALSE]]

\* The conventions that the history relies on are those of this tree.
ASSUME CoreTreeIsSound == Tree = CoreTree => WellNamed /\ LeadsOn /\ SpeaksOnError /\ ResetsCount

\* Trees that a configuration can hold and the engine does not refuse: jumps to
\* a branch that is not there, steps that send the contact back to a step it
\* never met, and branches that end without an exit.
RoughTree == [
    root |-> Branch(<<
        Step("ask", "InputStep"),
        [Branching("pick", "BranchMapWorkflowStep", {"pay", "missing", "help"})
            EXCEPT !.reset_to = "lost", !.switch_to = "help"],
        Step("greet", "NoopStep")>>),
    pay |-> [Branch(<<
        [Step("amount", "AvantBasicWorkflowStep") EXCEPT !.retry_count = 1, !.switch_to = "pay"],
        Branching("back", "JumpBranchStep", {"root", "missing", "help", "pay"}),
        [Step("check", "AvantBasicWorkflowStep") EXCEPT !.retry_count = 0, !.switch_to = "missing"],
        [Step("bye", "JumpBranchStep") EXCEPT !.targets = {"missing", "pay"}, !.exit = "HangUp"]>>)
            EXCEPT !.reset_on_switch = FALSE],
    help |-> Branch(<<
        [Step("pick", "ConfirmationStep") EXCEPT !.retry_count = 1, !.switch_to = "pay"],
        [Branching("confirm", "BranchMapWorkflowStep", {"pay", NoBranch}) EXCEPT !.reset_to = "pick"],
        Step("sorry", "NoopStep")>>)]

\* A branch taken on an error that starts by asking.
AskOnErrorTree == [
    root |-> Branch(<<
        [Step("amount", "InputStep") EXCEPT !.retry_count = 2, !.switch_to = "help"],
        [Step("bye", "PlayMessageStep") EXCEPT !.exit = "HangUp"]>>),
    help |-> Branch(<<
        [Step("ask", "InputStep") EXCEPT !.retry_count = 1],
        [Step("bye", "PlayMessageStep") EXCEPT !.exit = "CurrentQueue"]>>)]
=============================================================================
