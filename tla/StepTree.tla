------------------------------ MODULE StepTree ------------------------------
(***************************************************************************)
(* A workflow configuration: the step tree that the engine walks            *)
(* (ivr_gateway/steps/config.py), what each step type of                    *)
(* ivr_gateway/steps/api/v1 can answer when it is run, and the lookups that *)
(* the engine and the workflow service make in the tree.                    *)
(*                                                                          *)
(* A tree is a function from branch names to branches.  A branch is a       *)
(* sequence of step templates and the flag reset_on_switch.  The step       *)
(* types are told apart only by the outcomes they can have; messages,       *)
(* prompts, session variables and the values of inputs are left out.        *)
(***************************************************************************)
EXTENDS Naturals, Sequences

CONSTANTS
    Tree,         \* the step tree of the configuration the run is bound to
    BranchNames,  \* the names steps use for branches, misspelt ones included
    StepNames,    \* the names of the steps
    Exits         \* the exit paths (ivr_gateway/exit_paths.py)

Root     == "root"
NoBranch == "no branch"
NoStep   == "no step"
NoExit   == "no exit"

MenuTypes   == {"InputActionStep", "NumberedInputActionStep", "ConfirmationStep", "AgreementStep"}
InputTypes  == {"InputStep"} \cup MenuTypes
BranchTypes == {"BranchMapWorkflowStep", "JumpBranchStep"}
PlainTypes  == {"NoopStep", "PlayMessageStep", "UpdateCallStep", "CopySessionVariable",
                "AddFieldToWorkflowSessionStep"}
StepTypes   == InputTypes \cup BranchTypes \cup PlainTypes \cup
                   {"AvantBasicWorkflowStep", "BooleanLogicStep", "CallExternalServiceStep"}

StepTemplate == [name         : StepNames,
                 type         : StepTypes,
                 exit         : Exits \cup {NoExit},
                 reset_to     : StepNames \cup {NoStep},
                 switch_to    : BranchNames \cup {NoBranch},
                 retry_count  : Nat,
                 replayable   : BOOLEAN,
                 targets      : SUBSET (BranchNames \cup {NoBranch})]

StepBranch == [steps : Seq(StepTemplate), reset_on_switch : BOOLEAN]

\* The first branch of a tree is "root", the branch a new run starts on, and
\* it has a first step.  A jump names a branch, if perhaps one that is not there.
ASSUME TreeAssumption ==
    /\ NoBranch \notin BranchNames
    /\ NoStep \notin StepNames
    /\ NoExit \notin Exits
    /\ DOMAIN Tree \subseteq BranchNames
    /\ Root \in DOMAIN Tree
    /\ \A b \in DOMAIN Tree : Tree[b] \in StepBranch
    /\ \A b \in DOMAIN Tree : \A i \in DOMAIN Tree[b].steps :
          Tree[b].steps[i].type = "JumpBranchStep" => NoBranch \notin Tree[b].steps[i].targets
    /\ Len(Tree[Root].steps) > 0

-----------------------------------------------------------------------------
(* Writing a tree down *)

DefaultRetryCount == 3

Step(name, type) ==
    [name |-> name, type |-> type, exit |-> NoExit, reset_to |-> NoStep, switch_to |-> NoBranch,
     retry_count |-> DefaultRetryCount, replayable |-> type \in {"ConfirmationStep", "AgreementStep"},
     targets |-> {}]

Branching(name, type, targets) == [Step(name, type) EXCEPT !.targets = targets]

Branch(steps) == [steps |-> steps, reset_on_switch |-> TRUE]

-----------------------------------------------------------------------------
(* What running a step can return (ivr_gateway/steps/result.py) *)

Result == [kind      : {"success", "replay", "exit_queue", "error"},
           retryable : BOOLEAN,
           saved     : BOOLEAN,
           branch    : BranchNames \cup {NoBranch}]

Outcome(kind, retryable, saved, b) ==
    [kind |-> kind, retryable |-> retryable, saved |-> saved, branch |-> b]

Success      == Outcome("success", FALSE, TRUE, NoBranch)
BranchTo(b)  == Outcome("success", FALSE, TRUE, b)
Replay       == Outcome("replay", FALSE, TRUE, NoBranch)
ExitQueue    == Outcome("exit_queue", FALSE, TRUE, NoBranch)
Retryable    == Outcome("error", TRUE, TRUE, NoBranch)
Fatal        == Outcome("error", FALSE, TRUE, NoBranch)
UnsavedFatal == Outcome("error", FALSE, FALSE, NoBranch)

\* An answer that does not bind to the input type is a retryable error; menus
\* also transfer to the queue on "0" and repeat themselves when they offer it.
InputOutcomes(t) ==
    {Success, Retryable}
        \cup (IF t.type \in MenuTypes THEN {ExitQueue} ELSE {})
        \cup (IF t.type \in MenuTypes /\ t.replayable THEN {Replay} ELSE {})

\* The value of the field picks one of the branches or the default; a value
\* with neither, or a branch the tree does not have, is a retryable error.
BranchMapOutcomes(t) == {IF b \in DOMAIN Tree THEN BranchTo(b) ELSE Retryable : b \in t.targets}

\* A jump names its branch without looking whether the tree has it.
JumpOutcomes(t) == {BranchTo(b) : b \in t.targets}

AvantBasicOutcomes   == {Success, Retryable, Fatal}
BooleanLogicOutcomes == {Success, UnsavedFatal}
CallExternalOutcomes == {Success, Fatal}
PlainOutcomes        == {Success}

Outcomes(t) ==
    CASE t.type \in InputTypes                -> InputOutcomes(t)
      [] t.type = "BranchMapWorkflowStep"     -> BranchMapOutcomes(t)
      [] t.type = "JumpBranchStep"            -> JumpOutcomes(t)
      [] t.type = "AvantBasicWorkflowStep"    -> AvantBasicOutcomes
      [] t.type = "BooleanLogicStep"          -> BooleanLogicOutcomes
      [] t.type = "CallExternalServiceStep"   -> CallExternalOutcomes
      [] OTHER                                -> PlainOutcomes

IsInput(t)  == t.type \in InputTypes
IsBranch(t) == t.type \in BranchTypes

-----------------------------------------------------------------------------
(* Lookups *)

HasStep(b, n) == b \in DOMAIN Tree /\ \E i \in DOMAIN Tree[b].steps : Tree[b].steps[i].name = n

\* The first step of the branch with that name.
IndexOf(b, n) ==
    CHOOSE i \in DOMAIN Tree[b].steps :
        /\ Tree[b].steps[i].name = n
        /\ \A j \in 1 .. i - 1 : Tree[b].steps[j].name # n

Template(b, n) == Tree[b].steps[IndexOf(b, n)]

\* The trees of step_trees/ name their steps so that a step of a branch is found
\* by its name, and so that no step that leads to another branch is called like
\* a step that asks there.
WellNamed ==
    /\ \A b \in DOMAIN Tree : \A i, j \in DOMAIN Tree[b].steps :
          Tree[b].steps[i].name = Tree[b].steps[j].name => i = j
    /\ \A b, c \in DOMAIN Tree : \A i \in DOMAIN Tree[b].steps, j \in DOMAIN Tree[c].steps :
          IsBranch(Tree[b].steps[i]) /\ IsInput(Tree[c].steps[j])
              => Tree[b].steps[i].name # Tree[c].steps[j].name

\* Where a step of branch b that has no exit can lead when it succeeds.
Leads(b, t) ==
    IF IsBranch(t) THEN {o.branch : o \in {r \in Outcomes(t) : r.kind = "success"}} ELSE {b}

\* Branch c has a step to go on with after step i of branch b.  A branch that does
\* not start over is not left for good before its last step, which leaves.
GoesOn(b, i, c) ==
    /\ c \in DOMAIN Tree
    /\ Len(Tree[c].steps) > 0
    /\ IF c = b
           THEN i < Len(Tree[b].steps)
           ELSE Tree[c].reset_on_switch \/ Tree[c].steps[Len(Tree[c].steps)].exit # NoExit

\* Step k of branch c can come after step i of branch b, when the run goes on there.
ComesNext(b, i, c, k) == IF c = b THEN k = i + 1 ELSE Tree[c].reset_on_switch => k = 1

\* No branch is left off its end, but for other branches that go on with one of bs,
\* and contacts are sent back only to steps that they have been at.
LeadsOnBut(bs) ==
    /\ \A c \in bs : c \in DOMAIN Tree /\ Len(Tree[c].steps) > 0
    /\ \A b \in DOMAIN Tree : \A i \in DOMAIN Tree[b].steps :
          LET t          == Tree[b].steps[i]
              MayLead(c) == GoesOn(b, i, c) \/ c \in bs \ {b}
          IN  /\ t.exit = NoExit => \A c \in Leads(b, t) : MayLead(c)
              /\ t.switch_to # NoBranch => t.exit = NoExit /\ MayLead(t.switch_to)
              /\ t.reset_to # NoStep => \E j \in 1 .. i : Tree[b].steps[j].name = t.reset_to

LeadsOn == LeadsOnBut({})

\* A branch that is taken on an error does not go on with a step that asks.
SpeaksOnError ==
    \A b \in DOMAIN Tree : \A i \in DOMAIN Tree[b].steps :
        LET c == Tree[b].steps[i].switch_to IN
        c \in DOMAIN Tree =>
            \A j \in DOMAIN Tree[c].steps :
                IsInput(Tree[c].steps[j]) => c # b /\ Tree[c].reset_on_switch /\ j # 1

\* A contact is sent back only to steps whose errors are saved, and count.
ResetsCount ==
    \A b \in DOMAIN Tree : \A i, j \in DOMAIN Tree[b].steps :
        Tree[b].steps[i].reset_to = Tree[b].steps[j].name
            => \A o \in Outcomes(Tree[b].steps[j]) : o.saved

\* A step that the branch lacks is given the default.
RetryCountOf(b, n) == IF HasStep(b, n) THEN Template(b, n).retry_count ELSE DefaultRetryCount
=============================================================================
