------------------------ MODULE WorkflowEngineProofs ------------------------
(***************************************************************************)
(* The engine keeps its rows, its state machine and the step tree in        *)
(* agreement, takes an input only for the answer it is, and implements the  *)
(* walk along the tree, for every tree and every number of requests and     *)
(* failures.                                                                *)
(***************************************************************************)
EXTENDS EngineWalk, FiniteSetTheorems, TLAPS

-----------------------------------------------------------------------------
(* The lookups of the step tree, and what running a step can answer *)

\* A set of numbers that has an element has a least one.
LEMMA LeastElement ==
    ASSUME NEW S \in SUBSET Nat, S # {}
    PROVE  \E n \in S : \A m \in S : n <= m
<1> DEFINE R == StrictSubsetOrdering(Nat)
           F == FiniteSubsetsOf(Nat)
           T == {1 .. n : n \in S}
<1>1. IsWellFoundedOn(R, F)
  BY FS_StrictSubsetOrderingWellFounded
<1>2. T \subseteq F
  <2>1. \A n \in S : IsFiniteSet(1 .. n)
    BY FS_Interval
  <2>2. \A n \in S : 1 .. n \in SUBSET Nat
    BY SMT
  <2>3. QED
    BY <2>1, <2>2 DEF FiniteSubsetsOf
<1>3. T # {}
  OBVIOUS
<1>4. PICK x \in T : \A y \in T : ~ (<<y, x>> \in R)
  <2> HIDE DEF R, F, T
  <2>1. QED
    BY <1>1, <1>2, <1>3, WFMin
<1>5. PICK n \in S : x = 1 .. n
  OBVIOUS
<1>6. ASSUME NEW m \in S, m < n
      PROVE  FALSE
  <2>1. /\ 1 .. m \in SUBSET Nat
        /\ 1 .. n \in SUBSET Nat
        /\ 1 .. m \subseteq 1 .. n
    BY <1>6
  <2>2. n \in 1 .. n /\ n \notin 1 .. m
    BY <1>6
  <2>3. <<1 .. m, 1 .. n>> \in R
    BY <2>1, <2>2 DEF StrictSubsetOrdering
  <2>4. QED
    BY <1>4, <1>5, <2>3
<1>7. QED
  BY <1>6

\* The lookup of a step by its name finds the first one that has it.
LEMMA IndexOfFirst ==
    ASSUME NEW b, NEW n, HasStep(b, n)
    PROVE  /\ b \in DOMAIN Tree
           /\ IndexOf(b, n) \in DOMAIN Tree[b].steps
           /\ Tree[b].steps[IndexOf(b, n)].name = n
           /\ \A j \in 1 .. IndexOf(b, n) - 1 : Tree[b].steps[j].name # n
<1> DEFINE S == {i \in DOMAIN Tree[b].steps : Tree[b].steps[i].name = n}
<1>1. b \in DOMAIN Tree /\ Tree[b].steps \in Seq(StepTemplate)
  BY TreeAssumption DEF HasStep, StepBranch
<1>2. DOMAIN Tree[b].steps = 1 .. Len(Tree[b].steps) /\ Len(Tree[b].steps) \in Nat
  BY <1>1
<1>3. S \in SUBSET Nat /\ S # {}
  BY <1>2 DEF HasStep
<1>4. PICK i \in S : \A m \in S : i <= m
  <2> HIDE DEF S
  <2>1. QED
    BY <1>3, LeastElement
<1>5. \A j \in 1 .. i - 1 : Tree[b].steps[j].name # n
  BY <1>2, <1>4
<1>6. QED
  BY <1>1, <1>4, <1>5 DEF IndexOf

\* What is looked up is a template of that name.
LEMMA TemplateType ==
    ASSUME NEW b, NEW n, HasStep(b, n)
    PROVE  /\ Template(b, n) \in StepTemplate
           /\ Template(b, n).name = n
           /\ n \in StepNames
           /\ b \in BranchNames
<1>1. /\ b \in DOMAIN Tree
      /\ IndexOf(b, n) \in DOMAIN Tree[b].steps
      /\ Tree[b].steps[IndexOf(b, n)].name = n
  BY IndexOfFirst
<1>2. Tree[b].steps \in Seq(StepTemplate) /\ b \in BranchNames
  BY <1>1, TreeAssumption DEF StepBranch
<1>3. Tree[b].steps[IndexOf(b, n)] \in StepTemplate
  BY <1>1, <1>2
<1>4. Tree[b].steps[IndexOf(b, n)].name \in StepNames
  BY <1>3 DEF StepTemplate
<1>5. QED
  BY <1>1, <1>2, <1>3, <1>4 DEF Template

\* A retry count is a number, whether or not the branch has the step.
LEMMA RetryCountType == \A b, n : RetryCountOf(b, n) \in Nat
BY TemplateType DEF RetryCountOf, DefaultRetryCount, StepTemplate

\* The step at any position of a branch is one the branch has.
LEMMA StepAtPosition ==
    ASSUME NEW b \in DOMAIN Tree, NEW i \in Nat \ {0}, i <= Len(Tree[b].steps)
    PROVE  /\ Tree[b].steps[i] \in StepTemplate
           /\ Tree[b].steps[i].name \in StepNames
           /\ HasStep(b, Tree[b].steps[i].name)
<1>1. Tree[b].steps \in Seq(StepTemplate)
  BY TreeAssumption DEF StepBranch
<1>2. i \in DOMAIN Tree[b].steps
  BY <1>1
<1>3. Tree[b].steps[i] \in StepTemplate
  BY <1>1, <1>2
<1>4. QED
  BY <1>2, <1>3 DEF HasStep, StepTemplate

\* Every result a step can return is a result.
LEMMA OutcomesType ==
    ASSUME NEW t \in StepTemplate
    PROVE  Outcomes(t) \subseteq Result
<1>1. {Success, Replay, ExitQueue, Retryable, Fatal, UnsavedFatal} \subseteq Result
  BY DEF Outcome, Success, Replay, ExitQueue, Retryable, Fatal, UnsavedFatal, Result
<1>2. \A b \in BranchNames \cup {NoBranch} : BranchTo(b) \in Result
  BY DEF Outcome, BranchTo, Result
<1>3. t.targets \subseteq BranchNames \cup {NoBranch} /\ DOMAIN Tree \subseteq BranchNames
  BY TreeAssumption DEF StepTemplate
<1>4. InputOutcomes(t) \subseteq Result
  BY <1>1 DEF InputOutcomes
<1>5. BranchMapOutcomes(t) \subseteq Result
  BY <1>1, <1>2, <1>3 DEF BranchMapOutcomes
<1>6. JumpOutcomes(t) \subseteq Result
  BY <1>2, <1>3 DEF JumpOutcomes
<1>7. AvantBasicOutcomes \cup BooleanLogicOutcomes \cup CallExternalOutcomes \cup PlainOutcomes
        \subseteq Result
  BY <1>1 DEF AvantBasicOutcomes, BooleanLogicOutcomes, CallExternalOutcomes, PlainOutcomes
<1>8. QED
  BY <1>4, <1>5, <1>6, <1>7 DEF Outcomes

\* A branch step that succeeds names the branch to go on with.
LEMMA BranchOutcome ==
    ASSUME NEW b, NEW n, HasStep(b, n), IsBranch(Template(b, n)),
           NEW r \in Outcomes(Template(b, n)), r.kind = "success"
    PROVE  r.branch \in BranchNames
<1> DEFINE t == Template(b, n)
<1>1. /\ b \in DOMAIN Tree
      /\ IndexOf(b, n) \in DOMAIN Tree[b].steps
  BY IndexOfFirst
<1>2. t \in StepTemplate /\ t.targets \subseteq BranchNames \cup {NoBranch}
  BY TemplateType DEF StepTemplate
<1>3. \A c \in BranchNames : BranchTo(c).branch = c
  BY DEF Outcome, BranchTo
<1>4. CASE t.type = "BranchMapWorkflowStep"
  <2>1. r \in BranchMapOutcomes(t)
    BY <1>4 DEF Outcomes, InputTypes, MenuTypes
  <2>2. PICK c \in t.targets : r = IF c \in DOMAIN Tree THEN BranchTo(c) ELSE Retryable
    BY <2>1 DEF BranchMapOutcomes
  <2>3. r # Retryable
    BY DEF Outcome, Retryable
  <2>4. QED
    BY <1>3, <2>2, <2>3, TreeAssumption
<1>5. CASE t.type = "JumpBranchStep"
  <2>1. r \in JumpOutcomes(t)
    BY <1>5 DEF Outcomes, InputTypes, MenuTypes
  <2>2. NoBranch \notin t.targets
    BY <1>1, <1>5, TreeAssumption DEF Template
  <2>3. QED
    BY <1>2, <1>3, <2>1, <2>2 DEF JumpOutcomes
<1>6. QED
  BY <1>4, <1>5 DEF IsBranch, BranchTypes

\* A set of positions in a sequence has a last one.
LEMMA GreatestElement ==
    ASSUME NEW k \in Nat, NEW S \in SUBSET (1 .. k), S # {}
    PROVE  \E n \in S : \A m \in S : m <= n
<1> DEFINE D == {k - i : i \in S}
<1>0. \A i \in S : i \in Nat /\ k - i \in Nat
  OBVIOUS
<1>1. D \in SUBSET Nat /\ D # {}
  BY <1>0
<1>2. PICK d \in D : \A m \in D : d <= m
  <2> HIDE DEF D
  <2>1. QED
    BY <1>1, LeastElement
<1>3. PICK n \in S : d = k - n
  OBVIOUS
<1>4. \A m \in S : k - m \in D
  OBVIOUS
<1>5. ASSUME NEW m \in S
      PROVE  m <= n
  <2>1. k - n <= k - m
    <3>1. k - m \in D
      BY <1>4
    <3> HIDE DEF D
    <3>2. QED
      BY <1>2, <1>3, <3>1
  <2>2. m \in Nat /\ n \in Nat
    BY <1>0
  <2>3. QED
    BY <2>1, <2>2
<1>6. QED
  BY <1>5

\* The first step of a branch is found at its start, whatever the names.
LEMMA FirstIndex ==
    ASSUME NEW b \in DOMAIN Tree, Len(Tree[b].steps) > 0
    PROVE  IndexOf(b, Tree[b].steps[1].name) = 1
<1> DEFINE n == Tree[b].steps[1].name
           k == IndexOf(b, n)
<1>1. Tree[b].steps \in Seq(StepTemplate)
  BY TreeAssumption DEF StepBranch
<1>2. HasStep(b, n)
  BY <1>1 DEF HasStep
<1>3. k \in DOMAIN Tree[b].steps /\ \A j \in 1 .. k - 1 : Tree[b].steps[j].name # n
  BY <1>2, IndexOfFirst
<1> HIDE DEF k
<1>4. QED
  BY <1>1, <1>3 DEF k

\* With distinct names every step of a branch is found where it is.
LEMMA IndexOfPosition ==
    ASSUME WellNamed, NEW b \in DOMAIN Tree, NEW i \in DOMAIN Tree[b].steps
    PROVE  IndexOf(b, Tree[b].steps[i].name) = i
<1>1. HasStep(b, Tree[b].steps[i].name)
  BY DEF HasStep
<1>2. QED
  BY <1>1, IndexOfFirst DEF WellNamed

\* A success is always saved as a state of its step run.
LEMMA SuccessSaved ==
    ASSUME NEW t, NEW r \in Outcomes(t), r.kind = "success"
    PROVE  r.saved
<1> USE DEF Outcome, Success, BranchTo, Replay, ExitQueue, Retryable, Fatal, UnsavedFatal
<1>1. \A x \in InputOutcomes(t) : x.kind = "success" => x.saved
  BY DEF InputOutcomes
<1>2. \A x \in BranchMapOutcomes(t) : x.kind = "success" => x.saved
  BY DEF BranchMapOutcomes
<1>3. \A x \in JumpOutcomes(t) : x.kind = "success" => x.saved
  BY DEF JumpOutcomes
<1>4. \A x \in AvantBasicOutcomes \cup BooleanLogicOutcomes \cup CallExternalOutcomes
                    \cup PlainOutcomes : x.kind = "success" => x.saved
  BY DEF AvantBasicOutcomes, BooleanLogicOutcomes, CallExternalOutcomes, PlainOutcomes
<1>5. QED
  BY <1>1, <1>2, <1>3, <1>4 DEF Outcomes

\* Only a step that cannot be tried again has an error that is not saved.
LEMMA UnsavedIsFatal ==
    ASSUME NEW t, NEW o \in Outcomes(t), ~o.saved
    PROVE  \A r \in Outcomes(t) : r.kind # "replay" /\ ~r.retryable
<1> USE DEF Outcome, Success, BranchTo, Replay, ExitQueue, Retryable, Fatal, UnsavedFatal
<1>1. \A x \in InputOutcomes(t) : x.saved
  BY DEF InputOutcomes
<1>2. \A x \in BranchMapOutcomes(t) : x.saved
  BY DEF BranchMapOutcomes
<1>3. \A x \in JumpOutcomes(t) : x.saved
  BY DEF JumpOutcomes
<1>4. \A x \in AvantBasicOutcomes \cup CallExternalOutcomes \cup PlainOutcomes : x.saved
  BY DEF AvantBasicOutcomes, CallExternalOutcomes, PlainOutcomes
<1>5. Outcomes(t) \in {InputOutcomes(t), BranchMapOutcomes(t), JumpOutcomes(t), AvantBasicOutcomes,
                       BooleanLogicOutcomes, CallExternalOutcomes, PlainOutcomes}
  BY DEF Outcomes
<1>6. Outcomes(t) = BooleanLogicOutcomes
  BY <1>1, <1>2, <1>3, <1>4, <1>5
<1>7. QED
  BY <1>6 DEF BooleanLogicOutcomes

\* Only a step that asks can be asked to repeat itself.
LEMMA ReplayIsInput ==
    ASSUME NEW t, NEW r \in Outcomes(t), r.kind = "replay"
    PROVE  IsInput(t)
<1> USE DEF Outcome, Success, BranchTo, Replay, ExitQueue, Retryable, Fatal, UnsavedFatal
<1>1. \A x \in BranchMapOutcomes(t) : x.kind # "replay"
  BY DEF BranchMapOutcomes
<1>2. \A x \in JumpOutcomes(t) : x.kind # "replay"
  BY DEF JumpOutcomes
<1>3. \A x \in AvantBasicOutcomes \cup BooleanLogicOutcomes \cup CallExternalOutcomes
                   \cup PlainOutcomes : x.kind # "replay"
  BY DEF AvantBasicOutcomes, BooleanLogicOutcomes, CallExternalOutcomes, PlainOutcomes
<1>4. t.type \notin InputTypes =>
         Outcomes(t) \in {BranchMapOutcomes(t), JumpOutcomes(t), AvantBasicOutcomes,
                          BooleanLogicOutcomes, CallExternalOutcomes, PlainOutcomes}
  BY DEF Outcomes
<1>5. QED
  BY <1>1, <1>2, <1>3, <1>4 DEF IsInput

-----------------------------------------------------------------------------
(* The rows *)

\* Rows for the same step runs in the same order.
SameRows(rows) ==
    /\ rows \in Seq(WorkflowStepRun)
    /\ Len(rows) = Len(wsrs)
    /\ \A i \in 1 .. Len(wsrs) : rows[i].step_run = wsrs[i].step_run

\* The last row of a history is the one that was appended to it.
LEMMA AppendLast ==
    ASSUME NEW S, NEW q \in Seq(S), NEW e \in S
    PROVE  /\ Append(q, e) \in Seq(S)
           /\ Len(Append(q, e)) = Len(q) + 1
           /\ \A i \in 1 .. Len(q) : Append(q, e)[i] = q[i]
           /\ Append(q, e)[Len(q) + 1] = e
OBVIOUS

\* The last row of a branch that has one.
LEMMA LastVisitFound ==
    ASSUME TypeOK, NEW b, VisitsOf(b) # {}
    PROVE  /\ LastVisit(b) \in DOMAIN wsrs
           /\ StepRunAt(LastVisit(b)).branch = b
           /\ \A j \in DOMAIN wsrs : StepRunAt(j).branch = b => j <= LastVisit(b)
<1> DEFINE S == VisitsOf(b)
<1>1. wsrs \in Seq(WorkflowStepRun) /\ Len(wsrs) \in Nat /\ DOMAIN wsrs = 1 .. Len(wsrs)
  BY DEF TypeOK
<1>2. S \in SUBSET (1 .. Len(wsrs))
  BY <1>1 DEF VisitsOf
<1>3. \E n \in S : \A m \in S : m <= n
  <2> HIDE DEF S
  <2>1. S # {}
    BY DEF S
  <2>2. QED
    BY <1>1, <1>2, <2>1, GreatestElement
<1>4. LastVisit(b) \in S /\ \A j \in LastVisit(b) + 1 .. Len(wsrs) : StepRunAt(j).branch # b
  <2>1. PICK n \in S : \A m \in S : m <= n
    BY <1>3
  <2>2. \A j \in n + 1 .. Len(wsrs) : StepRunAt(j).branch # b
    <3>1. SUFFICES ASSUME NEW j \in n + 1 .. Len(wsrs), StepRunAt(j).branch = b PROVE FALSE
      OBVIOUS
    <3>2. n \in Nat /\ j \in 1 .. Len(wsrs) /\ ~(j <= n)
      BY <1>1, <1>2, <2>1, <3>1
    <3>3. QED
      BY <1>1, <2>1, <3>1, <3>2 DEF VisitsOf
  <2>3. QED
    BY <2>1, <2>2 DEF LastVisit
<1>5. QED
  BY <1>1, <1>2, <1>4 DEF VisitsOf

\* The current row is there and stands for a step run.
LEMMA CurrentRow ==
    ASSUME TypeOK, RowsResolve, wsrs # <<>>
    PROVE  /\ Len(wsrs) \in DOMAIN wsrs
           /\ wsrs[Len(wsrs)] \in WorkflowStepRun
           /\ CurrentId \in DOMAIN stepRuns
           /\ Current \in StepRun
           /\ HasStep(Current.branch, Current.name)
<1>1. wsrs \in Seq(WorkflowStepRun) /\ stepRuns \in Seq(StepRun)
  BY DEF TypeOK
<1>2. Len(wsrs) \in DOMAIN wsrs
  BY <1>1
<1>3. wsrs[Len(wsrs)] \in WorkflowStepRun
  BY <1>1, <1>2
<1>4. CurrentId \in DOMAIN stepRuns
  BY <1>2 DEF RowsResolve, CurrentId
<1>5. QED
  BY <1>1, <1>2, <1>3, <1>4 DEF Current, RowsResolve

\* A row that gets a result or a branch is a row for the same step run.
LEMMA ChangedRow ==
    ASSUME NEW w \in WorkflowStepRun, NEW s \in StepStates, NEW b \in BranchNames \cup {NoBranch}
    PROVE  /\ [w EXCEPT !.step_state = s] \in WorkflowStepRun
           /\ [w EXCEPT !.step_state = s].step_run = w.step_run
           /\ [w EXCEPT !.branched_on_error = b] \in WorkflowStepRun
           /\ [w EXCEPT !.branched_on_error = b].step_run = w.step_run
BY DEF WorkflowStepRun

\* Attaching a result or a branch to the current row keeps the rows.
LEMMA RecordedRows ==
    ASSUME TypeOK, wsrs # <<>>, NEW b \in BranchNames \cup {NoBranch}
    PROVE  SameRows(wsrs) /\ SameRows(Recorded) /\ SameRows(BranchedOnError(b))
<1> DEFINE s == IF result.saved THEN result.kind ELSE "none"
<1>1. wsrs \in Seq(WorkflowStepRun) /\ Len(wsrs) \in 1 .. Len(wsrs)
  BY DEF TypeOK
<1>2. s \in StepStates
  BY DEF TypeOK, Result, StepStates
<1>3. SameRows(wsrs)
  BY <1>1 DEF SameRows
<1>4. SameRows(Recorded)
  <2> DEFINE w == [wsrs[Len(wsrs)] EXCEPT !.step_state = s]
  <2>1. wsrs[Len(wsrs)] \in WorkflowStepRun
    BY <1>1
  <2>2. w \in WorkflowStepRun /\ w.step_run = wsrs[Len(wsrs)].step_run
    BY <1>2, <2>1, ChangedRow
  <2>3. Recorded = [wsrs EXCEPT ![Len(wsrs)] = w]
    BY DEF Recorded
  <2> HIDE DEF w
  <2>4. QED
    BY <1>1, <2>2, <2>3 DEF SameRows
<1>5. SameRows(BranchedOnError(b))
  <2> DEFINE w == [Recorded[Len(wsrs)] EXCEPT !.branched_on_error = b]
  <2>1. Recorded \in Seq(WorkflowStepRun) /\ Len(Recorded) = Len(wsrs)
    BY <1>4 DEF SameRows
  <2>2. Recorded[Len(wsrs)] \in WorkflowStepRun
    BY <1>1, <2>1
  <2>3. w \in WorkflowStepRun /\ w.step_run = Recorded[Len(wsrs)].step_run
    BY <1>2, <2>2, ChangedRow
  <2>4. BranchedOnError(b) = [Recorded EXCEPT ![Len(wsrs)] = w]
    BY DEF BranchedOnError
  <2> HIDE DEF w
  <2>5. QED
    BY <1>1, <1>4, <2>1, <2>3, <2>4 DEF SameRows
<1>6. QED
  BY <1>3, <1>4, <1>5

\* Rows that are kept, or get a new result, still resolve to the same steps.
LEMMA KeptRows ==
    ASSUME TypeOK, RowsResolve, wsrs # <<>>, SameRows(wsrs'), stepRuns' = stepRuns
    PROVE  RowsResolve' /\ wsrs' # <<>> /\ Current' = Current /\ CurrentId' = CurrentId
<1>1. wsrs \in Seq(WorkflowStepRun) /\ Len(wsrs) \in 1 .. Len(wsrs)
  BY DEF TypeOK
<1>2. Len(wsrs') = Len(wsrs) /\ wsrs' \in Seq(WorkflowStepRun) /\ wsrs' # <<>>
  BY <1>1 DEF SameRows
<1>3. CurrentId' = CurrentId
  BY <1>1, <1>2 DEF SameRows, CurrentId
<1>4. RowsResolve'
  BY <1>1, <1>2 DEF RowsResolve, SameRows
<1>5. QED
  BY <1>2, <1>3, <1>4 DEF Current

\* A row for a new step run of a step of the tree.
LEMMA FreshRow ==
    ASSUME TypeOK, RowsResolve, NEW rows, SameRows(rows), NEW b, NEW n, HasStep(b, n),
           AppendFresh(rows, b, n)
    PROVE  /\ wsrs' \in Seq(WorkflowStepRun)
           /\ stepRuns' \in Seq(StepRun)
           /\ RowsResolve'
           /\ wsrs' # <<>>
           /\ Current' = FreshStepRun(b, n)
<1> DEFINE w == Wsr(Len(stepRuns) + 1)
           s == FreshStepRun(b, n)
<1>1. wsrs \in Seq(WorkflowStepRun) /\ stepRuns \in Seq(StepRun) /\ rows \in Seq(WorkflowStepRun)
  BY DEF TypeOK, SameRows
<1>2. w \in WorkflowStepRun
  BY <1>1 DEF Wsr, WorkflowStepRun, StepStates
<1>3. s \in StepRun
  BY TemplateType DEF FreshStepRun, StepRun
<1>4. wsrs' = Append(rows, w) /\ stepRuns' = Append(stepRuns, s)
  BY DEF AppendFresh
<1> HIDE DEF w, s
<1>5. /\ wsrs' \in Seq(WorkflowStepRun)
      /\ Len(wsrs') = Len(rows) + 1
      /\ \A i \in 1 .. Len(rows) : wsrs'[i] = rows[i]
      /\ wsrs'[Len(rows) + 1] = w
  BY <1>1, <1>2, <1>4
<1>6. /\ stepRuns' \in Seq(StepRun)
      /\ Len(stepRuns') = Len(stepRuns) + 1
      /\ \A r \in 1 .. Len(stepRuns) : stepRuns'[r] = stepRuns[r]
      /\ stepRuns'[Len(stepRuns) + 1] = s
  BY <1>1, <1>3, <1>4
<1>7. w.step_run = Len(stepRuns) + 1 /\ s.branch = b /\ s.name = n
  BY DEF w, s, Wsr, FreshStepRun
<1>8. Current' = s
  BY <1>5, <1>6, <1>7 DEF Current, CurrentId
<1>9. \A i \in DOMAIN wsrs' : wsrs'[i].step_run \in DOMAIN stepRuns'
  <2>1. \A i \in 1 .. Len(rows) : rows[i].step_run \in 1 .. Len(stepRuns)
    BY <1>1 DEF RowsResolve, SameRows
  <2>2. QED
    BY <1>1, <1>5, <1>6, <1>7, <2>1
<1>10. \A r \in DOMAIN stepRuns' : HasStep(stepRuns'[r].branch, stepRuns'[r].name)
  <2>1. \A r \in 1 .. Len(stepRuns) : HasStep(stepRuns[r].branch, stepRuns[r].name)
    BY <1>1 DEF RowsResolve
  <2>2. QED
    BY <1>1, <1>6, <1>7, <2>1
<1>11. RowsResolve'
  BY <1>9, <1>10 DEF RowsResolve
<1>12. QED
  BY <1>1, <1>5, <1>6, <1>8, <1>11 DEF s

\* A row that runs an existing step run again.
LEMMA AgainRow ==
    ASSUME TypeOK, RowsResolve, NEW rows, SameRows(rows), NEW r \in DOMAIN stepRuns,
           AppendAgain(rows, r)
    PROVE  /\ wsrs' \in Seq(WorkflowStepRun)
           /\ stepRuns' \in Seq(StepRun)
           /\ RowsResolve'
           /\ wsrs' # <<>>
           /\ Current' = stepRuns[r]
<1>1. wsrs \in Seq(WorkflowStepRun) /\ stepRuns \in Seq(StepRun) /\ rows \in Seq(WorkflowStepRun)
  BY DEF TypeOK, SameRows
<1>2. Wsr(r) \in WorkflowStepRun /\ Wsr(r).step_run = r
  BY <1>1 DEF Wsr, WorkflowStepRun, StepStates
<1>3. wsrs' = Append(rows, Wsr(r)) /\ stepRuns' = stepRuns
  BY DEF AppendAgain
<1>4. /\ wsrs' \in Seq(WorkflowStepRun)
      /\ Len(wsrs') = Len(rows) + 1
      /\ \A i \in 1 .. Len(rows) : wsrs'[i] = rows[i]
      /\ wsrs'[Len(rows) + 1] = Wsr(r)
  BY <1>1, <1>2, <1>3
<1>5. Current' = stepRuns[r]
  BY <1>2, <1>3, <1>4 DEF Current, CurrentId
<1>6. \A i \in DOMAIN wsrs' : wsrs'[i].step_run \in DOMAIN stepRuns'
  <2>1. \A i \in 1 .. Len(rows) : rows[i].step_run \in DOMAIN stepRuns
    BY <1>1 DEF RowsResolve, SameRows
  <2>2. QED
    BY <1>1, <1>2, <1>3, <1>4, <2>1
<1>7. RowsResolve'
  BY <1>3, <1>6 DEF RowsResolve
<1>8. QED
  BY <1>1, <1>3, <1>4, <1>5, <1>7

\* The step to go on with is one the branch has.
LEMMA NextStepFound ==
    ASSUME NEW b, CanAdvance(b)
    PROVE  /\ b \in BranchNames
           /\ NextStep(b) \in StepTemplate
           /\ HasStep(b, NextStep(b).name)
<1>1. b \in DOMAIN Tree /\ NextIndex(b) <= Len(Tree[b].steps)
  BY DEF CanAdvance
<1>2. Tree[b].steps \in Seq(StepTemplate)
  BY <1>1, TreeAssumption DEF StepBranch
<1>3. \A n : HasStep(b, n) => IndexOf(b, n) \in Nat \ {0}
  BY <1>2, IndexOfFirst
<1>4. NextIndex(b) \in Nat \ {0}
  BY <1>3 DEF NextIndex
<1>5. QED
  BY <1>1, <1>4, StepAtPosition, TreeAssumption DEF NextStep

\* Where a success leads is a branch name.
LEMMA BranchAfterSuccessType ==
    ASSUME TypeOK, AtStep, pc = "handle", result.kind = "success"
    PROVE  BranchAfterSuccess \in BranchNames
<1>1. HasStep(branch, Current.name) /\ result \in Outcomes(Template(branch, Current.name))
  BY DEF AtStep, CurrentStep
<1>2. CASE IsBranch(CurrentStep)
  BY <1>1, <1>2, BranchOutcome DEF BranchAfterSuccess, CurrentStep
<1>3. CASE ~IsBranch(CurrentStep)
  BY <1>3 DEF BranchAfterSuccess, TypeOK
<1>4. QED
  BY <1>2, <1>3

\* The template of the step being prepared or run.
LEMMA CurrentStepType ==
    ASSUME AtStep, pc \in {"prepare", "run", "handle"}
    PROVE  /\ CurrentStep \in StepTemplate
           /\ Outcomes(CurrentStep) \subseteq Result
BY TemplateType, OutcomesType DEF AtStep, CurrentStep

-----------------------------------------------------------------------------
(* The invariant *)

\* A run that was never served satisfies the invariant.
LEMMA EngineInvInit == Init => EngineInv
<1> SUFFICES ASSUME Init PROVE EngineInv
  OBVIOUS
<1>1. Success \in Result
  BY DEF Success, Outcome, Result
<1>2. TypeOK
  BY <1>1, TreeAssumption DEF Init, TypeOK, WorkflowStates, NoReply, Reply
<1>3. QED
  BY <1>2, TreeAssumption DEF Init, EngineInv, RowsResolve, Unstarted, OnTree, AtStep

\* A step that leaves the run alone and is not about to handle a step.
LEMMA RunUnchanged ==
    ASSUME EngineInv, UNCHANGED run, TypeOK', pc' \notin {"prepare", "run", "handle"}
    PROVE  EngineInv'
BY DEF EngineInv, run, RowsResolve, Unstarted, OnTree, AtStep, Current, CurrentId

\* A handler has appended a row or recorded a result.
LEMMA RunAdvanced ==
    ASSUME EngineInv,
           wsrs' \in Seq(WorkflowStepRun), stepRuns' \in Seq(StepRun), RowsResolve', wsrs' # <<>>,
           state' \in WorkflowStates \ {"uninitialized"},
           branch' \in BranchNames,
           state' # "finished" => HasStep(branch', Current'.name),
           pc' \in {"initialize", "exit", "respond"},
           leg' \in {"active", "ended"},
           reply' \in Reply,
           UNCHANGED <<result, applied, outside>>
    PROVE  EngineInv'
<1>1. TypeOK'
  BY DEF EngineInv, TypeOK, outside
<1>2. Unstarted' /\ AtStep'
  BY DEF Unstarted, AtStep
<1>3. OnTree'
  BY DEF OnTree, HasStep
<1>4. QED
  BY <1>1, <1>2, <1>3 DEF EngineInv

\* What the adapter does next is reply or go round its loop.
LEMMA Continued ==
    ASSUME TypeOK, NEW next, ContinueWith(next), wsrs' \in Seq(WorkflowStepRun), wsrs' # <<>>
    PROVE  pc' \in {"initialize", "respond"} /\ reply' \in Reply
<1>1. wsrs'[Len(wsrs')] \in WorkflowStepRun
  OBVIOUS
<1>2. Prompt(wsrs'[Len(wsrs')].step_run) \in Reply
  BY <1>1 DEF Prompt, Reply, WorkflowStepRun
<1>3. QED
  BY <1>2 DEF ContinueWith, TypeOK

\* A step run of this branch that a retry may take.
LEMMA RetryTarget ==
    ASSUME EngineInv, wsrs # <<>>, HasStep(branch, Current.name), NEW r \in RetryTargets
    PROVE  r \in DOMAIN stepRuns /\ stepRuns[r].name = RetryStep
<1>1. CASE CurrentStep.reset_to = NoStep
  BY <1>1, CurrentRow DEF RetryTargets, RetryStep, Current, EngineInv
<1>2. CASE CurrentStep.reset_to # NoStep
  BY <1>2 DEF RetryTargets, RetryStep, StepRunsOf, VisitsOf, StepRunAt, EngineInv, RowsResolve
<1>3. QED
  BY <1>1, <1>2

\* Every step of the engine keeps the invariant.
LEMMA EngineInvNext == EngineInv /\ [Next]_vars => EngineInv'
<1> SUFFICES ASSUME EngineInv, [Next]_vars PROVE EngineInv'
  OBVIOUS
<1>T. TypeOK /\ RowsResolve /\ Unstarted /\ OnTree /\ AtStep
  BY DEF EngineInv
<1>R. SameRows(wsrs)
  BY <1>T DEF SameRows, TypeOK
<1>S. NoReply \in Reply /\ Leave \in Reply /\ Failed \in Reply
  BY DEF NoReply, Leave, Failed, Reply
<1>1. CASE Request
  <2>1. TypeOK'
    BY <1>1, <1>T, <1>S DEF Request, TypeOK, run
  <2>2. QED
    BY <1>1, <2>1, RunUnchanged DEF Request
<1>2. CASE InitializeFirst
  <2> DEFINE n == Tree[Root].steps[1].name
  <2>1. HasStep(Root, n)
    <3>1. Root \in DOMAIN Tree /\ Len(Tree[Root].steps) > 0 /\ Len(Tree[Root].steps) \in Nat
      BY TreeAssumption DEF StepBranch
    <3>2. QED
      BY <3>1, StepAtPosition
  <2>2. branch = Root /\ branch' = Root /\ AppendFresh(wsrs, branch, n) /\ state' = "initialized"
    BY <1>2, <1>T DEF InitializeFirst, InitializeFirstStep, Transition, Unstarted
  <2> HIDE DEF n
  <2>3. /\ wsrs' \in Seq(WorkflowStepRun) /\ stepRuns' \in Seq(StepRun)
        /\ RowsResolve' /\ wsrs' # <<>> /\ Current' = FreshStepRun(Root, n)
    BY <1>T, <1>R, <2>1, <2>2, FreshRow
  <2>4. TypeOK'
    BY <1>2, <1>T, <2>2, <2>3 DEF InitializeFirst, TypeOK, outside, WorkflowStates
  <2>5. Current'.name = n
    BY <2>3 DEF FreshStepRun
  <2>6. OnTree' /\ AtStep' /\ Unstarted'
    BY <1>2, <2>1, <2>2, <2>3, <2>5, TreeAssumption DEF InitializeFirst, OnTree, AtStep, Unstarted
  <2>7. QED
    BY <2>3, <2>4, <2>6 DEF EngineInv
<1>3. CASE InitializeCurrent
  <2>1. TypeOK'
    BY <1>3, <1>T DEF InitializeCurrent, TypeOK, run, outside
  <2>2. QED
    BY <1>3, <1>T, <2>1 DEF InitializeCurrent, EngineInv, RowsResolve, Unstarted, OnTree, AtStep,
                            Current, CurrentId, run
<1>4. CASE InitializeRaises
  <2>1. TypeOK'
    BY <1>4, <1>T, <1>S DEF InitializeRaises, TypeOK, run, outside
  <2>2. QED
    BY <1>4, <2>1, RunUnchanged DEF InitializeRaises
<1>5. CASE Start
  <2>1. TypeOK'
    BY <1>5, <1>T DEF Start, Transition, TypeOK, request, outside, WorkflowStates
  <2>2. QED
    BY <1>5, <1>T, <2>1 DEF Start, Transition, EngineInv, RowsResolve, Unstarted, OnTree, AtStep,
                            Current, CurrentId, request
<1>6. CASE RejectState
  <2>1. TypeOK'
    BY <1>6, <1>T, <1>S DEF RejectState, TypeOK, run, outside
  <2>2. QED
    BY <1>6, <2>1, RunUnchanged DEF RejectState
<1>7. CASE AcceptInput
  <2>1. TypeOK'
    BY <1>7, <1>T DEF AcceptInput, ProcessingUserInput, Transition, TypeOK, outside, WorkflowStates
  <2>2. QED
    BY <1>7, <1>T, <2>1 DEF AcceptInput, ProcessingUserInput, Transition, EngineInv, RowsResolve,
                            Unstarted, OnTree, AtStep, Current, CurrentId
<1>8. CASE AskForInput
  <2>1. wsrs # <<>> /\ HasStep(branch, Current.name)
    BY <1>8, <1>T DEF AskForInput, AtStep
  <2>2. wsrs' = wsrs /\ stepRuns' = stepRuns /\ state' = "requesting_user_input"
    BY <1>8 DEF AskForInput, RequestUserInput, Transition
  <2>3. RowsResolve' /\ wsrs' # <<>> /\ Current' = Current
    BY <1>T, <1>R, <2>1, <2>2, KeptRows
  <2>4. reply' \in Reply
    BY <1>8, <1>T, <2>1, CurrentRow DEF AskForInput, Prompt, Reply, TypeOK
  <2>5. QED
    BY <1>8, <1>T, <2>1, <2>2, <2>3, <2>4, RunAdvanced DEF AskForInput, TypeOK, WorkflowStates
<1>9. CASE PrepareOtherStep
  <2>1. TypeOK'
    BY <1>9, <1>T DEF PrepareOtherStep, TypeOK, run, outside
  <2>2. QED
    BY <1>9, <1>T, <2>1 DEF PrepareOtherStep, EngineInv, RowsResolve, Unstarted, OnTree, AtStep,
                            Current, CurrentId, run
<1>10. CASE RunStep
  <2>1. PICK r \in Outcomes(CurrentStep) :
            /\ result' = r
            /\ stepRuns' = [stepRuns EXCEPT ![CurrentId].run_count = IF r.saved THEN @ + 1 ELSE @]
    BY <1>10 DEF RunStep
  <2>2. wsrs # <<>> /\ HasStep(branch, Current.name) /\ Outcomes(CurrentStep) \subseteq Result
    BY <1>10, <1>T, CurrentStepType DEF RunStep, AtStep
  <2>3. CurrentId \in DOMAIN stepRuns /\ Current \in StepRun
    BY <1>T, <2>2, CurrentRow
  <2> DEFINE s == [Current EXCEPT !.run_count = IF r.saved THEN @ + 1 ELSE @]
  <2>4. s \in StepRun /\ s.name = Current.name /\ s.branch = Current.branch
    BY <2>3 DEF StepRun
  <2>5. stepRuns' = [stepRuns EXCEPT ![CurrentId] = s]
    BY <2>1 DEF Current
  <2> HIDE DEF s
  <2>6. stepRuns' \in Seq(StepRun) /\ DOMAIN stepRuns' = DOMAIN stepRuns
    BY <1>T, <2>3, <2>4, <2>5 DEF TypeOK
  <2>7. \A i \in DOMAIN stepRuns : /\ stepRuns'[i].name = stepRuns[i].name
                                  /\ stepRuns'[i].branch = stepRuns[i].branch
    BY <1>T, <2>3, <2>4, <2>5 DEF TypeOK, Current
  <2>8. /\ wsrs' = wsrs /\ branch' = branch /\ state' = state /\ pc' = "handle"
        /\ UNCHANGED <<leg, reply, applied, outside>>
    BY <1>10 DEF RunStep
  <2>9. TypeOK'
    BY <1>T, <2>1, <2>2, <2>6, <2>8 DEF TypeOK, outside
  <2>10. Current'.name = Current.name
    BY <2>3, <2>7, <2>8 DEF Current, CurrentId
  <2>11. RowsResolve'
    BY <1>T, <2>6, <2>7, <2>8 DEF RowsResolve
  <2>12. Unstarted' /\ OnTree'
    BY <1>T, <2>2, <2>8, <2>10 DEF Unstarted, OnTree
  <2>13. AtStep'
    BY <1>10, <1>T, <2>1, <2>2, <2>8, <2>10 DEF RunStep, AtStep, CurrentStep
  <2>14. QED
    BY <2>9, <2>11, <2>12, <2>13 DEF EngineInv
<1>11. CASE HandlePressZero
  <2>1. wsrs # <<>> /\ SameRows(wsrs') /\ stepRuns' = stepRuns /\ branch' = branch
    BY <1>11, <1>T, RecordedRows DEF HandlePressZero, AtStep
  <2>2. RowsResolve' /\ wsrs' # <<>> /\ wsrs' \in Seq(WorkflowStepRun)
    BY <1>T, <2>1, KeptRows DEF SameRows
  <2>3. QED
    BY <1>11, <1>T, <2>1, <2>2, RunAdvanced
       DEF HandlePressZero, Finish, Transition, TypeOK, WorkflowStates
<1>12. CASE HandleReplay
  <2>1. wsrs # <<>> /\ HasStep(branch, Current.name) /\ SameRows(Recorded)
    BY <1>12, <1>T, RecordedRows DEF HandleReplay, AtStep
  <2>2. CurrentId \in DOMAIN stepRuns
    BY <1>T, <2>1, CurrentRow
  <2>3. AppendAgain(Recorded, CurrentId) /\ state' = "requesting_user_input" /\ branch' = branch
    BY <1>12 DEF HandleReplay, ReplayStep, Transition
  <2>4. /\ wsrs' \in Seq(WorkflowStepRun) /\ stepRuns' \in Seq(StepRun)
        /\ RowsResolve' /\ wsrs' # <<>> /\ Current' = stepRuns[CurrentId]
    BY <1>T, <2>1, <2>2, <2>3, AgainRow
  <2>5. reply' \in Reply
    BY <1>12, <1>T, <2>2 DEF HandleReplay, Prompt, Reply, TypeOK
  <2>6. QED
    BY <1>12, <1>T, <2>1, <2>3, <2>4, <2>5, RunAdvanced
       DEF HandleReplay, TypeOK, WorkflowStates, Current
<1>13. CASE HandleExit
  <2>1. wsrs # <<>> /\ SameRows(wsrs') /\ stepRuns' = stepRuns /\ branch' \in BranchNames
    BY <1>13, <1>T, RecordedRows, BranchAfterSuccessType DEF HandleExit, AtStep
  <2>2. RowsResolve' /\ wsrs' # <<>> /\ wsrs' \in Seq(WorkflowStepRun)
    BY <1>T, <2>1, KeptRows DEF SameRows
  <2>3. QED
    BY <1>13, <1>T, <2>1, <2>2, RunAdvanced
       DEF HandleExit, Finish, Transition, TypeOK, WorkflowStates
<1>14. CASE HandleNextInput
  <2> DEFINE b == BranchAfterSuccess
             next == NextStep(b)
  <2>1. wsrs # <<>> /\ SameRows(Recorded)
    BY <1>14, <1>T, RecordedRows DEF HandleNextInput, AtStep
  <2>2. b \in BranchNames /\ HasStep(b, next.name) /\ branch' = b
    BY <1>14, NextStepFound DEF HandleNextInput
  <2>3. RequestUserInput(Recorded, b, next.name) /\ ContinueWith(next)
    BY <1>14 DEF HandleNextInput
  <2> HIDE DEF b, next
  <2>4. /\ wsrs' \in Seq(WorkflowStepRun) /\ stepRuns' \in Seq(StepRun)
        /\ RowsResolve' /\ wsrs' # <<>> /\ Current'.name = next.name
    <3>1. CASE Current.name # next.name
      <4>1. AppendFresh(Recorded, b, next.name)
        BY <2>3, <3>1 DEF RequestUserInput
      <4>2. QED
        BY <1>T, <2>1, <2>2, <4>1, FreshRow DEF FreshStepRun
    <3>2. CASE Current.name = next.name
      <4>1. wsrs' = Recorded /\ stepRuns' = stepRuns
        BY <2>3, <3>2 DEF RequestUserInput
      <4>2. QED
        BY <1>T, <2>1, <3>2, <4>1, KeptRows DEF SameRows, TypeOK
    <3>3. QED
      BY <3>1, <3>2
  <2>5. pc' \in {"initialize", "respond"} /\ reply' \in Reply
    BY <1>T, <2>3, <2>4, Continued
  <2>6. QED
    BY <1>14, <1>T, <2>2, <2>3, <2>4, <2>5, RunAdvanced
       DEF HandleNextInput, RequestUserInput, Transition, TypeOK, WorkflowStates
<1>15. CASE HandleNextStep
  <2> DEFINE b == BranchAfterSuccess
             next == NextStep(b)
  <2>1. wsrs # <<>> /\ SameRows(Recorded)
    BY <1>15, <1>T, RecordedRows DEF HandleNextStep, AtStep
  <2>2. b \in BranchNames /\ HasStep(b, next.name) /\ branch' = b
    BY <1>15, NextStepFound DEF HandleNextStep
  <2>3. AdvanceStep(Recorded, b, next.name) /\ ContinueWith(next)
    BY <1>15 DEF HandleNextStep
  <2> HIDE DEF b, next
  <2>4. /\ wsrs' \in Seq(WorkflowStepRun) /\ stepRuns' \in Seq(StepRun)
        /\ RowsResolve' /\ wsrs' # <<>> /\ Current'.name = next.name
    BY <1>T, <2>1, <2>2, <2>3, FreshRow DEF AdvanceStep, FreshStepRun
  <2>5. pc' \in {"initialize", "respond"} /\ reply' \in Reply
    BY <1>T, <2>3, <2>4, Continued
  <2>6. QED
    BY <1>15, <1>T, <2>2, <2>3, <2>4, <2>5, RunAdvanced
       DEF HandleNextStep, AdvanceStep, Transition, TypeOK, WorkflowStates
<1>16. CASE HandleRetry
  <2>1. wsrs # <<>> /\ HasStep(branch, Current.name) /\ SameRows(Recorded)
    BY <1>16, <1>T, RecordedRows DEF HandleRetry, AtStep
  <2>2. PICK r \in RetryTargets : AppendAgain(Recorded, r)
    BY <1>16 DEF HandleRetry
  <2>3. r \in DOMAIN stepRuns /\ stepRuns[r].name = RetryStep
    BY <2>1, RetryTarget
  <2>4. /\ wsrs' \in Seq(WorkflowStepRun) /\ stepRuns' \in Seq(StepRun)
        /\ RowsResolve' /\ wsrs' # <<>> /\ Current' = stepRuns[r]
    BY <1>T, <2>1, <2>2, <2>3, AgainRow
  <2>5. HasStep(branch, RetryStep) /\ branch' = branch /\ ContinueWith(Template(branch, RetryStep))
    BY <1>16 DEF HandleRetry
  <2>6. pc' \in {"initialize", "respond"} /\ reply' \in Reply
    BY <1>T, <2>4, <2>5, Continued
  <2>7. state' \in {"requesting_user_input", "step_in_progress"}
    BY <1>16 DEF HandleRetry, RegisterErrorThen, Transition
  <2>8. QED
    BY <1>16, <1>T, <2>3, <2>4, <2>5, <2>6, <2>7, RunAdvanced
       DEF HandleRetry, TypeOK, WorkflowStates
<1>17. CASE HandleErrorSwitch
  <2> DEFINE b == CurrentStep.switch_to
             next == NextStep(b)
  <2>1. wsrs # <<>>
    BY <1>17, <1>T DEF HandleErrorSwitch, AtStep
  <2>2. b \in BranchNames /\ HasStep(b, next.name) /\ branch' = b
    BY <1>17, NextStepFound DEF HandleErrorSwitch
  <2>3. /\ AppendFresh(BranchedOnError(b), b, next.name)
        /\ ContinueWith(next)
        /\ state' = "step_in_progress"
    BY <1>17 DEF HandleErrorSwitch, RegisterErrorThen, Transition
  <2> HIDE DEF b, next
  <2>4. SameRows(BranchedOnError(b))
    BY <1>T, <2>1, <2>2, RecordedRows
  <2>5. /\ wsrs' \in Seq(WorkflowStepRun) /\ stepRuns' \in Seq(StepRun)
        /\ RowsResolve' /\ wsrs' # <<>> /\ Current'.name = next.name
    BY <1>T, <2>2, <2>3, <2>4, FreshRow DEF FreshStepRun
  <2>6. pc' \in {"initialize", "respond"} /\ reply' \in Reply
    BY <1>T, <2>3, <2>5, Continued
  <2>7. QED
    BY <1>17, <1>T, <2>2, <2>3, <2>5, <2>6, RunAdvanced
       DEF HandleErrorSwitch, TypeOK, WorkflowStates
<1>18. CASE HandleUnrecoverable
  <2>1. /\ wsrs # <<>> /\ HasStep(branch, Current.name)
        /\ SameRows(wsrs') /\ stepRuns' = stepRuns /\ branch' = branch
    BY <1>18, <1>T, RecordedRows DEF HandleUnrecoverable, AtStep
  <2>2. RowsResolve' /\ wsrs' # <<>> /\ wsrs' \in Seq(WorkflowStepRun) /\ Current' = Current
    BY <1>T, <2>1, KeptRows DEF SameRows
  <2>3. QED
    BY <1>18, <1>T, <1>S, <2>1, <2>2, RunAdvanced
       DEF HandleUnrecoverable, RegisterErrorThen, Transition, TypeOK, WorkflowStates
<1>19. CASE HandleDeadEnd
  <2>1. TypeOK'
    BY <1>19, <1>T, <1>S DEF HandleDeadEnd, TypeOK, run, outside
  <2>2. QED
    BY <1>19, <2>1, RunUnchanged DEF HandleDeadEnd
<1>20. CASE EndLeg
  <2>1. TypeOK'
    BY <1>20, <1>T, <1>S DEF EndLeg, TypeOK, run, outside
  <2>2. QED
    BY <1>20, <2>1, RunUnchanged DEF EndLeg
<1>21. CASE Respond
  <2>1. TypeOK'
    BY <1>21, <1>T DEF Respond, TypeOK, run, Reply
  <2>2. QED
    BY <1>21, <2>1, RunUnchanged DEF Respond
<1>22. CASE Fail
  <2>1. TypeOK'
    BY <1>22, <1>T, <1>S DEF Fail, TypeOK, run
  <2>2. QED
    BY <1>22, <2>1, RunUnchanged DEF Fail
<1>23. CASE UNCHANGED vars
  <2>1. TypeOK'
    BY <1>23, <1>T DEF vars, run, request, outside, TypeOK
  <2>2. QED
    BY <1>23, <1>T, <2>1 DEF vars, run, request, outside, EngineInv, RowsResolve, Unstarted, OnTree,
                             AtStep, Current, CurrentId, CurrentStep
<1>24. QED
  BY <1>1, <1>2, <1>3, <1>4, <1>5, <1>6, <1>7, <1>8, <1>9, <1>10, <1>11, <1>12, <1>13, <1>14, <1>15,
     <1>16, <1>17, <1>18, <1>19, <1>20, <1>21, <1>22, <1>23 DEF Next, Serve

-----------------------------------------------------------------------------
(* The theorems *)

\* Whatever the tree, the requests and the moments at which they are cut short,
\* the rows resolve to steps of the tree and a step is prepared, run or handled
\* only for a run that is under way.
THEOREM EngineInvariant == Spec => []EngineInv
<1>1. QED
  BY EngineInvInit, EngineInvNext, PTL DEF Spec

\* The rows, the state and the request keep their types.
THEOREM TypeCorrect == Spec => []TypeOK
<1>1. EngineInv => TypeOK
  BY DEF EngineInv
<1>2. QED
  BY <1>1, EngineInvariant, PTL

\* Every new engine can build the step its run is at, and finds the branch from
\* which the run goes on.
THEOREM CurrentStepResolvesHolds == Spec => []CurrentStepResolves
<1>1. EngineInv => CurrentStepResolves
  BY CurrentRow DEF EngineInv, OnTree, CurrentStepResolves
<1>2. QED
  BY <1>1, EngineInvariant, PTL

\* Whatever requests come for a run that has finished, its rows stay as they are.
THEOREM FinishedIsFinalHolds == Spec => FinishedIsFinal
<1>1. EngineInv /\ [Next]_vars => [state = "finished" => UNCHANGED run]_vars
  <2> SUFFICES ASSUME EngineInv, Next, state = "finished" PROVE UNCHANGED run
    BY DEF vars
  <2>1. wsrs # <<>> /\ pc \notin {"run", "handle"}
    BY DEF EngineInv, Unstarted, AtStep
  <2>2. CASE Request
    BY <2>2 DEF Request
  <2>3. CASE InitializeFirst \/ InitializeCurrent \/ InitializeRaises
    BY <2>1, <2>3 DEF InitializeFirst, InitializeCurrent, InitializeRaises
  <2>4. CASE Start \/ RejectState \/ AcceptInput \/ AskForInput \/ PrepareOtherStep
    BY <2>4 DEF Start, RejectState, AcceptInput, AskForInput, PrepareOtherStep,
                ProcessingUserInput, Transition
  <2>5. CASE RunStep
    BY <2>1, <2>5 DEF RunStep
  <2>6. CASE \/ HandlePressZero \/ HandleReplay \/ HandleExit \/ HandleNextInput \/ HandleNextStep
             \/ HandleRetry \/ HandleErrorSwitch \/ HandleUnrecoverable \/ HandleDeadEnd
    BY <2>1, <2>6 DEF HandlePressZero, HandleReplay, HandleExit, HandleNextInput, HandleNextStep,
                      HandleRetry, HandleErrorSwitch, HandleUnrecoverable, HandleDeadEnd
  <2>7. CASE EndLeg \/ Respond \/ Fail
    BY <2>7 DEF EndLeg, Respond, Fail
  <2>8. QED
    BY <2>2, <2>3, <2>4, <2>5, <2>6, <2>7 DEF Next, Serve
<1>2. QED
  BY <1>1, EngineInvariant, PTL DEF Spec, FinishedIsFinal

-----------------------------------------------------------------------------
(* What the contact is asked, and what its answer is taken for *)

\* While the run waits for input, the prompt of the current step run has been
\* heard or is about to be sent, and the input has not been taken yet.
Asking ==
    state = "requesting_user_input" =>
        /\ pc \in {"initialize", "prepare"} => applied = 0
        /\ IF pc = "respond" /\ reply.kind = "prompt"
               THEN reply = Prompt(CurrentId)
               ELSE failures = 0 => heard = CurrentId

\* A step that asks is run with what was answered to its prompt.
Answering ==
    pc = "run" /\ IsInput(CurrentStep) =>
        /\ applied = 1
        /\ failures = 0 => heard = CurrentId

AskedInv == Asking /\ Answering

\* The current row, and the step it is built from, stay as long as the run does.
LEMMA SameCurrent ==
    ASSUME UNCHANGED <<branch, wsrs, stepRuns>>
    PROVE  CurrentId' = CurrentId /\ Current' = Current /\ CurrentStep' = CurrentStep
BY DEF CurrentId, Current, CurrentStep

\* A handler that goes on with a step that asks sends its prompt.
LEMMA AskedNext ==
    ASSUME NEW next, ContinueWith(next),
           state' = "requesting_user_input" => IsInput(next)
    PROVE  AskedInv'
BY DEF ContinueWith, AskedInv, Asking, Answering, Prompt, CurrentId

\* Taking the same step run up again leaves it the current one.
LEMMA AgainCurrent ==
    ASSUME TypeOK, wsrs # <<>>, NEW r \in Nat \ {0}, AppendAgain(Recorded, r)
    PROVE  CurrentId' = r
<1>1. Recorded \in Seq(WorkflowStepRun)
  BY RecordedRows DEF SameRows
<1>2. wsrs' = Append(Recorded, Wsr(r)) /\ Wsr(r).step_run = r
  BY DEF AppendAgain, Wsr
<1>3. wsrs'[Len(wsrs')] = Wsr(r)
  BY <1>1, <1>2
<1> QED BY <1>2, <1>3 DEF CurrentId

LEMMA AskedInvNext == EngineInv /\ AskedInv /\ [Next]_vars => AskedInv'
<1> SUFFICES ASSUME EngineInv, AskedInv, [Next]_vars PROVE AskedInv'
  OBVIOUS
<1>T. TypeOK /\ RowsResolve /\ Unstarted /\ OnTree /\ AtStep
  BY DEF EngineInv
<1>1. CASE UNCHANGED vars
  BY <1>1, SameCurrent DEF vars, run, request, outside, AskedInv, Asking, Answering
<1>2. CASE Request
  BY <1>2, SameCurrent DEF Request, run, AskedInv, Asking, Answering, NoReply
<1>3. CASE InitializeFirst
  BY <1>3 DEF InitializeFirst, InitializeFirstStep, Transition, AskedInv, Asking, Answering
<1>4. CASE InitializeCurrent
  BY <1>4, SameCurrent DEF InitializeCurrent, run, outside, AskedInv, Asking, Answering
<1>5. CASE InitializeRaises \/ RejectState \/ HandleDeadEnd \/ EndLeg
  BY <1>5, SameCurrent DEF InitializeRaises, RejectState, HandleDeadEnd, EndLeg, run, outside,
                           Failed, Leave, AskedInv, Asking, Answering
<1>6. CASE Start
  BY <1>6 DEF Start, Transition, request, AskedInv, Asking, Answering
<1>7. CASE AcceptInput
  BY <1>7, SameCurrent DEF AcceptInput, ProcessingUserInput, Transition, outside,
                           AskedInv, Asking, Answering
<1>8. CASE AskForInput
  <2>1. UNCHANGED <<branch, wsrs, stepRuns>> /\ pc' = "respond" /\ reply' = Prompt(CurrentId)
    BY <1>8 DEF AskForInput, RequestUserInput
  <2> QED BY <2>1, SameCurrent DEF AskedInv, Asking, Answering, Prompt
<1>9. CASE PrepareOtherStep
  BY <1>9, SameCurrent DEF PrepareOtherStep, run, outside, AskedInv, Asking, Answering
<1>10. CASE RunStep
  BY <1>10 DEF RunStep, outside, AskedInv, Asking, Answering, CurrentId
<1>11. CASE HandlePressZero \/ HandleExit \/ HandleUnrecoverable
  BY <1>11 DEF HandlePressZero, HandleExit, HandleUnrecoverable, Finish, RegisterErrorThen, Transition,
               AskedInv, Asking, Answering
<1>12. CASE HandleReplay
  <2>1. pc = "handle" /\ AppendAgain(Recorded, CurrentId)
        /\ pc' = "respond" /\ reply' = Prompt(CurrentId)
    BY <1>12 DEF HandleReplay, ReplayStep
  <2>2. wsrs # <<>>
    BY <1>T, <2>1 DEF AtStep
  <2>3. CurrentId \in Nat \ {0}
    BY <1>T, <2>2, CurrentRow DEF TypeOK
  <2>4. CurrentId' = CurrentId
    BY <1>T, <2>1, <2>2, <2>3, AgainCurrent
  <2> QED BY <2>1, <2>4 DEF AskedInv, Asking, Answering, Prompt
<1>13. CASE HandleNextInput
  BY <1>13, AskedNext DEF HandleNextInput
<1>14. CASE HandleNextStep
  BY <1>14, AskedNext DEF HandleNextStep, AdvanceStep, Transition
<1>15. CASE HandleRetry
  BY <1>15, AskedNext DEF HandleRetry, RegisterErrorThen, Transition
<1>16. CASE HandleErrorSwitch
  BY <1>16, AskedNext DEF HandleErrorSwitch, RegisterErrorThen, Transition
<1>17. CASE Respond
  BY <1>17, <1>T, SameCurrent DEF Respond, run, TypeOK, AskedInv, Asking, Answering, Prompt
<1>18. CASE Fail
  BY <1>18, <1>T, SameCurrent DEF Fail, run, TypeOK, AskedInv, Asking, Answering
<1>19. QED
  BY <1>1, <1>2, <1>3, <1>4, <1>5, <1>6, <1>7, <1>8, <1>9, <1>10, <1>11, <1>12, <1>13, <1>14, <1>15,
     <1>16, <1>17, <1>18 DEF Next, Serve

\* Whatever the tree, and as long as no request was cut short, the engine runs a
\* step that asks only with the input of a contact that heard that step's prompt
\* last, and takes the input of a request once (AcceptInput and AskForInput of
\* the adapters' loop).
THEOREM AnswersWhatWasAskedHolds == Spec => []AnswersWhatWasAsked
<1>1. Init => AskedInv
  BY DEF Init, AskedInv, Asking, Answering
<1>2. AskedInv => AnswersWhatWasAsked
  BY DEF AskedInv, Answering, AnswersWhatWasAsked
<1>3. QED
  BY <1>1, <1>2, AskedInvNext, EngineInvariant, PTL DEF Spec

-----------------------------------------------------------------------------
(* The walk along the tree *)

\* A step that adds no step run and keeps the current one keeps the position.
LEMMA SamePlace ==
    ASSUME EngineInv, wsrs # <<>>, wsrs' # <<>>, CurrentId' = CurrentId,
           DOMAIN stepRuns' = DOMAIN stepRuns,
           \A r \in DOMAIN stepRuns : /\ stepRuns'[r].branch = stepRuns[r].branch
                                      /\ stepRuns'[r].name = stepRuns[r].name
    PROVE  walkAt' = walkAt /\ walkMet' = walkMet
<1>1. CurrentId \in DOMAIN stepRuns
  BY CurrentRow DEF EngineInv
<1>2. \A r \in DOMAIN stepRuns : PositionOf(r)' = PositionOf(r)
  BY DEF PositionOf
<1>3. walkMet' = walkMet
  BY <1>2 DEF walkMet
<1>4. walkAt' = walkAt
  BY <1>1 DEF walkAt, PositionOf
<1>5. QED
  BY <1>3, <1>4

\* A new step run is a new place among those met.
LEMMA NewPlace ==
    ASSUME TypeOK, NEW rows, SameRows(rows), NEW b, NEW n, HasStep(b, n), AppendFresh(rows, b, n)
    PROVE  /\ walkAt' = [branch |-> b, name |-> n]
           /\ walkMet' = walkMet \cup {walkAt'}
<1> DEFINE w == Wsr(Len(stepRuns) + 1)
           s == FreshStepRun(b, n)
<1>1. stepRuns \in Seq(StepRun) /\ rows \in Seq(WorkflowStepRun)
  BY DEF TypeOK, SameRows
<1>2. w \in WorkflowStepRun /\ w.step_run = Len(stepRuns) + 1
  BY <1>1 DEF Wsr, WorkflowStepRun, StepStates
<1>3. s \in StepRun /\ s.branch = b /\ s.name = n
  BY TemplateType DEF FreshStepRun, StepRun
<1>4. wsrs' = Append(rows, w) /\ stepRuns' = Append(stepRuns, s)
  BY DEF AppendFresh
<1> HIDE DEF w, s
<1>5. wsrs' \in Seq(WorkflowStepRun) /\ Len(wsrs') = Len(rows) + 1 /\ wsrs'[Len(rows) + 1] = w
  BY <1>1, <1>2, <1>4, AppendLast
<1>6. /\ stepRuns' \in Seq(StepRun)
      /\ Len(stepRuns') = Len(stepRuns) + 1
      /\ \A r \in 1 .. Len(stepRuns) : stepRuns'[r] = stepRuns[r]
      /\ stepRuns'[Len(stepRuns) + 1] = s
  BY <1>1, <1>3, <1>4, AppendLast
<1>7. wsrs' # <<>> /\ CurrentId' = Len(stepRuns) + 1
  BY <1>1, <1>2, <1>5 DEF CurrentId
<1>8. walkAt' = [branch |-> b, name |-> n]
  BY <1>3, <1>6, <1>7 DEF walkAt, PositionOf
<1>9. walkMet' = walkMet \cup {[branch |-> b, name |-> n]}
  <2>1. DOMAIN stepRuns' = (1 .. Len(stepRuns)) \cup {Len(stepRuns) + 1}
        /\ DOMAIN stepRuns = 1 .. Len(stepRuns)
    BY <1>1, <1>6
  <2>2. walkMet' = {[branch |-> stepRuns'[r].branch, name |-> stepRuns'[r].name] :
                       r \in DOMAIN stepRuns'}
    BY DEF walkMet, PositionOf
  <2>3. walkMet = {[branch |-> stepRuns[r].branch, name |-> stepRuns[r].name] : r \in DOMAIN stepRuns}
    BY DEF walkMet, PositionOf
  <2>4. QED
    BY <1>3, <1>6, <2>1, <2>2, <2>3
<1>10. QED
  BY <1>8, <1>9

\* A step run that is run again is a place met before.
LEMMA OldPlace ==
    ASSUME TypeOK, RowsResolve, NEW rows, SameRows(rows), NEW r \in DOMAIN stepRuns,
           AppendAgain(rows, r)
    PROVE  walkAt' = PositionOf(r) /\ walkAt' \in walkMet /\ walkMet' = walkMet
<1>1. rows \in Seq(WorkflowStepRun) /\ stepRuns \in Seq(StepRun)
  BY DEF SameRows, TypeOK
<1>2. Wsr(r) \in WorkflowStepRun /\ Wsr(r).step_run = r
  BY <1>1 DEF Wsr, WorkflowStepRun, StepStates
<1>3. wsrs' = Append(rows, Wsr(r)) /\ stepRuns' = stepRuns
  BY DEF AppendAgain
<1>4. wsrs' # <<>> /\ CurrentId' = r
  <2>1. /\ wsrs' \in Seq(WorkflowStepRun) /\ Len(wsrs') = Len(rows) + 1
        /\ wsrs'[Len(rows) + 1] = Wsr(r)
    BY <1>1, <1>2, <1>3, AppendLast
  <2>2. QED
    BY <1>1, <1>2, <2>1 DEF CurrentId
<1>5. walkAt' = PositionOf(r)
  BY <1>3, <1>4 DEF walkAt, PositionOf
<1>6. walkMet' = walkMet
  BY <1>3 DEF walkMet, PositionOf
<1>7. QED
  BY <1>5, <1>6 DEF walkMet

\* The step a success or an error leads to is one at which the walk may go on.
LEMMA NextEnters ==
    ASSUME EngineInv, NEW b, CanAdvance(b)
    PROVE  Walk!Enters([branch |-> b, name |-> NextStep(b).name])
<1> DEFINE q == [branch |-> b, name |-> NextStep(b).name]
<1>1. b \in DOMAIN Tree /\ NextIndex(b) <= Len(Tree[b].steps)
  BY DEF CanAdvance
<1>2. Tree[b].steps \in Seq(StepTemplate)
  BY <1>1, TreeAssumption DEF StepBranch
<1>3. CASE NextIndex(b) = 1
  BY <1>1, <1>2, <1>3 DEF NextStep, Walk!Enters, Walk!First
<1>4. CASE NextIndex(b) # 1
  <2>1. PICK v : v = LastVisit(b)
    OBVIOUS
  <2>2. PICK r : r = wsrs[v].step_run
    OBVIOUS
  <2>3. /\ VisitsOf(b) # {} /\ HasStep(b, stepRuns[r].name)
        /\ NextIndex(b) = IndexOf(b, stepRuns[r].name) + 1
    BY <1>4, <2>1, <2>2 DEF NextIndex, StartsOver, StepRunAt, VisitsOf
  <2>4. v \in DOMAIN wsrs /\ stepRuns[r].branch = b
    BY <2>1, <2>2, <2>3, LastVisitFound DEF EngineInv, StepRunAt
  <2>5. r \in DOMAIN stepRuns
    BY <2>2, <2>4 DEF EngineInv, RowsResolve
  <2>6. PositionOf(r) \in walkMet
    BY <2>5 DEF walkMet
  <2>7. IndexOf(b, stepRuns[r].name) \in Nat
    BY <1>2, <2>3, IndexOfFirst
  <2>8. PositionOf(r).branch = b /\ PositionOf(r).name = stepRuns[r].name
    BY <2>4 DEF PositionOf
  <2>9. Walk!Follows(PositionOf(r), q)
    <3>1. PICK n : n = stepRuns[r].name
      OBVIOUS
    <3>2. Walk!HasStep(b, n) /\ Walk!IndexOf(b, n) = IndexOf(b, n)
      BY <2>3, <3>1 DEF HasStep, IndexOf, Walk!HasStep, Walk!IndexOf
    <3>3. q.branch = b /\ q.name = Tree[b].steps[IndexOf(b, n) + 1].name
      BY <2>3, <3>1 DEF NextStep
    <3>4. IndexOf(b, n) < Len(Tree[b].steps)
      BY <1>1, <1>2, <2>3, <2>7, <3>1
    <3>5. QED
      BY <2>8, <3>1, <3>2, <3>3, <3>4 DEF Walk!Follows
  <2>10. QED
    BY <1>1, <2>6, <2>8, <2>9 DEF Walk!Enters
<1>5. QED
  BY <1>3, <1>4

-----------------------------------------------------------------------------
(* The refinement *)

\* A run that was never served stands at no step and has met none.
LEMMA WalkInit == Init => Walk!Init
BY DEF Init, Walk!Init, Walk!Nowhere, Walk!NoBranch, Walk!NoStep, NoBranch, NoStep, walkAt, walkMet,
       walkMode

\* A step that changes no row and goes on in the same mode.
LEMMA WalkStutters ==
    ASSUME wsrs' = wsrs, stepRuns' = stepRuns, walkMode' = walkMode
    PROVE  UNCHANGED Walk!walk
BY DEF Walk!walk, walkAt, walkMet, PositionOf, CurrentId

\* A handler that appends the next step of a branch moves the contact.
LEMMA WalkMoves ==
    ASSUME EngineInv, NEW rows, SameRows(rows), NEW b, CanAdvance(b),
           AppendFresh(rows, b, NextStep(b).name),
           walkMode = "walking", walkMode' \in {"walking", "asking"}
    PROVE  Walk!Move
<1>1. HasStep(b, NextStep(b).name)
  BY NextStepFound
<1>2. /\ walkAt' = [branch |-> b, name |-> NextStep(b).name]
      /\ walkMet' = walkMet \cup {walkAt'}
  BY <1>1, NewPlace DEF EngineInv
<1>3. Walk!Enters(walkAt')
  BY <1>2, NextEnters
<1>4. QED
  BY <1>2, <1>3 DEF Walk!Move

\* Every step of the engine, a request that is cut short included, is a step of
\* the walk or leaves the contact where it is.
LEMMA WalkNext == EngineInv /\ [Next]_vars => [Walk!Next]_(Walk!walk)
<1> SUFFICES ASSUME EngineInv, [Next]_vars PROVE Walk!Next \/ UNCHANGED Walk!walk
  OBVIOUS
<1>T. TypeOK /\ RowsResolve /\ Unstarted /\ OnTree /\ AtStep
  BY DEF EngineInv
<1>H. ASSUME pc = "handle"
      PROVE  /\ wsrs # <<>> /\ CurrentId \in DOMAIN stepRuns /\ SameRows(Recorded)
             /\ \A b \in BranchNames : SameRows(BranchedOnError(b))
  BY <1>T, <1>H, CurrentRow, RecordedRows, TreeAssumption DEF AtStep
<1>1. CASE InitializeFirst
  <2>1. /\ wsrs = <<>> /\ branch = Root /\ state = "uninitialized" /\ state' = "initialized"
        /\ AppendFresh(wsrs, Root, Tree[Root].steps[1].name)
    BY <1>1, <1>T DEF InitializeFirst, InitializeFirstStep, Transition, Unstarted
  <2>2. PICK n : n = Tree[Root].steps[1].name
    OBVIOUS
  <2>3. Root \in DOMAIN Tree /\ Len(Tree[Root].steps) > 0 /\ Len(Tree[Root].steps) \in Nat
    BY TreeAssumption DEF StepBranch
  <2>4. HasStep(Root, n)
    BY <2>2, <2>3, StepAtPosition
  <2>5. SameRows(wsrs)
    BY <1>T DEF SameRows, TypeOK
  <2>6. walkAt' = [branch |-> Root, name |-> n]
    BY <1>T, <2>1, <2>2, <2>4, <2>5, NewPlace
  <2>7. walkMet' = {walkAt'}
    <3>1. walkMet = {}
      BY <1>T, <2>1 DEF Unstarted, walkMet
    <3>2. QED
      BY <1>T, <2>1, <2>2, <2>4, <2>5, <3>1, NewPlace
  <2>8. walkMode = "new" /\ walkMode' = "walking"
    BY <2>1 DEF walkMode
  <2>9. Walk!Begin
    BY <2>2, <2>6, <2>7, <2>8 DEF Walk!Begin, Walk!First, Walk!Root, Root
  <2>10. QED
    BY <2>9 DEF Walk!Next
<1>2. CASE \/ Request \/ InitializeCurrent \/ InitializeRaises \/ RejectState \/ PrepareOtherStep
           \/ HandleDeadEnd \/ EndLeg \/ Respond \/ Fail \/ UNCHANGED vars
  <2>1. UNCHANGED run
    BY <1>2 DEF Request, InitializeCurrent, InitializeRaises, RejectState, PrepareOtherStep,
                HandleDeadEnd, EndLeg, Respond, Fail, vars, run
  <2>2. QED
    BY <2>1, WalkStutters DEF run, walkMode
<1>3. CASE Start
  BY <1>3, WalkStutters DEF Start, Transition, walkMode
<1>4. CASE AcceptInput
  <2>1. walkMode = "asking" /\ walkMode' = "walking" /\ wsrs' = wsrs /\ stepRuns' = stepRuns
    BY <1>4 DEF AcceptInput, ProcessingUserInput, Transition, walkMode
  <2>2. Walk!Answer
    BY <2>1 DEF Walk!Answer, walkAt, walkMet, PositionOf, CurrentId
  <2>3. QED
    BY <2>2 DEF Walk!Next
<1>5. CASE AskForInput
  <2>1. /\ walkMode = "walking" /\ walkMode' = "asking" /\ wsrs' = wsrs /\ stepRuns' = stepRuns
    BY <1>5 DEF AskForInput, RequestUserInput, Transition, walkMode
  <2>2. Walk!Ask
    BY <2>1 DEF Walk!Ask, walkAt, walkMet, PositionOf, CurrentId
  <2>3. QED
    BY <2>2 DEF Walk!Next
<1>6. CASE RunStep
  <2>1. PICK e : stepRuns' = [stepRuns EXCEPT ![CurrentId].run_count = e]
    BY <1>6 DEF RunStep
  <2>2. wsrs' = wsrs /\ state' = state /\ wsrs # <<>>
    BY <1>6, <1>T DEF RunStep, AtStep
  <2>3. CurrentId \in DOMAIN stepRuns /\ stepRuns \in Seq(StepRun)
    BY <1>T, <2>2, CurrentRow DEF TypeOK
  <2>4. \A r \in DOMAIN stepRuns : /\ stepRuns'[r].branch = stepRuns[r].branch
                                  /\ stepRuns'[r].name = stepRuns[r].name
    BY <2>1, <2>3 DEF StepRun
  <2>5. DOMAIN stepRuns' = DOMAIN stepRuns /\ CurrentId' = CurrentId
    BY <2>1, <2>2, <2>3 DEF CurrentId
  <2>6. walkAt' = walkAt /\ walkMet' = walkMet
    BY <2>2, <2>4, <2>5, SamePlace
  <2>7. QED
    BY <2>2, <2>6 DEF Walk!walk, walkMode
<1>7. CASE HandlePressZero \/ HandleExit \/ HandleUnrecoverable
  <2>1. /\ pc = "handle" /\ wsrs' = Recorded /\ stepRuns' = stepRuns
        /\ walkMode = "walking" /\ walkMode' = "over"
    BY <1>7 DEF HandlePressZero, HandleExit, HandleUnrecoverable, Finish, RegisterErrorThen,
                Transition, walkMode
  <2>2. wsrs' # <<>> /\ CurrentId' = CurrentId /\ wsrs # <<>>
    BY <1>T, <1>H, <2>1, KeptRows
  <2>3. walkAt' = walkAt /\ walkMet' = walkMet
    BY <2>1, <2>2, SamePlace
  <2>4. Walk!Leave
    BY <2>1, <2>3 DEF Walk!Leave
  <2>5. QED
    BY <2>4 DEF Walk!Next
<1>8. CASE HandleReplay
  <2>1. /\ pc = "handle" /\ AppendAgain(Recorded, CurrentId)
        /\ walkMode = "walking" /\ walkMode' = "asking"
    BY <1>8 DEF HandleReplay, ReplayStep, Transition, walkMode
  <2>2. walkAt' \in walkMet /\ walkMet' = walkMet
    BY <1>T, <1>H, <2>1, OldPlace
  <2>3. Walk!Return
    BY <2>1, <2>2 DEF Walk!Return
  <2>4. QED
    BY <2>3 DEF Walk!Next
<1>9. CASE HandleRetry
  <2>1. /\ pc = "handle" /\ walkMode = "walking" /\ walkMode' \in {"walking", "asking"}
    BY <1>9 DEF HandleRetry, RegisterErrorThen, Transition, walkMode
  <2>2. PICK r \in RetryTargets : AppendAgain(Recorded, r)
    BY <1>9 DEF HandleRetry
  <2>3. r \in DOMAIN stepRuns
    BY <1>T, <1>H, <2>1, RetryTarget DEF AtStep
  <2>4. walkAt' \in walkMet /\ walkMet' = walkMet
    BY <1>T, <1>H, <2>1, <2>2, <2>3, OldPlace
  <2>5. Walk!Return
    BY <2>1, <2>4 DEF Walk!Return
  <2>6. QED
    BY <2>5 DEF Walk!Next
<1>10. CASE HandleNextInput
  <2>1. PICK b : b = BranchAfterSuccess
    OBVIOUS
  <2>2. /\ pc = "handle" /\ CanAdvance(b) /\ RequestUserInput(Recorded, b, NextStep(b).name)
        /\ walkMode = "walking" /\ walkMode' = "asking"
    BY <1>10, <2>1 DEF HandleNextInput, RequestUserInput, Transition, walkMode
  <2>3. CASE AppendFresh(Recorded, b, NextStep(b).name)
    BY <1>H, <2>2, <2>3, WalkMoves DEF Walk!Next
  <2>4. CASE wsrs' = Recorded /\ stepRuns' = stepRuns
    <3>1. wsrs' # <<>> /\ CurrentId' = CurrentId /\ wsrs # <<>>
      BY <1>T, <1>H, <2>2, <2>4, KeptRows
    <3>2. walkAt' = walkAt /\ walkMet' = walkMet
      BY <2>4, <3>1, SamePlace
    <3>3. Walk!Ask
      BY <2>2, <3>2 DEF Walk!Ask
    <3>4. QED
      BY <3>3 DEF Walk!Next
  <2>5. QED
    BY <2>2, <2>3, <2>4 DEF RequestUserInput
<1>11. CASE HandleNextStep
  <2>1. PICK b : b = BranchAfterSuccess
    OBVIOUS
  <2>2. /\ pc = "handle" /\ CanAdvance(b) /\ AppendFresh(Recorded, b, NextStep(b).name)
        /\ walkMode = "walking" /\ walkMode' = "walking"
    BY <1>11, <2>1, <1>T DEF HandleNextStep, AdvanceStep, Transition, walkMode
  <2>3. QED
    BY <1>H, <2>2, WalkMoves DEF Walk!Next
<1>12. CASE HandleErrorSwitch
  <2>1. PICK b : b = CurrentStep.switch_to
    OBVIOUS
  <2>2. /\ pc = "handle" /\ CanAdvance(b) /\ AppendFresh(BranchedOnError(b), b, NextStep(b).name)
        /\ walkMode = "walking" /\ walkMode' = "walking"
    BY <1>12, <2>1 DEF HandleErrorSwitch, RegisterErrorThen, Transition, walkMode
  <2>3. b \in BranchNames
    BY <2>2, NextStepFound
  <2>4. QED
    BY <1>H, <2>2, <2>3, WalkMoves DEF Walk!Next
<1>13. QED
  BY <1>1, <1>2, <1>3, <1>4, <1>5, <1>6, <1>7, <1>8, <1>9, <1>10, <1>11, <1>12 DEF Next, Serve

\* The contact is taken only along the tree: every behaviour of the engine is a
\* walk of the abstract specification.
THEOREM EngineImplementsTreeWalk == Spec => ImplementsTreeWalk
<1>1. QED
  BY WalkInit, WalkNext, EngineInvariant, PTL DEF Spec, ImplementsTreeWalk, Walk!Spec
=============================================================================
