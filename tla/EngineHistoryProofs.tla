------------------------ MODULE EngineHistoryProofs -------------------------
(***************************************************************************)
(* What the history of a run says, on every tree that keeps the conventions *)
(* of the trees the program ships: no step is reached around the step       *)
(* before it, no handler is at a dead end, the run waits for the contact    *)
(* between two requests, the history has all results, and no step run is    *)
(* tried more often than it may be.  The invariants that carry it say which *)
(* rows can no longer change (every row but the last), that the last one    *)
(* has no result yet, and how many of a step run's rows have one.           *)
(***************************************************************************)
EXTENDS WorkflowEngineProofs

\* Where each row was reached from, and where the run is.
SkipInv == OnBranch /\ LeftWhenDone /\ NoStepSkipped

\* A row for a position of the tree that the rows before it have reached.
Reached(i) ==
    LET here == StepRunAt(i) IN
    \/ IndexOf(here.branch, here.name) = 1
    \/ \E j \in 1 .. i - 1 :
          /\ StepRunAt(j).branch = here.branch
          /\ IndexOf(here.branch, StepRunAt(j).name) = IndexOf(here.branch, here.name) - 1
          /\ Done(j)

\* No step is skipped when every row is reached.
LEMMA SkippedReached == NoStepSkipped <=> \A i \in DOMAIN wsrs : Reached(i)
BY DEF NoStepSkipped, Reached

\* A step that changes no row but the last, and appends at most one, keeps
\* every row before it reached.
OldRowsKept ==
    /\ wsrs' \in Seq(WorkflowStepRun) /\ Len(wsrs') \in {Len(wsrs), Len(wsrs) + 1}
    /\ \A i \in 1 .. Len(wsrs) :
          /\ StepRunAt(i)'.branch = StepRunAt(i).branch
          /\ StepRunAt(i)'.name = StepRunAt(i).name
          /\ i < Len(wsrs) => Done(i)' = Done(i)

\* A row that is kept with all rows before it is reached as before.
LEMMA OldRowsReached ==
    ASSUME TypeOK, OldRowsKept, NEW i \in 1 .. Len(wsrs), Reached(i)
    PROVE  Reached(i)'
<1>1. wsrs \in Seq(WorkflowStepRun) /\ Len(wsrs) \in Nat
  BY DEF TypeOK
<1>2. /\ StepRunAt(i)'.branch = StepRunAt(i).branch
      /\ StepRunAt(i)'.name = StepRunAt(i).name
  BY DEF OldRowsKept
<1>3. CASE IndexOf(StepRunAt(i).branch, StepRunAt(i).name) = 1
  BY <1>2, <1>3 DEF Reached
<1>4. CASE IndexOf(StepRunAt(i).branch, StepRunAt(i).name) # 1
  <2>1. PICK j \in 1 .. i - 1 :
            /\ StepRunAt(j).branch = StepRunAt(i).branch
            /\ IndexOf(StepRunAt(i).branch, StepRunAt(j).name)
                 = IndexOf(StepRunAt(i).branch, StepRunAt(i).name) - 1
            /\ Done(j)
    BY <1>4 DEF Reached
  <2>2. j \in 1 .. Len(wsrs) /\ j < Len(wsrs)
    BY <1>1
  <2>3. StepRunAt(j)'.branch = StepRunAt(j).branch /\ StepRunAt(j)'.name = StepRunAt(j).name
        /\ Done(j)'
    BY <2>1, <2>2 DEF OldRowsKept
  <2>4. QED
    BY <1>2, <2>1, <2>3 DEF Reached
<1>5. QED
  BY <1>3, <1>4

\* It is enough to look at the rows around the end.
LEMMA SkipInvKept ==
    ASSUME TypeOK, SkipInv, OldRowsKept, OnBranch',
           NEW k \in Nat, NEW m \in Nat, k = Len(wsrs), m = Len(wsrs'),
           m = k + 1 => Reached(m)',
           m = k + 1 /\ k > 0 /\ StepRunAt(k)'.branch # StepRunAt(m)'.branch => Done(k)'
    PROVE  SkipInv'
<1>1. DOMAIN wsrs = 1 .. k /\ DOMAIN wsrs' = 1 .. m /\ m \in {k, k + 1}
  BY DEF TypeOK, OldRowsKept
<1>2. ASSUME NEW i \in 1 .. m PROVE Reached(i)'
  <2>1. CASE i \in 1 .. k
    <3>1. Reached(i)
      BY <1>1, <2>1, SkippedReached DEF SkipInv
    <3>2. QED
      BY <2>1, <3>1, OldRowsReached
  <2>2. CASE i \notin 1 .. k
    <3>1. m = k + 1 /\ i = m
      BY <1>1, <2>2
    <3>2. QED
      BY <3>1
  <2>3. QED
    BY <2>1, <2>2
<1>3. ASSUME NEW i \in 1 .. m, i < m, StepRunAt(i)'.branch # StepRunAt(i + 1)'.branch
      PROVE  Done(i)'
  <2>1. CASE i + 1 \in 1 .. k
    <3>1. i \in 1 .. k /\ i < k
      BY <1>3, <2>1
    <3>2. StepRunAt(i)'.branch = StepRunAt(i).branch /\ (i < Len(wsrs) => Done(i)' = Done(i))
      BY <3>1 DEF OldRowsKept
    <3>3. StepRunAt(i + 1)'.branch = StepRunAt(i + 1).branch
      BY <2>1 DEF OldRowsKept
    <3>4. StepRunAt(i).branch # StepRunAt(i + 1).branch
      BY <1>3, <3>2, <3>3
    <3>5. Done(i)
      BY <1>1, <3>1, <3>4 DEF SkipInv, LeftWhenDone
    <3>6. QED
      BY <3>1, <3>2, <3>5
  <2>2. CASE i + 1 \notin 1 .. k
    <3>1. m = k + 1 /\ k > 0 /\ i = k /\ i + 1 = m
      BY <1>1, <1>3, <2>2
    <3>2. QED
      BY <1>3, <3>1
  <2>3. QED
    BY <2>1, <2>2
<1>4. NoStepSkipped'
  BY <1>1, <1>2 DEF NoStepSkipped, Reached
<1>5. LeftWhenDone'
  BY <1>1, <1>3 DEF LeftWhenDone
<1>6. QED
  BY <1>4, <1>5 DEF SkipInv

-----------------------------------------------------------------------------
(* What the transitions do to the rows *)

\* The same rows up to the result attached to the last.
LastChanged(rows) == SameRows(rows) /\ \A i \in 1 .. Len(wsrs) : i < Len(wsrs) => rows[i] = wsrs[i]

DoneIn(rows, i) == rows[i].step_state = "success" \/ rows[i].branched_on_error # NoBranch

\* Changing the last row of a history leaves the others alone.
LEMMA ExceptLast ==
    ASSUME NEW S, NEW q \in Seq(S), q # <<>>, NEW e \in S
    PROVE  /\ [q EXCEPT ![Len(q)] = e] \in Seq(S)
           /\ Len([q EXCEPT ![Len(q)] = e]) = Len(q)
           /\ [q EXCEPT ![Len(q)] = e][Len(q)] = e
           /\ \A i \in 1 .. Len(q) : i < Len(q) => [q EXCEPT ![Len(q)] = e][i] = q[i]
OBVIOUS

\* Attaching a result, or a branch taken on an error, to the current row leaves
\* the other rows, and what the current row stands for, as they were.
LEMMA RecordedChangesLast ==
    ASSUME TypeOK, wsrs # <<>>, NEW b \in BranchNames
    PROVE  /\ LastChanged(wsrs)
           /\ LastChanged(Recorded)
           /\ LastChanged(BranchedOnError(b))
           /\ result.kind = "success" /\ result.saved => DoneIn(Recorded, Len(wsrs))
           /\ DoneIn(BranchedOnError(b), Len(wsrs))
<1> DEFINE k == Len(wsrs)
           s == IF result.saved THEN result.kind ELSE "none"
           w == [wsrs[k] EXCEPT !.step_state = s]
           v == [w EXCEPT !.branched_on_error = b]
<1>1. SameRows(wsrs) /\ SameRows(Recorded) /\ SameRows(BranchedOnError(b))
  BY RecordedRows
<1>2. wsrs \in Seq(WorkflowStepRun) /\ k \in DOMAIN wsrs /\ DOMAIN wsrs = 1 .. k /\ k \in Nat
  BY DEF TypeOK
<1>3. wsrs[k] \in WorkflowStepRun /\ s \in StepStates
  BY <1>2 DEF TypeOK, Result, StepStates
<1>4. /\ w \in WorkflowStepRun /\ w.step_state = s
      /\ v \in WorkflowStepRun /\ v.branched_on_error = b
  <2> HIDE DEF s
  <2>1. w \in WorkflowStepRun
    BY <1>3, ChangedRow
  <2>2. QED
    BY <1>3, <2>1 DEF WorkflowStepRun
<1>5. Recorded = [wsrs EXCEPT ![k] = w]
  BY DEF Recorded
<1> HIDE DEF w, s
<1>6. /\ Recorded \in Seq(WorkflowStepRun)
      /\ Len(Recorded) = k
      /\ Recorded[k] = w
      /\ \A i \in 1 .. k : i < k => Recorded[i] = wsrs[i]
  BY <1>2, <1>4, <1>5, ExceptLast DEF TypeOK
<1>7. BranchedOnError(b) = [Recorded EXCEPT ![Len(Recorded)] = v]
  BY <1>6 DEF BranchedOnError
<1> HIDE DEF v
<1>8. /\ BranchedOnError(b)[k] = v
      /\ \A i \in 1 .. k : i < k => BranchedOnError(b)[i] = wsrs[i]
  <2>1. Recorded # <<>>
    BY <1>2, <1>6
  <2>2. /\ BranchedOnError(b)[Len(Recorded)] = v
        /\ \A i \in 1 .. Len(Recorded) :
              i < Len(Recorded) => BranchedOnError(b)[i] = Recorded[i]
    BY <1>4, <1>6, <1>7, <2>1, ExceptLast
  <2>3. QED
    BY <1>6, <2>2
<1>9. LastChanged(wsrs) /\ LastChanged(Recorded) /\ LastChanged(BranchedOnError(b))
  BY <1>1, <1>6, <1>8 DEF LastChanged
<1>10. result.kind = "success" /\ result.saved => Recorded[k].step_state = "success"
  BY <1>4, <1>6 DEF s
<1>11. BranchedOnError(b)[k].branched_on_error # NoBranch
  BY <1>4, <1>8, TreeAssumption
<1>12. QED
  BY <1>9, <1>10, <1>11 DEF DoneIn

\* Only the positions and the results of the rows matter here.
SamePositions ==
    /\ Len(stepRuns') \in Nat /\ Len(stepRuns') >= Len(stepRuns)
    /\ \A r \in DOMAIN stepRuns : /\ stepRuns'[r].branch = stepRuns[r].branch
                                  /\ stepRuns'[r].name = stepRuns[r].name

\* New rows that repeat the old ones up to the result of the last leave what each
\* of those stands for, and what is done before the last.
LEMMA RowsKept ==
    ASSUME TypeOK, RowsResolve, SamePositions, NEW rows, LastChanged(rows),
           wsrs' \in Seq(WorkflowStepRun), Len(wsrs') \in {Len(wsrs), Len(wsrs) + 1},
           \A i \in 1 .. Len(wsrs) : wsrs'[i] = rows[i]
    PROVE  /\ OldRowsKept
           /\ \A i \in 1 .. Len(wsrs) : Done(i)' = DoneIn(rows, i)
<1>1. wsrs \in Seq(WorkflowStepRun) /\ DOMAIN wsrs = 1 .. Len(wsrs)
  BY DEF TypeOK
<1>2. ASSUME NEW i \in 1 .. Len(wsrs)
      PROVE  /\ StepRunAt(i)'.branch = StepRunAt(i).branch
             /\ StepRunAt(i)'.name = StepRunAt(i).name
             /\ i < Len(wsrs) => Done(i)' = Done(i)
             /\ Done(i)' = DoneIn(rows, i)
  <2>1. wsrs'[i] = rows[i] /\ rows[i].step_run = wsrs[i].step_run
        /\ (i < Len(wsrs) => rows[i] = wsrs[i])
    BY <1>2 DEF LastChanged, SameRows
  <2>2. wsrs[i].step_run \in DOMAIN stepRuns
    BY <1>1 DEF RowsResolve
  <2>3. /\ stepRuns'[wsrs[i].step_run].branch = stepRuns[wsrs[i].step_run].branch
        /\ stepRuns'[wsrs[i].step_run].name = stepRuns[wsrs[i].step_run].name
    BY <2>2 DEF SamePositions
  <2>4. QED
    BY <2>1, <2>3 DEF StepRunAt, Done, DoneIn
<1>3. QED
  BY <1>2 DEF OldRowsKept

\* A row appended for a new step run stands for the step it was made for, and the
\* rows before it keep what they stand for.
LEMMA FreshAppended ==
    ASSUME TypeOK, RowsResolve, NEW rows, LastChanged(rows), NEW b, NEW n, HasStep(b, n),
           AppendFresh(rows, b, n), NEW k \in Nat, k = Len(wsrs)
    PROVE  /\ OldRowsKept
           /\ Len(wsrs') = k + 1
           /\ StepRunAt(k + 1)'.branch = b /\ StepRunAt(k + 1)'.name = n
           /\ \A i \in 1 .. k : Done(i)' = DoneIn(rows, i)
<1> DEFINE w == Wsr(Len(stepRuns) + 1)
           s == FreshStepRun(b, n)
<1>1. wsrs \in Seq(WorkflowStepRun) /\ stepRuns \in Seq(StepRun)
      /\ rows \in Seq(WorkflowStepRun) /\ Len(rows) = k
  BY DEF TypeOK, LastChanged, SameRows
<1>2. w \in WorkflowStepRun /\ w.step_run = Len(stepRuns) + 1
  BY <1>1 DEF Wsr, WorkflowStepRun, StepStates
<1>3. s \in StepRun /\ s.branch = b /\ s.name = n
  BY TemplateType DEF FreshStepRun, StepRun
<1>4. wsrs' = Append(rows, w) /\ stepRuns' = Append(stepRuns, s)
  BY DEF AppendFresh
<1> HIDE DEF w, s
<1>5. /\ wsrs' \in Seq(WorkflowStepRun)
      /\ Len(wsrs') = k + 1
      /\ \A i \in 1 .. k : wsrs'[i] = rows[i]
      /\ wsrs'[k + 1] = w
  BY <1>1, <1>2, <1>4, AppendLast
<1>6. /\ Len(stepRuns') = Len(stepRuns) + 1
      /\ \A r \in 1 .. Len(stepRuns) : stepRuns'[r] = stepRuns[r]
      /\ stepRuns'[Len(stepRuns) + 1] = s
  BY <1>1, <1>3, <1>4, AppendLast
<1>7. SamePositions
  BY <1>1, <1>6 DEF SamePositions
<1>8. StepRunAt(k + 1)' = s
  BY <1>2, <1>5, <1>6 DEF StepRunAt
<1>9. OldRowsKept /\ \A i \in 1 .. Len(wsrs) : Done(i)' = DoneIn(rows, i)
  BY <1>5, <1>7, RowsKept
<1>10. QED
  BY <1>3, <1>5, <1>8, <1>9

\* A row appended to run a step run again stands for the step of that run, and
\* the rows before it keep what they stand for.
LEMMA AgainAppended ==
    ASSUME TypeOK, RowsResolve, NEW rows, LastChanged(rows), NEW r \in DOMAIN stepRuns,
           AppendAgain(rows, r), NEW k \in Nat, k = Len(wsrs)
    PROVE  /\ OldRowsKept
           /\ Len(wsrs') = k + 1
           /\ StepRunAt(k + 1)' = stepRuns[r]
           /\ \A i \in 1 .. k : Done(i)' = DoneIn(rows, i)
<1>1. wsrs \in Seq(WorkflowStepRun) /\ stepRuns \in Seq(StepRun)
      /\ rows \in Seq(WorkflowStepRun) /\ Len(rows) = k
  BY DEF TypeOK, LastChanged, SameRows
<1>2. Wsr(r) \in WorkflowStepRun /\ Wsr(r).step_run = r
  BY <1>1 DEF Wsr, WorkflowStepRun, StepStates
<1>3. wsrs' = Append(rows, Wsr(r)) /\ stepRuns' = stepRuns
  BY DEF AppendAgain
<1>4. /\ wsrs' \in Seq(WorkflowStepRun)
      /\ Len(wsrs') = k + 1
      /\ \A i \in 1 .. k : wsrs'[i] = rows[i]
      /\ wsrs'[k + 1] = Wsr(r)
  BY <1>1, <1>2, <1>3
<1>5. SamePositions
  BY <1>1, <1>3 DEF SamePositions
<1>6. OldRowsKept /\ \A i \in 1 .. Len(wsrs) : Done(i)' = DoneIn(rows, i)
  BY <1>4, <1>5, RowsKept
<1>7. StepRunAt(k + 1)' = stepRuns[r]
  BY <1>2, <1>3, <1>4 DEF StepRunAt
<1>8. QED
  BY <1>4, <1>6, <1>7

-----------------------------------------------------------------------------
(* The steps *)

\* The name of the next step is found at the next position.
LEMMA NextPosition ==
    ASSUME WellNamed, NEW b, CanAdvance(b)
    PROVE  /\ b \in DOMAIN Tree
           /\ NextIndex(b) \in DOMAIN Tree[b].steps
           /\ IndexOf(b, NextStep(b).name) = NextIndex(b)
<1>1. b \in DOMAIN Tree /\ NextIndex(b) <= Len(Tree[b].steps)
  BY DEF CanAdvance
<1>2. Tree[b].steps \in Seq(StepTemplate)
  BY <1>1, TreeAssumption DEF StepBranch
<1>3. \A n : HasStep(b, n) => IndexOf(b, n) \in Nat \ {0}
  BY <1>2, IndexOfFirst
<1>4. NextIndex(b) \in Nat \ {0}
  BY <1>3 DEF NextIndex
<1>5. NextIndex(b) \in DOMAIN Tree[b].steps
  BY <1>1, <1>2, <1>4
<1>6. QED
  BY <1>1, <1>5, IndexOfPosition DEF NextStep

\* The step after the current one gets a step run and a row of its own.
LEMMA Advanced ==
    ASSUME EngineInv, SkipInv, WellNamed, wsrs # <<>>,
           NEW rows, LastChanged(rows), DoneIn(rows, Len(wsrs)),
           NEW b, CanAdvance(b), AppendFresh(rows, b, NextStep(b).name), branch' = b
    PROVE  SkipInv'
<1>1. TypeOK /\ RowsResolve /\ SameRows(rows)
  BY DEF EngineInv, LastChanged
<1>2. PICK k \in Nat : k = Len(wsrs) /\ k > 0 /\ DOMAIN wsrs = 1 .. k
  BY <1>1 DEF TypeOK
<1>n. PICK n : n = NextStep(b).name
  OBVIOUS
<1>3. HasStep(b, n)
  BY <1>n, NextStepFound
<1>4. /\ OldRowsKept
      /\ Len(wsrs') = k + 1
      /\ StepRunAt(k + 1)'.branch = b /\ StepRunAt(k + 1)'.name = n
      /\ \A i \in 1 .. k : Done(i)' = DoneIn(rows, i)
  BY <1>1, <1>2, <1>n, <1>3, FreshAppended
<1>5. IndexOf(b, n) = NextIndex(b)
  BY <1>n, NextPosition
<1>6. OnBranch'
  <2>1. Current' = FreshStepRun(b, n)
    BY <1>1, <1>n, <1>3, FreshRow
  <2>2. QED
    BY <2>1 DEF OnBranch, FreshStepRun
<1>7. Done(k)'
  BY <1>2, <1>4
<1>8. Reached(k + 1)'
  <2>1. CASE NextIndex(b) = 1
    BY <1>4, <1>5, <2>1 DEF Reached
  <2>2. CASE NextIndex(b) # 1
    <3>v. PICK v : v = LastVisit(b)
      OBVIOUS
    <3>1. VisitsOf(b) # {} /\ NextIndex(b) = IndexOf(b, StepRunAt(v).name) + 1
          /\ HasStep(b, StepRunAt(v).name)
      BY <2>2, <3>v DEF NextIndex, StartsOver, VisitsOf
    <3>2. v \in 1 .. k /\ StepRunAt(v).branch = b
          /\ \A j \in 1 .. k : StepRunAt(j).branch = b => j <= v
      BY <1>1, <1>2, <3>v, <3>1, LastVisitFound
    <3>3. Done(v)'
      <4>1. CASE v = k
        BY <1>7, <4>1
      <4>2. CASE v < k
        <5>1. v + 1 \in 1 .. k /\ ~(v + 1 <= v)
          BY <1>2, <3>2, <4>2
        <5>2. StepRunAt(v + 1).branch # b
          BY <3>2, <5>1
        <5>3. Done(v)
          BY <1>2, <3>2, <4>2, <5>2 DEF SkipInv, LeftWhenDone
        <5>4. QED
          BY <1>4, <3>2, <4>2, <5>3 DEF OldRowsKept
      <4>3. QED
        BY <1>2, <3>2, <4>1, <4>2
    <3>4. StepRunAt(v)'.branch = b /\ StepRunAt(v)'.name = StepRunAt(v).name
      BY <1>4, <3>2 DEF OldRowsKept
    <3>5. v \in 1 .. (k + 1) - 1
      BY <1>2, <3>2
    <3>6. IndexOf(b, StepRunAt(v).name) = IndexOf(b, n) - 1
      <4>1. IndexOf(b, StepRunAt(v).name) \in Nat
        BY <3>1, IndexOfFirst, TreeAssumption DEF StepBranch
      <4>2. QED
        BY <1>5, <3>1, <4>1
    <3>7. QED
      BY <1>4, <3>3, <3>4, <3>5, <3>6 DEF Reached
  <2>3. QED
    BY <2>1, <2>2
<1>9. PICK m \in Nat : m = k + 1
  BY <1>2
<1>10. QED
  BY <1>1, <1>2, <1>4, <1>6, <1>7, <1>8, <1>9, SkipInvKept

\* A step run that has a row already is run again on the branch it belongs to.
LEMMA RunAgain ==
    ASSUME EngineInv, SkipInv, wsrs # <<>>, state # "finished",
           NEW rows, LastChanged(rows), NEW i \in DOMAIN wsrs,
           AppendAgain(rows, wsrs[i].step_run), StepRunAt(i).branch = branch, branch' = branch
    PROVE  SkipInv'
<1>1. TypeOK /\ RowsResolve /\ SameRows(rows)
  BY DEF EngineInv, LastChanged
<1>2. PICK k \in Nat : k = Len(wsrs) /\ k > 0 /\ DOMAIN wsrs = 1 .. k
  BY <1>1 DEF TypeOK
<1>r. PICK r : r = wsrs[i].step_run
  OBVIOUS
<1>q. PICK q : q = stepRuns[r]
  OBVIOUS
<1>3. r \in DOMAIN stepRuns /\ StepRunAt(i) = q
  BY <1>1, <1>r, <1>q DEF RowsResolve, StepRunAt
<1>4. OldRowsKept /\ Len(wsrs') = k + 1 /\ StepRunAt(k + 1)' = q
  BY <1>1, <1>2, <1>r, <1>q, <1>3, AgainAppended
<1>5. Reached(i)'
  BY <1>1, <1>2, <1>4, SkippedReached, OldRowsReached DEF SkipInv
<1>6. Reached(k + 1)'
  <2>1. StepRunAt(k + 1)'.branch = StepRunAt(i)'.branch /\ StepRunAt(k + 1)'.name = StepRunAt(i)'.name
    BY <1>2, <1>3, <1>4 DEF OldRowsKept
  <2>2. 1 .. i - 1 \subseteq 1 .. (k + 1) - 1
    BY <1>2
  <2>3. QED
    BY <1>5, <2>1, <2>2 DEF Reached
<1>7. OnBranch'
  <2>1. Current' = q
    BY <1>1, <1>r, <1>q, <1>3, AgainRow
  <2>2. QED
    BY <1>3, <2>1 DEF OnBranch
<1>8. StepRunAt(k)'.branch = StepRunAt(k + 1)'.branch
  <2>1. StepRunAt(k).branch = branch
    BY <1>2 DEF SkipInv, OnBranch, Current, CurrentId, StepRunAt
  <2>2. StepRunAt(k)'.branch = StepRunAt(k).branch
    BY <1>2, <1>4 DEF OldRowsKept
  <2>3. QED
    BY <1>3, <1>4, <2>1, <2>2
<1>9. PICK m \in Nat : m = k + 1
  BY <1>2
<1>10. QED
  BY <1>1, <1>2, <1>4, <1>6, <1>7, <1>8, <1>9, SkipInvKept

\* Nothing is appended.
LEMMA NothingAppended ==
    ASSUME EngineInv, SkipInv, LastChanged(wsrs'), SamePositions, OnBranch'
    PROVE  SkipInv'
<1>1. TypeOK /\ RowsResolve
  BY DEF EngineInv
<1>2. PICK k \in Nat : k = Len(wsrs) /\ wsrs' \in Seq(WorkflowStepRun) /\ Len(wsrs') = k
  BY <1>1 DEF TypeOK, LastChanged, SameRows
<1>3. OldRowsKept
  BY <1>1, <1>2, RowsKept
<1>4. k # k + 1
  BY <1>2
<1>5. QED
  BY <1>1, <1>2, <1>3, <1>4, SkipInvKept

\* A run at a step that asks is never asked to go on to a step of that name.
LEMMA NewName ==
    ASSUME EngineInv, SkipInv, WellNamed, pc = "handle", result.kind = "success",
           CanAdvance(BranchAfterSuccess), IsInput(NextStep(BranchAfterSuccess))
    PROVE  Current.name # NextStep(BranchAfterSuccess).name
<1> DEFINE b == BranchAfterSuccess
           n == Current.name
           c == IndexOf(branch, n)
<1>1. /\ TypeOK /\ RowsResolve /\ wsrs # <<>> /\ HasStep(branch, n) /\ state # "finished"
  BY DEF EngineInv, AtStep
<1>2. /\ branch \in DOMAIN Tree /\ c \in DOMAIN Tree[branch].steps
      /\ Tree[branch].steps[c].name = n
  BY <1>1, IndexOfFirst
<1>3. /\ b \in DOMAIN Tree /\ NextIndex(b) \in DOMAIN Tree[b].steps
      /\ IndexOf(b, NextStep(b).name) = NextIndex(b)
  BY NextPosition
<1>4. CASE IsBranch(CurrentStep)
  <2>1. CurrentStep = Tree[branch].steps[c]
    BY DEF CurrentStep, Template
  <2>2. NextStep(b) = Tree[b].steps[NextIndex(b)]
    BY DEF NextStep
  <2> HIDE DEF b, c
  <2>3. IsInput(Tree[b].steps[NextIndex(b)])
    BY <2>2 DEF b
  <2>4. Tree[branch].steps[c].name # Tree[b].steps[NextIndex(b)].name
    BY <1>2, <1>3, <1>4, <2>1, <2>3 DEF WellNamed
  <2>5. QED
    BY <1>2, <2>2, <2>4 DEF b
<1>5. CASE ~IsBranch(CurrentStep)
  <2> DEFINE k == Len(wsrs)
  <2>1. b = branch
    BY <1>5 DEF BranchAfterSuccess
  <2>2. k \in DOMAIN wsrs /\ DOMAIN wsrs = 1 .. k /\ k \in Nat /\ StepRunAt(k) = Current
    BY <1>1 DEF TypeOK, StepRunAt, Current, CurrentId
  <2>3. Current.branch = branch
    BY <1>1 DEF SkipInv, OnBranch
  <2>4. k \in VisitsOf(branch)
    BY <2>2, <2>3 DEF VisitsOf
  <2>5. LastVisit(branch) = k
    <3>1. LastVisit(branch) \in 1 .. k /\ k <= LastVisit(branch)
      BY <1>1, <2>2, <2>3, <2>4, LastVisitFound
    <3>2. QED
      BY <2>2, <3>1
  <2>6. NextIndex(branch) = c + 1
    BY <1>1, <2>2, <2>3, <2>4, <2>5 DEF NextIndex, StartsOver
  <2>7. c \in Nat
    BY <1>2, TreeAssumption DEF StepBranch
  <2>8. QED
    BY <1>3, <2>1, <2>6, <2>7
<1>6. QED
  BY <1>4, <1>5

\* A step that leaves the rows, the names of the step runs and the branch alone.
LEMMA RowsUnchanged ==
    ASSUME EngineInv, SkipInv, wsrs' = wsrs, stepRuns' = stepRuns, branch' = branch,
           state = "finished" => state' = "finished"
    PROVE  SkipInv'
BY DEF SkipInv, OnBranch, LeftWhenDone, NoStepSkipped, Done, StepRunAt, Current, CurrentId

\* Every step of the engine keeps the invariant.
LEMMA SkipInvNext ==
    ASSUME WellNamed, EngineInv, SkipInv, [Next]_vars
    PROVE  SkipInv'
<1>T. TypeOK /\ RowsResolve /\ Unstarted /\ OnTree /\ AtStep
  BY DEF EngineInv
<1>H. ASSUME pc = "handle"
      PROVE  /\ wsrs # <<>> /\ HasStep(branch, Current.name) /\ state # "finished"
             /\ Current.branch = branch
             /\ LastChanged(Recorded)
             /\ result.kind = "success" => DoneIn(Recorded, Len(wsrs))
             /\ \A b \in BranchNames : LastChanged(BranchedOnError(b))
                                       /\ DoneIn(BranchedOnError(b), Len(wsrs))
  <2>1. wsrs # <<>> /\ HasStep(branch, Current.name) /\ state # "finished"
    BY <1>T, <1>H DEF AtStep
  <2>2. result.kind = "success" => result.saved
    BY <1>T, <1>H, SuccessSaved DEF AtStep
  <2>3. branch \in BranchNames
    BY <1>T DEF TypeOK
  <2>4. QED
    BY <1>T, <2>1, <2>2, <2>3, RecordedChangesLast DEF SkipInv, OnBranch
<1>L. ASSUME pc = "handle" PROVE \E i \in DOMAIN wsrs : /\ wsrs[i].step_run = CurrentId
                                                         /\ StepRunAt(i).branch = branch
  <2>1. Len(wsrs) \in DOMAIN wsrs
    BY <1>T, <1>H, <1>L, CurrentRow
  <2>2. QED
    BY <1>H, <1>L, <2>1 DEF Current, CurrentId, StepRunAt
<1>1. CASE InitializeFirst
  <2>1. /\ wsrs = <<>> /\ branch = Root /\ branch' = Root
        /\ AppendFresh(wsrs, Root, Tree[Root].steps[1].name)
    BY <1>1, <1>T DEF InitializeFirst, InitializeFirstStep, Unstarted
  <2>2. PICK n : n = Tree[Root].steps[1].name
    OBVIOUS
  <2>3. Root \in DOMAIN Tree /\ Len(Tree[Root].steps) > 0 /\ Len(Tree[Root].steps) \in Nat
    BY TreeAssumption DEF StepBranch
  <2>4. HasStep(Root, n) /\ IndexOf(Root, n) = 1
    BY <2>2, <2>3, StepAtPosition, FirstIndex
  <2>5. LastChanged(wsrs)
    BY <1>T, <2>1 DEF LastChanged, SameRows, TypeOK
  <2>6. PICK k \in Nat : k = 0 /\ k = Len(wsrs)
    BY <2>1
  <2>7. /\ OldRowsKept /\ Len(wsrs') = k + 1
        /\ StepRunAt(k + 1)'.branch = Root /\ StepRunAt(k + 1)'.name = n
    <3>1. TypeOK /\ RowsResolve /\ LastChanged(wsrs) /\ HasStep(Root, n)
          /\ AppendFresh(wsrs, Root, n) /\ k = Len(wsrs)
      BY <1>T, <2>1, <2>2, <2>4, <2>5, <2>6
    <3>2. QED
      BY <3>1, FreshAppended
  <2>8. Reached(k + 1)'
    BY <2>4, <2>7 DEF Reached
  <2>9. OnBranch'
    <3>1. Current' = FreshStepRun(Root, n)
      BY <1>T, <2>1, <2>2, <2>4, <2>5, FreshRow DEF LastChanged
    <3>2. QED
      BY <2>1, <3>1 DEF OnBranch, FreshStepRun
  <2>10. PICK m \in Nat : m = k + 1
    BY <2>6
  <2>11. ~(k > 0)
    BY <2>6
  <2>12. QED
    BY <1>T, <2>6, <2>7, <2>8, <2>9, <2>10, <2>11, SkipInvKept
<1>2. CASE \/ Request \/ InitializeCurrent \/ InitializeRaises \/ RejectState \/ PrepareOtherStep
           \/ HandleDeadEnd \/ EndLeg \/ Respond \/ Fail \/ UNCHANGED vars
  <2>1. UNCHANGED run
    BY <1>2 DEF Request, InitializeCurrent, InitializeRaises, RejectState, PrepareOtherStep,
                HandleDeadEnd, EndLeg, Respond, Fail, vars, run
  <2>2. QED
    BY <2>1, RowsUnchanged DEF run
<1>3. CASE Start
  BY <1>3, RowsUnchanged DEF Start, Transition
<1>4. CASE AcceptInput
  BY <1>4, RowsUnchanged DEF AcceptInput, ProcessingUserInput, Transition
<1>5. CASE AskForInput
  BY <1>5, RowsUnchanged DEF AskForInput, RequestUserInput, Transition
<1>6. CASE RunStep
  <2>1. PICK e : stepRuns' = [stepRuns EXCEPT ![CurrentId].run_count = e]
    BY <1>6 DEF RunStep
  <2>2. wsrs' = wsrs /\ branch' = branch /\ state' = state /\ wsrs # <<>>
    BY <1>6, <1>T DEF RunStep, AtStep
  <2>3. CurrentId \in DOMAIN stepRuns /\ stepRuns \in Seq(StepRun)
    BY <1>T, <2>2, CurrentRow DEF TypeOK
  <2>4. \A r \in DOMAIN stepRuns : /\ stepRuns'[r].branch = stepRuns[r].branch
                                  /\ stepRuns'[r].name = stepRuns[r].name
    BY <2>1, <2>3 DEF StepRun
  <2>5. SamePositions
    BY <2>1, <2>3, <2>4 DEF SamePositions
  <2>6. LastChanged(wsrs')
    BY <1>T, <2>2 DEF LastChanged, SameRows, TypeOK
  <2>7. OnBranch'
    BY <2>2, <2>3, <2>4 DEF SkipInv, OnBranch, Current, CurrentId
  <2>8. QED
    BY <2>5, <2>6, <2>7, NothingAppended
<1>7. CASE HandlePressZero \/ HandleExit
  <2>1. pc = "handle" /\ wsrs' = Recorded /\ stepRuns' = stepRuns /\ state' = "finished"
    BY <1>7 DEF HandlePressZero, HandleExit, Finish, Transition
  <2>2. LastChanged(wsrs') /\ OnBranch'
    BY <1>H, <2>1 DEF OnBranch
  <2>3. SamePositions
    BY <1>T, <2>1 DEF SamePositions, TypeOK
  <2>4. QED
    BY <2>2, <2>3, NothingAppended
<1>8. CASE HandleUnrecoverable
  <2>1. pc = "handle" /\ wsrs' = Recorded /\ stepRuns' = stepRuns /\ branch' = branch
    BY <1>8 DEF HandleUnrecoverable
  <2>2. LastChanged(wsrs') /\ wsrs # <<>> /\ Current.branch = branch
    BY <1>H, <2>1
  <2>3. Current' = Current
    BY <1>T, <2>1, <2>2, KeptRows DEF LastChanged
  <2>4. SamePositions
    BY <1>T, <2>1 DEF SamePositions, TypeOK
  <2>5. OnBranch'
    BY <2>1, <2>2, <2>3 DEF OnBranch
  <2>6. QED
    BY <2>2, <2>4, <2>5, NothingAppended
<1>9. CASE HandleReplay
  <2>1. pc = "handle" /\ AppendAgain(Recorded, CurrentId) /\ branch' = branch
    BY <1>9 DEF HandleReplay, ReplayStep
  <2>2. QED
    BY <1>H, <1>L, <2>1, RunAgain
<1>10. CASE HandleRetry
  <2>1. pc = "handle" /\ branch' = branch
    BY <1>10 DEF HandleRetry
  <2>2. PICK r \in RetryTargets : AppendAgain(Recorded, r)
    BY <1>10 DEF HandleRetry
  <2>3. PICK i \in DOMAIN wsrs : wsrs[i].step_run = r /\ StepRunAt(i).branch = branch
    <3>1. CASE CurrentStep.reset_to = NoStep
      BY <1>L, <2>1, <3>1 DEF RetryTargets
    <3>2. CASE CurrentStep.reset_to # NoStep
      BY <3>2 DEF RetryTargets, StepRunsOf, VisitsOf
    <3>3. QED
      BY <3>1, <3>2
  <2>4. QED
    BY <1>H, <2>1, <2>2, <2>3, RunAgain
<1>11. CASE HandleNextInput
  <2>1. /\ pc = "handle" /\ result.kind = "success" /\ branch' = BranchAfterSuccess
        /\ CanAdvance(BranchAfterSuccess) /\ IsInput(NextStep(BranchAfterSuccess))
        /\ RequestUserInput(Recorded, BranchAfterSuccess, NextStep(BranchAfterSuccess).name)
    BY <1>11 DEF HandleNextInput
  <2>2. AppendFresh(Recorded, BranchAfterSuccess, NextStep(BranchAfterSuccess).name)
    BY <2>1, NewName DEF RequestUserInput
  <2>3. QED
    BY <1>H, <2>1, <2>2, Advanced
<1>12. CASE HandleNextStep
  <2>1. /\ pc = "handle" /\ result.kind = "success" /\ branch' = BranchAfterSuccess
        /\ CanAdvance(BranchAfterSuccess)
        /\ AppendFresh(Recorded, BranchAfterSuccess, NextStep(BranchAfterSuccess).name)
    BY <1>12 DEF HandleNextStep, AdvanceStep
  <2>2. QED
    BY <1>H, <2>1, Advanced
<1>13. CASE HandleErrorSwitch
  <2>1. PICK b : b = CurrentStep.switch_to
    OBVIOUS
  <2>2. /\ pc = "handle" /\ branch' = b /\ CanAdvance(b)
        /\ AppendFresh(BranchedOnError(b), b, NextStep(b).name)
    BY <1>13, <2>1 DEF HandleErrorSwitch
  <2>3. b \in BranchNames
    BY <2>2, NextStepFound
  <2>4. QED
    BY <1>H, <2>2, <2>3, Advanced
<1>14. QED
  BY <1>1, <1>2, <1>3, <1>4, <1>5, <1>6, <1>7, <1>8, <1>9, <1>10, <1>11, <1>12, <1>13 DEF Next, Serve

\* On a tree with well-chosen names no step is ever reached around the step
\* before it, whatever is answered, retried, switched or cut short.
THEOREM NoStepSkippedHolds ==
    ASSUME WellNamed
    PROVE  Spec => []NoStepSkipped
<1>1. Init => SkipInv
  BY DEF Init, SkipInv, OnBranch, LeftWhenDone, NoStepSkipped
<1>2. EngineInv /\ SkipInv /\ [Next]_vars => SkipInv'
  BY SkipInvNext
<1>3. SkipInv => NoStepSkipped
  BY DEF SkipInv
<1>4. QED
  BY <1>1, <1>2, <1>3, EngineInvariant, PTL DEF Spec

-----------------------------------------------------------------------------
(* What a handler leaves in the rows *)

\* The result has been attached to the current row, and nothing appended.
Closed(rows) ==
    /\ wsrs' = rows /\ stepRuns' = stepRuns
    /\ state' \in {"finished", "error"}

\* The result has been attached to the current row, which went on to a new step
\* run.
Opened(rows) ==
    /\ ExitOfCurrent = NoExit
    /\ \E b \in BranchNames, n \in StepNames : HasStep(b, n) /\ AppendFresh(rows, b, n)

\* The result has been attached to the current row, which went back to a step
\* run that may be tried, or asked, again.
Reopened(r) ==
    /\ AppendAgain(Recorded, r)
    /\ \/ r = CurrentId /\ result.kind = "replay"
       \/ /\ result.kind = "error" /\ result.retryable
          /\ r \in RetryTargets /\ RetriesLeft(r) /\ HasStep(branch, RetryStep)

\* The rows of a result: the current one as it was recorded, perhaps with the
\* branch that was taken on its error.
RowsOfResult == {Recorded} \cup {BranchedOnError(b) : b \in BranchNames}

HandleResult ==
    \/ HandlePressZero \/ HandleReplay \/ HandleExit \/ HandleNextInput \/ HandleNextStep
    \/ HandleRetry \/ HandleErrorSwitch \/ HandleUnrecoverable

\* Every handler closes the run, opens a new step run, or goes back to an old one.
LEMMA HandlerDoes ==
    ASSUME EngineInv, SkipInv, WellNamed, HandleResult
    PROVE  /\ pc = "handle" /\ pc' # "handle" /\ UNCHANGED failures
           /\ \/ \E rows \in RowsOfResult : Closed(rows) \/ Opened(rows)
              \/ \E r \in DOMAIN stepRuns : Reopened(r)
<1>T. TypeOK /\ RowsResolve /\ Unstarted /\ OnTree /\ AtStep
  BY DEF EngineInv
<1>S. \A b, n : HasStep(b, n) => b \in BranchNames /\ n \in StepNames
  BY TemplateType
<1>1. CASE HandlePressZero \/ HandleExit \/ HandleUnrecoverable
  BY <1>1 DEF HandlePressZero, HandleExit, HandleUnrecoverable, Finish, RegisterErrorThen, Transition,
              outside, RowsOfResult, Closed
<1>2. CASE HandleReplay
  <2>1. /\ pc = "handle" /\ pc' = "respond" /\ UNCHANGED failures
        /\ AppendAgain(Recorded, CurrentId) /\ result.kind = "replay"
    BY <1>2 DEF HandleReplay, ReplayStep, Transition, outside
  <2>2. CurrentId \in DOMAIN stepRuns
    BY <1>T, <2>1, CurrentRow DEF AtStep
  <2> QED BY <2>1, <2>2 DEF Reopened
<1>3. CASE HandleNextInput
  <2>1. /\ pc = "handle" /\ result.kind = "success" /\ ExitOfCurrent = NoExit
        /\ CanAdvance(BranchAfterSuccess) /\ IsInput(NextStep(BranchAfterSuccess))
        /\ RequestUserInput(Recorded, BranchAfterSuccess, NextStep(BranchAfterSuccess).name)
        /\ UNCHANGED failures /\ ContinueWith(NextStep(BranchAfterSuccess))
    BY <1>3 DEF HandleNextInput, outside
  <2>2. AppendFresh(Recorded, BranchAfterSuccess, NextStep(BranchAfterSuccess).name)
    BY <2>1, NewName DEF RequestUserInput
  <2>3. HasStep(BranchAfterSuccess, NextStep(BranchAfterSuccess).name)
    BY <2>1, NextStepFound
  <2>4. pc' # "handle"
    BY <2>1 DEF ContinueWith
  <2> QED BY <1>S, <2>1, <2>2, <2>3, <2>4 DEF Opened, RowsOfResult
<1>4. CASE HandleNextStep
  <2>1. /\ pc = "handle" /\ ExitOfCurrent = NoExit
        /\ CanAdvance(BranchAfterSuccess)
        /\ AppendFresh(Recorded, BranchAfterSuccess, NextStep(BranchAfterSuccess).name)
        /\ UNCHANGED failures /\ ContinueWith(NextStep(BranchAfterSuccess))
    BY <1>4 DEF HandleNextStep, AdvanceStep, outside
  <2>2. HasStep(BranchAfterSuccess, NextStep(BranchAfterSuccess).name)
    BY <2>1, NextStepFound
  <2>3. pc' # "handle"
    BY <2>1 DEF ContinueWith
  <2> QED BY <1>S, <2>1, <2>2, <2>3 DEF Opened, RowsOfResult
<1>5. CASE HandleErrorSwitch
  <2>1. PICK b : b = CurrentStep.switch_to
    OBVIOUS
  <2>2. /\ pc = "handle" /\ ExitOfCurrent = NoExit /\ CanAdvance(b)
        /\ AppendFresh(BranchedOnError(b), b, NextStep(b).name)
        /\ UNCHANGED failures /\ ContinueWith(NextStep(b))
    BY <1>5, <2>1 DEF HandleErrorSwitch, outside
  <2>3. HasStep(b, NextStep(b).name)
    BY <2>2, NextStepFound
  <2>4. pc' # "handle"
    BY <2>2 DEF ContinueWith
  <2> QED BY <1>S, <2>2, <2>3, <2>4 DEF Opened, RowsOfResult
<1>6. CASE HandleRetry
  <2>1. /\ pc = "handle" /\ result.kind = "error" /\ result.retryable /\ HasStep(branch, RetryStep)
        /\ UNCHANGED failures /\ ContinueWith(Template(branch, RetryStep))
    BY <1>6 DEF HandleRetry, RegisterErrorThen, Transition, outside
  <2>2. PICK r \in RetryTargets : RetriesLeft(r) /\ AppendAgain(Recorded, r)
    BY <1>6 DEF HandleRetry
  <2>3. r \in DOMAIN stepRuns
    BY <1>T, <2>1, RetryTarget DEF AtStep
  <2>4. pc' # "handle"
    BY <2>1 DEF ContinueWith
  <2> QED BY <2>1, <2>2, <2>3, <2>4 DEF Reopened
<1> QED BY <1>1, <1>2, <1>3, <1>4, <1>5, <1>6 DEF HandleResult

\* The steps that leave the rows and the step runs alone.
Quiet ==
    \/ UNCHANGED vars
    \/ Request \/ InitializeCurrent \/ InitializeRaises \/ Start \/ RejectState \/ AcceptInput
    \/ AskForInput \/ PrepareOtherStep \/ HandleDeadEnd \/ EndLeg \/ Respond \/ Fail

\* A request that is prepared, answered or cut short; a handler that gives up.
LEMMA QuietDoes ==
    ASSUME TypeOK, Quiet
    PROVE  /\ wsrs' = wsrs /\ stepRuns' = stepRuns /\ branch' = branch
           /\ state \in {"finished", "error"} => state' = state
           /\ failures' \in Nat /\ (failures' = 0 => failures = 0)
           /\ pc' = "handle" => pc = "handle" /\ result' = result
           /\ pc = "handle" /\ pc' # "handle" => DeadEnd \/ failures' # 0
<1>1. CASE UNCHANGED vars
  BY <1>1 DEF vars, run, request, outside, TypeOK
<1>2. CASE Request \/ InitializeCurrent \/ InitializeRaises \/ RejectState
  BY <1>2 DEF Request, InitializeCurrent, InitializeRaises, RejectState, run, outside, TypeOK
<1>3. CASE Start \/ AcceptInput \/ AskForInput \/ PrepareOtherStep
  BY <1>3 DEF Start, AcceptInput, AskForInput, PrepareOtherStep, RequestUserInput, ProcessingUserInput,
              Transition, run, request, outside, TypeOK
<1>4. CASE HandleDeadEnd \/ EndLeg \/ Respond \/ Fail
  BY <1>4 DEF HandleDeadEnd, EndLeg, Respond, Fail, run, outside, TypeOK
<1> QED BY <1>1, <1>2, <1>3, <1>4 DEF Quiet

\* The steps, by what they do to the history.
LEMMA Steps == [Next]_vars => Quiet \/ InitializeFirst \/ RunStep \/ HandleResult
BY DEF Next, Serve, Quiet, HandleResult

\* The steps that change no row and, of the step runs, only their counts.
LEMMA SameRowsAndRuns ==
    ASSUME EngineInv, Quiet \/ RunStep
    PROVE  /\ wsrs' = wsrs /\ DOMAIN stepRuns' = DOMAIN stepRuns
           /\ \A r \in DOMAIN stepRuns : /\ stepRuns'[r].branch = stepRuns[r].branch
                                         /\ stepRuns'[r].name = stepRuns[r].name
<1>T. TypeOK /\ stepRuns \in Seq(StepRun)
  BY DEF EngineInv, TypeOK
<1>1. CASE Quiet
  BY <1>T, <1>1, QuietDoes
<1>2. CASE RunStep
  <2>1. wsrs' = wsrs /\ wsrs # <<>>
    BY <1>2 DEF RunStep, EngineInv, AtStep
  <2>2. PICK e : stepRuns' = [stepRuns EXCEPT ![CurrentId].run_count = e]
    BY <1>2 DEF RunStep
  <2>3. CurrentId \in DOMAIN stepRuns
    BY <1>T, <2>1, CurrentRow DEF EngineInv
  <2> QED BY <1>T, <2>1, <2>2, <2>3 DEF StepRun
<1> QED BY <1>1, <1>2

\* A step that is run leaves the run where it is.
LEMMA RunStays ==
    ASSUME EngineInv, RunStep
    PROVE  /\ wsrs # <<>> /\ wsrs' = wsrs /\ pc' = "handle"
           /\ Current'.name = Current.name /\ Current'.branch = Current.branch
           /\ HasStep(branch, Current.name)
<1>1. wsrs # <<>> /\ HasStep(branch, Current.name) /\ pc' = "handle"
  BY DEF RunStep, EngineInv, AtStep
<1>2. PICK c : c = CurrentId
  OBVIOUS
<1>3. /\ wsrs' = wsrs /\ c \in DOMAIN stepRuns /\ CurrentId' = c 
      /\ stepRuns'[c].name = stepRuns[c].name /\ stepRuns'[c].branch = stepRuns[c].branch
  BY <1>1, <1>2, CurrentRow, SameRowsAndRuns DEF EngineInv, CurrentId
<1> QED BY <1>1, <1>2, <1>3 DEF Current

\* What the current row says once a result has been attached to it.
ResultState == IF result.saved THEN result.kind ELSE "none"

\* The last row with a result attached to it, and the rows it leaves alone.
LEMMA ResultRow ==
    ASSUME TypeOK, wsrs # <<>>, NEW rows \in RowsOfResult, NEW k \in Nat, k = Len(wsrs)
    PROVE  /\ LastChanged(rows)
           /\ rows[k].step_run = CurrentId
           /\ rows[k].step_state = ResultState
           /\ rows = Recorded => rows[k].branched_on_error = wsrs[k].branched_on_error
<1>1. wsrs \in Seq(WorkflowStepRun) /\ k \in DOMAIN wsrs /\ wsrs[k] \in WorkflowStepRun
  BY DEF TypeOK
<1>2. /\ Recorded[k].step_run = CurrentId
      /\ Recorded[k].step_state = ResultState
      /\ Recorded[k].branched_on_error = wsrs[k].branched_on_error
  <2>1. Recorded[k] = [wsrs[k] EXCEPT !.step_state = ResultState]
    BY <1>1 DEF Recorded, ResultState
  <2>2. CurrentId = wsrs[k].step_run
    BY DEF CurrentId
  <2> QED BY <1>1, <2>1, <2>2 DEF WorkflowStepRun
<1>3. CASE rows = Recorded
  <2>1. PICK b : b \in BranchNames
    BY TreeAssumption
  <2> QED BY <1>2, <1>3, <2>1, RecordedChangesLast
<1>4. ASSUME NEW b \in BranchNames, rows = BranchedOnError(b)
      PROVE  /\ LastChanged(rows)
             /\ rows[k].step_run = CurrentId
             /\ rows[k].step_state = ResultState
             /\ rows = Recorded => rows[k].branched_on_error = wsrs[k].branched_on_error
  <2>1. LastChanged(rows)
    BY <1>4, RecordedChangesLast
  <2>2. LastChanged(Recorded)
    BY <1>4, RecordedChangesLast
  <2>3. rows[k] = [Recorded[k] EXCEPT !.branched_on_error = b]
    BY <1>1, <1>4, <2>2 DEF BranchedOnError, LastChanged, SameRows
  <2>4. Recorded[k] \in WorkflowStepRun
    BY <1>1, <2>2 DEF LastChanged, SameRows
  <2> QED BY <1>2, <2>1, <2>3, <2>4 DEF WorkflowStepRun
<1> QED BY <1>3, <1>4 DEF RowsOfResult

-----------------------------------------------------------------------------
(* No dead end *)

\* The current row of a run that goes on has nothing attached to it.
LastOpen ==
    wsrs # <<>> /\ state \notin {"finished", "error"} => wsrs[Len(wsrs)] = Wsr(CurrentId)

ExitAt(i) == Template(StepRunAt(i).branch, StepRunAt(i).name).exit

\* The run went on only from steps that do not leave.
WentOn == \A i \in DOMAIN wsrs : i < Len(wsrs) /\ Done(i) => ExitAt(i) = NoExit

\* A run that is being handled, by its current row.
LEMMA AtHandle ==
    ASSUME EngineInv, SkipInv, LastOpen, pc = "handle"
    PROVE  /\ TypeOK /\ RowsResolve /\ wsrs # <<>> /\ wsrs \in Seq(WorkflowStepRun)
           /\ Len(wsrs) \in Nat \ {0} /\ DOMAIN wsrs = 1 .. Len(wsrs)
           /\ wsrs[Len(wsrs)].step_run = CurrentId
           /\ wsrs[Len(wsrs)].step_state = "none" /\ wsrs[Len(wsrs)].branched_on_error = NoBranch
           /\ StepRunAt(Len(wsrs)) = Current /\ Current = stepRuns[CurrentId]
           /\ CurrentId \in DOMAIN stepRuns /\ DOMAIN stepRuns = 1 .. Len(stepRuns)
           /\ Len(stepRuns) \in Nat
           /\ Current.branch = branch /\ HasStep(branch, Current.name)
           /\ CurrentStep = Template(Current.branch, Current.name)
           /\ result \in Outcomes(CurrentStep)
<1>1. /\ TypeOK /\ RowsResolve /\ wsrs # <<>> /\ HasStep(branch, Current.name)
      /\ state \notin {"finished", "error"} /\ result \in Outcomes(CurrentStep)
  BY DEF EngineInv, AtStep
<1>2. wsrs \in Seq(WorkflowStepRun) /\ stepRuns \in Seq(StepRun)
  BY <1>1 DEF TypeOK
<1>3. Current.branch = branch
  BY <1>1 DEF SkipInv, OnBranch
<1>4. CurrentId \in DOMAIN stepRuns
  BY <1>1, CurrentRow
<1>5. wsrs[Len(wsrs)] = Wsr(CurrentId)
  BY <1>1 DEF LastOpen
<1> QED BY <1>1, <1>2, <1>3, <1>4, <1>5 DEF Wsr, CurrentId, Current, StepRunAt, CurrentStep

\* Appending to rows that differ in their last one at most leaves the rest alone.
LEMMA WentOnKept ==
    ASSUME TypeOK, RowsResolve, WentOn, OldRowsKept, NEW k \in Nat, k = Len(wsrs),
           Len(wsrs') = k + 1,
           k > 0 /\ Done(k)' => ExitAt(k) = NoExit
    PROVE  WentOn'
<1>1. DOMAIN wsrs = 1 .. k /\ DOMAIN wsrs' = 1 .. k + 1
  BY DEF TypeOK, OldRowsKept
<1>2. ASSUME NEW i \in 1 .. k, Done(i)' PROVE ExitAt(i)' = NoExit
  <2>1. ExitAt(i)' = ExitAt(i)
    BY DEF OldRowsKept, ExitAt
  <2>2. CASE i = k
    BY <1>2, <2>1, <2>2
  <2>3. CASE i < k
    <3>1. Done(i)
      BY <1>2, <2>3 DEF OldRowsKept
    <3> QED BY <1>1, <2>1, <2>3, <3>1 DEF WentOn
  <2> QED BY <2>2, <2>3
<1> QED BY <1>1, <1>2 DEF WentOn

\* A row that has just been appended has no result.
LEMMA LastOpenAppended ==
    ASSUME NEW rows \in Seq(WorkflowStepRun), NEW r \in Nat \ {0}, wsrs' = Append(rows, Wsr(r))
    PROVE  LastOpen'
<1>1. wsrs'[Len(wsrs')] = Wsr(r)
  OBVIOUS
<1>2. Wsr(r).step_run = r
  BY DEF Wsr
<1> QED BY <1>1, <1>2 DEF LastOpen, CurrentId, Wsr

\* The current row is the only open one, and a step that leaves is the last.
LEMMA OpenInvNext ==
    ASSUME WellNamed, EngineInv, SkipInv, LastOpen, WentOn, [Next]_vars
    PROVE  LastOpen' /\ WentOn'
<1>T. TypeOK /\ RowsResolve /\ wsrs \in Seq(WorkflowStepRun) /\ stepRuns \in Seq(StepRun)
  BY DEF EngineInv, TypeOK
<1>1. CASE Quiet
  <2>1. wsrs' = wsrs /\ stepRuns' = stepRuns /\ (state \in {"finished", "error"} => state' = state)
    BY <1>1, <1>T, QuietDoes
  <2> QED BY <2>1 DEF LastOpen, WentOn, CurrentId, Done, ExitAt, StepRunAt
<1>2. CASE InitializeFirst
  <2>r. PICK r \in Nat \ {0} : r = Len(stepRuns) + 1
    BY <1>T
  <2>1. wsrs = <<>> /\ wsrs' = Append(wsrs, Wsr(r))
    BY <1>2, <2>r DEF InitializeFirst, InitializeFirstStep, AppendFresh
  <2>2. LastOpen'
    BY <1>T, <2>1, LastOpenAppended
  <2>3. Len(wsrs') = 1
    BY <2>1
  <2> QED BY <2>2, <2>3 DEF WentOn
<1>3. CASE RunStep
  <2>1. wsrs' = wsrs /\ state' = state /\ wsrs # <<>>
    BY <1>3 DEF RunStep, EngineInv, AtStep
  <2>2. PICK e : stepRuns' = [stepRuns EXCEPT ![CurrentId].run_count = e]
    BY <1>3 DEF RunStep
  <2>3. CurrentId \in DOMAIN stepRuns
    BY <1>T, <2>1, CurrentRow
  <2>4. \A r \in DOMAIN stepRuns : stepRuns'[r].branch = stepRuns[r].branch
                                   /\ stepRuns'[r].name = stepRuns[r].name
    BY <1>T, <2>2, <2>3 DEF StepRun
  <2>5. \A i \in DOMAIN wsrs : ExitAt(i)' = ExitAt(i)
    BY <1>T, <2>1, <2>4 DEF ExitAt, StepRunAt, RowsResolve
  <2> QED BY <2>1, <2>5 DEF LastOpen, WentOn, CurrentId, Done
<1>4. CASE HandleResult
  <2>0. pc = "handle"
    BY <1>4, HandlerDoes
  <2>K. PICK k \in Nat \ {0} : k = Len(wsrs)
    BY <2>0, AtHandle
  <2>W. wsrs # <<>> /\ wsrs[k].branched_on_error = NoBranch /\ DOMAIN wsrs = 1 .. k
    BY <2>0, <2>K, AtHandle
  <2>E. ExitAt(k) = ExitOfCurrent
    BY <2>0, <2>K, AtHandle DEF ExitAt, ExitOfCurrent
  <2>1. ASSUME NEW rows \in RowsOfResult, Closed(rows) PROVE LastOpen' /\ WentOn'
    <3>1. wsrs' = rows /\ stepRuns' = stepRuns /\ LastChanged(rows)
      BY <1>T, <2>1, <2>K, <2>W, ResultRow DEF Closed
    <3>2. LastOpen'
      BY <2>1 DEF Closed, LastOpen
    <3>3. Len(wsrs') = k /\ wsrs' \in Seq(WorkflowStepRun)
      BY <2>K, <3>1 DEF LastChanged, SameRows
    <3>4. \A i \in 1 .. k : i < k => wsrs'[i] = wsrs[i]
      BY <2>K, <3>1 DEF LastChanged
    <3>5. \A i \in 1 .. k : i < k => (Done(i)' <=> Done(i)) /\ ExitAt(i)' = ExitAt(i)
      BY <3>1, <3>4 DEF Done, ExitAt, StepRunAt
    <3> QED BY <2>K, <2>W, <3>2, <3>3, <3>5 DEF WentOn
  <2>2. ASSUME NEW rows \in RowsOfResult, Opened(rows) PROVE LastOpen' /\ WentOn'
    <3>1. LastChanged(rows)
      BY <1>T, <2>K, <2>W, ResultRow
    <3>2. PICK b \in BranchNames, n \in StepNames : HasStep(b, n) /\ AppendFresh(rows, b, n)
      BY <2>2 DEF Opened
    <3>3. OldRowsKept /\ Len(wsrs') = k + 1
      BY <1>T, <2>K, <3>1, <3>2, FreshAppended
    <3>4. LastOpen'
      BY <1>T, <3>1, <3>2, LastOpenAppended DEF AppendFresh, LastChanged, SameRows
    <3>5. WentOn'
      BY <1>T, <2>K, <2>2, <2>E, <3>3, WentOnKept DEF Opened
    <3> QED BY <3>4, <3>5
  <2>3. ASSUME NEW r \in DOMAIN stepRuns, Reopened(r) PROVE LastOpen' /\ WentOn'
    <3>1. /\ LastChanged(Recorded) /\ Recorded[k].step_state = ResultState
          /\ Recorded[k].branched_on_error = NoBranch
      BY <1>T, <2>K, <2>W, ResultRow DEF RowsOfResult
    <3>2. AppendAgain(Recorded, r) /\ result.kind # "success"
      BY <2>3 DEF Reopened
    <3>3. OldRowsKept /\ Len(wsrs') = k + 1 /\ Done(k)' = DoneIn(Recorded, k)
      BY <1>T, <2>K, <3>1, <3>2, AgainAppended
    <3>4. LastOpen'
      BY <1>T, <3>1, <3>2, LastOpenAppended DEF AppendAgain, LastChanged, SameRows
    <3>5. ~DoneIn(Recorded, k)
      BY <3>1, <3>2 DEF DoneIn, ResultState
    <3>6. WentOn'
      BY <1>T, <2>K, <3>3, <3>5, WentOnKept
    <3> QED BY <3>4, <3>6
  <2> QED BY <1>4, <2>1, <2>2, <2>3, HandlerDoes
<1> QED BY <1>1, <1>2, <1>3, <1>4, Steps

\* The position of the current step in its branch.
LEMMA AtIndex ==
    ASSUME EngineInv, SkipInv, LastOpen, pc = "handle"
    PROVE  \E i \in DOMAIN Tree[branch].steps :
              /\ branch \in DOMAIN Tree
              /\ i = IndexOf(branch, Current.name)
              /\ CurrentStep = Tree[branch].steps[i]
              /\ ExitOfCurrent = Tree[branch].steps[i].exit
<1>1. HasStep(branch, Current.name) /\ Current.branch = branch
      /\ CurrentStep = Template(Current.branch, Current.name)
  BY AtHandle
<1>2. branch \in DOMAIN Tree /\ IndexOf(branch, Current.name) \in DOMAIN Tree[branch].steps
  BY <1>1, IndexOfFirst
<1> QED BY <1>1, <1>2 DEF Template, ExitOfCurrent

\* A branch has a step to go on with if the tree says so.
LEMMA CanGoOn ==
    ASSUME EngineInv, SkipInv, LastOpen, WentOn, pc = "handle",
           NEW i \in Nat, i = IndexOf(branch, Current.name), NEW c, GoesOn(branch, i, c)
    PROVE  CanAdvance(c)
<1>T. TypeOK /\ RowsResolve
  BY DEF EngineInv
<1>K. PICK k \in Nat \ {0} : k = Len(wsrs) /\ DOMAIN wsrs = 1 .. k
  BY AtHandle
<1>1. StepRunAt(k) = Current /\ Current.branch = branch /\ HasStep(branch, Current.name)
  BY <1>K, AtHandle
<1>L. c \in DOMAIN Tree /\ Tree[c].steps \in Seq(StepTemplate) /\ Tree[c].reset_on_switch \in BOOLEAN
  BY TreeAssumption DEF GoesOn, StepBranch
<1>l. PICK l \in Nat \ {0} : l = Len(Tree[c].steps) /\ DOMAIN Tree[c].steps = 1 .. l
  BY <1>L DEF GoesOn
<1>2. CASE StartsOver(c) \/ ~HasStep(c, StepRunAt(LastVisit(c)).name)
  BY <1>2, <1>L, <1>l DEF CanAdvance, NextIndex
<1>3. CASE ~StartsOver(c) /\ HasStep(c, StepRunAt(LastVisit(c)).name)
  <2>v. PICK v : v = LastVisit(c)
    OBVIOUS
  <2>1. VisitsOf(c) # {}
    BY <1>3 DEF StartsOver, VisitsOf
  <2>2. /\ v \in 1 .. k /\ StepRunAt(v).branch = c
        /\ \A j \in 1 .. k : StepRunAt(j).branch = c => j <= v
    BY <1>T, <1>K, <2>v, <2>1, LastVisitFound
  <2>n. PICK n : n = StepRunAt(v).name
    OBVIOUS
  <2>3. HasStep(c, n) /\ NextIndex(c) = IndexOf(c, n) + 1
    BY <1>3, <2>v, <2>n DEF NextIndex
  <2>x. PICK x \in 1 .. l : x = IndexOf(c, n)
    BY <1>l, <2>3, IndexOfFirst
  <2>4. x < l
    <3>1. CASE c = branch
      <4>1. v = k
        BY <1>1, <2>2, <3>1
      <4> QED BY <1>1, <1>l, <2>x, <2>n, <3>1, <4>1 DEF GoesOn
    <3>2. CASE c # branch
      <4>1. ~Tree[c].reset_on_switch
        BY <1>1, <1>3, <3>2 DEF StartsOver
      <4>2. Tree[c].steps[l].exit # NoExit
        BY <1>l, <3>2, <4>1 DEF GoesOn
      <4>3. v < k /\ v + 1 \in 1 .. k /\ ~(v + 1 <= v)
        BY <1>1, <2>2, <3>2
      <4>4. StepRunAt(v + 1).branch # c
        BY <2>2, <4>3
      <4>5. Done(v)
        BY <1>K, <2>2, <4>3, <4>4 DEF SkipInv, LeftWhenDone
      <4>6. ExitAt(v) = NoExit
        BY <1>K, <2>2, <4>3, <4>5 DEF WentOn
      <4>7. ExitAt(v) = Tree[c].steps[x].exit
        BY <2>2, <2>n, <2>x DEF ExitAt, Template
      <4> QED BY <4>2, <4>6, <4>7
    <3> QED BY <3>1, <3>2
  <2> QED BY <1>L, <1>l, <2>3, <2>x, <2>4 DEF CanAdvance
<1> QED BY <1>2, <1>3

\* A branch was left for another at its last step.
LastStep(c)  == Tree[c].steps[Len(Tree[c].steps)].name
LeftAtEnd(c) == VisitsOf(c) # {} /\ StepRunAt(LastVisit(c)).name = LastStep(c)

\* Another branch that has no step to go on with goes on where it was left, and was
\* left at its end.
LEMMA CannotGoOn ==
    ASSUME EngineInv, NEW c \in DOMAIN Tree, Len(Tree[c].steps) > 0, Current.branch # c, ~CanAdvance(c)
    PROVE  LeftAtEnd(c) /\ ~Tree[c].reset_on_switch
<1>T. TypeOK /\ RowsResolve
  BY DEF EngineInv
<1>l. PICK l \in Nat \ {0} : l = Len(Tree[c].steps) /\ DOMAIN Tree[c].steps = 1 .. l
  <2>1. Tree[c].steps \in Seq(StepTemplate)
    BY TreeAssumption DEF StepBranch
  <2> QED BY <2>1
<1>1. ~StartsOver(c) /\ HasStep(c, StepRunAt(LastVisit(c)).name)
  BY <1>l DEF CanAdvance, NextIndex
<1>2. VisitsOf(c) # {} /\ ~Tree[c].reset_on_switch
  BY <1>1 DEF StartsOver, VisitsOf
<1>n. PICK n : n = StepRunAt(LastVisit(c)).name
  OBVIOUS
<1>3. /\ NextIndex(c) = IndexOf(c, n) + 1 /\ IndexOf(c, n) \in 1 .. l
      /\ Tree[c].steps[IndexOf(c, n)].name = n
  BY <1>1, <1>l, <1>n, IndexOfFirst DEF NextIndex
<1>4. IndexOf(c, n) = l
  <2>1. ~(IndexOf(c, n) + 1 <= l)
    BY <1>3, <1>l DEF CanAdvance
  <2> QED BY <1>3, <2>1
<1> QED BY <1>2, <1>3, <1>4, <1>l, <1>n DEF LeftAtEnd, LastStep

\* A contact that is at a step of a branch has been at all steps before it.
LEMMA Passed ==
    ASSUME TypeOK, RowsResolve, NoStepSkipped, NEW b, NEW m \in DOMAIN wsrs, StepRunAt(m).branch = b,
           NEW j \in Nat \ {0}, j <= IndexOf(b, StepRunAt(m).name)
    PROVE  \E x \in DOMAIN wsrs : StepRunAt(x).branch = b /\ IndexOf(b, StepRunAt(x).name) = j
<1> DEFINE P == {IndexOf(b, StepRunAt(x).name) : x \in VisitsOf(b)}
<1>1. SUFFICES j \in P
  BY DEF VisitsOf
<1>2. \A x \in VisitsOf(b) : HasStep(b, StepRunAt(x).name) /\ IndexOf(b, StepRunAt(x).name) \in Nat
  <2> SUFFICES ASSUME NEW x \in VisitsOf(b)
               PROVE  HasStep(b, StepRunAt(x).name) /\ IndexOf(b, StepRunAt(x).name) \in Nat
    OBVIOUS
  <2>1. HasStep(b, StepRunAt(x).name)
    BY DEF VisitsOf, StepRunAt, RowsResolve
  <2>2. b \in DOMAIN Tree /\ IndexOf(b, StepRunAt(x).name) \in DOMAIN Tree[b].steps
    BY <2>1, IndexOfFirst
  <2>3. Tree[b].steps \in Seq(StepTemplate)
    BY <2>2, TreeAssumption DEF StepBranch
  <2> QED BY <2>1, <2>2, <2>3
<1>3. PICK i \in Nat : i \in P /\ i = IndexOf(b, StepRunAt(m).name) /\ j <= i
  BY <1>2 DEF VisitsOf
<1>4. \A p \in P : p # 1 => p - 1 \in P
  <2> SUFFICES ASSUME NEW p \in P, p # 1 PROVE p - 1 \in P
    OBVIOUS
  <2>1. PICK x \in VisitsOf(b) : p = IndexOf(b, StepRunAt(x).name)
    OBVIOUS
  <2>2. x \in DOMAIN wsrs /\ StepRunAt(x).branch = b
    BY DEF VisitsOf
  <2>3. PICK y \in 1 .. x - 1 : /\ StepRunAt(y).branch = b
                                /\ IndexOf(b, StepRunAt(y).name) = p - 1
    BY <2>1, <2>2 DEF NoStepSkipped
  <2>4. y \in DOMAIN wsrs
    BY <2>2 DEF TypeOK
  <2> QED BY <2>3, <2>4 DEF VisitsOf
<1> DEFINE S == {n \in 1 .. i : n \notin P}
<1>5. CASE S = {}
  BY <1>3, <1>5
<1>6. CASE S # {}
  <2>1. S \in SUBSET (1 .. i)
    OBVIOUS
  <2>2. PICK n \in S : \A q \in S : q <= n
    <3> HIDE DEF S
    <3> QED BY <1>3, <1>6, <2>1, GreatestElement
  <2>3. n \in 1 .. i /\ n \notin P
    OBVIOUS
  <2>4. n + 1 \in 1 .. i
    BY <1>3, <2>3
  <2>5. n + 1 \notin S
    BY <2>2, <2>3
  <2>6. n + 1 \in P
    BY <2>4, <2>5
  <2>7. (n + 1) - 1 \in P
    BY <1>4, <2>3, <2>6
  <2> QED BY <2>3, <2>7
<1> QED BY <1>5, <1>6

\* Whatever the handlers look for in a tree that leads on is there, but for a branch
\* that may have been left at its end.
LEMMA DeadEndAtHandle ==
    ASSUME NEW bs, LeadsOnBut(bs), EngineInv, SkipInv, LastOpen, WentOn, pc = "handle", DeadEnd
    PROVE  \E c \in bs : /\ c # branch /\ LeftAtEnd(c)
                        /\ \/ result.kind = "success" /\ c = BranchAfterSuccess
                           \/ result.kind = "error" /\ c = CurrentStep.switch_to
<1>T. TypeOK /\ RowsResolve
  BY DEF EngineInv
<1>I. PICK i \in DOMAIN Tree[branch].steps :
              /\ branch \in DOMAIN Tree
              /\ i = IndexOf(branch, Current.name)
              /\ CurrentStep = Tree[branch].steps[i]
              /\ ExitOfCurrent = Tree[branch].steps[i].exit
  BY AtIndex
<1>t. PICK t : t = Tree[branch].steps[i]
  OBVIOUS
<1>N. i \in Nat \ {0} /\ Tree[branch].steps \in Seq(StepTemplate)
  BY <1>I, TreeAssumption DEF StepBranch
<1>R. result \in Outcomes(t) /\ StepRunAt(Len(wsrs)) = Current /\ Len(wsrs) \in DOMAIN wsrs
      /\ Current.branch = branch /\ HasStep(branch, Current.name)
  BY <1>I, <1>t, AtHandle
<1>L. /\ t.exit = NoExit => \A c \in Leads(branch, t) : GoesOn(branch, i, c) \/ c \in bs \ {branch}
      /\ t.switch_to # NoBranch =>
            t.exit = NoExit /\ (GoesOn(branch, i, t.switch_to) \/ t.switch_to \in bs \ {branch})
      /\ t.reset_to # NoStep => \E j \in 1 .. i : Tree[branch].steps[j].name = t.reset_to
  BY <1>I, <1>t DEF LeadsOnBut
<1>C. \A c : GoesOn(branch, i, c) => CanAdvance(c)
  BY <1>I, <1>N, CanGoOn
<1>D. \A c \in bs \ {branch} : CanAdvance(c) \/ LeftAtEnd(c)
  BY <1>R, CannotGoOn DEF LeadsOnBut
<1>1. result.kind = "success" => BranchAfterSuccess \in Leads(branch, t)
  BY <1>I, <1>t, <1>R DEF BranchAfterSuccess, Leads
<1>2. RetryTargets # {} /\ HasStep(branch, RetryStep)
  <2>1. CASE t.reset_to = NoStep
    BY <1>I, <1>t, <1>R, <2>1 DEF RetryTargets, RetryStep
  <2>2. CASE t.reset_to # NoStep
    <3>1. PICK j \in 1 .. i : Tree[branch].steps[j].name = t.reset_to
      BY <1>L, <2>2
    <3>2. PICK x \in DOMAIN wsrs : StepRunAt(x).branch = branch
                                   /\ IndexOf(branch, StepRunAt(x).name) <= i
                                   /\ StepRunAt(x).name = t.reset_to
      <4>1. HasStep(branch, t.reset_to)
        BY <1>I, <1>N, <3>1 DEF HasStep
      <4>2. PICK p \in DOMAIN Tree[branch].steps :
               /\ p = IndexOf(branch, t.reset_to)
               /\ Tree[branch].steps[p].name = t.reset_to
               /\ \A q \in 1 .. p - 1 : Tree[branch].steps[q].name # t.reset_to
        BY <4>1, IndexOfFirst
      <4>3. p \in Nat \ {0} /\ p <= i
        BY <1>N, <3>1, <4>2
      <4>4. PICK x \in DOMAIN wsrs :
               StepRunAt(x).branch = branch /\ IndexOf(branch, StepRunAt(x).name) = p
        BY <1>T, <1>I, <1>R, <4>3, Passed DEF SkipInv
      <4>5. HasStep(branch, StepRunAt(x).name)
        BY <1>T, <4>4 DEF StepRunAt, RowsResolve
      <4>6. Tree[branch].steps[p].name = StepRunAt(x).name
        BY <4>4, <4>5, IndexOfFirst
      <4> QED BY <4>2, <4>3, <4>4, <4>6
    <3>3. HasStep(branch, t.reset_to)
      BY <1>I, <1>N, <3>1 DEF HasStep
    <3> QED BY <1>I, <1>t, <2>2, <3>2, <3>3 DEF RetryTargets, RetryStep, StepRunsOf, VisitsOf
  <2> QED BY <2>1, <2>2
<1>3. CASE result.kind = "success" /\ t.exit = NoExit /\ ~CanAdvance(BranchAfterSuccess)
  BY <1>3, <1>L, <1>C, <1>D, <1>1
<1>4. CASE OutOfRetries /\ t.switch_to # NoBranch /\ (t.exit # NoExit \/ ~CanAdvance(t.switch_to))
  BY <1>4, <1>I, <1>t, <1>L, <1>C, <1>D DEF OutOfRetries
<1> QED BY <1>I, <1>t, <1>2, <1>3, <1>4 DEF DeadEnd

\* On a tree that leads on it is all there.
LEMMA NoDeadEndAtHandle ==
    ASSUME LeadsOn, EngineInv, SkipInv, LastOpen, WentOn
    PROVE  NoDeadEnd
BY DeadEndAtHandle DEF LeadsOn, NoDeadEnd


\* No row is reached around another, and every row but the last is done with.
HistoryInv == SkipInv /\ LastOpen /\ WentOn

\* Both are kept by every step of the engine.
LEMMA HistoryInvHolds ==
    ASSUME WellNamed
    PROVE  Spec => []HistoryInv
<1>1. Init => HistoryInv
  BY DEF Init, HistoryInv, SkipInv, OnBranch, LeftWhenDone, NoStepSkipped, LastOpen, WentOn
<1>2. EngineInv /\ HistoryInv /\ [Next]_vars => HistoryInv'
  BY SkipInvNext, OpenInvNext DEF HistoryInv
<1>3. QED
  BY <1>1, <1>2, EngineInvariant, PTL DEF Spec

\* On a tree that leads on, no handler of process_step_result looks for a branch
\* that is not there or a step after the last one, however often branches are
\* left and taken up again, and a retry finds the step it goes back to.
THEOREM NoDeadEndHolds ==
    ASSUME WellNamed, LeadsOn
    PROVE  Spec => []NoDeadEnd
<1>1. EngineInv /\ HistoryInv => NoDeadEnd
  BY NoDeadEndAtHandle DEF HistoryInv
<1>2. QED
  BY <1>1, HistoryInvHolds, EngineInvariant, PTL

-----------------------------------------------------------------------------
(* What a request leaves behind *)

\* As long as no request is cut short, one is answered only when the run waits
\* for input or the leg has ended, and the next one finds it that way.
ServedInv ==
    failures = 0 =>
        /\ pc # "idle" => requests > 0
        /\ pc = "idle" /\ leg = "active" =>
               state = IF requests = 0 THEN "uninitialized" ELSE "requesting_user_input"
        /\ pc = "initialize" => state \in {"uninitialized", "step_in_progress", "requesting_user_input"}
        /\ pc = "prepare" => state \in {"initialized", "step_in_progress", "requesting_user_input"}
        /\ pc = "respond" => leg = "ended" \/ state = "requesting_user_input"

\* A branch that is taken on an error does not go on with a step that asks.
LEMMA SpeaksNext ==
    ASSUME WellNamed, SpeaksOnError, EngineInv, HistoryInv, HandleErrorSwitch
    PROVE  pc' = "initialize" /\ state' = "step_in_progress"
<1>b. PICK b : b = CurrentStep.switch_to
  OBVIOUS
<1>1. pc = "handle" /\ CanAdvance(b) /\ ContinueWith(NextStep(b)) /\ state' = "step_in_progress"
  BY <1>b DEF HandleErrorSwitch, RegisterErrorThen, Transition
<1>2. PICK i \in DOMAIN Tree[branch].steps :
         branch \in DOMAIN Tree /\ CurrentStep = Tree[branch].steps[i]
  BY <1>1, AtIndex DEF HistoryInv
<1>3. b \in DOMAIN Tree /\ NextIndex(b) \in DOMAIN Tree[b].steps
  BY <1>1, NextPosition
<1>4. Current.branch = branch
  BY <1>1, AtHandle DEF HistoryInv
<1>5. ASSUME IsInput(NextStep(b)) PROVE FALSE
  <2>1. b # branch /\ Tree[b].reset_on_switch /\ NextIndex(b) # 1
    BY <1>b, <1>2, <1>3, <1>5 DEF SpeaksOnError, NextStep
  <2>2. StartsOver(b)
    BY <1>4, <2>1 DEF StartsOver
  <2> QED BY <2>1, <2>2 DEF NextIndex
<1> QED BY <1>1, <1>5 DEF ContinueWith

\* Each step of a request hands the next one a state it accepts.
LEMMA ServedInvNext ==
    ASSUME WellNamed, LeadsOn, SpeaksOnError, EngineInv, HistoryInv, ServedInv, [Next]_vars
    PROVE  ServedInv'
<1>T. /\ requests \in Nat /\ failures \in Nat
      /\ wsrs = <<>> <=> state = "uninitialized"
      /\ state # "finished" /\ wsrs # <<>> => HasStep(branch, Current.name)
  BY DEF EngineInv, TypeOK, Unstarted, OnTree
<1>1. CASE UNCHANGED vars
  BY <1>1 DEF vars, run, request, outside, ServedInv
<1>2. CASE Request
  BY <1>2, <1>T DEF Request, run, ServedInv
<1>3. CASE InitializeFirst \/ InitializeCurrent \/ InitializeRaises
  BY <1>3, <1>T DEF InitializeFirst, InitializeCurrent, InitializeRaises, InitializeFirstStep, Transition,
                    run, outside, ServedInv
<1>4. CASE Start \/ RejectState \/ AcceptInput \/ AskForInput
  BY <1>4, <1>T DEF Start, RejectState, AcceptInput, AskForInput, RequestUserInput, ProcessingUserInput,
                    Transition, run, request, outside, ServedInv
<1>5. CASE PrepareOtherStep \/ RunStep \/ EndLeg
  BY <1>5, <1>T DEF PrepareOtherStep, RunStep, EndLeg, run, outside, ServedInv
<1>6. CASE HandlePressZero \/ HandleReplay \/ HandleExit \/ HandleUnrecoverable
  BY <1>6, <1>T DEF HandlePressZero, HandleReplay, HandleExit, HandleUnrecoverable, ReplayStep, Finish,
                    RegisterErrorThen, Transition, outside, ServedInv
<1>7. CASE HandleNextInput
  BY <1>7, <1>T DEF HandleNextInput, RequestUserInput, ContinueWith, Transition, outside, ServedInv
<1>8. CASE HandleNextStep
  BY <1>8, <1>T DEF HandleNextStep, AdvanceStep, ContinueWith, Transition, outside, ServedInv
<1>9. CASE HandleRetry
  BY <1>9, <1>T DEF HandleRetry, RegisterErrorThen, ContinueWith, Transition, outside, ServedInv
<1>10. CASE HandleErrorSwitch
  <2>1. pc' = "initialize" /\ state' = "step_in_progress"
    BY <1>10, SpeaksNext
  <2>2. pc = "handle" /\ UNCHANGED <<leg, outside>>
    BY <1>10 DEF HandleErrorSwitch
  <2> QED BY <1>T, <2>1, <2>2 DEF outside, ServedInv
<1>11. CASE HandleDeadEnd
  <2>1. ~DeadEnd \/ pc # "handle"
    BY NoDeadEndAtHandle DEF HistoryInv, NoDeadEnd
  <2> QED BY <1>11, <2>1 DEF HandleDeadEnd
<1>12. CASE Respond
  BY <1>12, <1>T DEF Respond, run, ServedInv
<1>13. CASE Fail
  BY <1>13, <1>T DEF Fail, ServedInv
<1> QED
  BY <1>1, <1>2, <1>3, <1>4, <1>5, <1>6, <1>7, <1>8, <1>9, <1>10, <1>11, <1>12, <1>13 DEF Next, Serve

\* On a tree that leads on, and that does not ask first on a branch it takes on an
\* error, a run that has been served waits for the answer to the prompt that the
\* contact heard last: the loop of the adapters never answers in between.
THEOREM WaitsForAnswerHolds ==
    ASSUME WellNamed, LeadsOn, SpeaksOnError
    PROVE  Spec => []WaitsForAnswer
<1>1. Init => ServedInv /\ AskedInv
  BY DEF Init, ServedInv, AskedInv, Asking, Answering
<1>2. EngineInv /\ HistoryInv /\ ServedInv /\ [Next]_vars => ServedInv'
  BY ServedInvNext
<1>3. EngineInv /\ AskedInv /\ [Next]_vars => AskedInv'
  BY AskedInvNext
<1>4. EngineInv /\ ServedInv /\ AskedInv => WaitsForAnswer
  BY DEF EngineInv, TypeOK, ServedInv, AskedInv, Asking, WaitsForAnswer
<1>5. QED
  BY <1>1, <1>2, <1>3, <1>4, EngineInvariant, HistoryInvHolds, PTL DEF Spec

\* The same for a tree on which a request may be answered by a dead end: the next one
\* finds a state from which the step is run again.
ResumedInv ==
    failures = 0 =>
        /\ pc = "idle" /\ leg = "active" =>
               state \in {"uninitialized", "step_in_progress", "requesting_user_input"}
        /\ pc = "initialize" => state \in {"uninitialized", "step_in_progress", "requesting_user_input"}
        /\ pc = "prepare" => state \in {"initialized", "step_in_progress", "requesting_user_input"}
        /\ pc \in {"run", "handle"} /\ ~IsInput(CurrentStep) =>
               state \in {"step_in_progress", "requesting_user_input"}
        /\ pc = "respond" => leg = "ended" \/ state \in {"step_in_progress", "requesting_user_input"}

\* It does unless the dead end is that of a step that took the input.
LEMMA ResumedInvNext ==
    ASSUME EngineInv, ResumedInv, [Next]_vars, pc = "handle" /\ DeadEnd => ~IsInput(CurrentStep)
    PROVE  ResumedInv'
<1>T. /\ requests \in Nat /\ failures \in Nat
      /\ wsrs = <<>> <=> state = "uninitialized"
      /\ state # "finished" /\ wsrs # <<>> => HasStep(branch, Current.name)
  BY DEF EngineInv, TypeOK, Unstarted, OnTree
<1>S. branch' = branch /\ wsrs' = wsrs /\ stepRuns' = stepRuns => CurrentStep' = CurrentStep
  BY DEF CurrentStep, Current, CurrentId
<1>1. CASE UNCHANGED vars
  BY <1>1, <1>S DEF vars, run, request, outside, ResumedInv
<1>2. CASE Request \/ InitializeFirst \/ InitializeCurrent \/ InitializeRaises
  BY <1>2, <1>T DEF Request, InitializeFirst, InitializeCurrent, InitializeRaises, InitializeFirstStep,
                    Transition, run, outside, ResumedInv
<1>3. CASE Start \/ RejectState \/ AskForInput
  BY <1>3, <1>T DEF Start, RejectState, AskForInput, RequestUserInput, Transition, run, request, outside,
                    ResumedInv
<1>4. CASE AcceptInput \/ PrepareOtherStep
  BY <1>4, <1>T, <1>S DEF AcceptInput, PrepareOtherStep, ProcessingUserInput, Transition, run, outside,
                          ResumedInv
<1>5. CASE RunStep
  <2>1. Current'.name = Current.name /\ branch' = branch /\ pc = "run" /\ pc' = "handle"
        /\ state' = state /\ failures' = failures
    BY <1>5, RunStays DEF RunStep, outside
  <2>2. CurrentStep' = CurrentStep
    BY <2>1 DEF CurrentStep
  <2> QED BY <2>1, <2>2 DEF ResumedInv
<1>6. CASE HandlePressZero \/ HandleReplay \/ HandleExit \/ HandleUnrecoverable \/ EndLeg
  BY <1>6, <1>T DEF HandlePressZero, HandleReplay, HandleExit, HandleUnrecoverable, EndLeg, ReplayStep,
                    Finish, RegisterErrorThen, Transition, outside, ResumedInv
<1>7. CASE HandleNextInput \/ HandleNextStep
  BY <1>7, <1>T DEF HandleNextInput, HandleNextStep, RequestUserInput, AdvanceStep, ContinueWith,
                    Transition, outside, ResumedInv
<1>8. CASE HandleRetry \/ HandleErrorSwitch
  BY <1>8, <1>T DEF HandleRetry, HandleErrorSwitch, RegisterErrorThen, ContinueWith, Transition, outside,
                    ResumedInv
<1>9. CASE HandleDeadEnd
  BY <1>9, <1>T DEF HandleDeadEnd, run, outside, ResumedInv
<1>10. CASE Respond
  BY <1>10, <1>T DEF Respond, run, ResumedInv
<1>11. CASE Fail
  BY <1>11, <1>T DEF Fail, ResumedInv
<1> QED BY <1>1, <1>2, <1>3, <1>4, <1>5, <1>6, <1>7, <1>8, <1>9, <1>10, <1>11 DEF Next, Serve

\* And no request is turned away before its step is run.
LEMMA ServedAtStart ==
    ASSUME EngineInv, ResumedInv, failures = 0
    PROVE  ~InitializeRaises /\ ~RejectState
BY DEF InitializeRaises, RejectState, ResumedInv, EngineInv, OnTree

-----------------------------------------------------------------------------
(* The history and the step runs *)

\* The rows with a result of step run r.
AttachedTo(r) == {i \in DOMAIN wsrs : wsrs[i].step_run = r /\ wsrs[i].step_state # "none"}

\* The state a step run has been given that no row has yet.
Pending(r) == IF pc = "handle" /\ result.saved /\ r = CurrentId THEN 1 ELSE 0

\* No step run has more results in the history than states, and none is lost as
\* long as no request is cut short and no handler is at a dead end.
CountInv ==
    \A r \in DOMAIN stepRuns :
        /\ Cardinality(AttachedTo(r)) + Pending(r) <= stepRuns[r].run_count
        /\ LeadsOn /\ failures = 0 => Cardinality(AttachedTo(r)) + Pending(r) = stepRuns[r].run_count

\* The rows that are counted are finitely many.
LEMMA AttachedFinite ==
    ASSUME TypeOK, NEW r
    PROVE  IsFiniteSet(AttachedTo(r)) /\ Cardinality(AttachedTo(r)) \in Nat
<1>1. IsFiniteSet(DOMAIN wsrs)
  <2>1. Len(wsrs) \in Nat /\ DOMAIN wsrs = 1 .. Len(wsrs)
    BY DEF TypeOK
  <2> QED BY <2>1, FS_Interval
<1>2. IsFiniteSet(AttachedTo(r))
  BY <1>1, FS_Subset DEF AttachedTo
<1> QED BY <1>2, FS_CardinalityType

\* What a handler attaches, for rows of a result and whatever is appended.
LEMMA ResultAttached ==
    ASSUME EngineInv, SkipInv, LastOpen, pc = "handle",
           NEW k \in Nat \ {0}, k = Len(wsrs), NEW rows \in RowsOfResult,
           wsrs' \in Seq(WorkflowStepRun), Len(wsrs') \in {k, k + 1},
           \A i \in 1 .. k : wsrs'[i] = rows[i],
           Len(wsrs') = k + 1 => wsrs'[k + 1].step_state = "none",
           NEW r \in Nat
    PROVE  /\ AttachedTo(r)' = AttachedTo(r) \cup (IF result.saved /\ r = CurrentId THEN {k} ELSE {})
           /\ k \notin AttachedTo(r)
<1>1. /\ TypeOK /\ wsrs # <<>> /\ DOMAIN wsrs = 1 .. k /\ result \in Outcomes(CurrentStep)
      /\ wsrs[k].step_run = CurrentId /\ wsrs[k].step_state = "none"
  BY AtHandle
<1>2. /\ \A i \in 1 .. k : i < k => wsrs'[i] = wsrs[i]
      /\ wsrs'[k].step_run = CurrentId /\ wsrs'[k].step_state = ResultState
  BY <1>1, ResultRow DEF LastChanged
<1>3. (ResultState # "none") <=> result.saved
  <2>1. result.kind # "none"
    BY <1>1 DEF TypeOK, Result
  <2> QED BY <2>1 DEF ResultState
<1>m. PICK m \in Nat : m = Len(wsrs') /\ m \in {k, k + 1} /\ DOMAIN wsrs' = 1 .. m
  OBVIOUS
<1>n. m = k + 1 => wsrs'[m].step_state = "none"
  BY <1>m
<1>o. \A i \in 1 .. k - 1 : wsrs'[i] = wsrs[i]
  BY <1>2
<1>4. AttachedTo(r)' = {i \in 1 .. m : wsrs'[i].step_run = r /\ wsrs'[i].step_state # "none"}
  BY <1>m DEF AttachedTo
<1>p. AttachedTo(r) = {i \in 1 .. k : wsrs[i].step_run = r /\ wsrs[i].step_state # "none"}
  BY <1>1 DEF AttachedTo
<1>5. ASSUME NEW i PROVE i \in AttachedTo(r)' <=>
          i \in AttachedTo(r) \cup (IF result.saved /\ r = CurrentId THEN {k} ELSE {})
  <2>1. CASE i \in 1 .. k - 1
    <3>1. i \in 1 .. m /\ i \in 1 .. k /\ i # k
      BY <1>m, <2>1
    <3>2. wsrs'[i] = wsrs[i]
      BY <1>o, <2>1
    <3> QED BY <1>4, <1>p, <3>1, <3>2
  <2>2. CASE i = k
    <3>1. k \in 1 .. m
      BY <1>m
    <3>2. k \in AttachedTo(r)' <=> CurrentId = r /\ result.saved
      BY <1>2, <1>3, <1>4, <3>1
    <3>3. k \notin AttachedTo(r)
      BY <1>1, <1>p
    <3> QED BY <2>2, <3>2, <3>3
  <2>3. CASE i \notin 1 .. k
    <3>1. i \notin AttachedTo(r) /\ i # k
      BY <1>p, <2>3
    <3>2. i \in 1 .. m => m = k + 1 /\ i = m
      BY <1>m, <2>3
    <3>3. i \notin AttachedTo(r)'
      BY <1>4, <1>n, <3>2
    <3> QED BY <3>1, <3>3
  <2>4. i \in 1 .. k => i \in 1 .. k - 1 \/ i = k
    OBVIOUS
  <2> QED BY <2>1, <2>2, <2>3, <2>4
<1>6. k \notin AttachedTo(r)
  BY <1>1 DEF AttachedTo
<1> QED BY <1>5, <1>6

\* The rows a handler writes are rows of a result, and at most an open one.
LEMMA HandlerRows ==
    ASSUME WellNamed, EngineInv, SkipInv, LastOpen, HandleResult,
           NEW k \in Nat \ {0}, k = Len(wsrs)
    PROVE  \E rows \in RowsOfResult :
              /\ LastChanged(rows)
              /\ \A i \in 1 .. k : wsrs'[i] = rows[i]
              /\ wsrs' \in Seq(WorkflowStepRun)
              /\ \/ Closed(rows) /\ Len(wsrs') = k
                 \/ \E r \in Nat \ {0} :
                       /\ Len(wsrs') = k + 1 /\ wsrs'[k + 1] = Wsr(r)
                       /\ \/ r = Len(stepRuns) + 1 /\ Opened(rows)
                          \/ r \in DOMAIN stepRuns /\ Reopened(r)
<1>1. pc = "handle"
  BY HandlerDoes
<1>2. TypeOK /\ wsrs # <<>> /\ DOMAIN stepRuns = 1 .. Len(stepRuns) /\ Len(stepRuns) \in Nat
  BY <1>1, AtHandle
<1>3. \A rows \in RowsOfResult : LastChanged(rows)
  BY <1>2, ResultRow
<1>4. ASSUME NEW rows \in RowsOfResult, NEW r \in Nat \ {0}, wsrs' = Append(rows, Wsr(r))
      PROVE  /\ \A i \in 1 .. k : wsrs'[i] = rows[i]
             /\ Len(wsrs') = k + 1 /\ wsrs'[k + 1] = Wsr(r)
             /\ wsrs' \in Seq(WorkflowStepRun)
  <2>1. rows \in Seq(WorkflowStepRun) /\ Len(rows) = k
    BY <1>3 DEF LastChanged, SameRows
  <2>2. Wsr(r) \in WorkflowStepRun
    BY DEF Wsr, WorkflowStepRun, StepStates
  <2> QED BY <1>4, <2>1, <2>2, AppendLast
<1>5. ASSUME NEW rows \in RowsOfResult, Closed(rows)
      PROVE  Len(wsrs') = k /\ wsrs' \in Seq(WorkflowStepRun) /\ \A i \in 1 .. k : wsrs'[i] = rows[i]
  BY <1>3, <1>5 DEF Closed, LastChanged, SameRows
<1>6. ASSUME NEW rows \in RowsOfResult, Opened(rows)
      PROVE  \E r \in Nat \ {0} : r = Len(stepRuns) + 1 /\ wsrs' = Append(rows, Wsr(r))
  BY <1>2, <1>6 DEF Opened, AppendFresh
<1>7. ASSUME NEW r \in DOMAIN stepRuns, Reopened(r)
      PROVE  r \in Nat \ {0} /\ Recorded \in RowsOfResult /\ wsrs' = Append(Recorded, Wsr(r))
  BY <1>2, <1>7 DEF Reopened, AppendAgain, RowsOfResult
<1>8. CASE \E rows \in RowsOfResult : Closed(rows)
  BY <1>3, <1>5, <1>8
<1>9. CASE \E rows \in RowsOfResult : Opened(rows)
  <2>1. PICK rows \in RowsOfResult : Opened(rows)
    BY <1>9
  <2>2. PICK r \in Nat \ {0} : r = Len(stepRuns) + 1 /\ wsrs' = Append(rows, Wsr(r))
    BY <1>6, <2>1
  <2> QED BY <1>3, <1>4, <2>1, <2>2
<1>10. CASE \E r \in DOMAIN stepRuns : Reopened(r)
  <2>1. PICK r \in DOMAIN stepRuns : Reopened(r)
    BY <1>10
  <2>2. r \in Nat \ {0} /\ Recorded \in RowsOfResult /\ wsrs' = Append(Recorded, Wsr(r))
    BY <1>7, <2>1
  <2> QED BY <1>3, <1>4, <2>1, <2>2
<1> QED BY <1>8, <1>9, <1>10, HandlerDoes

\* What CountInv says of one step run.
CountAt(r) ==
    /\ Cardinality(AttachedTo(r)) + Pending(r) <= stepRuns[r].run_count
    /\ LeadsOn /\ failures = 0 => Cardinality(AttachedTo(r)) + Pending(r) = stepRuns[r].run_count

\* Attaching a saved result moves a state from those pending to those attached.
LEMMA CountHandled ==
    ASSUME WellNamed, EngineInv, SkipInv, LastOpen, CountInv, HandleResult
    PROVE  CountInv'
<1>0. pc = "handle" /\ pc' # "handle" /\ failures' = failures
  BY HandlerDoes
<1>T. /\ TypeOK /\ RowsResolve /\ stepRuns \in Seq(StepRun)
      /\ CurrentId \in DOMAIN stepRuns
  BY <1>0, AtHandle DEF TypeOK
<1>k. PICK k \in Nat \ {0} : k = Len(wsrs) /\ DOMAIN wsrs = 1 .. k
  BY <1>0, AtHandle
<1>l. PICK l \in Nat : l = Len(stepRuns) /\ DOMAIN stepRuns = 1 .. l
  BY <1>T
<1>r. PICK rows \in RowsOfResult :
         /\ \A i \in 1 .. k : wsrs'[i] = rows[i]
         /\ wsrs' \in Seq(WorkflowStepRun)
         /\ \/ Closed(rows) /\ Len(wsrs') = k
            \/ \E r \in Nat \ {0} :
                  /\ Len(wsrs') = k + 1 /\ wsrs'[k + 1] = Wsr(r)
                  /\ \/ r = l + 1 /\ Opened(rows)
                     \/ r \in DOMAIN stepRuns /\ Reopened(r)
  BY <1>k, <1>l, HandlerRows
<1>1. Len(wsrs') \in {k, k + 1} /\ (Len(wsrs') = k + 1 => wsrs'[k + 1].step_state = "none")
  <2>1. \A r : Wsr(r).step_state = "none"
    BY DEF Wsr
  <2> QED BY <1>k, <1>r, <2>1
<1>2. stepRuns' = stepRuns \/ \E b, n : HasStep(b, n) /\ stepRuns' = Append(stepRuns, FreshStepRun(b, n))
  BY <1>r DEF Closed, Opened, Reopened, AppendFresh, AppendAgain
<1>3. \A r \in Nat : /\ AttachedTo(r)' = AttachedTo(r) \cup (IF result.saved /\ r = CurrentId THEN {k} ELSE {})
                     /\ k \notin AttachedTo(r)
  BY <1>0, <1>k, <1>r, <1>1, ResultAttached
<1>4. \A r : Pending(r)' = 0 /\ Pending(r) = IF result.saved /\ r = CurrentId THEN 1 ELSE 0
  BY <1>0 DEF Pending
<1>5. ASSUME NEW r \in 1 .. l PROVE Cardinality(AttachedTo(r))' = Cardinality(AttachedTo(r)) + Pending(r)
  <2>1. IsFiniteSet(AttachedTo(r)) /\ Cardinality(AttachedTo(r)) \in Nat
    BY <1>T, AttachedFinite
  <2>2. CASE result.saved /\ r = CurrentId
    <3>1. AttachedTo(r)' = AttachedTo(r) \cup {k} /\ k \notin AttachedTo(r)
      BY <1>3, <2>2
    <3> QED BY <1>4, <2>1, <2>2, <3>1, FS_AddElement
  <2>3. CASE ~(result.saved /\ r = CurrentId)
    <3>1. AttachedTo(r)' = AttachedTo(r)
      BY <1>3, <2>3
    <3> QED BY <1>4, <2>1, <2>3, <3>1
  <2> QED BY <2>2, <2>3
<1>6. ASSUME NEW r \in 1 .. l PROVE CountAt(r)'
  <2>1. stepRuns'[r] = stepRuns[r]
    BY <1>l, <1>T, <1>2
  <2>2. CountAt(r)
    BY <1>l DEF CountInv, CountAt
  <2>3. Cardinality(AttachedTo(r))' \in Nat /\ Cardinality(AttachedTo(r)) \in Nat
    BY <1>T, <1>4, <1>5, AttachedFinite
  <2> QED BY <1>0, <1>4, <1>5, <2>1, <2>2, <2>3 DEF CountAt
<1>7. CASE stepRuns' = stepRuns
  BY <1>l, <1>6, <1>7 DEF CountInv, CountAt
<1>8. CASE \E b, n : HasStep(b, n) /\ stepRuns' = Append(stepRuns, FreshStepRun(b, n))
  <2>1. PICK b, n : HasStep(b, n) /\ stepRuns' = Append(stepRuns, FreshStepRun(b, n))
    BY <1>8
  <2>2. PICK s \in StepRun : s = FreshStepRun(b, n) /\ s.run_count = 0
    BY <2>1, TemplateType DEF FreshStepRun, StepRun
  <2>3. PICK q \in Nat \ {0} : q = l + 1 /\ DOMAIN stepRuns' = 1 .. q /\ stepRuns'[q] = s
    BY <1>T, <1>l, <2>1, <2>2
  <2>4. AttachedTo(q) = {} /\ q # CurrentId
    BY <1>T, <1>l, <2>3 DEF AttachedTo, RowsResolve
  <2>5. AttachedTo(q)' = {}
    BY <1>3, <2>4
  <2>6. Cardinality(AttachedTo(q))' = 0
    BY <2>5, FS_EmptySet
  <2>7. CountAt(q)'
    BY <1>4, <2>2, <2>3, <2>6 DEF CountAt
  <2>8. \A r \in DOMAIN stepRuns' : r \in 1 .. l \/ r = q
    BY <2>3
  <2> QED BY <1>6, <2>7, <2>8 DEF CountInv, CountAt
<1> QED BY <1>2, <1>7, <1>8

\* Both sides of the count are numbers.
LEMMA CountTypes ==
    ASSUME TypeOK, NEW r \in DOMAIN stepRuns
    PROVE  Cardinality(AttachedTo(r)) \in Nat /\ stepRuns[r].run_count \in Nat
<1>1. Cardinality(AttachedTo(r)) \in Nat
  BY AttachedFinite
<1>2. stepRuns[r] \in StepRun
  BY DEF TypeOK
<1>3. stepRuns[r].run_count \in Nat
  BY <1>2 DEF StepRun
<1> QED BY <1>1, <1>3

\* The rows and the step runs go on counting the same results.
LEMMA CountInvNext ==
    ASSUME WellNamed, EngineInv, HistoryInv, CountInv, [Next]_vars
    PROVE  CountInv'
<1>T. /\ TypeOK /\ RowsResolve /\ stepRuns \in Seq(StepRun)
      /\ wsrs = <<>> => stepRuns = <<>>
      /\ pc \in {"run", "handle"} => wsrs # <<>>
      /\ SkipInv /\ LastOpen
  BY DEF EngineInv, HistoryInv, TypeOK, Unstarted, AtStep
<1>1. CASE Quiet
  <2>1. /\ wsrs' = wsrs /\ stepRuns' = stepRuns
        /\ failures' = 0 => failures = 0
        /\ pc' = "handle" => pc = "handle" /\ result' = result
        /\ pc = "handle" /\ pc' # "handle" => DeadEnd \/ failures' # 0
    BY <1>1, <1>T, QuietDoes
  <2>2. LeadsOn /\ failures' = 0 => (pc = "handle" <=> pc' = "handle")
    BY <2>1, NoDeadEndAtHandle DEF HistoryInv, NoDeadEnd
  <2>3. ASSUME NEW r \in DOMAIN stepRuns PROVE CountAt(r)'
    <3>1. AttachedTo(r)' = AttachedTo(r)
      BY <2>1 DEF AttachedTo
    <3>2. Cardinality(AttachedTo(r)) \in Nat /\ stepRuns[r].run_count \in Nat
      BY <1>T, CountTypes
    <3>3. CountAt(r)
      BY DEF CountInv, CountAt
    <3>4. /\ Pending(r) \in {0, 1} /\ Pending(r)' \in {0, 1}
          /\ Pending(r)' <= Pending(r)
          /\ LeadsOn /\ failures' = 0 => Pending(r)' = Pending(r)
      BY <2>1, <2>2 DEF Pending, CurrentId
    <3> QED BY <2>1, <3>1, <3>2, <3>3, <3>4 DEF CountAt
  <2> QED BY <2>1, <2>3 DEF CountInv, CountAt
<1>2. CASE InitializeFirst
  <2>1. /\ wsrs = <<>> /\ stepRuns = <<>> /\ pc' = "prepare"
        /\ wsrs' = Append(wsrs, Wsr(Len(stepRuns) + 1))
        /\ \E b, n : stepRuns' = Append(stepRuns, FreshStepRun(b, n))
    BY <1>2, <1>T DEF InitializeFirst, InitializeFirstStep, AppendFresh
  <2>r. PICK r : r = Len(stepRuns) + 1
    OBVIOUS
  <2>2. PICK w : w = Wsr(r)
    OBVIOUS
  <2>w. w.step_state = "none"
    BY <2>2 DEF Wsr
  <2>3. PICK b, n : stepRuns' = Append(stepRuns, FreshStepRun(b, n))
    BY <2>1
  <2>4. PICK s : s = FreshStepRun(b, n)
    OBVIOUS
  <2>s. s.run_count = 0
    BY <2>4 DEF FreshStepRun
  <2>5. wsrs' = <<w>> /\ stepRuns' = <<s>>
    BY <2>1, <2>r, <2>2, <2>3, <2>4
  <2>6. \A x : AttachedTo(x)' = {}
    BY <2>w, <2>5 DEF AttachedTo
  <2>7. \A x : Cardinality(AttachedTo(x))' = 0
    BY <2>6, FS_EmptySet
  <2>8. \A x : Pending(x)' = 0
    BY <2>1 DEF Pending
  <2>9. DOMAIN stepRuns' = {1} /\ stepRuns'[1].run_count = 0
    BY <2>s, <2>5
  <2> QED BY <2>7, <2>8, <2>9 DEF CountInv
<1>3. CASE RunStep
  <2>1. /\ pc = "run" /\ pc' = "handle" /\ wsrs' = wsrs /\ wsrs # <<>> /\ failures' = failures
    BY <1>3, <1>T DEF RunStep, outside
  <2>2. PICK o \in Outcomes(CurrentStep) :
            /\ result' = o
            /\ stepRuns' = [stepRuns EXCEPT ![CurrentId].run_count = IF o.saved THEN @ + 1 ELSE @]
    BY <1>3 DEF RunStep
  <2>3. PICK c \in DOMAIN stepRuns : c = CurrentId
    BY <1>T, <2>1, CurrentRow
  <2>4. DOMAIN stepRuns' = DOMAIN stepRuns
    BY <2>2
  <2>5. ASSUME NEW r \in DOMAIN stepRuns PROVE CountAt(r)'
    <3>1. AttachedTo(r)' = AttachedTo(r)
      BY <2>1 DEF AttachedTo
    <3>2. Cardinality(AttachedTo(r)) \in Nat /\ stepRuns[r].run_count \in Nat
      BY <1>T, CountTypes
    <3>3. CountAt(r)
      BY DEF CountInv, CountAt
    <3>4. Pending(r) = 0
      BY <2>1 DEF Pending
    <3>5. CurrentId' = c
      BY <2>1, <2>3 DEF CurrentId
    <3>6. Pending(r)' = IF o.saved /\ r = c THEN 1 ELSE 0
      BY <2>1, <2>2, <3>5 DEF Pending
    <3>7. stepRuns'[r].run_count = IF o.saved /\ r = c THEN stepRuns[r].run_count + 1
                                   ELSE stepRuns[r].run_count
      BY <1>T, <2>2, <2>3 DEF StepRun
    <3> QED BY <2>1, <3>1, <3>2, <3>3, <3>4, <3>6, <3>7 DEF CountAt
  <2> QED BY <2>4, <2>5 DEF CountInv, CountAt
<1>4. CASE HandleResult
  BY <1>4, <1>T, CountHandled
<1> QED BY <1>1, <1>2, <1>3, <1>4, Steps

\* The count is kept by every step of the engine.
LEMMA CountInvHolds ==
    ASSUME WellNamed
    PROVE  Spec => []CountInv
<1>1. Init => CountInv
  BY DEF Init, CountInv
<1>2. EngineInv /\ HistoryInv /\ CountInv /\ [Next]_vars => CountInv'
  BY CountInvNext
<1>3. QED
  BY <1>1, <1>2, EngineInvariant, HistoryInvHolds, PTL DEF Spec

\* The history has no result that its step run does not have as a state, and on a
\* tree that leads on it has all of them as long as no request is cut short
\* between the commit of a step and that of its handler.
THEOREM HistoryCompleteHolds ==
    ASSUME WellNamed, LeadsOn
    PROVE  Spec => []HistoryComplete
<1>1. EngineInv /\ CountInv => HistoryComplete
  <2> SUFFICES ASSUME EngineInv, CountInv, NEW r \in DOMAIN stepRuns
               PROVE  /\ Cardinality(AttachedTo(r)) <= stepRuns[r].run_count
                      /\ failures = 0 /\ pc # "handle" => Cardinality(AttachedTo(r)) = stepRuns[r].run_count
    BY DEF HistoryComplete, AttachedTo
  <2>1. Cardinality(AttachedTo(r)) \in Nat /\ stepRuns[r].run_count \in Nat
    BY CountTypes DEF EngineInv
  <2>2. Pending(r) \in {0, 1} /\ (pc # "handle" => Pending(r) = 0)
    BY DEF Pending
  <2> QED BY <2>1, <2>2 DEF CountInv
<1>2. QED
  BY <1>1, CountInvHolds, EngineInvariant, PTL

-----------------------------------------------------------------------------
(* The retry counts *)

\* A step run of a step that can fail without a state to count.
UncountedRun(r) == \E o \in Outcomes(Template(stepRuns[r].branch, stepRuns[r].name)) : ~o.saved

\* A step run that may not count is run once; of the others every row but the
\* last has its result.
OnceAt(r) ==
    IF UncountedRun(r)
        THEN \A i, j \in DOMAIN wsrs : wsrs[i].step_run = r /\ wsrs[j].step_run = r => i = j
        ELSE \A i \in DOMAIN wsrs : wsrs[i].step_run = r /\ wsrs[i].step_state = "none" => i = Len(wsrs)

OnceInv == \A r \in DOMAIN stepRuns : OnceAt(r)

\* What is held against the retry count.
TriesOf(r) == {i \in DOMAIN wsrs : wsrs[i].step_run = r /\ wsrs[i].step_state # "replay"}

Allowed(r) ==
    IF RetryCountOf(stepRuns[r].branch, stepRuns[r].name) = 0
        THEN 1
        ELSE RetryCountOf(stepRuns[r].branch, stepRuns[r].name)

\* The tries are finitely many.
LEMMA TriesFinite ==
    ASSUME TypeOK, NEW r
    PROVE  IsFiniteSet(TriesOf(r)) /\ Cardinality(TriesOf(r)) \in Nat
<1>1. IsFiniteSet(DOMAIN wsrs)
  <2>1. Len(wsrs) \in Nat /\ DOMAIN wsrs = 1 .. Len(wsrs)
    BY DEF TypeOK
  <2> QED BY <2>1, FS_Interval
<1>2. IsFiniteSet(TriesOf(r))
  BY <1>1, FS_Subset DEF TriesOf
<1> QED BY <1>2, FS_CardinalityType

\* A step run that is run again is one whose results all count, and if it is
\* because of an error it has retries left by its own count.
LEMMA ReopenedCounts ==
    ASSUME ResetsCount, EngineInv, SkipInv, LastOpen, pc = "handle",
           NEW r \in DOMAIN stepRuns, Reopened(r)
    PROVE  /\ ~UncountedRun(r)
           /\ result.saved
           /\ (r = CurrentId /\ result.kind = "replay") \/ stepRuns[r].run_count < Allowed(r)
<1>1. /\ Current.branch = branch /\ Current = stepRuns[CurrentId]
      /\ CurrentStep = Template(Current.branch, Current.name)
      /\ result \in Outcomes(CurrentStep) /\ HasStep(branch, Current.name) /\ TypeOK
  BY AtHandle
<1>2. PICK i \in DOMAIN Tree[branch].steps :
         branch \in DOMAIN Tree /\ CurrentStep = Tree[branch].steps[i]
  BY AtIndex
<1>3. (result.kind = "replay" \/ result.retryable) => \A o \in Outcomes(CurrentStep) : o.saved
  BY <1>1, UnsavedIsFatal
<1>4. result.saved
  BY <1>1, <1>3 DEF Reopened
<1>5. CASE r = CurrentId /\ result.kind = "replay"
  BY <1>1, <1>3, <1>4, <1>5 DEF UncountedRun
<1>6. CASE result.retryable /\ r \in RetryTargets /\ RetriesLeft(r) /\ HasStep(branch, RetryStep)
  <2>1. stepRuns[r].branch = branch /\ stepRuns[r].name = RetryStep /\ ~UncountedRun(r)
    <3>1. CASE CurrentStep.reset_to = NoStep
      BY <1>1, <1>3, <1>6, <3>1 DEF RetryTargets, RetryStep, UncountedRun
    <3>2. CASE CurrentStep.reset_to # NoStep
      <4>n. PICK n : n = CurrentStep.reset_to
        OBVIOUS
      <4>1. RetryStep = n /\ HasStep(branch, n)
        BY <1>6, <3>2, <4>n DEF RetryStep
      <4>2. stepRuns[r].branch = branch /\ stepRuns[r].name = n
        BY <1>6, <3>2, <4>n DEF RetryTargets, StepRunsOf, VisitsOf, StepRunAt
      <4>3. PICK p \in DOMAIN Tree[branch].steps :
               p = IndexOf(branch, n) /\ Tree[branch].steps[p].name = n
        BY <4>1, IndexOfFirst
      <4>4. \A o \in Outcomes(Tree[branch].steps[p]) : o.saved
        BY <1>2, <4>n, <4>3 DEF ResetsCount
      <4>5. Template(branch, n) = Tree[branch].steps[p]
        BY <4>3 DEF Template
      <4> QED BY <4>1, <4>2, <4>4, <4>5 DEF UncountedRun
    <3> QED BY <3>1, <3>2
  <2>2. stepRuns[r].run_count < RetryCountOf(stepRuns[r].branch, stepRuns[r].name)
    BY <1>6, <2>1 DEF RetriesLeft
  <2>3. stepRuns[r].run_count \in Nat
    BY <1>1, CountTypes
  <2>4. stepRuns[r].run_count < Allowed(r)
    BY <2>2, <2>3 DEF Allowed
  <2> QED BY <1>4, <2>1, <2>4
<1> QED BY <1>5, <1>6 DEF Reopened

\* The rows as a handler leaves them, in one place.
LEMMA HandledRows ==
    ASSUME WellNamed, ResetsCount, EngineInv, SkipInv, LastOpen, HandleResult,
           NEW k \in Nat, k = Len(wsrs), NEW l \in Nat, l = Len(stepRuns)
    PROVE  /\ k \in DOMAIN wsrs /\ DOMAIN wsrs = 1 .. k /\ DOMAIN stepRuns = 1 .. l
           /\ \A r \in 1 .. l : /\ stepRuns'[r].branch = stepRuns[r].branch
                                /\ stepRuns'[r].name = stepRuns[r].name
                                /\ stepRuns'[r].run_count = stepRuns[r].run_count
           /\ \A i \in 1 .. k - 1 : wsrs'[i] = wsrs[i]
           /\ wsrs[k].step_state = "none" /\ wsrs[k].step_run = CurrentId
           /\ wsrs'[k].step_run = CurrentId
           /\ wsrs'[k].step_state = ResultState
           /\ (ResultState = "none") <=> ~result.saved
           /\ ResultState = "none" => UncountedRun(CurrentId)
           /\ \/ DOMAIN wsrs' = 1 .. k /\ Len(wsrs') = k /\ DOMAIN stepRuns' = 1 .. l
              \/ \E r \in Nat \ {0} :
                    /\ DOMAIN wsrs' = 1 .. k + 1 /\ Len(wsrs') = k + 1
                    /\ wsrs'[k + 1].step_run = r /\ wsrs'[k + 1].step_state = "none"
                    /\ \/ r = l + 1 /\ DOMAIN stepRuns' = 1 .. l + 1
                       \/ r \in 1 .. l /\ DOMAIN stepRuns' = 1 .. l /\ Reopened(r)
<1>0. pc = "handle"
  BY HandlerDoes
<1>T. /\ TypeOK /\ RowsResolve /\ stepRuns \in Seq(StepRun)
      /\ k \in DOMAIN wsrs /\ DOMAIN wsrs = 1 .. k /\ DOMAIN stepRuns = 1 .. l
      /\ k \in Nat \ {0} /\ wsrs # <<>>
      /\ wsrs[k].step_state = "none" /\ wsrs[k].step_run = CurrentId
      /\ Current = stepRuns[CurrentId] /\ CurrentStep = Template(Current.branch, Current.name)
      /\ result \in Outcomes(CurrentStep)
  BY <1>0, AtHandle DEF TypeOK
<1>r. PICK rows \in RowsOfResult :
         /\ \A i \in 1 .. k : wsrs'[i] = rows[i]
         /\ wsrs' \in Seq(WorkflowStepRun)
         /\ \/ Closed(rows) /\ Len(wsrs') = k
            \/ \E r \in Nat \ {0} :
                  /\ Len(wsrs') = k + 1 /\ wsrs'[k + 1] = Wsr(r)
                  /\ \/ r = l + 1 /\ Opened(rows)
                     \/ r \in DOMAIN stepRuns /\ Reopened(r)
  BY <1>T, HandlerRows
<1>1. LastChanged(rows) /\ rows[k].step_run = CurrentId /\ rows[k].step_state = ResultState
  BY <1>T, ResultRow
<1>2. /\ \A i \in 1 .. k - 1 : wsrs'[i] = wsrs[i]
      /\ wsrs'[k].step_run = CurrentId /\ wsrs'[k].step_state = ResultState
  BY <1>T, <1>r, <1>1 DEF LastChanged
<1>3. (ResultState = "none") <=> ~result.saved
  <2>1. result.kind # "none"
    BY <1>T DEF TypeOK, Result
  <2> QED BY <2>1 DEF ResultState
<1>4. ResultState = "none" => UncountedRun(CurrentId)
  BY <1>T, <1>3 DEF UncountedRun
<1>5. \A r : Wsr(r).step_run = r /\ Wsr(r).step_state = "none"
  BY DEF Wsr
<1>6. \A b, n : HasStep(b, n) => FreshStepRun(b, n) \in StepRun
  BY TemplateType DEF FreshStepRun, StepRun
<1>7. CASE Closed(rows) /\ Len(wsrs') = k
  <2>1. stepRuns' = stepRuns
    BY <1>7 DEF Closed
  <2>2. DOMAIN wsrs' = 1 .. k
    BY <1>r, <1>7
  <2> QED BY <1>T, <1>2, <1>3, <1>4, <1>7, <2>1, <2>2
<1>8. ASSUME NEW r \in Nat \ {0}, Len(wsrs') = k + 1, wsrs'[k + 1] = Wsr(r)
      PROVE  DOMAIN wsrs' = 1 .. k + 1 /\ wsrs'[k + 1].step_run = r /\ wsrs'[k + 1].step_state = "none"
  BY <1>r, <1>5, <1>8
<1>9. ASSUME NEW r \in Nat \ {0}, Len(wsrs') = k + 1, wsrs'[k + 1] = Wsr(r), r = l + 1, Opened(rows)
      PROVE  DOMAIN stepRuns' = 1 .. l + 1 /\ \A x \in 1 .. l : stepRuns'[x] = stepRuns[x]
  <2>1. PICK b, n : HasStep(b, n) /\ stepRuns' = Append(stepRuns, FreshStepRun(b, n))
    BY <1>9 DEF Opened, AppendFresh
  <2>2. PICK s \in StepRun : s = FreshStepRun(b, n)
    BY <1>6, <2>1
  <2> QED BY <1>T, <2>1, <2>2
<1>10. \A r : Reopened(r) => stepRuns' = stepRuns
  BY DEF Reopened, AppendAgain
<1>11. CASE \E r \in Nat \ {0} :
                  /\ Len(wsrs') = k + 1 /\ wsrs'[k + 1] = Wsr(r)
                  /\ \/ r = l + 1 /\ Opened(rows)
                     \/ r \in DOMAIN stepRuns /\ Reopened(r)
  <2>1. PICK r \in Nat \ {0} :
                  /\ Len(wsrs') = k + 1 /\ wsrs'[k + 1] = Wsr(r)
                  /\ \/ r = l + 1 /\ Opened(rows)
                     \/ r \in DOMAIN stepRuns /\ Reopened(r)
    BY <1>11
  <2>2. DOMAIN wsrs' = 1 .. k + 1 /\ wsrs'[k + 1].step_run = r /\ wsrs'[k + 1].step_state = "none"
    BY <1>8, <2>1
  <2>3. CASE r = l + 1 /\ Opened(rows)
    BY <1>T, <1>2, <1>3, <1>4, <1>9, <2>1, <2>2, <2>3
  <2>4. CASE r \in DOMAIN stepRuns /\ Reopened(r)
    BY <1>T, <1>2, <1>3, <1>4, <1>10, <2>1, <2>2, <2>4
  <2> QED BY <2>1, <2>3, <2>4
<1> QED BY <1>r, <1>7, <1>11

\* The first request makes the first row and the first step run.
LEMMA FirstRow ==
    ASSUME EngineInv, InitializeFirst
    PROVE  /\ DOMAIN wsrs' = {1} /\ Len(wsrs') = 1 /\ wsrs'[1].step_run = 1
           /\ DOMAIN stepRuns' = {1}
<1>1. /\ wsrs = <<>> /\ stepRuns = <<>>
      /\ wsrs' = Append(wsrs, Wsr(Len(stepRuns) + 1))
      /\ \E b, n : stepRuns' = Append(stepRuns, FreshStepRun(b, n))
  BY DEF EngineInv, Unstarted, InitializeFirst, InitializeFirstStep, AppendFresh
<1>r. PICK r : r = Len(stepRuns) + 1
  OBVIOUS
<1>w. PICK w : w = Wsr(r)
  OBVIOUS
<1>2. w.step_run = r
  BY <1>w DEF Wsr
<1>3. PICK b, n : stepRuns' = Append(stepRuns, FreshStepRun(b, n))
  BY <1>1
<1>s. PICK s : s = FreshStepRun(b, n)
  OBVIOUS
<1>4. wsrs' = <<w>> /\ stepRuns' = <<s>> /\ r = 1
  BY <1>1, <1>r, <1>w, <1>3, <1>s
<1> QED BY <1>2, <1>4

\* A step run that may not count is never run again.
LEMMA OnceInvNext ==
    ASSUME WellNamed, ResetsCount, EngineInv, HistoryInv, OnceInv, [Next]_vars
    PROVE  OnceInv'
<1>T. /\ wsrs \in Seq(WorkflowStepRun) /\ stepRuns \in Seq(StepRun) /\ SkipInv /\ LastOpen
      /\ \A i \in DOMAIN wsrs : wsrs[i].step_run \in DOMAIN stepRuns
  BY DEF EngineInv, TypeOK, HistoryInv, RowsResolve
<1>1. CASE Quiet \/ RunStep
  <2>1. /\ wsrs' = wsrs
        /\ \A r \in DOMAIN stepRuns : /\ stepRuns'[r].branch = stepRuns[r].branch
                                      /\ stepRuns'[r].name = stepRuns[r].name
    BY <1>1, SameRowsAndRuns
  <2>2. DOMAIN stepRuns' = DOMAIN stepRuns
    BY <1>1, SameRowsAndRuns
  <2>3. ASSUME NEW r \in DOMAIN stepRuns PROVE OnceAt(r)'
    <3>1. UncountedRun(r)' <=> UncountedRun(r)
      BY <2>1 DEF UncountedRun
    <3>2. OnceAt(r)
      BY DEF OnceInv
    <3> QED BY <2>1, <3>1, <3>2 DEF OnceAt
  <2> QED BY <2>2, <2>3 DEF OnceInv
<1>2. CASE InitializeFirst
  BY <1>2, FirstRow DEF OnceInv, OnceAt
<1>3. CASE HandleResult
  <2>k. PICK k \in Nat : k = Len(wsrs)
    BY <1>T
  <2>l. PICK l \in Nat : l = Len(stepRuns)
    BY <1>T
  <2>1. /\ k \in DOMAIN wsrs /\ DOMAIN wsrs = 1 .. k /\ DOMAIN stepRuns = 1 .. l
        /\ \A r \in 1 .. l : /\ stepRuns'[r].branch = stepRuns[r].branch
                             /\ stepRuns'[r].name = stepRuns[r].name
        /\ \A i \in 1 .. k - 1 : wsrs'[i] = wsrs[i]
        /\ wsrs[k].step_run = CurrentId
        /\ wsrs'[k].step_run = CurrentId
        /\ wsrs'[k].step_state = ResultState
        /\ ResultState = "none" => UncountedRun(CurrentId)
    BY <1>3, <1>T, <2>k, <2>l, HandledRows
  <2>d. \/ DOMAIN wsrs' = 1 .. k /\ Len(wsrs') = k /\ DOMAIN stepRuns' = 1 .. l
        \/ \E r \in Nat \ {0} :
              /\ DOMAIN wsrs' = 1 .. k + 1 /\ Len(wsrs') = k + 1
              /\ wsrs'[k + 1].step_run = r
              /\ \/ r = l + 1 /\ DOMAIN stepRuns' = 1 .. l + 1
                 \/ r \in 1 .. l /\ DOMAIN stepRuns' = 1 .. l /\ Reopened(r)
    BY <1>3, <1>T, <2>k, <2>l, HandledRows
  <2>2. pc = "handle"
    BY <1>3, <1>T, HandlerDoes
  <2>3. \A r \in 1 .. l : UncountedRun(r)' <=> UncountedRun(r)
    BY <2>1 DEF UncountedRun
  <2>4. \A r \in 1 .. l : Reopened(r) => ~UncountedRun(r)
    BY <1>T, <2>1, <2>2, ReopenedCounts
  <2>5. \A i \in 1 .. k : wsrs'[i].step_run = wsrs[i].step_run
    BY <2>1
  <2>6. \A i \in 1 .. k : wsrs[i].step_run \in 1 .. l
    BY <1>T, <2>1
  <2>7. \A r \in 1 .. l : OnceAt(r)
    BY <2>1 DEF OnceInv
  <2>8. ASSUME NEW r \in 1 .. l, UncountedRun(r), NEW i \in 1 .. k, NEW j \in 1 .. k,
               wsrs'[i].step_run = r, wsrs'[j].step_run = r
        PROVE  i = j
    BY <2>1, <2>5, <2>7, <2>8 DEF OnceAt
  <2>9. ASSUME NEW r \in 1 .. l, ~UncountedRun(r), NEW i \in 1 .. k,
               wsrs'[i].step_run = r, wsrs'[i].step_state = "none"
        PROVE  FALSE
    <3>1. CASE i = k
      BY <2>1, <2>9, <3>1
    <3>2. CASE i # k
      <4>1. i \in 1 .. k - 1
        BY <3>2
      <4> QED BY <2>k, <2>1, <2>7, <2>9, <3>2, <4>1 DEF OnceAt
    <3> QED BY <3>1, <3>2
  <2>10. CASE DOMAIN wsrs' = 1 .. k /\ Len(wsrs') = k /\ DOMAIN stepRuns' = 1 .. l
    <3>1. ASSUME NEW r \in 1 .. l PROVE OnceAt(r)'
      BY <2>3, <2>8, <2>9, <2>10 DEF OnceAt
    <3> QED BY <2>10, <3>1 DEF OnceInv
  <2>11. ASSUME NEW q \in Nat \ {0}, DOMAIN wsrs' = 1 .. k + 1, Len(wsrs') = k + 1,
                wsrs'[k + 1].step_run = q,
                \/ q = l + 1 /\ DOMAIN stepRuns' = 1 .. l + 1
                \/ q \in 1 .. l /\ DOMAIN stepRuns' = 1 .. l /\ Reopened(q)
         PROVE  OnceInv'
    <3>1. \A i \in 1 .. k + 1 : i \in 1 .. k \/ i = k + 1
      OBVIOUS
    <3>2. ASSUME NEW r \in 1 .. l PROVE OnceAt(r)'
      <4>1. CASE UncountedRun(r)
        <5>1. q # r
          BY <2>4, <2>11, <4>1
        <5> QED BY <2>3, <2>8, <2>11, <3>1, <4>1, <5>1 DEF OnceAt
      <4>2. CASE ~UncountedRun(r)
        BY <2>3, <2>9, <2>11, <3>1, <4>2 DEF OnceAt
      <4> QED BY <4>1, <4>2
    <3>3. ASSUME q = l + 1 PROVE OnceAt(q)'
      <4>1. \A i \in 1 .. k : wsrs'[i].step_run # q
        BY <2>5, <2>6, <3>3
      <4> QED BY <2>11, <3>1, <4>1 DEF OnceAt
    <3>4. \A r \in DOMAIN stepRuns' : r \in 1 .. l \/ (r = q /\ q = l + 1)
      BY <2>11
    <3> QED BY <3>2, <3>3, <3>4 DEF OnceInv
  <2> QED BY <2>d, <2>10, <2>11
<1> QED BY <1>1, <1>2, <1>3, Steps

BudgetAt(r) == Cardinality(TriesOf(r)) <= Allowed(r)

\* A set that is no larger, up to one element.
LEMMA AtMostOneMore ==
    ASSUME NEW S, NEW B, NEW x, NEW n \in Nat, IsFiniteSet(B), Cardinality(B) <= n, S \subseteq B \cup {x}
    PROVE  Cardinality(S) <= n + 1 /\ IsFiniteSet(S)
<1>1. Cardinality(B) \in Nat
  BY FS_CardinalityType
<1>2. IsFiniteSet(B \cup {x}) /\ Cardinality(B \cup {x}) <= n + 1
  <2>1. IsFiniteSet(B \cup {x}) /\ Cardinality(B \cup {x}) \in {Cardinality(B), Cardinality(B) + 1}
    BY FS_AddElement
  <2> QED BY <1>1, <2>1
<1>3. IsFiniteSet(S) /\ Cardinality(S) <= Cardinality(B \cup {x})
  BY <1>2, FS_Subset
<1>4. Cardinality(S) \in Nat /\ Cardinality(B \cup {x}) \in Nat
  BY <1>2, <1>3, FS_CardinalityType
<1> QED BY <1>1, <1>2, <1>3, <1>4

\* A set that is no larger.
LEMMA AtMostAsMany ==
    ASSUME NEW S, NEW B, NEW n \in Nat, IsFiniteSet(B), Cardinality(B) <= n, S \subseteq B
    PROVE  Cardinality(S) <= n
<1>1. IsFiniteSet(S) /\ Cardinality(S) <= Cardinality(B)
  BY FS_Subset
<1>2. Cardinality(S) \in Nat /\ Cardinality(B) \in Nat
  BY <1>1, FS_CardinalityType
<1> QED BY <1>1, <1>2

\* A handler gives a step run another try only if its counted results allow it.
LEMMA BudgetHandled ==
    ASSUME WellNamed, ResetsCount, EngineInv, SkipInv, LastOpen, OnceInv, CountInv, CountInv',
           EngineInv', HandleResult, \A r \in DOMAIN stepRuns : BudgetAt(r)
    PROVE  \A r \in DOMAIN stepRuns' : BudgetAt(r)'
<1>T. TypeOK /\ TypeOK' /\ RowsResolve
  BY DEF EngineInv
<1>k. PICK k \in Nat : k = Len(wsrs)
  BY <1>T DEF TypeOK
<1>l. PICK l \in Nat : l = Len(stepRuns)
  BY <1>T DEF TypeOK
<1>1. /\ k \in DOMAIN wsrs /\ DOMAIN wsrs = 1 .. k /\ DOMAIN stepRuns = 1 .. l
      /\ \A r \in 1 .. l : /\ stepRuns'[r].branch = stepRuns[r].branch
                           /\ stepRuns'[r].name = stepRuns[r].name
                           /\ stepRuns'[r].run_count = stepRuns[r].run_count
      /\ \A i \in 1 .. k - 1 : wsrs'[i] = wsrs[i]
      /\ wsrs[k].step_state = "none" /\ wsrs[k].step_run = CurrentId
      /\ wsrs'[k].step_run = CurrentId
      /\ wsrs'[k].step_state = ResultState
      /\ (ResultState = "none") <=> ~result.saved
  BY <1>k, <1>l, HandledRows
<1>2. \/ DOMAIN wsrs' = 1 .. k /\ DOMAIN stepRuns' = 1 .. l
      \/ \E q \in Nat \ {0} :
            /\ DOMAIN wsrs' = 1 .. k + 1
            /\ wsrs'[k + 1].step_run = q
            /\ \/ q = l + 1 /\ DOMAIN stepRuns' = 1 .. l + 1
               \/ q \in 1 .. l /\ DOMAIN stepRuns' = 1 .. l /\ Reopened(q)
  BY <1>k, <1>l, HandledRows
<1>3. pc = "handle"
  BY HandlerDoes
<1>4. \A r \in 1 .. l : Allowed(r)' = Allowed(r)
  BY <1>1 DEF Allowed
<1>A. \A r : Allowed(r) \in Nat \ {0} /\ Allowed(r)' \in Nat \ {0}
  BY RetryCountType DEF Allowed
<1>5. \A i \in 1 .. k : wsrs'[i].step_run = wsrs[i].step_run
  BY <1>1
<1>6. \A i \in 1 .. k : wsrs[i].step_run \in 1 .. l
  BY <1>T, <1>1 DEF RowsResolve
<1>7. ASSUME NEW r, NEW i \in 1 .. k, wsrs'[i].step_run = r, wsrs'[i].step_state # "replay"
      PROVE  i \in TriesOf(r)
  <2>1. CASE i = k
    BY <1>1, <1>5, <1>7, <2>1 DEF TriesOf
  <2>2. CASE i # k
    <3>1. i \in 1 .. k - 1
      BY <2>2
    <3> QED BY <1>1, <1>7, <3>1 DEF TriesOf
  <2> QED BY <2>1, <2>2
<1>8. ASSUME NEW r \in 1 .. l, TriesOf(r)' \subseteq TriesOf(r) PROVE BudgetAt(r)'
  <2>1. IsFiniteSet(TriesOf(r)) /\ Cardinality(TriesOf(r)) <= Allowed(r)
    BY <1>1, <1>T, TriesFinite DEF BudgetAt
  <2>2. Cardinality(TriesOf(r)') <= Allowed(r)
    BY <1>8, <1>A, <2>1, AtMostAsMany
  <2> QED BY <1>4, <2>2 DEF BudgetAt
<1>9. CASE DOMAIN wsrs' = 1 .. k /\ DOMAIN stepRuns' = 1 .. l
  <2>1. ASSUME NEW r \in 1 .. l PROVE TriesOf(r)' \subseteq TriesOf(r)
    <3>1. \A i \in TriesOf(r)' : i \in 1 .. k /\ wsrs'[i].step_run = r /\ wsrs'[i].step_state # "replay"
      BY <1>9 DEF TriesOf
    <3> QED BY <1>7, <3>1
  <2> QED BY <1>8, <1>9, <2>1
<1>10. ASSUME NEW q \in Nat \ {0}, DOMAIN wsrs' = 1 .. k + 1, wsrs'[k + 1].step_run = q,
              \/ q = l + 1 /\ DOMAIN stepRuns' = 1 .. l + 1
              \/ q \in 1 .. l /\ DOMAIN stepRuns' = 1 .. l /\ Reopened(q)
       PROVE  \A r \in DOMAIN stepRuns' : BudgetAt(r)'
  <2>1. \A r : \A i \in TriesOf(r)' :
           /\ i \in 1 .. k \/ i = k + 1
           /\ wsrs'[i].step_run = r /\ wsrs'[i].step_state # "replay"
    BY <1>10 DEF TriesOf
  <2>2. \A r : \A i \in TriesOf(r)' : i \in TriesOf(r) \/ (i = k + 1 /\ r = q)
    BY <1>7, <1>10, <2>1
  <2>3. ASSUME NEW r \in 1 .. l, r # q PROVE BudgetAt(r)'
    <3>1. TriesOf(r)' \subseteq TriesOf(r)
      BY <2>2, <2>3
    <3> QED BY <1>8, <3>1
  <2>4. CASE q = l + 1 /\ DOMAIN stepRuns' = 1 .. l + 1
    <3>1. TriesOf(q) = {}
      BY <1>1, <1>6, <2>4 DEF TriesOf
    <3>2. TriesOf(q)' \subseteq {} \cup {k + 1}
      BY <2>2, <3>1
    <3>3. IsFiniteSet({}) /\ Cardinality({}) <= 0
      BY FS_EmptySet
    <3>4. Cardinality(TriesOf(q)') <= 0 + 1
      BY <3>2, <3>3, AtMostOneMore
    <3>5. Cardinality(TriesOf(q)') \in Nat
      BY <3>2, <3>3, AtMostOneMore, FS_CardinalityType
    <3>6. BudgetAt(q)'
      BY <1>A, <3>4, <3>5 DEF BudgetAt
    <3>7. \A r \in DOMAIN stepRuns' : r = q \/ (r \in 1 .. l /\ r # q)
      BY <2>4
    <3> QED BY <2>3, <3>6, <3>7
  <2>5. CASE q \in 1 .. l /\ DOMAIN stepRuns' = 1 .. l /\ Reopened(q)
    <3>1. /\ ~UncountedRun(q) /\ result.saved
          /\ (q = CurrentId /\ result.kind = "replay") \/ stepRuns[q].run_count < Allowed(q)
      BY <1>1, <1>3, <2>5, ReopenedCounts
    <3>2. ASSUME q = CurrentId, result.kind = "replay" PROVE BudgetAt(q)'
      <4>1. k \in TriesOf(q) /\ k \notin TriesOf(q)'
        BY <1>1, <3>1, <3>2 DEF TriesOf, ResultState
      <4>2. TriesOf(q)' \subseteq (TriesOf(q) \ {k}) \cup {k + 1}
        BY <2>2, <4>1
      <4>3. IsFiniteSet(TriesOf(q)) /\ Cardinality(TriesOf(q)) <= Allowed(q)
            /\ Cardinality(TriesOf(q)) \in Nat
        BY <1>1, <1>T, <2>5, TriesFinite DEF BudgetAt
      <4>4. PICK n \in Nat : n + 1 = Allowed(q)
        <5>1. Allowed(q) - 1 \in Nat /\ (Allowed(q) - 1) + 1 = Allowed(q)
          BY <1>A
        <5> QED BY <5>1
      <4>5. IsFiniteSet(TriesOf(q) \ {k}) /\ Cardinality(TriesOf(q) \ {k}) <= n
        <5>1. /\ IsFiniteSet(TriesOf(q) \ {k})
              /\ Cardinality(TriesOf(q) \ {k}) = Cardinality(TriesOf(q)) - 1
          BY <4>1, <4>3, FS_RemoveElement
        <5> QED BY <4>3, <4>4, <5>1
      <4>6. Cardinality(TriesOf(q)') <= n + 1
        BY <4>2, <4>5, AtMostOneMore
      <4>b. Allowed(q)' = Allowed(q)
        BY <1>4, <2>5
      <4>c. Cardinality(TriesOf(q)') <= Allowed(q)
        BY <4>4, <4>6
      <4> QED BY <4>b, <4>c DEF BudgetAt
    <3>3. ASSUME stepRuns[q].run_count < Allowed(q) PROVE BudgetAt(q)'
      <4>1. ASSUME NEW i \in TriesOf(q)', i # k + 1 PROVE i \in AttachedTo(q)'
        <5>1. i \in 1 .. k /\ wsrs'[i].step_run = q /\ i \in DOMAIN wsrs'
          BY <1>10, <2>1, <4>1
        <5>2. wsrs'[i].step_state # "none"
          <6>1. CASE i = k
            BY <1>1, <3>1, <6>1
          <6>2. CASE i # k
            <7>1. i \in 1 .. k - 1
              BY <5>1, <6>2
            <7>2. wsrs'[i] = wsrs[i]
              BY <1>1, <7>1
            <7>3. OnceAt(q)
              BY <1>1, <2>5 DEF OnceInv
            <7> QED BY <1>k, <1>1, <3>1, <5>1, <6>2, <7>2, <7>3 DEF OnceAt
          <6> QED BY <6>1, <6>2
        <5> QED BY <5>1, <5>2 DEF AttachedTo
      <4>2. TriesOf(q)' \subseteq AttachedTo(q)' \cup {k + 1}
        BY <4>1
      <4>3. IsFiniteSet(AttachedTo(q)') /\ Cardinality(AttachedTo(q)') \in Nat
        <5>1. AttachedTo(q)' \subseteq 1 .. k + 1 /\ k + 1 \in Nat
          BY <1>10 DEF AttachedTo
        <5>2. IsFiniteSet(1 .. k + 1)
          BY FS_Interval
        <5> QED BY <5>1, <5>2, FS_Subset, FS_CardinalityType
      <4>4. stepRuns[q].run_count \in Nat
        BY <1>1, <1>T, <2>5, CountTypes
      <4>5. Cardinality(AttachedTo(q)') <= stepRuns[q].run_count
        <5>1. Cardinality(AttachedTo(q)') + Pending(q)' <= stepRuns'[q].run_count
          BY <2>5 DEF CountInv
        <5>2. Pending(q)' \in {0, 1}
          BY DEF Pending
        <5>3. stepRuns'[q].run_count = stepRuns[q].run_count
          BY <1>1, <2>5
        <5> QED BY <4>3, <4>4, <5>1, <5>2, <5>3
      <4>6. Cardinality(TriesOf(q)') <= stepRuns[q].run_count + 1
        BY <4>2, <4>3, <4>4, <4>5, AtMostOneMore
      <4>7. Cardinality(TriesOf(q)') \in Nat
        BY <4>2, <4>3, <4>4, <4>5, AtMostOneMore, FS_CardinalityType
      <4>8. stepRuns[q].run_count + 1 <= Allowed(q)
        BY <1>A, <3>3, <4>4
      <4>9. Cardinality(TriesOf(q)') <= Allowed(q)
        BY <1>A, <4>4, <4>6, <4>7, <4>8
      <4>b. Allowed(q)' = Allowed(q)
        BY <1>4, <2>5
      <4>c. Cardinality(TriesOf(q)') <= Allowed(q)
        BY <4>9
      <4> QED BY <4>b, <4>c DEF BudgetAt
    <3>4. BudgetAt(q)'
      BY <3>1, <3>2, <3>3
    <3>5. \A r \in DOMAIN stepRuns' : r = q \/ (r \in 1 .. l /\ r # q)
      BY <2>5
    <3> QED BY <2>3, <3>4, <3>5
  <2> QED BY <1>10, <2>4, <2>5
<1> QED BY <1>2, <1>9, <1>10

\* No step takes a step run over its budget.
LEMMA BudgetNext ==
    ASSUME WellNamed, ResetsCount, EngineInv, EngineInv', HistoryInv, OnceInv, CountInv, CountInv',
           [Next]_vars, \A r \in DOMAIN stepRuns : BudgetAt(r)
    PROVE  \A r \in DOMAIN stepRuns' : BudgetAt(r)'
<1>1. CASE Quiet \/ RunStep
  <2>1. /\ wsrs' = wsrs /\ DOMAIN stepRuns' = DOMAIN stepRuns
        /\ \A r \in DOMAIN stepRuns : /\ stepRuns'[r].branch = stepRuns[r].branch
                                      /\ stepRuns'[r].name = stepRuns[r].name
    BY <1>1, SameRowsAndRuns
  <2>2. \A r \in DOMAIN stepRuns : Allowed(r)' = Allowed(r) /\ TriesOf(r)' = TriesOf(r)
    BY <2>1 DEF Allowed, TriesOf
  <2> QED BY <2>1, <2>2 DEF BudgetAt
<1>2. CASE InitializeFirst
  <2>1. DOMAIN wsrs' = {1} /\ DOMAIN stepRuns' = {1}
    BY <1>2, FirstRow
  <2>2. \A r : TriesOf(r)' \subseteq {} \cup {1}
    BY <2>1 DEF TriesOf
  <2>3. IsFiniteSet({}) /\ Cardinality({}) <= 0
    BY FS_EmptySet
  <2>4. ASSUME NEW r PROVE BudgetAt(r)'
    <3>1. Cardinality(TriesOf(r)') <= 0 + 1 /\ Cardinality(TriesOf(r)') \in Nat
      BY <2>2, <2>3, AtMostOneMore, FS_CardinalityType
    <3>2. Allowed(r)' \in Nat \ {0}
      BY RetryCountType DEF Allowed
    <3> QED BY <3>1, <3>2 DEF BudgetAt
  <2> QED BY <2>4
<1>3. CASE HandleResult
  BY <1>3, BudgetHandled DEF HistoryInv
<1> QED BY <1>1, <1>2, <1>3, Steps

\* However often a step asks again, is gone back to by itself or by a later step of
\* its branch, or is cut short, a step run is not tried more often than its
\* template allows: every try that retries_left counts is a row of the history.
THEOREM RetryBudgetHolds ==
    ASSUME WellNamed, ResetsCount
    PROVE  Spec => []RetryBudget
<1> DEFINE Budget == \A r \in DOMAIN stepRuns : BudgetAt(r)
<1>1. Init => OnceInv /\ Budget
  BY DEF Init, OnceInv
<1>2. EngineInv /\ HistoryInv /\ OnceInv /\ [Next]_vars => OnceInv'
  BY OnceInvNext
<1>3. EngineInv /\ EngineInv' /\ HistoryInv /\ OnceInv /\ CountInv /\ CountInv' /\ Budget /\ [Next]_vars
          => Budget'
  BY BudgetNext
<1>4. Budget => RetryBudget
  BY DEF RetryBudget, BudgetAt, TriesOf, Allowed
<1> HIDE DEF Budget
<1>5. QED
  BY <1>1, <1>2, <1>3, <1>4, EngineInvariant, HistoryInvHolds, CountInvHolds, PTL DEF Spec

-----------------------------------------------------------------------------
(* Where a step takes the run *)

\* The step after the current one, on a branch the run stays on.
Follows ==
    /\ result.kind = "success" /\ ~IsBranch(CurrentStep)
    /\ IndexOf(branch, Current.name) + 1 \in DOMAIN Tree[branch].steps
    /\ Current'.name = Tree[branch].steps[IndexOf(branch, Current.name) + 1].name
    /\ Current'.branch = branch

\* A branch is entered at its first step, unless it goes on where it was left or is
\* the one the run is on.
Enters(b) ==
    /\ b \in DOMAIN Tree
    /\ \E k \in DOMAIN Tree[b].steps :
          /\ k = NextIndex(b) /\ ComesNext(branch, IndexOf(branch, Current.name), b, k)
          /\ Current'.name = Tree[b].steps[k].name
    /\ Current'.branch = b

Branches == result.kind = "success" /\ IsBranch(CurrentStep) /\ Enters(result.branch)
Switches == result.kind = "error" /\ CurrentStep.switch_to # NoBranch /\ Enters(CurrentStep.switch_to)
GoesBack == result.kind = "error" /\ result.retryable /\ Current'.name = RetryStep /\ Current'.branch = branch

\* The run goes from step to step only when a result is handled.
Moves ==
    \/ Current'.name = Current.name /\ Current'.branch = Current.branch
    \/ pc = "handle" /\ state \notin {"finished", "error"} /\ (Follows \/ Branches \/ Switches \/ GoesBack)

\* The index at which a branch goes on from the current step.
LEMMA NextAfterCurrent ==
    ASSUME EngineInv, SkipInv, wsrs # <<>>, HasStep(branch, Current.name), state # "finished"
    PROVE  NextIndex(branch) = IndexOf(branch, Current.name) + 1
<1>1. TypeOK /\ Current.branch = branch
  BY DEF EngineInv, SkipInv, OnBranch
<1>2. PICK k \in Nat \ {0} : k = Len(wsrs) /\ DOMAIN wsrs = 1 .. k /\ StepRunAt(k) = Current
  BY <1>1 DEF TypeOK, StepRunAt, Current, CurrentId
<1>3. k \in VisitsOf(branch)
  BY <1>1, <1>2 DEF VisitsOf
<1>4. LastVisit(branch) \in 1 .. k /\ k <= LastVisit(branch)
  BY <1>1, <1>2, <1>3, LastVisitFound
<1>5. LastVisit(branch) = k
  BY <1>2, <1>4
<1> QED BY <1>1, <1>2, <1>3, <1>5 DEF NextIndex, StartsOver

\* The next step on a branch is one that comes next.
LEMMA NextComesNext ==
    ASSUME WellNamed, EngineInv, SkipInv, wsrs # <<>>, HasStep(branch, Current.name), state # "finished",
           NEW b, CanAdvance(b), Current'.name = NextStep(b).name, Current'.branch = b
    PROVE  Enters(b)
<1>1. Current.branch = branch
  BY DEF SkipInv, OnBranch
<1>2. b # branch /\ Tree[b].reset_on_switch => NextIndex(b) = 1
  BY <1>1 DEF NextIndex, StartsOver
<1>3. b = branch => NextIndex(b) = IndexOf(branch, Current.name) + 1
  BY NextAfterCurrent
<1>4. b \in DOMAIN Tree /\ NextIndex(b) \in DOMAIN Tree[b].steps
  BY NextPosition
<1> QED BY <1>2, <1>3, <1>4 DEF Enters, ComesNext, NextStep

\* After a success that does not leave, the run is at the step that comes next.
LEMMA SuccessLeads ==
    ASSUME WellNamed, EngineInv, SkipInv, HandleNextInput \/ HandleNextStep
    PROVE  wsrs' # <<>> /\ (Follows \/ Branches)
<1>T. TypeOK /\ RowsResolve /\ Unstarted /\ OnTree /\ AtStep
  BY DEF EngineInv
<1>1. PICK b : b = BranchAfterSuccess
  OBVIOUS
<1>2. /\ pc = "handle" /\ result.kind = "success" /\ CanAdvance(b)
      /\ AppendFresh(Recorded, b, NextStep(b).name)
  <2>1. CASE HandleNextInput
    <3>1. /\ pc = "handle" /\ result.kind = "success" /\ CanAdvance(b) /\ IsInput(NextStep(b))
          /\ RequestUserInput(Recorded, b, NextStep(b).name)
      BY <1>1, <2>1 DEF HandleNextInput
    <3> QED BY <1>1, <3>1, NewName DEF RequestUserInput
  <2>2. CASE HandleNextStep
    BY <1>1, <2>2 DEF HandleNextStep, AdvanceStep
  <2> QED BY <2>1, <2>2
<1>H. wsrs # <<>> /\ HasStep(branch, Current.name) /\ state # "finished" /\ SameRows(Recorded)
  BY <1>T, <1>2, RecordedRows DEF AtStep
<1>3. wsrs' # <<>> /\ Current'.name = NextStep(b).name /\ Current'.branch = b
  <2>1. HasStep(b, NextStep(b).name)
    BY <1>2, NextStepFound
  <2> QED BY <1>T, <1>H, <1>2, <2>1, FreshRow DEF FreshStepRun
<1>4. CASE IsBranch(CurrentStep)
  BY <1>H, <1>1, <1>2, <1>3, <1>4, NextComesNext DEF Branches, BranchAfterSuccess
<1>5. CASE ~IsBranch(CurrentStep)
  <2>1. b = branch /\ NextIndex(b) = IndexOf(branch, Current.name) + 1
    BY <1>H, <1>1, <1>5, NextAfterCurrent DEF BranchAfterSuccess
  <2>2. NextIndex(b) \in DOMAIN Tree[b].steps /\ NextStep(b) = Tree[b].steps[NextIndex(b)]
    BY <1>2, NextPosition DEF NextStep
  <2> QED BY <1>2, <1>3, <1>5, <2>1, <2>2 DEF Follows
<1> QED BY <1>3, <1>4, <1>5

\* Every step of the engine leaves the run at its step or moves it so.
LEMMA StepMoves ==
    ASSUME WellNamed, EngineInv, SkipInv, [Next]_vars, wsrs # <<>>
    PROVE  wsrs' # <<>> /\ Moves
<1>T. TypeOK /\ RowsResolve /\ Unstarted /\ OnTree /\ AtStep
  BY DEF EngineInv
<1>H. ASSUME pc = "handle"
      PROVE  /\ HasStep(branch, Current.name) /\ state \notin {"finished", "error"}
             /\ SameRows(Recorded) /\ \A b \in BranchNames : SameRows(BranchedOnError(b))
  BY <1>T, <1>H, RecordedRows DEF AtStep
<1>1. CASE Quiet
  BY <1>1, <1>T, QuietDoes DEF Moves, Current, CurrentId
<1>2. CASE InitializeFirst
  BY <1>2 DEF InitializeFirst, InitializeFirstStep, Transition, Unstarted, EngineInv
<1>3. CASE RunStep
  <2>1. wsrs' = wsrs /\ CurrentId \in DOMAIN stepRuns
    BY <1>3, <1>T, CurrentRow, SameRowsAndRuns DEF RunStep
  <2>2. PICK c : c = CurrentId
    OBVIOUS
  <2>3. CurrentId' = c /\ stepRuns'[c].name = stepRuns[c].name /\ stepRuns'[c].branch = stepRuns[c].branch
    BY <1>3, <2>1, <2>2, SameRowsAndRuns DEF CurrentId
  <2> QED BY <2>1, <2>2, <2>3 DEF Moves, Current
<1>4. ASSUME pc = "handle", NEW rows, rows \in RowsOfResult, wsrs' = rows, stepRuns' = stepRuns
      PROVE  wsrs' # <<>> /\ Moves
  <2>1. SameRows(wsrs')
    BY <1>H, <1>4 DEF RowsOfResult
  <2> QED BY <1>T, <1>4, <2>1, KeptRows DEF Moves
<1>5. CASE HandlePressZero \/ HandleExit \/ HandleUnrecoverable
  BY <1>4, <1>5 DEF HandlePressZero, HandleExit, HandleUnrecoverable, RowsOfResult
<1>6. ASSUME pc = "handle", NEW rows, SameRows(rows), NEW b, CanAdvance(b),
             AppendFresh(rows, b, NextStep(b).name)
      PROVE  wsrs' # <<>> /\ Current'.name = NextStep(b).name /\ Current'.branch = b
  <2>1. HasStep(b, NextStep(b).name)
    BY <1>6, NextStepFound
  <2> QED BY <1>T, <1>6, <2>1, FreshRow DEF FreshStepRun
<1>7. CASE HandleNextInput \/ HandleNextStep
  <2>1. pc = "handle"
    BY <1>7 DEF HandleNextInput, HandleNextStep
  <2> QED BY <1>7, <1>H, <2>1, SuccessLeads DEF Moves
<1>8. CASE HandleErrorSwitch
  <2>1. PICK b : b = CurrentStep.switch_to
    OBVIOUS
  <2>2. /\ pc = "handle" /\ result.kind = "error" /\ b # NoBranch /\ CanAdvance(b)
        /\ AppendFresh(BranchedOnError(b), b, NextStep(b).name)
    BY <1>8, <2>1 DEF HandleErrorSwitch, OutOfRetries
  <2>3. b \in BranchNames
    BY <2>2, NextStepFound
  <2>4. wsrs' # <<>> /\ Current'.name = NextStep(b).name /\ Current'.branch = b
    BY <1>6, <1>H, <2>2, <2>3
  <2> QED BY <1>H, <2>1, <2>2, <2>4, NextComesNext DEF Moves, Switches
<1>9. CASE HandleReplay
  <2>1. pc = "handle" /\ AppendAgain(Recorded, CurrentId)
    BY <1>9 DEF HandleReplay, ReplayStep
  <2>2. CurrentId \in DOMAIN stepRuns /\ Current = stepRuns[CurrentId]
    BY <1>T, CurrentRow DEF Current
  <2> QED BY <1>T, <1>H, <2>1, <2>2, AgainRow DEF Moves
<1>10. CASE HandleRetry
  <2>1. pc = "handle" /\ result.kind = "error" /\ result.retryable
    BY <1>10 DEF HandleRetry
  <2>2. PICK r \in RetryTargets : AppendAgain(Recorded, r)
    BY <1>10 DEF HandleRetry
  <2>3. r \in DOMAIN stepRuns /\ stepRuns[r].name = RetryStep
    BY <1>H, <2>1, RetryTarget
  <2>4. wsrs' # <<>> /\ Current' = stepRuns[r]
    BY <1>T, <1>H, <2>1, <2>2, <2>3, AgainRow
  <2>5. stepRuns[r].branch = branch
    <3>1. stepRuns[CurrentId].branch = branch
      BY <1>H, <2>1 DEF SkipInv, OnBranch, Current
    <3>2. \A i \in DOMAIN wsrs : i \in VisitsOf(branch) => stepRuns[wsrs[i].step_run].branch = branch
      BY DEF VisitsOf, StepRunAt
    <3>3. \/ r = CurrentId
          \/ \E i \in DOMAIN wsrs : i \in VisitsOf(branch) /\ r = wsrs[i].step_run
      BY <2>2 DEF RetryTargets, StepRunsOf, VisitsOf
    <3> QED BY <3>1, <3>2, <3>3
  <2> QED BY <1>H, <2>1, <2>3, <2>4, <2>5 DEF Moves, GoesBack
<1> QED BY <1>1, <1>2, <1>3, <1>5, <1>7, <1>8, <1>9, <1>10, Steps DEF HandleResult

\* A success of a step that another follows on its branch takes the run there, or the
\* request is cut short.
LEMMA SuccessGoesOn ==
    ASSUME WellNamed, EngineInv, SkipInv, [Next]_vars, pc = "handle", pc' # "handle",
           result.kind = "success", ~IsBranch(CurrentStep), ExitOfCurrent = NoExit,
           IndexOf(branch, Current.name) + 1 \in DOMAIN Tree[branch].steps
    PROVE  Follows \/ (wsrs' = wsrs /\ failures' = failures + 1)
<1>1. wsrs # <<>> /\ HasStep(branch, Current.name) /\ state # "finished"
  BY DEF EngineInv, AtStep
<1>2. NextIndex(branch) = IndexOf(branch, Current.name) + 1 /\ branch \in DOMAIN Tree
  BY <1>1, NextAfterCurrent, IndexOfFirst
<1>3. CanAdvance(branch) /\ BranchAfterSuccess = branch
  <2>1. Tree[branch].steps \in Seq(StepTemplate)
    BY <1>2, TreeAssumption DEF StepBranch
  <2> QED BY <1>2, <2>1 DEF CanAdvance, BranchAfterSuccess
<1>4. ~DeadEnd
  BY <1>3 DEF DeadEnd, OutOfRetries
<1>5. CASE Quiet
  BY <1>4, <1>5
     DEF Quiet, vars, request, run, Request, InitializeCurrent, InitializeRaises, Start, RejectState,
         AcceptInput, AskForInput, PrepareOtherStep, HandleDeadEnd, EndLeg, Respond, Fail
<1>6. CASE HandleResult
  <2>1. HandleNextInput \/ HandleNextStep
    BY <1>6 DEF HandleResult, HandlePressZero, HandleReplay, HandleExit, HandleRetry, HandleErrorSwitch,
                HandleUnrecoverable, OutOfRetries
  <2> QED BY <2>1, SuccessLeads DEF Branches
<1>7. ~InitializeFirst /\ ~RunStep
  BY DEF InitializeFirst, RunStep
<1> QED BY <1>5, <1>6, <1>7, Steps

\* The first step run of a run is that of the first step of the first branch.
LEMMA StartsAtRoot ==
    ASSUME EngineInv, [Next]_vars, wsrs = <<>>, wsrs' # <<>>
    PROVE  Current'.name = Tree[Root].steps[1].name /\ Current'.branch = Root
<1>1. InitializeFirst
  <2>1. TypeOK /\ AtStep
    BY DEF EngineInv
  <2>2. ~Quiet
    BY <2>1, QuietDoes
  <2>3. pc \notin {"run", "handle"}
    BY <2>1 DEF AtStep
  <2>4. ~RunStep /\ ~HandleResult
    BY <2>3 DEF RunStep, HandleResult, HandlePressZero, HandleReplay, HandleExit, HandleNextInput,
                HandleNextStep, HandleRetry, HandleErrorSwitch, HandleUnrecoverable
  <2> QED BY <2>2, <2>4, Steps
<1>2. PICK n, s : n = Tree[Root].steps[1].name /\ s = FreshStepRun(branch, n)
  OBVIOUS
<1>3. s.name = n /\ s.branch = Root
  BY <1>2 DEF FreshStepRun, EngineInv, Unstarted
<1>4. stepRuns' = Append(<<>>, s) /\ CurrentId' = 1
  <2>1. wsrs' = Append(<<>>, Wsr(Len(stepRuns) + 1)) /\ stepRuns = <<>>
    BY <1>1 DEF InitializeFirst, InitializeFirstStep, AppendFresh, EngineInv, Unstarted
  <2>2. Len(wsrs') = 1 /\ wsrs'[1].step_run = 1
    BY <1>1, FirstRow
  <2> QED BY <1>1, <1>2, <2>1, <2>2 DEF InitializeFirst, InitializeFirstStep, AppendFresh, CurrentId
<1>5. stepRuns'[1] = s
  BY <1>4
<1> QED BY <1>2, <1>3, <1>4, <1>5 DEF Current

\* A branch map that succeeds leads to one of its branches, which is there.
LEMMA MapLeads ==
    ASSUME NEW t, t.type = "BranchMapWorkflowStep", NEW r \in Outcomes(t), r.kind = "success"
    PROVE  r.branch \in t.targets \ {NoBranch} /\ r.branch \in DOMAIN Tree
<1>1. r \in BranchMapOutcomes(t)
  BY DEF Outcomes, InputTypes, MenuTypes
<1>2. PICK b \in t.targets : r = IF b \in DOMAIN Tree THEN BranchTo(b) ELSE Retryable
  BY <1>1 DEF BranchMapOutcomes
<1>3. b \in DOMAIN Tree /\ r.branch = b
  BY <1>2 DEF BranchTo, Retryable, Outcome
<1> QED BY <1>3, TreeAssumption

\* So does any step that branches, though a jump may name a branch that is not there.
LEMMA BranchLeads ==
    ASSUME NEW t, IsBranch(t), NEW r \in Outcomes(t), r.kind = "success"
    PROVE  r.branch \in t.targets
<1>1. CASE t.type = "BranchMapWorkflowStep"
  BY <1>1, MapLeads
<1>2. CASE t.type = "JumpBranchStep"
  <2>1. PICK b \in t.targets : r = BranchTo(b)
    BY <1>2 DEF Outcomes, JumpOutcomes, InputTypes, MenuTypes
  <2> QED BY <2>1 DEF BranchTo, Outcome
<1> QED BY <1>1, <1>2 DEF IsBranch, BranchTypes

\* A row that is done was so before, or is the one whose result is being handled.
LEMMA NewlyDone ==
    ASSUME WellNamed, EngineInv, HistoryInv, [Next]_vars, NEW i \in DOMAIN wsrs', Done(i)'
    PROVE  /\ i \in DOMAIN wsrs
           /\ StepRunAt(i)'.name = StepRunAt(i).name /\ StepRunAt(i)'.branch = StepRunAt(i).branch
           /\ Done(i) \/ (pc = "handle" /\ i = Len(wsrs) /\ StepRunAt(i) = Current)
<1>T. TypeOK /\ RowsResolve /\ SkipInv /\ LastOpen
  BY DEF EngineInv, HistoryInv
<1>1. CASE Quiet \/ RunStep
  <2>1. /\ wsrs' = wsrs
        /\ \A r \in DOMAIN stepRuns : /\ stepRuns'[r].branch = stepRuns[r].branch
                                      /\ stepRuns'[r].name = stepRuns[r].name
    BY <1>1, SameRowsAndRuns
  <2>2. i \in DOMAIN wsrs /\ wsrs[i].step_run \in DOMAIN stepRuns
    BY <1>T, <2>1 DEF RowsResolve
  <2> QED BY <2>1, <2>2 DEF StepRunAt, Done
<1>2. CASE InitializeFirst
  <2>1. wsrs = <<>> /\ stepRuns = <<>> /\ wsrs' = Append(wsrs, Wsr(Len(stepRuns) + 1))
    BY <1>2 DEF EngineInv, Unstarted, InitializeFirst, InitializeFirstStep, AppendFresh
  <2>w. PICK w : w = Wsr(Len(stepRuns) + 1)
    OBVIOUS
  <2>2. wsrs' = <<w>>
    BY <2>1, <2>w
  <2>3. wsrs'[i] = w
    BY <2>2
  <2> QED BY <2>w, <2>3 DEF Done, Wsr
<1>3. CASE HandleResult
  <2>1. pc = "handle"
    BY <1>3, <1>T, HandlerDoes
  <2>k. PICK k \in Nat \ {0} : k = Len(wsrs) /\ DOMAIN wsrs = 1 .. k /\ StepRunAt(k) = Current
    BY <1>T, <2>1, AtHandle
  <2>2. PICK rows \in RowsOfResult :
              /\ LastChanged(rows)
              /\ \A j \in 1 .. k : wsrs'[j] = rows[j]
              /\ wsrs' \in Seq(WorkflowStepRun)
              /\ \/ Closed(rows) /\ Len(wsrs') = k
                 \/ \E r \in Nat \ {0} :
                       /\ Len(wsrs') = k + 1 /\ wsrs'[k + 1] = Wsr(r)
                       /\ \/ r = Len(stepRuns) + 1 /\ Opened(rows)
                          \/ r \in DOMAIN stepRuns /\ Reopened(r)
    BY <1>T, <1>3, <2>k, HandlerRows
  <2>3. \A r \in DOMAIN stepRuns : stepRuns'[r] = stepRuns[r]
    <3>1. stepRuns \in Seq(StepRun)
      BY <1>T DEF TypeOK
    <3>2. stepRuns' = stepRuns \/ \E s : stepRuns' = Append(stepRuns, s)
      BY <2>2 DEF Closed, Opened, Reopened, AppendFresh, AppendAgain
    <3> QED BY <3>1, <3>2
  <2>4. i \in 1 .. k
    <3>1. i \in 1 .. k + 1
      BY <2>2
    <3>2. i = k + 1 => \E r : wsrs'[i] = Wsr(r)
      BY <2>2
    <3>3. \A r : Wsr(r).step_state = "none" /\ Wsr(r).branched_on_error = NoBranch
      BY DEF Wsr
    <3>4. i # k + 1
      BY <3>2, <3>3 DEF Done
    <3> QED BY <2>k, <3>1, <3>4
  <2>5. wsrs'[i].step_run = wsrs[i].step_run /\ (i < k => wsrs'[i] = wsrs[i])
    BY <2>2, <2>4, <2>k DEF LastChanged, SameRows
  <2>6. wsrs[i].step_run \in DOMAIN stepRuns
    BY <1>T, <2>k, <2>4 DEF RowsResolve
  <2>7. StepRunAt(i)' = StepRunAt(i)
    BY <2>3, <2>5, <2>6 DEF StepRunAt
  <2>8. Done(i) \/ i = k
    BY <2>4, <2>5, <2>k DEF Done
  <2> QED BY <2>1, <2>k, <2>4, <2>7, <2>8
<1> QED BY <1>1, <1>2, <1>3, Steps

-----------------------------------------------------------------------------
(* A branch that goes on where it was left *)

\* Rows stay those of their steps, and at most one is added, which is the current one.
LEMMA RowsGrow ==
    ASSUME WellNamed, EngineInv, HistoryInv, [Next]_vars, NEW k \in Nat, k = Len(wsrs)
    PROVE  /\ DOMAIN wsrs = 1 .. k
           /\ DOMAIN wsrs' = 1 .. k \/ (DOMAIN wsrs' = 1 .. k + 1 /\ StepRunAt(k + 1)' = Current')
           /\ \A i \in 1 .. k : /\ StepRunAt(i)'.name = StepRunAt(i).name
                               /\ StepRunAt(i)'.branch = StepRunAt(i).branch
<1>T. TypeOK /\ RowsResolve /\ SkipInv /\ LastOpen /\ DOMAIN wsrs = 1 .. k
  BY DEF EngineInv, HistoryInv, TypeOK
<1>1. CASE Quiet \/ RunStep
  <2>1. /\ wsrs' = wsrs
        /\ \A r \in DOMAIN stepRuns : /\ stepRuns'[r].branch = stepRuns[r].branch
                                      /\ stepRuns'[r].name = stepRuns[r].name
    BY <1>1, SameRowsAndRuns
  <2>2. \A i \in 1 .. k : wsrs[i].step_run \in DOMAIN stepRuns
    BY <1>T DEF RowsResolve
  <2> QED BY <1>T, <2>1, <2>2 DEF StepRunAt
<1>2. CASE InitializeFirst
  <2>1. wsrs = <<>> /\ wsrs' = Append(wsrs, Wsr(Len(stepRuns) + 1))
    BY <1>2 DEF InitializeFirst, InitializeFirstStep, AppendFresh
  <2>w. PICK w : w = Wsr(Len(stepRuns) + 1)
    OBVIOUS
  <2>2. k = 0 /\ Len(wsrs') = 1 /\ DOMAIN wsrs' = 1 .. 1
    BY <2>1, <2>w
  <2>3. StepRunAt(0 + 1)' = Current'
    BY <2>2 DEF StepRunAt, Current, CurrentId
  <2> QED BY <1>T, <2>2, <2>3
<1>3. CASE HandleResult
  <2>1. pc = "handle"
    BY <1>3, <1>T, HandlerDoes
  <2>k. k \in Nat \ {0}
    BY <1>T, <2>1, AtHandle
  <2>2. PICK rows \in RowsOfResult :
              /\ LastChanged(rows)
              /\ \A j \in 1 .. k : wsrs'[j] = rows[j]
              /\ wsrs' \in Seq(WorkflowStepRun)
              /\ \/ Closed(rows) /\ Len(wsrs') = k
                 \/ \E r \in Nat \ {0} :
                       /\ Len(wsrs') = k + 1 /\ wsrs'[k + 1] = Wsr(r)
                       /\ \/ r = Len(stepRuns) + 1 /\ Opened(rows)
                          \/ r \in DOMAIN stepRuns /\ Reopened(r)
    BY <1>T, <1>3, <2>k, HandlerRows
  <2>3. \A r \in DOMAIN stepRuns : stepRuns'[r] = stepRuns[r]
    <3>1. stepRuns \in Seq(StepRun)
      BY <1>T DEF TypeOK
    <3>2. stepRuns' = stepRuns \/ \E s : stepRuns' = Append(stepRuns, s)
      BY <2>2 DEF Closed, Opened, Reopened, AppendFresh, AppendAgain
    <3> QED BY <3>1, <3>2
  <2>4. \A i \in 1 .. k : wsrs'[i].step_run = wsrs[i].step_run /\ wsrs[i].step_run \in DOMAIN stepRuns
    BY <1>T, <2>2 DEF LastChanged, SameRows, RowsResolve
  <2>5. \A i \in 1 .. k : StepRunAt(i)' = StepRunAt(i)
    BY <2>3, <2>4 DEF StepRunAt
  <2>6. Len(wsrs') \in {k, k + 1} /\ DOMAIN wsrs' = 1 .. Len(wsrs')
    BY <2>2
  <2>7. Len(wsrs') = k + 1 => StepRunAt(k + 1)' = Current'
    BY DEF StepRunAt, Current, CurrentId
  <2> QED BY <1>T, <2>5, <2>6, <2>7
<1> QED BY <1>1, <1>2, <1>3, Steps

\* The rows of a branch are those of its steps in their order.
Onward(c) ==
    \A i, j \in VisitsOf(c) : i < j => IndexOf(c, StepRunAt(i).name) <= IndexOf(c, StepRunAt(j).name)

\* The last row of a branch is that of the last of its steps.
LEMMA FurthestLast ==
    ASSUME EngineInv, NEW c, Onward(c), NEW i \in VisitsOf(c)
    PROVE  /\ HasStep(c, StepRunAt(LastVisit(c)).name) /\ IndexOf(c, StepRunAt(LastVisit(c)).name) \in Nat
           /\ IndexOf(c, StepRunAt(i).name) \in Nat
           /\ IndexOf(c, StepRunAt(i).name) <= IndexOf(c, StepRunAt(LastVisit(c)).name)
<1>T. TypeOK /\ RowsResolve /\ DOMAIN wsrs = 1 .. Len(wsrs) /\ Len(wsrs) \in Nat
  BY DEF EngineInv, TypeOK
<1>v. PICK v : v = LastVisit(c)
  OBVIOUS
<1>1. v \in DOMAIN wsrs /\ StepRunAt(v).branch = c /\ i \in DOMAIN wsrs /\ i <= v
  BY <1>T, <1>v, LastVisitFound DEF VisitsOf
<1>2. v \in VisitsOf(c)
  BY <1>1 DEF VisitsOf
<1>3. \A j \in VisitsOf(c) : HasStep(c, StepRunAt(j).name) /\ IndexOf(c, StepRunAt(j).name) \in Nat
  <2> SUFFICES ASSUME NEW j \in VisitsOf(c)
               PROVE  HasStep(c, StepRunAt(j).name) /\ IndexOf(c, StepRunAt(j).name) \in Nat
    OBVIOUS
  <2>1. HasStep(c, StepRunAt(j).name)
    BY <1>T DEF VisitsOf, StepRunAt, RowsResolve
  <2>2. c \in DOMAIN Tree /\ IndexOf(c, StepRunAt(j).name) \in DOMAIN Tree[c].steps
    BY <2>1, IndexOfFirst
  <2>3. Tree[c].steps \in Seq(StepTemplate)
    BY <2>2, TreeAssumption DEF StepBranch
  <2> QED BY <2>1, <2>2, <2>3
<1>4. CASE i = v
  BY <1>v, <1>3, <1>4
<1>5. CASE i < v
  BY <1>v, <1>2, <1>3, <1>5 DEF Onward
<1> QED BY <1>T, <1>1, <1>4, <1>5

\* The step that is added on a branch which goes on where it was left, and on which no
\* step sends the contact back, is not before the one it was left at.
LEMMA GoesOnward ==
    ASSUME WellNamed, EngineInv, HistoryInv, wsrs # <<>>, Moves,
           NEW c \in DOMAIN Tree, ~Tree[c].reset_on_switch,
           \A x \in DOMAIN Tree[c].steps : Tree[c].steps[x].reset_to = NoStep,
           NEW i \in VisitsOf(c), Current'.branch = c
    PROVE  IndexOf(c, StepRunAt(LastVisit(c)).name) <= IndexOf(c, Current'.name)
<1>T. TypeOK /\ RowsResolve /\ SkipInv /\ DOMAIN wsrs = 1 .. Len(wsrs) /\ Len(wsrs) \in Nat
  BY DEF EngineInv, HistoryInv, TypeOK
<1>v. PICK v, n : v = LastVisit(c) /\ n = StepRunAt(v).name
  OBVIOUS
<1>1. v \in DOMAIN wsrs /\ StepRunAt(v).branch = c /\ \A j \in VisitsOf(c) : j <= v
  BY <1>T, <1>v, LastVisitFound DEF VisitsOf
<1>2. HasStep(c, n)
  BY <1>T, <1>v, <1>1 DEF StepRunAt, RowsResolve
<1>x. PICK x \in DOMAIN Tree[c].steps : x = IndexOf(c, n) /\ Tree[c].steps[x].name = n
  BY <1>2, IndexOfFirst
<1>N. Tree[c].steps \in Seq(StepTemplate) /\ x \in Nat
  <2>1. Tree[c].steps \in Seq(StepTemplate)
    BY TreeAssumption DEF StepBranch
  <2> QED BY <2>1
<1>3. Current.branch = c => Current.name = n
  <2>1. Len(wsrs) \in DOMAIN wsrs /\ StepRunAt(Len(wsrs)) = Current
    BY <1>T DEF StepRunAt, Current, CurrentId
  <2>2. Current.branch = c => Len(wsrs) \in VisitsOf(c)
    BY <2>1 DEF VisitsOf
  <2>3. Current.branch = c => Len(wsrs) = v
    BY <1>T, <1>1, <2>2
  <2>4. Len(wsrs) = v => StepRunAt(Len(wsrs)) = StepRunAt(v)
    BY DEF StepRunAt
  <2> QED BY <1>v, <2>1, <2>3, <2>4
<1>4. ASSUME Current'.name = Current.name, Current'.branch = Current.branch
      PROVE  x <= IndexOf(c, Current'.name)
  <2>1. Current'.name = n
    BY <1>3, <1>4
  <2>2. IndexOf(c, Current'.name) = x
    BY <1>x, <2>1
  <2> QED BY <1>N, <2>2
<1>5. ASSUME state # "finished", Follows \/ Branches \/ Switches \/ GoesBack, pc = "handle"
      PROVE  x <= IndexOf(c, Current'.name)
  <2>1. branch = Current.branch
    BY <1>T, <1>5 DEF SkipInv, OnBranch
  <2>2. CASE Follows
    <3>1. branch = c /\ x + 1 \in DOMAIN Tree[c].steps /\ Current'.name = Tree[c].steps[x + 1].name
      BY <1>v, <1>x, <1>3, <2>1, <2>2 DEF Follows
    <3>2. IndexOf(c, Current'.name) = x + 1
      BY <3>1, IndexOfPosition
    <3> QED BY <1>N, <3>2
  <2>3. CASE Branches \/ Switches
    <3>1. PICK k \in DOMAIN Tree[c].steps :
             k = NextIndex(c) /\ ComesNext(branch, IndexOf(branch, Current.name), c, k)
             /\ Current'.name = Tree[c].steps[k].name
      BY <2>3 DEF Branches, Switches, Enters
    <3>2. k = x + 1
      <4>1. CASE branch = c
        BY <1>v, <1>x, <1>3, <2>1, <3>1, <4>1 DEF ComesNext
      <4>2. CASE branch # c
        <5>1. ~StartsOver(c)
          BY <1>1, <2>1, <4>2 DEF StartsOver
        <5> QED BY <1>v, <1>x, <1>2, <3>1, <5>1 DEF NextIndex
      <4> QED BY <4>1, <4>2
    <3>3. IndexOf(c, Current'.name) = k
      BY <3>1, IndexOfPosition
    <3> QED BY <1>N, <3>2, <3>3
  <2>4. CASE GoesBack
    <3>1. branch = c /\ Current'.name = RetryStep
      BY <2>4 DEF GoesBack
    <3>2. Current.name = n /\ CurrentStep = Tree[c].steps[x]
      BY <1>x, <1>3, <2>1, <3>1 DEF CurrentStep, Template
    <3>3. Current'.name = n
      BY <3>1, <3>2 DEF RetryStep
    <3> QED BY <1>x, <1>N, <3>3
  <2> QED BY <1>5, <2>2, <2>3, <2>4
<1> QED BY <1>v, <1>x, <1>4, <1>5 DEF Moves

\* Such a branch never goes backward, in however many pieces it is gone through.
LEMMA OnwardNext ==
    ASSUME WellNamed, EngineInv, HistoryInv, [Next]_vars,
           NEW c \in DOMAIN Tree, ~Tree[c].reset_on_switch,
           \A x \in DOMAIN Tree[c].steps : Tree[c].steps[x].reset_to = NoStep,
           Onward(c)
    PROVE  Onward(c)'
<1>k. PICK k \in Nat : k = Len(wsrs)
  BY DEF EngineInv, TypeOK
<1>1. /\ DOMAIN wsrs = 1 .. k
      /\ DOMAIN wsrs' = 1 .. k \/ (DOMAIN wsrs' = 1 .. k + 1 /\ StepRunAt(k + 1)' = Current')
      /\ \A i \in 1 .. k : /\ StepRunAt(i)'.name = StepRunAt(i).name
                          /\ StepRunAt(i)'.branch = StepRunAt(i).branch
  BY <1>k, RowsGrow
<1>2. SUFFICES ASSUME NEW i, NEW j, i \in VisitsOf(c)', j \in VisitsOf(c)', i < j
               PROVE  IndexOf(c, StepRunAt(i)'.name) <= IndexOf(c, StepRunAt(j)'.name)
  BY DEF Onward
<1>3. /\ i \in DOMAIN wsrs' /\ j \in DOMAIN wsrs'
      /\ StepRunAt(i)'.branch = c /\ StepRunAt(j)'.branch = c
  BY <1>2 DEF VisitsOf
<1>4. i \in 1 .. k /\ i \in VisitsOf(c) /\ StepRunAt(i)'.name = StepRunAt(i).name
  <2>1. i \in 1 .. k
    BY <1>1, <1>2, <1>3
  <2> QED BY <1>1, <1>3, <2>1 DEF VisitsOf
<1>5. CASE j \in 1 .. k
  <2>1. j \in VisitsOf(c) /\ StepRunAt(j)'.name = StepRunAt(j).name
    BY <1>1, <1>3, <1>5 DEF VisitsOf
  <2> QED BY <1>2, <1>4, <2>1 DEF Onward
<1>6. CASE j = k + 1
  <2>1. StepRunAt(j)' = Current' /\ Current'.branch = c
    BY <1>1, <1>3, <1>6
  <2>2. wsrs # <<>> /\ Moves
    <3>1. wsrs # <<>>
      BY <1>k, <1>4
    <3> QED BY <3>1, StepMoves DEF HistoryInv
  <2>3. IndexOf(c, StepRunAt(LastVisit(c)).name) <= IndexOf(c, Current'.name)
    BY <1>4, <2>1, <2>2, GoesOnward
  <2>m. PICK m : m = Current'.name
    OBVIOUS
  <2>4. IndexOf(c, m) \in Nat
    <3>1. HasStep(c, m)
      <4>1. wsrs' # <<>>
        BY <2>2, StepMoves DEF HistoryInv
      <4>2. TypeOK' /\ RowsResolve'
        BY EngineInvNext DEF EngineInv
      <4>3. Len(wsrs') \in DOMAIN wsrs'
        BY <4>1, <4>2 DEF TypeOK
      <4> QED BY <2>1, <2>m, <4>2, <4>3 DEF RowsResolve, Current, CurrentId
    <3>2. IndexOf(c, m) \in DOMAIN Tree[c].steps
      BY <3>1, IndexOfFirst
    <3>3. Tree[c].steps \in Seq(StepTemplate)
      BY TreeAssumption DEF StepBranch
    <3> QED BY <3>2, <3>3
  <2>5. \A p, q, r \in Nat : p <= q /\ q <= r => p <= r
    OBVIOUS
  <2> QED BY <1>4, <2>1, <2>3, <2>4, <2>5, <2>m, FurthestLast
<1> QED BY <1>1, <1>3, <1>5, <1>6

\* The branch has been gone through to its last step.
BeenToEnd(c) == \E i \in VisitsOf(c) : StepRunAt(i).name = LastStep(c)

\* It comes to its end by a step that takes the run there.
LEMMA EndReached ==
    ASSUME WellNamed, EngineInv, HistoryInv, [Next]_vars, NEW c, BeenToEnd(c)', ~BeenToEnd(c)
    PROVE  wsrs' # <<>> /\ Current'.branch = c /\ Current'.name = LastStep(c)
<1>k. PICK k \in Nat : k = Len(wsrs)
  BY DEF EngineInv, TypeOK
<1>1. /\ DOMAIN wsrs = 1 .. k
      /\ DOMAIN wsrs' = 1 .. k \/ (DOMAIN wsrs' = 1 .. k + 1 /\ StepRunAt(k + 1)' = Current')
      /\ \A i \in 1 .. k : /\ StepRunAt(i)'.name = StepRunAt(i).name
                          /\ StepRunAt(i)'.branch = StepRunAt(i).branch
  BY <1>k, RowsGrow
<1>2. PICK i : i \in DOMAIN wsrs' /\ StepRunAt(i)'.branch = c /\ StepRunAt(i)'.name = LastStep(c)
  BY DEF BeenToEnd, VisitsOf, LastStep
<1>3. i \notin 1 .. k
  BY <1>1, <1>2 DEF BeenToEnd, VisitsOf
<1>4. i = k + 1 /\ StepRunAt(k + 1)' = Current'
  BY <1>1, <1>2, <1>3
<1>5. wsrs' # <<>>
  BY <1>2
<1> QED BY <1>2, <1>4, <1>5

\* A run that is on a branch which was gone through to its end is at its end.
LEMMA AtEnd ==
    ASSUME WellNamed, EngineInv, wsrs # <<>>, NEW c, Onward(c), BeenToEnd(c), Current.branch = c
    PROVE  Current.name = LastStep(c)
<1>T. TypeOK /\ RowsResolve
  BY DEF EngineInv
<1>k. PICK k \in Nat \ {0} : k = Len(wsrs) /\ DOMAIN wsrs = 1 .. k
  BY <1>T DEF TypeOK
<1>1. k \in VisitsOf(c) /\ StepRunAt(k) = Current
  BY <1>k DEF VisitsOf, StepRunAt, Current, CurrentId
<1>n. PICK n : n = StepRunAt(LastVisit(c)).name
  OBVIOUS
<1>2. n = Current.name
  <2>1. LastVisit(c) \in 1 .. k /\ k <= LastVisit(c)
    BY <1>T, <1>k, <1>1, LastVisitFound
  <2>2. LastVisit(c) = k
    BY <1>k, <2>1
  <2> QED BY <1>n, <1>1, <2>2
<1>3. PICK i \in VisitsOf(c) : StepRunAt(i).name = LastStep(c)
  BY DEF BeenToEnd
<1>4. /\ HasStep(c, n) /\ IndexOf(c, n) \in Nat /\ IndexOf(c, LastStep(c)) \in Nat
      /\ IndexOf(c, LastStep(c)) <= IndexOf(c, n)
  BY <1>n, <1>3, FurthestLast
<1>l. PICK l \in Nat \ {0} : l = Len(Tree[c].steps) /\ DOMAIN Tree[c].steps = 1 .. l
  <2>1. c \in DOMAIN Tree /\ IndexOf(c, n) \in DOMAIN Tree[c].steps
    BY <1>4, IndexOfFirst
  <2>2. Tree[c].steps \in Seq(StepTemplate)
    BY <2>1, TreeAssumption DEF StepBranch
  <2> QED BY <2>1, <2>2
<1>5. IndexOf(c, LastStep(c)) = l
  <2>1. c \in DOMAIN Tree /\ l \in DOMAIN Tree[c].steps
    BY <1>4, <1>l DEF HasStep
  <2> QED BY <1>l, <2>1, IndexOfPosition DEF LastStep
<1>6. IndexOf(c, n) \in 1 .. l /\ Tree[c].steps[IndexOf(c, n)].name = n
  BY <1>4, <1>l, IndexOfFirst
<1>7. IndexOf(c, n) = l
  BY <1>4, <1>5, <1>6, <1>l
<1> QED BY <1>2, <1>6, <1>7, <1>l DEF LastStep

\* A branch that was left at its end has been there.
LEMMA LeftBeen ==
    ASSUME EngineInv, NEW c, LeftAtEnd(c)
    PROVE  BeenToEnd(c)
<1>1. LastVisit(c) \in DOMAIN wsrs /\ StepRunAt(LastVisit(c)).branch = c
  BY LastVisitFound DEF LeftAtEnd, EngineInv, TypeOK
<1> QED BY <1>1 DEF LeftAtEnd, BeenToEnd, VisitsOf

\* As long as no request is cut short, no handler answers only at a dead end.
LEMMA NotServed ==
    ASSUME EngineInv, ResumedInv, [Next]_vars,
           pc' = "respond", reply'.kind = "failed", failures' = 0
    PROVE  /\ wsrs' = wsrs /\ stepRuns' = stepRuns /\ branch' = branch /\ failures = 0
           /\ (pc = "respond" /\ reply.kind = "failed") \/ (pc = "handle" /\ DeadEnd)
<1>T. TypeOK
  BY DEF EngineInv
<1>1. CASE Quiet
  <2>1. wsrs' = wsrs /\ stepRuns' = stepRuns /\ branch' = branch /\ failures = 0
    BY <1>T, <1>1, QuietDoes
  <2>2. ~InitializeRaises /\ ~RejectState
    BY <2>1, ServedAtStart
  <2>3. (pc = "respond" /\ reply.kind = "failed") \/ (pc = "handle" /\ DeadEnd)
    BY <1>1, <2>2 DEF Quiet, vars, request, Request, InitializeCurrent, Start, AcceptInput, AskForInput,
                      PrepareOtherStep, HandleDeadEnd, EndLeg, Respond, Fail, Prompt, Leave
  <2> QED BY <2>1, <2>3
<1>2. CASE InitializeFirst \/ RunStep
  BY <1>2 DEF InitializeFirst, RunStep
<1>3. CASE HandleResult
  BY <1>3 DEF HandleResult, HandlePressZero, HandleReplay, HandleExit, HandleNextInput, HandleNextStep,
              HandleRetry, HandleErrorSwitch, HandleUnrecoverable, ContinueWith, Prompt, Leave
<1> QED BY <1>1, <1>2, <1>3, Steps
=============================================================================
