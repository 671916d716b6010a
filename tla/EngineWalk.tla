----------------------------- MODULE EngineWalk -----------------------------
(***************************************************************************)
(* The engine implements the walk of TreeWalk: a contact is at the step of  *)
(* the current step run, has been at the steps that have a step run, and is *)
(* being asked while the run waits for input.                               *)
(***************************************************************************)
EXTENDS WorkflowEngine

PositionOf(r) == [branch |-> stepRuns[r].branch, name |-> stepRuns[r].name]

walkAt   == IF wsrs = <<>> THEN [branch |-> NoBranch, name |-> NoStep] ELSE PositionOf(CurrentId)
walkMet  == {PositionOf(r) : r \in DOMAIN stepRuns}
walkMode == CASE state = "uninitialized"         -> "new"
              [] state = "requesting_user_input" -> "asking"
              [] state \in {"error", "finished"} -> "over"
              [] OTHER                           -> "walking"

Walk == INSTANCE TreeWalk WITH at <- walkAt, met <- walkMet, mode <- walkMode

\* The commits of the engine, requests that are cut short included, take the
\* contact only along the tree.
ImplementsTreeWalk == Walk!Spec
=============================================================================
