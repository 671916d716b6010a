------------------------------ MODULE TreeWalk ------------------------------
(***************************************************************************)
(* What a workflow run promises about the step tree, without the rows, the  *)
(* commits and the retries by which it is kept: a contact is at one step of *)
(* the tree at a time, is asked only by steps that ask, and moves from step *)
(* to step only along the tree.                                             *)
(***************************************************************************)
EXTENDS StepTree

VARIABLES
    at,    \* the step the contact is at
    met,   \* the steps the contact has been at
    mode   \* "new", "walking", "asking" or "over"

walk == <<at, met, mode>>

Position == [branch : BranchNames, name : StepNames]
Nowhere  == [branch |-> NoBranch, name |-> NoStep]
First(b) == [branch |-> b, name |-> Tree[b].steps[1].name]

TemplateAt(p) == Template(p.branch, p.name)

\* q is the step after p on its branch.
Follows(p, q) ==
    /\ HasStep(p.branch, p.name)
    /\ q.branch = p.branch
    /\ IndexOf(p.branch, p.name) < Len(Tree[p.branch].steps)
    /\ q.name = Tree[p.branch].steps[IndexOf(p.branch, p.name) + 1].name

\* A branch is entered at its first step or, unless it starts over each time,
\* after a step at which the contact has been.
Enters(q) ==
    /\ q.branch \in DOMAIN Tree
    /\ \/ Len(Tree[q.branch].steps) > 0 /\ q = First(q.branch)
       \/ \E p \in met : p.branch = q.branch /\ Follows(p, q)

Init == at = Nowhere /\ met = {} /\ mode = "new"

Begin == mode = "new" /\ at' = First(Root) /\ met' = {at'} /\ mode' = "walking"

\* The step the contact is at asks, or has been answered.
Ask    == mode = "walking" /\ mode' = "asking" /\ UNCHANGED <<at, met>>
Answer == mode = "asking" /\ mode' = "walking" /\ UNCHANGED <<at, met>>

\* On to another step, which may ask at once.
Move == /\ mode = "walking"
        /\ mode' \in {"walking", "asking"}
        /\ Enters(at')
        /\ met' = met \cup {at'}

\* Back to a step of the branch at which the contact has been.
Return == /\ mode = "walking"
          /\ mode' \in {"walking", "asking"}
          /\ at' \in met
          /\ met' = met

Leave == mode = "walking" /\ mode' = "over" /\ UNCHANGED <<at, met>>

Next == Begin \/ Ask \/ Answer \/ Move \/ Return \/ Leave

Spec == Init /\ [][Next]_walk
=============================================================================
