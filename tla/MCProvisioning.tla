--------------------------- MODULE MCProvisioning ---------------------------
(***************************************************************************)
(* What operators do to a system that takes calls: its configurations, and *)
(* the files that they apply.  Neither reads the state of the other, so    *)
(* that only one of them moves in a behaviour.                             *)
(***************************************************************************)
EXTENDS WorkflowConfigs, Provisioning

VARIABLE part

MCSymmetry == Permutations(Trees) \cup Permutations(Workers)

Route(target, message, isValid, isActive) ==
    [target |-> target, message |-> message, valid |-> isValid, active |-> isActive]
Greet(target, message)       == [target |-> target, message |-> message]
Holiday(date, queues, valid) == [date |-> date, queues |-> queues, valid |-> valid]

MCRoutingFiles == {
    <<Route("n1", "hello", TRUE, TRUE)>>,
    <<Route("n1", "hi", TRUE, FALSE)>>,
    <<Route("n2", "hello", FALSE, TRUE)>>,
    <<Route("n1", "hi", FALSE, TRUE), Route("n2", "hi", TRUE, TRUE)>>,
    <<Route("n1", "hello", TRUE, TRUE), Route("n2", "hello", TRUE, TRUE)>>,
    <<Route("n2", "hello", TRUE, TRUE), Route("n2", "hi", TRUE, TRUE)>>}

MCGreetingFiles == {
    <<Greet("n1", "hi")>>,
    <<Greet("n2", "hi"), Greet("n1", "hello")>>,
    <<Greet("n1", "hi"), Greet("n1", "hello")>>,
    <<Greet("n1", "hello"), Greet("n1", NoMessage), Greet("n2", "hello")>>}

MCHolidayFiles == {
    <<Holiday("may", <<"q1", "q2">>, TRUE)>>,
    <<Holiday("may", <<"q2">>, TRUE), Holiday("may", <<"q1">>, FALSE)>>,
    <<Holiday("may", <<"q1">>, TRUE), Holiday("june", <<"q1", "q2">>, TRUE)>>,
    <<Holiday("june", <<"q1", "q1">>, TRUE)>>,
    <<Holiday("june", <<"q2">>, TRUE), Holiday("june", <<"q3">>, TRUE)>>}

Init == /\ part \in {"configurations", "files"}
        /\ ConfigsInit /\ ProvisioningInit

Next == \/ /\ part = "configurations" /\ ConfigsNext
           /\ UNCHANGED <<part, provisioningVars>>
        \/ /\ part = "files" /\ ProvisioningNext
           /\ UNCHANGED <<part, configVars>>

Spec == Init /\ [][Next]_<<part, configVars, provisioningVars>>
=============================================================================
