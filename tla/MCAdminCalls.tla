---------------------------- MODULE MCAdminCalls ----------------------------
(***************************************************************************)
(* Instance of AdminCalls for TLC.  Calls differ only in the user of their  *)
(* phone and workers not at all, so that states that are the same but for   *)
(* their names are counted once.                                            *)
(***************************************************************************)
EXTENDS AdminCalls, TLC

MCCreatedWith == {<<"none", "none">>}
MCChangedTo   == {<<"scheduled", "none">>}

CallsAndWorkers == Permutations(Calls) \cup Permutations(Workers)
=============================================================================
