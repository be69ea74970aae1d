---------------------------- MODULE MCComponents ----------------------------
(***************************************************************************)
(* Small instances of the components, two of whatever may meet: plans of   *)
(* two parts with and without a dependency, two branches for QA.           *)
(***************************************************************************)
EXTENDS Components

MCPlans == {<<0, 0>>, <<0, 1>>, <<2, 0>>}
MCBranches == <<"main", "next">>
=============================================================================
