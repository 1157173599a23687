------------------------------ MODULE MCRunner ------------------------------
(***************************************************************************)
(* Instances of the runner: three tiles and a hart without one, in a        *)
(* pipeline where tile 1 feeds tiles 0 and 2 and tile 0 feeds tile 2.       *)
(***************************************************************************)
EXTENDS Runner, TLC

Pipeline == (0 :> {2}) @@ (1 :> {0, 2}) @@ (2 :> {})
=============================================================================
