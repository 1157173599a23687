-------------------------- MODULE MCCodeGeneration --------------------------
(***************************************************************************)
(* Instances for TLC: runs for an application with two tiles and two inputs,*)
(* for the same with one tile and no input, for another of the two tiles and*)
(* one of the inputs, and runs that are refused at each of the checks.     *)
(***************************************************************************)
EXTENDS CodeGeneration

Request ==
  [ stem |-> "model", tiles |-> {"00", "01"}, inputs |-> {"x", "y"},
    accepted |-> TRUE, initializers |-> TRUE, types |-> TRUE ]

NamedRequests ==
  { Request,
    [Request EXCEPT !.tiles = {"00"}, !.inputs = {}],
    [Request EXCEPT !.stem = "other", !.tiles = {"01"}, !.inputs = {"x"}],
    [Request EXCEPT !.accepted = FALSE],
    [Request EXCEPT !.initializers = FALSE],
    [Request EXCEPT !.types = FALSE] }

\* No --maps-magia-output-stem is given.
DefaultRequests == {[Request EXCEPT !.stem = "application"]}
=============================================================================
