------------------------- MODULE MCExecutableUpdate -------------------------
(* Instances of ExecutableUpdate for TLC. *)
EXTENDS ExecutableUpdate, TLC

(* Coordinators are interchangeable, and so are ordinary invocations. *)
Symmetry == Permutations(Coordinators) \union Permutations(Invokers)
=============================================================================
