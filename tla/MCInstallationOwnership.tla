----------------------- MODULE MCInstallationOwnership ----------------------
(* Instances of InstallationOwnership for TLC: executables 0 and 1 have     *)
(* other bytes and the same stamp, 2 is of another version.                 *)
EXTENDS InstallationOwnership, TLC

MCIdentityOf == [exe \in Exes |-> [version |-> IF exe <= 1 THEN 1 ELSE 2, build |-> 0]]

Symmetry == Permutations(Processes) \union Permutations(Paths) \union Permutations(Labels)
=============================================================================
