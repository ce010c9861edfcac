--------------------------- MODULE MCManagedPrefix ---------------------------
(* Instances of ManagedPrefix for TLC: one spec with a configured output, a *)
(* larger one without, and one whose lock forgets the delegate.  Package b  *)
(* ships a file at the path of the output.                                  *)
EXTENDS ManagedPrefix, TLC

CONSTANTS a, b, s1, s2, s3

MCLockOf == [s \in Specs |-> CASE s = s1 -> {a} [] s = s2 -> {a, b} [] s = s3 -> {b}]

Symmetry == Permutations(Processes)
=============================================================================
