--------------------------- MODULE MCMetadataFile ---------------------------
(* Instances of MetadataFile for TLC. *)
EXTENDS MetadataFile, TLC

Symmetry == Permutations(Writers) \union Permutations(Readers)
=============================================================================
