--------------------------- MODULE MCWindowsUpdate ---------------------------
(* Instances of WindowsUpdate for TLC. *)
EXTENDS WindowsUpdate
=============================================================================
