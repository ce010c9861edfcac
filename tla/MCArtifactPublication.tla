----------------------- MODULE MCArtifactPublication -----------------------
(* Instances of ArtifactPublication for TLC. *)
EXTENDS ArtifactPublication, TLC

CONSTANTS a, b, c   \* packages

(* One project in its three layouts: the external and the embedded one are  *)
(* of the same version, but differ in one package.                          *)
MCProjects ==
  { [layout |-> "external", lock |-> {a, b}, version |-> 1],
    [layout |-> "embedded", lock |-> {b, c}, version |-> 1],
    [layout |-> "online", lock |-> {a}, version |-> 2] }
=============================================================================
