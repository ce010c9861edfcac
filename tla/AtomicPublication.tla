------------------------- MODULE AtomicPublication -------------------------
(***************************************************************************)
(* What the builder promises those who look for a completion marker before *)
(* they use a set of artifacts (trust-and-provenance.md): builds of any    *)
(* number of project roots publish into one directory, one at a time, and  *)
(* each of them replaces the set by its own as a whole.  A reader finds no *)
(* set, or exactly what one build makes of its project.                    *)
(*                                                                         *)
(* There is no bundle directory, no staging and no single file here.       *)
(***************************************************************************)
EXTENDS Naturals

CONSTANTS Builders, Projects, NONE

VARIABLES
  running,     \* of each builder: the build it runs, [no, project], or NONE
  publisher,   \* the builder that publishes, or NONE
  published,   \* the complete set, or NONE
  begun        \* builds begun

vars == <<running, publisher, published, begun>>

(* What a build makes: an executable and an info file of its project, what  *)
(* the project locks, and the packages in the executable or beside it.      *)
ArtifactsOf(r) ==
  LET layout == r.project.layout
      lock == r.project.lock
  IN  [build |-> r, info |-> r.project, sbom |-> r.no,
       lock |-> lock, packages |-> lock,
       embedded |-> IF layout = "embedded" THEN lock ELSE NONE,
       bundle |-> IF layout = "external" THEN lock ELSE NONE,
       verifies |-> TRUE]

Init ==
  /\ running = [b \in Builders |-> NONE]
  /\ publisher = NONE /\ published = NONE /\ begun = 0

Begin(b) ==
  /\ running[b] = NONE
  /\ begun' = begun + 1
  /\ \E j \in Projects :
       running' = [running EXCEPT ![b] = [no |-> begun + 1, project |-> j]]
  /\ UNCHANGED <<publisher, published>>

Acquire(b) ==
  /\ running[b] # NONE
  /\ publisher = NONE /\ publisher' = b
  /\ UNCHANGED <<running, published, begun>>

Retire(b) ==
  /\ publisher = b
  /\ published' = NONE
  /\ UNCHANGED <<running, publisher, begun>>

Ends(b) ==
  /\ running[b] # NONE
  /\ running' = [running EXCEPT ![b] = NONE]
  /\ publisher' = IF publisher = b THEN NONE ELSE publisher
  /\ UNCHANGED begun

(* The old set has been retired; the new one is there at once.              *)
Publish(b) ==
  /\ publisher = b
  /\ published = NONE
  /\ published' = ArtifactsOf(running[b])
  /\ Ends(b)

(* A build that fails or is killed leaves the set as it is.                 *)
Fail(b) == Ends(b) /\ UNCHANGED published

Next ==
  \E b \in Builders :
    Begin(b) \/ Acquire(b) \/ Retire(b) \/ Publish(b) \/ Fail(b)

Spec == Init /\ [][Next]_vars
=============================================================================
