--------------------------- MODULE AtomicMetadata ---------------------------
(***************************************************************************)
(* What the metadata of a prefix promises those who take the BootstrapLock *)
(* (config.rs), with no temporary file, no backup and no rename: a value   *)
(* that is read and written under the lock.  A write takes effect at once  *)
(* and as a whole.  One that is reported as done has taken effect; one     *)
(* that fails, or whose writer dies, has taken effect or not.              *)
(*                                                                         *)
(* Nothing is promised any more once a reader without the lock has moved   *)
(* one of the files.                                                       *)
(***************************************************************************)
EXTENDS Naturals

CONSTANTS Writers, NONE

VARIABLES
  value,      \* the number of the write whose metadata is there
  holder,     \* who holds the lock, or NONE
  read,       \* what each writer has read, or NONE
  pending,    \* the write each writer has begun, or NONE
  begun,      \* the last write begun
  reported,   \* the last write reported as done
  meddled     \* whether a reader without the lock has moved a file

vars == <<value, holder, read, pending, begun, reported, meddled>>

Init ==
  /\ value = 0 /\ begun = 0 /\ reported = 0
  /\ holder = NONE
  /\ read = [w \in Writers |-> NONE] /\ pending = [w \in Writers |-> NONE]
  /\ meddled = FALSE

Acquire(w) ==
  /\ holder = NONE /\ holder' = w
  /\ UNCHANGED <<value, read, pending, begun, reported>>

Read(w) ==
  /\ holder = w /\ read[w] = NONE
  /\ read' = [read EXCEPT ![w] = value]
  /\ UNCHANGED <<value, holder, pending, begun, reported>>

(* Nobody writes who has not read.                                          *)
Begin(w) ==
  /\ holder = w /\ read[w] # NONE /\ pending[w] = NONE
  /\ begun' = begun + 1
  /\ pending' = [pending EXCEPT ![w] = begun + 1]
  /\ UNCHANGED <<value, holder, read, reported>>

Write(w) ==
  /\ holder = w /\ pending[w] # NONE
  /\ value' = pending[w]
  /\ UNCHANGED <<holder, read, pending, begun, reported>>

Release(w) ==
  /\ holder = w /\ holder' = NONE
  /\ read' = [read EXCEPT ![w] = NONE]
  /\ pending' = [pending EXCEPT ![w] = NONE]
  /\ UNCHANGED begun

Report(w) ==
  /\ value = pending[w]
  /\ reported' = pending[w]
  /\ Release(w)
  /\ UNCHANGED value

(* A write that failed may have been undone.                                *)
Fail(w) ==
  /\ value' = value \/ (read[w] # NONE /\ value' = read[w])
  /\ Release(w)
  /\ UNCHANGED reported

Step(w) ==
  Acquire(w) \/ Read(w) \/ Begin(w) \/ Write(w) \/ Report(w) \/ Fail(w)

Next == meddled' \/ (UNCHANGED meddled /\ \E w \in Writers : Step(w))

Spec == Init /\ [][Next]_vars
=============================================================================
