---------------------------- MODULE MetadataFile ----------------------------
(***************************************************************************)
(* How .RUNTIME_NAME.json is replaced and read (config.rs).  A write goes  *)
(* to a temporary file that is renamed over the metadata; where that       *)
(* rename fails, the old file is first moved to a backup.  A reader that   *)
(* finds no metadata restores the temporary file or the backup.            *)
(*                                                                         *)
(* Every writer reads under the BootstrapLock before it writes.  The       *)
(* readers of runtime_update.rs (initialize_current, reconcile_current and *)
(* the helpers) do not take the lock.                                      *)
(*                                                                         *)
(* The content is the number of the write that produced it.                *)
(***************************************************************************)
EXTENDS Naturals

CONSTANTS
  Writers,            \* processes that read and write under the lock
  Readers,            \* processes that only read, without the lock
  MaxWrites,          \* bound on the number of writes begun
  MaxFaults,          \* bound on crashes and failed renames
  RenameMayFail,      \* whether a rename can fail that should succeed
  NONE, Partial       \* no file; a file whose content does not parse

Processes == Writers \union Readers

ASSUME MetadataAssumption ==
  /\ Writers \intersect Readers = {}
  /\ MaxWrites \in Nat /\ MaxFaults \in Nat
  /\ RenameMayFail \in BOOLEAN
  /\ NONE \notin Nat \union Processes /\ Partial \notin Nat /\ NONE # Partial

Contents == 0 .. MaxWrites

VARIABLES
  path, tmp, bak,   \* the metadata, its temporary file and its backup
  lock,             \* holder of the BootstrapLock
  pc,               \* where each process is
  got,              \* what a process read, or NONE
  mine,             \* what a writer is writing, or NONE
  writes,           \* writes begun
  faults,           \* crashes and failed renames
  acked,            \* history: the last write whose persist returned Ok
  meddled           \* history: a reader without the lock moved or removed a file

diskVars == <<path, tmp, bak>>
vars == <<diskVars, lock, pc, got, mine, writes, faults, acked, meddled>>

Init ==
  /\ path = 0 /\ tmp = NONE /\ bak = NONE
  /\ lock = NONE
  /\ pc = [p \in Processes |-> "rest"]
  /\ got = [p \in Processes |-> NONE]
  /\ mine = [p \in Processes |-> NONE]
  /\ writes = 0 /\ faults = 0 /\ acked = 0 /\ meddled = FALSE

-----------------------------------------------------------------------------
Goto(p, label) == pc' = [pc EXCEPT ![p] = label]

(* The operation of p is over: it drops the lock if it holds it.            *)
Ends(p) ==
  /\ Goto(p, "rest")
  /\ got' = [got EXCEPT ![p] = NONE]
  /\ mine' = [mine EXCEPT ![p] = NONE]
  /\ lock' = IF lock = p THEN NONE ELSE lock

(* A rename fails because its source is gone, or for a reason of the        *)
(* operating system's.                                                      *)
RenameFails(source) ==
  \/ source = NONE /\ UNCHANGED faults
  \/ RenameMayFail /\ faults < MaxFaults /\ faults' = faults + 1

(* A read finished with a value: a writer goes on, a reader is done.        *)
ReadReturns(p, value) ==
  IF p \in Readers
    THEN Ends(p)
    ELSE /\ Goto(p, "clean") /\ got' = [got EXCEPT ![p] = value]
         /\ UNCHANGED <<lock, mine>>

Start(p) ==
  /\ pc[p] = "rest"
  /\ IF p \in Writers
       THEN lock = NONE /\ lock' = p /\ writes < MaxWrites
       ELSE UNCHANGED lock
  /\ Goto(p, "read")
  /\ UNCHANGED <<diskVars, got, mine, writes, faults, acked, meddled>>

-----------------------------------------------------------------------------
(* read_metadata_for *)

ReadPath(p) ==
  /\ pc[p] = "read"
  /\ CASE path = NONE    -> Goto(p, "read-tmp") /\ UNCHANGED <<got, mine, lock>>
       [] path = Partial -> Ends(p)
       [] OTHER          -> ReadReturns(p, path)
  /\ UNCHANGED <<diskVars, writes, faults, acked, meddled>>

(* A file that does not parse makes the read fail.                          *)
ReadTmp(p) ==
  /\ pc[p] = "read-tmp"
  /\ CASE tmp = NONE    -> Goto(p, "read-bak") /\ UNCHANGED <<got, mine, lock>>
       [] tmp = Partial -> Ends(p)
       [] OTHER         -> /\ got' = [got EXCEPT ![p] = tmp]
                           /\ Goto(p, "restore-tmp")
                           /\ UNCHANGED <<mine, lock>>
  /\ UNCHANGED <<diskVars, writes, faults, acked, meddled>>

ReadReturnsPath(p) ==
  IF path \in Contents THEN ReadReturns(p, path) ELSE Ends(p)

(* The final try: the metadata may have appeared, otherwise the read fails. *)
ReadBak(p) ==
  /\ pc[p] = "read-bak"
  /\ CASE bak = NONE    -> ReadReturnsPath(p)
       [] bak = Partial -> Ends(p)
       [] OTHER         -> /\ got' = [got EXCEPT ![p] = bak]
                           /\ Goto(p, "restore-bak")
                           /\ UNCHANGED <<mine, lock>>
  /\ UNCHANGED <<diskVars, writes, faults, acked, meddled>>

Meddles(p, moved) == meddled' = (meddled \/ (p \in Readers /\ moved))

(* restore_metadata_path: when the rename fails somebody else has restored   *)
(* the metadata, or the read fails.  Restoring the temporary file, and then *)
(* removing the backup:                                                     *)
RestoreTmp(p) ==
  /\ pc[p] = "restore-tmp"
  /\ \/ /\ tmp # NONE
        /\ path' = tmp /\ tmp' = NONE /\ UNCHANGED <<bak, faults>>
        /\ Goto(p, "remove-bak")
        /\ UNCHANGED <<got, mine, lock>>
     \/ /\ RenameFails(tmp)
        /\ IF path \in Contents
             THEN /\ got' = [got EXCEPT ![p] = path] /\ Goto(p, "remove-bak")
                  /\ UNCHANGED <<mine, lock>>
             ELSE Ends(p)
        /\ UNCHANGED diskVars
  /\ Meddles(p, tmp' # tmp)
  /\ UNCHANGED <<writes, acked>>

RemoveBak(p) ==
  /\ pc[p] = "remove-bak"
  /\ bak' = NONE
  /\ Meddles(p, bak # NONE)
  /\ ReadReturns(p, got[p])
  /\ UNCHANGED <<path, tmp, writes, faults, acked>>

(* Restoring the backup:                                                    *)
RestoreBak(p) ==
  /\ pc[p] = "restore-bak"
  /\ \/ /\ bak # NONE
        /\ path' = bak /\ bak' = NONE /\ UNCHANGED <<tmp, faults>>
        /\ ReadReturns(p, got[p])
     \/ RenameFails(bak) /\ ReadReturnsPath(p) /\ UNCHANGED diskVars
  /\ Meddles(p, bak' # bak)
  /\ UNCHANGED <<writes, acked>>

-----------------------------------------------------------------------------
(* persist_metadata_for *)

(* Mutation of Clean: the metadata is removed to make room for the new.     *)
CleanMetadata(p) ==
  /\ pc[p] = "clean"
  /\ tmp' = NONE /\ path' = NONE
  /\ Goto(p, "create")
  /\ UNCHANGED <<bak, lock, got, mine, writes, faults, acked, meddled>>

Clean(p) ==
  /\ pc[p] = "clean"
  /\ tmp' = NONE
  /\ Goto(p, "create")
  /\ UNCHANGED <<path, bak, lock, got, mine, writes, faults, acked, meddled>>

(* Create the temporary file ...                                            *)
Create(p) ==
  /\ pc[p] = "create"
  /\ tmp = NONE
  /\ tmp' = Partial
  /\ writes' = writes + 1
  /\ mine' = [mine EXCEPT ![p] = writes + 1]
  /\ Goto(p, "fill")
  /\ UNCHANGED <<path, bak, lock, got, faults, acked, meddled>>

(* ... write it and sync it, wherever a reader has moved it in between.     *)
Fill(p) ==
  /\ pc[p] = "fill"
  /\ IF tmp = Partial
       THEN tmp' = mine[p] /\ UNCHANGED path
       ELSE path' = mine[p] /\ UNCHANGED tmp
  /\ Goto(p, "replace")
  /\ UNCHANGED <<bak, lock, got, mine, writes, faults, acked, meddled>>

(* Mutation of Replace: a failed rename is reported as done.                *)
ReplaceIgnoringErrors(p) ==
  /\ pc[p] = "replace"
  /\ \/ tmp # NONE /\ path' = tmp /\ tmp' = NONE /\ UNCHANGED faults
     \/ RenameFails(tmp) /\ UNCHANGED <<path, tmp>>
  /\ Goto(p, "finish")
  /\ UNCHANGED <<bak, got, mine, lock, writes, acked, meddled>>

(* The usual case: one atomic rename.  If it fails there is nothing more to *)
(* try unless the old metadata is still there.                              *)
Replace(p) ==
  /\ pc[p] = "replace"
  /\ \/ /\ tmp # NONE
        /\ path' = tmp /\ tmp' = NONE
        /\ Goto(p, "finish")
        /\ UNCHANGED <<bak, got, mine, lock, faults>>
     \/ /\ RenameFails(tmp)
        /\ IF path = NONE
             THEN Ends(p)
             ELSE Goto(p, "clear-bak") /\ UNCHANGED <<got, mine, lock>>
        /\ UNCHANGED diskVars
  /\ UNCHANGED <<writes, acked, meddled>>

ClearBak(p) ==
  /\ pc[p] = "clear-bak"
  /\ bak' = NONE
  /\ Goto(p, "preserve")
  /\ UNCHANGED <<path, tmp, lock, got, mine, writes, faults, acked, meddled>>

(* Move the old metadata to the backup.                                     *)
Preserve(p) ==
  /\ pc[p] = "preserve"
  /\ \/ /\ path # NONE
        /\ bak' = path /\ path' = NONE
        /\ Goto(p, "retry")
        /\ UNCHANGED <<tmp, got, mine, lock, faults>>
     \/ RenameFails(path) /\ Ends(p) /\ UNCHANGED diskVars
  /\ UNCHANGED <<writes, acked, meddled>>

Retry(p) ==
  /\ pc[p] = "retry"
  /\ \/ /\ tmp # NONE
        /\ path' = tmp /\ tmp' = NONE
        /\ Goto(p, "finish")
        /\ UNCHANGED <<bak, faults>>
     \/ RenameFails(tmp) /\ Goto(p, "rollback") /\ UNCHANGED diskVars
  /\ UNCHANGED <<got, mine, lock, writes, acked, meddled>>

(* Put the old metadata back; the persist fails either way.                 *)
Rollback(p) ==
  /\ pc[p] = "rollback"
  /\ \/ bak # NONE /\ path' = bak /\ bak' = NONE /\ UNCHANGED <<tmp, faults>>
     \/ RenameFails(bak) /\ UNCHANGED diskVars
  /\ Ends(p)
  /\ UNCHANGED <<writes, acked, meddled>>

(* Remove the backup and return Ok.                                         *)
FinishPersist(p) ==
  /\ pc[p] = "finish"
  /\ bak' = NONE
  /\ acked' = mine[p]
  /\ Ends(p)
  /\ UNCHANGED <<path, tmp, writes, faults, meddled>>

(* A process is killed; the operating system frees its lock.                *)
Crash(p) ==
  /\ pc[p] # "rest"
  /\ faults < MaxFaults
  /\ faults' = faults + 1
  /\ Ends(p)
  /\ UNCHANGED <<diskVars, writes, acked, meddled>>

Step(p) ==
  \/ Start(p)
  \/ ReadPath(p) \/ ReadTmp(p) \/ ReadBak(p)
  \/ RestoreTmp(p) \/ RemoveBak(p) \/ RestoreBak(p)
  \/ Clean(p) \/ Create(p) \/ Fill(p) \/ Replace(p) \/ ClearBak(p)
  \/ Preserve(p) \/ Retry(p) \/ Rollback(p) \/ FinishPersist(p)

Next == \E p \in Processes : Step(p) \/ Crash(p)

Spec == Init /\ [][Next]_vars
-----------------------------------------------------------------------------
(* Properties *)

(* What read_metadata_for returns to the next reader.                       *)
Effective == IF path # NONE THEN path ELSE IF tmp # NONE THEN tmp ELSE bak

(* "The updated values are persisted in .RUNTIME_NAME.json, which is the    *)
(* source of truth for later checks" (runtime-cli.md): a write that was     *)
(* reported as done is there for whoever takes the lock next, unless a      *)
(* reader without the lock restored a file in between.  Crashes, failed     *)
(* renames and other writers do not undo a write.                           *)
DurableUnlessMeddled == ~meddled /\ lock = NONE => Effective \in acked .. MaxWrites

(* A write is all or nothing for whoever takes the lock next: wherever its  *)
(* writer fails or dies, the next reader gets the metadata the writer has   *)
(* read or the metadata it has begun to write.  This is what Persisted in   *)
(* ExecutableUpdate and WindowsUpdate relies on (persist_metadata_for).     *)
WritesAreAllOrNothing ==
  [][\A p \in Writers :
       lock = p /\ lock' = NONE /\ got[p] # NONE /\ ~meddled
         => Effective' \in {got[p], mine[p]} \ {NONE}]_lock

(* What writers have, of what all processes have.                           *)
OfWriters(f) == [w \in Writers |-> f[w]]

Atomic == INSTANCE AtomicMetadata
            WITH value <- Effective, holder <- lock, read <- OfWriters(got),
                 pending <- OfWriters(mine), begun <- writes, reported <- acked

(* Under the lock the three files are one value, until a reader without the *)
(* lock moves one: a writer reads what the last one left, its write takes   *)
(* effect in one step, a write that persist_metadata_for reports has taken  *)
(* effect, one that fails or is killed has taken effect or not, and nothing *)
(* changes while nobody holds the lock.                                     *)
ImplementsAtomicMetadata == Atomic!Spec

-----------------------------------------------------------------------------
(* Why it is durable: the inductive invariant *)

ReaderPCs == {"rest", "read", "read-tmp", "read-bak", "restore-tmp", "remove-bak", "restore-bak"}
PersistPCs == {"fill", "replace", "clear-bak", "preserve", "retry", "rollback", "finish"}
PCs == ReaderPCs \union {"clean", "create"} \union PersistPCs

(* Besides the types: a writer at work holds the lock, has read something   *)
(* once it is past the read, and the write it has begun is the last one.    *)
TypeOK ==
  /\ path \in Contents \union {NONE, Partial}
  /\ tmp \in Contents \union {NONE, Partial}
  /\ bak \in Contents \union {NONE, Partial}
  /\ lock \in Writers \union {NONE}
  /\ pc \in [Processes -> PCs] /\ \A r \in Readers : pc[r] \in ReaderPCs
  /\ \A w \in Writers : lock = w <=> pc[w] # "rest"
  /\ \A w \in Writers : pc[w] \in PCs \ (PersistPCs \union {"rest"}) => writes < MaxWrites
  /\ got \in [Processes -> Contents \union {NONE}]
  /\ \A w \in Writers : pc[w] \in {"rest", "read", "read-tmp"} => got[w] = NONE
  /\ mine \in [Processes -> Contents \union {NONE}]
  /\ \A w \in Writers : pc[w] \in PersistPCs => mine[w] = writes
  /\ writes \in Contents /\ faults \in 0 .. MaxFaults /\ acked \in 0 .. writes
  /\ meddled \in BOOLEAN

(* The write that was reported last, or one begun since.                    *)
Current == acked .. writes

(* What the steps of a writer leave to whoever comes after it.              *)
Sound == path \in Current \/ (path = NONE /\ tmp \in Current)

(* What the writer relies on at each of its steps: the metadata it read is  *)
(* there until the new file is complete, or in the backup.                  *)
Progress(w) ==
  /\ pc[w] \notin {"read-bak", "restore-bak"}
  /\ pc[w] = "read-tmp" => path = NONE
  /\ pc[w] = "restore-tmp" => path = NONE /\ got[w] = tmp
  /\ pc[w] \in {"remove-bak", "clean", "create", "fill", "replace", "clear-bak", "preserve"} =>
       path \in Current /\ got[w] = path
  /\ pc[w] = "create" => tmp = NONE
  /\ pc[w] = "fill" => tmp = Partial
  /\ pc[w] \in {"replace", "clear-bak", "preserve", "retry", "rollback"} => tmp = writes
  /\ pc[w] \in {"retry", "rollback"} => path = NONE /\ bak = got[w]
  /\ pc[w] = "finish" => path = writes
  /\ pc[w] \in {"retry", "rollback", "finish"} => got[w] \in Current

DiskInv == Sound /\ \A w \in Writers : Progress(w)

IInv == TypeOK /\ (~meddled => DiskInv)
=============================================================================
