---------------------------- MODULE WindowsUpdate ----------------------------
(***************************************************************************)
(* Deferred replacement of the executable on Windows.  An executable that  *)
(* runs cannot be overwritten or deleted, so the process that would        *)
(* replace it leaves a copy of the old executable next to it, starts that  *)
(* copy as a worker, and exits; the worker replaces the stable path once   *)
(* nothing runs from it, and a later invocation removes the copy.          *)
(*                                                                         *)
(* The steps that do not depend on the platform are those of               *)
(* ExecutableUpdate and are coarser here: a coordinator's staging, and the *)
(* discard of a candidate it did not approve, are one step each.           *)
(***************************************************************************)
EXTENDS UpdateRecord, FiniteSets

CONSTANTS
  Runtimes,         \* processes started from the stable path
  Workers,          \* replacement workers; bounds how many live at once
  NONE,             \* no process, no file, no place
  MaxFaults,        \* bound on crashes, failed calls, timeouts and lost files
  TargetMayVanish   \* whether somebody moves the stable executable away

Processes == Runtimes \union Workers

ASSUME WindowsAssumption ==
  /\ Runtimes \intersect Workers = {}
  /\ NONE \notin Processes \union Nat
  /\ MaxFaults \in Nat
  /\ TargetMayVanish \in BOOLEAN

VARIABLES
  meta,         \* committed version and pending update
  target,       \* version at the stable path, or NONE
  candidates,   \* versions whose candidate file exists
  backups,      \* versions of which a backup (the worker's file) exists
  copies,       \* versions of which an uncommitted backup (.tmp.exe) exists
  bootLock,     \* holder of the BootstrapLock
  coordinated,  \* a coordinator holds the update lock
  pc, op, out,  \* as in ExecutableUpdate
  image,        \* the place whose file a process runs, or NONE
  worker,       \* the version a worker is the copy of
  faults,
  moved         \* history: somebody moved the stable executable away

files == <<meta, target, candidates, backups, copies>>
procs == <<pc, op, out, image, worker>>
vars  == <<files, bootLock, coordinated, procs, faults, moved>>

Places   == {"target", "backup", "elsewhere"}
Ops      == {"none", "recover", "discard", "mark", "apply", "replace"}
PCs      == {"rest", "want", "prepare", "link", "replacing", "spawn", "restore",
             "restore-only", "cleanup", "remove", "commit", "abandon", "discard",
             "clear", "done", "delegate"}
Locked   == PCs \ {"rest", "want", "done", "delegate"}
Outcomes == {"none", "staged", "discarded", "applied", "restored", "cleanup-pending",
             "replacement-pending", "error"}

Init ==
  /\ meta = [version |-> 0, pending |-> NoPending]
  /\ target = 0
  /\ candidates = {} /\ backups = {} /\ copies = {}
  /\ bootLock = NONE /\ coordinated = FALSE
  /\ pc = [p \in Processes |-> "rest"]
  /\ op = [p \in Processes |-> "none"]
  /\ out = [p \in Processes |-> "none"]
  /\ image = [p \in Processes |-> NONE]
  /\ worker = [w \in Workers |-> 0]
  /\ faults = 0 /\ moved = FALSE

-----------------------------------------------------------------------------
InUse(place) == \E p \in Processes : image[p] = place

(* regular_file_present for the three files of the pending update.          *)
Classified ==
  [classify_files(meta, target, meta.pending.version \in candidates, meta.version \in backups)
     EXCEPT !.target = IF target = NONE THEN "missing" ELSE @]

(* Mutation of WindowsRecovery: a replacement that was committed to the      *)
(* stable path is only finished while the backup is still there.            *)
RecoveryExpectsBackup(phase, f) ==
  CASE phase = "none" -> "nothing"
    [] phase = "staged" /\ f = StagedFiles -> "discard"
    [] phase = "staged" /\ f = LostFiles -> "clear"
    [] phase \in {"ready", "replacing"} /\ f.target = "old" /\ f.candidate = "new" -> "prepare"
    [] phase \in {"ready", "replacing"} /\ f = LostFiles -> "clear"
    [] phase \in {"ready", "replacing"} /\ f = Files("old", "missing", "old") -> "abandon"
    [] phase = "replacing" /\ f = Files("new", "missing", "old") -> "cleanup"
    [] phase = "cleanup" /\ f = Files("new", "missing", "old") -> "remove"
    [] OTHER -> "invalid"

(* The first thing recover_pending_with, apply_pending and                  *)
(* recover_or_schedule_windows_locked do in each phase.                     *)
WindowsRecovery(phase, f) ==
  CASE phase = "none" -> "nothing"
    [] phase = "staged" /\ f = StagedFiles -> "discard"
    [] phase = "staged" /\ f = LostFiles -> "clear"
    [] phase \in {"ready", "replacing"} /\ f.target = "old" /\ f.candidate = "new" -> "prepare"
    [] phase \in {"ready", "replacing"} /\ f = LostFiles -> "clear"
    [] phase \in {"ready", "replacing"} /\ f = Files("old", "missing", "old") -> "abandon"
    [] phase = "replacing" /\ f = Files("missing", "new", "old") -> "restore"
    [] phase = "replacing" /\ f = Files("missing", "missing", "old") -> "restore-only"
    [] phase = "replacing" /\ f = Files("new", "missing", "old") -> "cleanup"
    [] phase = "cleanup" /\ f = Files("new", "missing", "old") -> "remove"
    [] phase \in {"replacing", "cleanup"} /\ f = SwappedFiles -> "commit"
    [] OTHER -> "invalid"

Goto(p, label) == pc' = [pc EXCEPT ![p] = label]

Lock(p, label) == bootLock' = p /\ Goto(p, label) /\ UNCHANGED out

Return(p, outcome) ==
  /\ bootLock' = NONE
  /\ Goto(p, "done")
  /\ out' = [out EXCEPT ![p] = outcome]

CallFails(p) ==
  /\ faults < MaxFaults /\ faults' = faults + 1
  /\ Return(p, "error")

Persisted(p, new, outcome) ==
  \/ meta' = new /\ Return(p, outcome) /\ UNCHANGED faults
  \/ meta' \in {meta, new} /\ CallFails(p)

(* Record a phase and go on under the lock.                                 *)
PersistedPhase(p, phase, label) ==
  \/ meta' = set_phase(meta, phase) /\ Goto(p, label) /\ UNCHANGED <<bootLock, out, faults>>
  \/ meta' \in {meta, set_phase(meta, phase)} /\ CallFails(p)

Enter(p, ops) == pc[p] = "want" /\ op[p] \in ops /\ bootLock = NONE

Recover(p) ==
  LET next == WindowsRecovery(meta.pending.phase, Classified)
  IN  IF next = "invalid"
        THEN Return(p, "error")
        ELSE Lock(p, next)

(* Mutation of RecoverPending: a coordinator's check drops an approved       *)
(* candidate like an unapproved one.                                        *)
DiscardApproved(p) ==
  /\ Enter(p, {"recover", "discard"})
  /\ LET next == WindowsRecovery(meta.pending.phase, Classified) IN
       CASE next = "nothing" -> Return(p, "none")
         [] next = "discard" /\ op[p] = "recover" /\ coordinated -> Return(p, "staged")
         [] op[p] = "discard" /\ next \in {"discard", "prepare"} -> Lock(p, "clear")
         [] OTHER -> Recover(p)
  /\ UNCHANGED <<files, coordinated, op, image, worker, faults, moved>>

(* recover_pending (an invocation) and discard_unapproved (check or stage). *)
RecoverPending(p) ==
  /\ Enter(p, {"recover", "discard"})
  /\ LET next == WindowsRecovery(meta.pending.phase, Classified) IN
       CASE next = "nothing" -> Return(p, "none")
         [] next = "discard" /\ op[p] = "recover" /\ coordinated -> Return(p, "staged")
         [] next = "discard" /\ ~(op[p] = "recover" /\ coordinated) -> Lock(p, "discard")
         [] OTHER -> Recover(p)
  /\ UNCHANGED <<files, coordinated, op, image, worker, faults, moved>>

(* mark_pending_ready, then on to apply_pending.                            *)
MarkPendingReady(p) ==
  /\ Enter(p, {"mark"})
  /\ LET Approved == op' = [op EXCEPT ![p] = "apply"] /\ UNCHANGED <<bootLock, pc, out>>
     IN  CASE meta.pending.phase = "staged" /\ Classified = StagedFiles ->
                \/ meta' = set_phase(meta, "ready") /\ Approved /\ UNCHANGED faults
                \/ /\ meta' \in {meta, set_phase(meta, "ready")}
                   /\ CallFails(p) /\ UNCHANGED op
           [] meta.pending.phase = "ready" -> Approved /\ UNCHANGED <<meta, faults>>
           [] OTHER -> Return(p, "error") /\ UNCHANGED <<meta, op, faults>>
  /\ UNCHANGED <<target, candidates, backups, copies, coordinated, image, worker, moved>>

ApplyPending(p) ==
  /\ Enter(p, {"apply"})
  /\ CASE meta.pending.phase = "none"                    -> Return(p, "none")
       [] meta.pending.phase = "staged"                  -> Return(p, "error")
       [] meta.pending.phase \notin {"none", "staged"}   -> Recover(p)
  /\ UNCHANGED <<files, coordinated, op, image, worker, faults, moved>>

-----------------------------------------------------------------------------
(* prepare_and_spawn_windows_worker_locked *)

(* Mutation of PrepareWorker: the worker is never committed to its path.     *)
PrepareUncommitted(p) ==
  /\ pc[p] = "prepare"
  /\ copies' = copies \union {meta.version}
  /\ Goto(p, "replacing")
  /\ UNCHANGED <<meta, target, candidates, backups, bootLock, coordinated, op, out, image,
                 worker, faults, moved>>

(* stage_windows_worker_backup: a backup left behind is used again and a    *)
(* temporary copy beside it removed, and so is a temporary copy.            *)
PrepareWorker(p) ==
  /\ pc[p] = "prepare"
  /\ \/ /\ meta.version \in backups
        /\ copies' = copies \ {meta.version}
        /\ Goto(p, "replacing")
        /\ UNCHANGED <<bootLock, out, faults>>
     \/ /\ meta.version \notin backups
        /\ copies' = copies \union {meta.version}
        /\ Goto(p, "link")
        /\ UNCHANGED <<bootLock, out, faults>>
     \/ CallFails(p) /\ UNCHANGED copies
  /\ UNCHANGED <<meta, target, candidates, backups, coordinated, op, image, worker, moved>>

LinkWorker(p) ==
  /\ pc[p] = "link"
  /\ \/ /\ copies' = copies \ {meta.version}
        /\ backups' = backups \union {meta.version}
        /\ Goto(p, "replacing")
        /\ UNCHANGED <<bootLock, out, faults>>
     \/ CallFails(p) /\ UNCHANGED <<copies, backups>>
  /\ UNCHANGED <<meta, target, candidates, coordinated, op, image, worker, moved>>

RecordReplacing(p) ==
  /\ pc[p] = "replacing"
  /\ PersistedPhase(p, "replacing", "spawn")
  /\ UNCHANGED <<target, candidates, backups, copies, coordinated, op, image, worker, moved>>

(* spawn_windows_worker: the worker runs from the backup.                   *)
SpawnWorker(p) ==
  /\ pc[p] = "spawn"
  /\ \/ \E w \in Workers :
          /\ pc[w] = "rest"
          /\ bootLock' = NONE
          /\ pc' = [pc EXCEPT ![p] = "done", ![w] = "want"]
          /\ op' = [op EXCEPT ![w] = "replace"]
          /\ out' = [out EXCEPT ![p] = "replacement-pending"]
          /\ image' = [image EXCEPT ![w] = "backup"]
          /\ worker' = [worker EXCEPT ![w] = meta.version]
          /\ UNCHANGED faults
     \/ CallFails(p) /\ UNCHANGED <<op, image, worker>>
  /\ UNCHANGED <<files, coordinated, moved>>

(* Put the backup back at the stable path; a worker that runs from it moves *)
(* along with it.                                                           *)
RestoreTarget(p) ==
  /\ pc[p] \in {"restore", "restore-only"}
  /\ \/ /\ target' = meta.version
        /\ backups' = backups \ {meta.version}
        /\ image' = [q \in Processes |-> IF image[q] = "backup" THEN "target" ELSE image[q]]
        /\ Goto(p, IF pc[p] = "restore" THEN "prepare" ELSE "clear")
        /\ UNCHANGED <<bootLock, out, faults>>
     \/ CallFails(p) /\ UNCHANGED <<target, backups, image>>
  /\ UNCHANGED <<meta, candidates, copies, coordinated, op, worker, moved>>

(* The worker was interrupted after the rename: record it, then clean up.   *)
RecordCleanup(p) ==
  /\ pc[p] = "cleanup"
  /\ PersistedPhase(p, "cleanup", "remove")
  /\ UNCHANGED <<target, candidates, backups, copies, coordinated, op, image, worker, moved>>

(* Mutation of RemoveBackup: a replaced executable is not committed.        *)
RemoveAndForget(p) ==
  /\ pc[p] \in {"remove", "abandon"}
  /\ ~InUse("backup")
  /\ backups' = backups \ {meta.version}
  /\ Goto(p, "clear")
  /\ UNCHANGED <<meta, target, candidates, copies, bootLock, coordinated, op, out, image,
                 worker, faults, moved>>

(* finish_cleanup_locked and abandon_missing_candidate: remove the backup;  *)
(* while a worker runs from it that fails, and is left for later.           *)
RemoveBackup(p) ==
  /\ pc[p] \in {"remove", "abandon"}
  /\ \/ /\ ~InUse("backup")
        /\ backups' = backups \ {meta.version}
        /\ Goto(p, IF pc[p] = "remove" THEN "commit" ELSE "clear")
        /\ UNCHANGED <<bootLock, out, faults>>
     \/ /\ UNCHANGED backups
        /\ Return(p, "cleanup-pending")
        /\ IF InUse("backup")
             THEN UNCHANGED faults
             ELSE faults < MaxFaults /\ faults' = faults + 1
  /\ UNCHANGED <<meta, target, candidates, copies, coordinated, op, image, worker, moved>>

Commit(p) ==
  /\ pc[p] = "commit"
  /\ Persisted(p, CommitNewVersion(meta), "applied")
  /\ UNCHANGED <<target, candidates, backups, copies, coordinated, op, image, worker, moved>>

(* Remove the candidate nobody approved, or find it gone.                   *)
DiscardCandidate(p) ==
  /\ pc[p] = "discard"
  /\ \/ /\ candidates' = candidates \ {meta.pending.version}
        /\ Goto(p, "clear")
        /\ UNCHANGED <<bootLock, out, faults>>
     \/ CallFails(p) /\ UNCHANGED candidates
  /\ UNCHANGED <<meta, target, backups, copies, coordinated, op, image, worker, moved>>

(* Give up the pending update.                                              *)
Clear(p) ==
  /\ pc[p] = "clear"
  /\ Persisted(p, clear_pending(meta),
               IF meta.pending.phase = "staged" THEN "discarded" ELSE "restored")
  /\ UNCHANGED <<target, candidates, backups, copies, coordinated, op, image, worker, moved>>

EngineStep(p) ==
  \/ RecoverPending(p) \/ MarkPendingReady(p) \/ ApplyPending(p)
  \/ PrepareWorker(p) \/ LinkWorker(p) \/ RecordReplacing(p) \/ SpawnWorker(p)
  \/ RestoreTarget(p) \/ RecordCleanup(p) \/ RemoveBackup(p)
  \/ Commit(p) \/ DiscardCandidate(p) \/ Clear(p)

-----------------------------------------------------------------------------
(* run_windows_worker *)

Exits(p) ==
  /\ pc' = [pc EXCEPT ![p] = "rest"]
  /\ op' = [op EXCEPT ![p] = "none"]
  /\ out' = [out EXCEPT ![p] = "none"]
  /\ image' = [image EXCEPT ![p] = NONE]
  /\ worker' = IF p \in Workers THEN [worker EXCEPT ![p] = 0] ELSE worker

WorkerEnters(w) == pc[w] = "want" /\ op[w] = "replace" /\ bootLock = NONE

(* validate_windows_worker_path: the worker is the recorded backup.         *)
IsRecordedWorker(w) == worker[w] = meta.version /\ meta.version \in backups

ReplaceableFiles == Files("old", "new", "old")

(* The rename fails, and is tried again later, while anything runs from the *)
(* stable path.                                                             *)
WorkerReplaces(w) ==
  /\ WorkerEnters(w)
  /\ IsPending(meta) /\ IsRecordedWorker(w)
  /\ meta.pending.phase = "replacing" /\ Classified = ReplaceableFiles
  /\ ~InUse("target")
  /\ target' = meta.pending.version
  /\ candidates' = candidates \ {meta.pending.version}
  /\ Lock(w, "cleanup")
  /\ UNCHANGED <<meta, backups, copies, coordinated, op, image, worker, faults, moved>>

WorkerFindsReplaced(w) ==
  /\ WorkerEnters(w)
  /\ IsPending(meta) /\ IsRecordedWorker(w)
  /\ meta.pending.phase \in {"replacing", "cleanup"}
  /\ Classified = Files("new", "missing", "old")
  /\ Lock(w, "cleanup")
  /\ UNCHANGED <<files, coordinated, op, image, worker, faults, moved>>

(* The worker leaves the backup to the next invocation.                     *)
WorkerRecordsCleanup(w) ==
  /\ pc[w] = "cleanup" /\ op[w] = "replace"
  /\ \/ meta' = set_phase(meta, "cleanup") /\ UNCHANGED faults
     \/ /\ meta' \in {meta, set_phase(meta, "cleanup")}
        /\ faults < MaxFaults /\ faults' = faults + 1
  /\ bootLock' = NONE
  /\ Exits(w)
  /\ UNCHANGED <<target, candidates, backups, copies, coordinated, moved>>

(* Nothing pending, another backup, or a state it does not expect.          *)
WorkerStops(w) ==
  /\ WorkerEnters(w)
  /\ ~ /\ IsPending(meta) /\ IsRecordedWorker(w)
       /\ \/ meta.pending.phase = "replacing" /\ Classified = ReplaceableFiles
          \/ /\ meta.pending.phase \in {"replacing", "cleanup"}
             /\ Classified = Files("new", "missing", "old")
  /\ Exits(w)
  /\ UNCHANGED <<files, bootLock, coordinated, faults, moved>>

(* The deadline passes while the stable path is in use.                     *)
WorkerTimesOut(w) ==
  /\ WorkerEnters(w)
  /\ InUse("target")
  /\ Classified = ReplaceableFiles /\ IsPending(meta)
  /\ faults < MaxFaults /\ faults' = faults + 1
  /\ Exits(w)
  /\ UNCHANGED <<files, bootLock, coordinated, moved>>

WorkerStep(w) ==
  WorkerReplaces(w) \/ WorkerFindsReplaced(w) \/ WorkerRecordsCleanup(w) \/ WorkerStops(w)

-----------------------------------------------------------------------------
(* Runtime processes *)

(* Bound: a process starts only while there is a worker left for it.        *)
WorkerLeft ==
  Cardinality({r \in Runtimes : pc[r] \notin {"rest", "done", "delegate"}})
    < Cardinality({w \in Workers : pc[w] = "rest"})

Starts(p, function) ==
  /\ pc[p] = "rest"
  /\ WorkerLeft
  /\ target # NONE
  /\ Goto(p, "want")
  /\ op' = [op EXCEPT ![p] = function]
  /\ image' = [image EXCEPT ![p] = "target"]
  /\ UNCHANGED <<files, bootLock, coordinated, out, worker, faults, moved>>

Invoke(p) == Starts(p, "recover")

(* A check or stage helper.                                                 *)
StartDiscard(p) == coordinated /\ Starts(p, "discard")

StartApply(p) == coordinated /\ Starts(p, "mark")

(* An invocation runs the delegate unless it must be retried; it waits for  *)
(* the delegate to exit, with its own image in use.                         *)
RunDelegate(p) ==
  /\ pc[p] = "done" /\ op[p] = "recover"
  /\ out[p] \notin {"replacement-pending", "error"}
  /\ Goto(p, "delegate")
  /\ UNCHANGED <<files, bootLock, coordinated, op, out, image, worker, faults, moved>>

Exit(p) ==
  /\ \/ pc[p] = "delegate"
     \/ pc[p] = "done" /\ (op[p] # "recover" \/ out[p] \in {"replacement-pending", "error"})
  /\ Exits(p)
  /\ UNCHANGED <<files, bootLock, coordinated, faults, moved>>

RuntimeStep(p) == EngineStep(p) \/ RunDelegate(p) \/ Exit(p)

-----------------------------------------------------------------------------
(* Coordinators and the environment *)

(* A coordinator stages a candidate (stage_candidate), which a backup of    *)
(* the installed version stops.                                             *)
StageCandidate(v) ==
  /\ ~coordinated /\ bootLock = NONE
  /\ ~IsPending(meta) /\ target = meta.version /\ v > meta.version
  /\ meta.version \notin backups
  /\ coordinated' = TRUE
  /\ candidates' = candidates \union {v}
  /\ meta' = [meta EXCEPT !.pending = [phase |-> "staged", version |-> v]]
  /\ UNCHANGED <<target, backups, copies, bootLock, procs, faults, moved>>

(* The coordinator ends, whatever became of the update.                     *)
EndCoordination ==
  /\ coordinated
  /\ \A p \in Runtimes : op[p] \notin {"discard", "mark", "apply"}
  /\ coordinated' = FALSE
  /\ UNCHANGED <<files, bootLock, procs, faults, moved>>

Crash(p) ==
  /\ pc[p] \notin {"rest", "done", "delegate"}
  /\ faults < MaxFaults /\ faults' = faults + 1
  /\ bootLock' = IF bootLock = p THEN NONE ELSE bootLock
  /\ Exits(p)
  /\ UNCHANGED <<files, coordinated, moved>>

LoseCandidate(v) ==
  /\ v \in candidates
  /\ faults < MaxFaults /\ faults' = faults + 1
  /\ candidates' = candidates \ {v}
  /\ UNCHANGED <<meta, target, backups, copies, bootLock, coordinated, procs, moved>>

(* Somebody moves the old executable away, as Windows allows even while it  *)
(* runs; bound: once.                                                       *)
MoveTargetAway ==
  /\ TargetMayVanish /\ ~moved
  /\ moved' = TRUE
  /\ target = meta.version
  /\ faults < MaxFaults /\ faults' = faults + 1
  /\ target' = NONE
  /\ image' = [p \in Processes |-> IF image[p] = "target" THEN "elsewhere" ELSE image[p]]
  /\ UNCHANGED <<meta, candidates, backups, copies, bootLock, coordinated, pc, op, out, worker>>

Next ==
  \/ \E p \in Runtimes :
       RuntimeStep(p) \/ Invoke(p) \/ StartDiscard(p) \/ StartApply(p)
  \/ \E w \in Workers : WorkerStep(w) \/ WorkerTimesOut(w)
  \/ \E p \in Processes : Crash(p)
  \/ \E v \in Versions : StageCandidate(v) \/ LoseCandidate(v)
  \/ EndCoordination \/ MoveTargetAway

Spec == Init /\ [][Next]_vars

(* Started processes run and their delegates end, a worker's retries meet   *)
(* the moment the stable path is free, coordinators end, and the executable *)
(* is invoked again and again.                                              *)
Fairness ==
  /\ \A p \in Runtimes : SF_vars(RuntimeStep(p)) /\ SF_vars(Invoke(p))
  /\ \A w \in Workers : SF_vars(WorkerStep(w))
  /\ SF_vars(EndCoordination)

FairSpec == Spec /\ Fairness
-----------------------------------------------------------------------------
(* Properties *)

(* The record always describes the executable at the stable path: the       *)
(* committed version until the worker's rename, the pending one from then   *)
(* until the commit (run_windows_worker_once, finish_cleanup_locked).       *)
RecordMatchesTarget ==
  \/ target \in {meta.version, NONE}
  \/ meta.pending.phase \in {"replacing", "cleanup"} /\ target = meta.pending.version

(* Recovery accepts whatever an interrupted helper, worker or recovery left,*)
(* as long as the stable executable is there: no invocation is refused for  *)
(* good (recover_or_schedule_windows_locked, finish_cleanup_locked).        *)
AlwaysRecoverable ==
  bootLock = NONE /\ target # NONE =>
    WindowsRecovery(meta.pending.phase, Classified) # "invalid"

(* Once a replacement has begun, a missing stable path is restored from the *)
(* backup, which is removed only when the stable path is safe.              *)
BackupUntilReplaced ==
  bootLock = NONE /\ meta.pending.phase = "replacing" /\ target # meta.pending.version
  /\ meta.pending.version \in candidates
    => meta.version \in backups \/ target = meta.version

(* Every update ends, its backup removed, as long as the executable is      *)
(* invoked again, nobody moves it away, and the stable path is closed now   *)
(* and then.                                                                *)
UpdatesEnd == IsPending(meta) ~> (~IsPending(meta) \/ moved)

(* An approved update is installed unless its candidate is deleted or the   *)
(* executable moved away, whatever workers die or time out                  *)
(* (run_windows_worker).                                                    *)
ApprovedIsInstalled ==
  \A v \in Versions :
    (meta.pending.phase = "ready" /\ meta.pending.version = v)
      ~> (target = v \/ v \notin candidates \/ moved)

CurrentOffer ==
  IF ~IsPending(meta) \/ target = meta.pending.version
    THEN [version |-> 0, state |-> "none", payload |-> "lost"]
    ELSE [version |-> meta.pending.version,
          state   |-> IF meta.pending.phase = "staged" THEN "offered" ELSE "approved",
          payload |-> IF meta.pending.version \in candidates THEN "present" ELSE "lost"]

(* An executable that was moved away is still the installed one.            *)
Atomic == INSTANCE AtomicUpdate
            WITH installed <- IF target = NONE THEN meta.version ELSE target,
                 offer     <- CurrentOffer

(* The deferred replacement, by a worker that outlives the invocation which *)
(* scheduled it, keeps the same promise as the immediate one.               *)
ImplementsAtomicUpdate == Atomic!Spec

-----------------------------------------------------------------------------
(* Why they hold: the inductive invariant *)

(* Besides the types: who is inside a locked section holds the lock.        *)
TypeOK ==
  /\ meta \in Metadata
  /\ target \in Versions \union {NONE}
  /\ candidates \subseteq Versions /\ backups \subseteq Versions /\ copies \subseteq Versions
  /\ bootLock \in Processes \union {NONE} /\ coordinated \in BOOLEAN
  /\ pc \in [Processes -> PCs] /\ op \in [Processes -> Ops]
  /\ out \in [Processes -> Outcomes]
  /\ image \in [Processes -> Places \union {NONE}]
  /\ worker \in [Workers -> Versions]
  /\ \A p \in Processes : bootLock = p <=> pc[p] \in Locked
  /\ faults \in 0 .. MaxFaults /\ moved \in BOOLEAN

NotReplaced == target \in {meta.version, NONE}
Replaced    == target = meta.pending.version /\ meta.pending.version \notin candidates

(* What the files may be in each phase, whoever was interrupted where.  The *)
(* backup is there from the first recorded replacement until the executable *)
(* was moved away, and from then on while it is away.                       *)
FilesInv ==
  /\ IsPending(meta) => meta.pending.version > meta.version
  /\ NotReplaced \/ (meta.pending.phase \in {"replacing", "cleanup"} /\ Replaced)
  /\ meta.pending.phase = "staged" => meta.version \notin backups
  /\ meta.pending.phase = "cleanup" => Replaced
  /\ target = NONE => moved
  /\ meta.pending.phase = "replacing" /\ NotReplaced /\ (target = NONE \/ ~moved) =>
       meta.version \in backups \/ meta.pending.version \notin candidates

(* What a process inside has found and done already.                        *)
StepInv(p) ==
  /\ pc[p] \in {"prepare", "link", "replacing", "spawn"} =>
       meta.pending.phase \in {"ready", "replacing"} /\ NotReplaced
  /\ pc[p] \in {"replacing", "spawn"} => meta.version \in backups
  /\ pc[p] \in {"restore", "restore-only"} => meta.pending.phase = "replacing" /\ target = NONE
  /\ pc[p] = "discard" => meta.pending.phase = "staged"
  /\ pc[p] \in {"restore-only", "abandon", "clear"} =>
       IsPending(meta) /\ meta.pending.version \notin candidates
  /\ pc[p] \in {"discard", "abandon", "clear"} => NotReplaced
  /\ pc[p] \in {"cleanup", "remove", "commit"} =>
       meta.pending.phase \in {"replacing", "cleanup"} /\ Replaced

IInv ==
  /\ TypeOK /\ FilesInv
  /\ \A p \in Processes : StepInv(p)
=============================================================================
