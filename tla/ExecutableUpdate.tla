-------------------------- MODULE ExecutableUpdate --------------------------
(***************************************************************************)
(* The direct executable-update engine on Unix: coordinators that hold the *)
(* update lock and spawn the check, stage and apply helpers, and ordinary  *)
(* invocations of the stamped executable that recover whatever they find.  *)
(*                                                                         *)
(* Every locked function of executable_update.rs is a chain of steps of    *)
(* one process between taking and dropping the BootstrapLock, one step per *)
(* file-system effect, so that a crash, a failed call or another process   *)
(* can come in between.  Reading and classifying needs no step of its own: *)
(* it happens with the lock in hand, and everything it reads is written    *)
(* with the lock in hand (a candidate deleted by somebody else is the one  *)
(* exception, and is an action).                                           *)
(***************************************************************************)
EXTENDS UpdateRecord

CONSTANTS
  Coordinators,         \* downstream transaction coordinators, one helper each
  Invokers,             \* processes that run the executable normally
  NONE,                 \* no process
  MaxFaults,            \* bound on crashes, failed calls and lost candidates
  HelpersMayBeOrphaned  \* whether a coordinator can die before its helper does

Processes == Coordinators \union Invokers

ASSUME ProcessAssumption ==
  /\ Coordinators \intersect Invokers = {}
  /\ NONE \notin Processes
  /\ MaxFaults \in Nat
  /\ HelpersMayBeOrphaned \in BOOLEAN

VARIABLES
  meta,         \* .RUNTIME_NAME.json: the committed version and pending update
  target,       \* version at the stable executable path
  candidates,   \* versions whose adjacent candidate file exists
  temps,        \* versions whose incomplete candidate (.new.tmp) exists
  bootLock,     \* holder of the prefix's BootstrapLock
  updLock,      \* holder of the update coordination lock
  pc,           \* each process's place in the engine function it runs
  op,           \* the engine function it runs
  out,          \* the outcome that function returned
  running,      \* version a helper was started from (its compiled-in header)
  step,         \* where each coordinator is in the documented protocol
  selected,     \* the candidate a coordinator was offered, 0 for none
  channel,      \* newest version in the update channel
  faults,       \* crashes, failed calls and lost files so far
  sponsor,      \* history: the coordinator that staged the pending update
  approved      \* history: that coordinator's inner transaction succeeded

files  == <<meta, target, candidates, temps>>
locks  == <<bootLock, updLock>>
coord  == <<running, step, selected, channel>>
ghosts == <<sponsor, approved>>
vars   == <<files, locks, pc, op, out, coord, faults, ghosts>>

Ops      == {"none", "recover", "discard", "stage", "mark", "apply"}
PCs      == {"rest", "spawned", "want", "probe", "probing", "unlink", "clear",
             "copy", "link", "record", "record-adopted", "undo", "approve", "begin",
             "swap", "commit", "done"}
Outcomes == {"none", "staged", "ready", "applied", "discarded", "restored", "error"}
Steps    == {"idle", "check", "stage", "inner", "apply", "release", "orphan"}

(* The places where a process holds the BootstrapLock. *)
Locked == {"probe", "probing", "unlink", "clear", "copy", "link", "record",
           "record-adopted", "undo", "approve", "begin", "swap", "commit"}

Init ==
  /\ meta = [version |-> 0, pending |-> NoPending]
  /\ target = 0
  /\ candidates = {} /\ temps = {}
  /\ bootLock = NONE /\ updLock = NONE
  /\ pc = [p \in Processes |-> "rest"]
  /\ op = [p \in Processes |-> "none"]
  /\ out = [p \in Processes |-> "none"]
  /\ running = [c \in Coordinators |-> 0]
  /\ step = [c \in Coordinators |-> "idle"]
  /\ selected = [c \in Coordinators |-> 0]
  /\ channel = 0
  /\ faults = 0
  /\ sponsor = NONE /\ approved = FALSE

-----------------------------------------------------------------------------
(* Steps inside one engine function *)

(* What classify_files finds; Unix never creates the backup. *)
Classified == classify_files(meta, target, meta.pending.version \in candidates, FALSE)

Goto(p, label) == pc' = [pc EXCEPT ![p] = label]

(* Take the lock and carry on at label. *)
Lock(p, label) ==
  /\ bootLock' = p
  /\ Goto(p, label)
  /\ UNCHANGED <<updLock, out>>

(* Drop the lock and return.  A function that decides at once takes and     *)
(* drops the lock in one step.                                              *)
Return(p, outcome) ==
  /\ bootLock' = NONE
  /\ Goto(p, "done")
  /\ out' = [out EXCEPT ![p] = outcome]
  /\ UNCHANGED updLock

(* An operating-system call of p fails: within the bound, and p returns Err.*)
CallFails(p) ==
  /\ faults < MaxFaults
  /\ faults' = faults + 1
  /\ Return(p, "error")

(* persist_metadata_for succeeds, or fails before its rename, or fails after *)
(* it when the backup of the metadata cannot be removed.                    *)
Persisted(p, new, outcome) ==
  \/ meta' = new /\ Return(p, outcome) /\ UNCHANGED faults
  \/ meta' \in {meta, new} /\ CallFails(p)

Forget == sponsor' = NONE /\ approved' = FALSE

(* The history variables follow the record: cleared with it. *)
FollowRecord ==
  IF IsPending(meta') THEN UNCHANGED ghosts ELSE Forget

(* The function p runs can enter its critical section. *)
Enter(p, ops) == pc[p] = "want" /\ op[p] \in ops /\ bootLock = NONE

(* apply_or_recover_locked, up to its first effect. *)
ApplyOrRecover(p) ==
  LET next == UnixRecovery(meta.pending.phase, Classified)
  IN  IF next = "invalid" THEN Return(p, "error") ELSE Lock(p, next)

(* recover_pending and discard_unapproved: recover_pending_with, where only *)
(* the former leaves a candidate to a coordinator that holds the lock.      *)
RecoverPending(p) ==
  /\ Enter(p, {"recover", "discard"})
  /\ LET next == UnixRecovery(meta.pending.phase, Classified) IN
       CASE next = "nothing" -> Return(p, "none")
         [] next = "invalid" -> Return(p, "error")
         [] next = "discard" -> Lock(p, IF op[p] = "recover" THEN "probe" ELSE "unlink")
         [] OTHER            -> Lock(p, next)
  /\ UNCHANGED <<files, op, coord, faults, ghosts>>

(* Mutations of ProbeUpdateLock: recovery discards without asking whether a *)
(* coordinator is at work; recovery believes that one always is.            *)
DiscardAlways(p) ==
  /\ pc[p] = "probe"
  /\ Goto(p, "unlink")
  /\ UNCHANGED <<files, locks, op, out, coord, faults, ghosts>>

DiscardNever(p) ==
  /\ pc[p] = "probe"
  /\ Return(p, "staged")
  /\ UNCHANGED <<files, op, coord, faults, ghosts>>

(* update_lock_is_held: try_lock, which takes the lock when it is free ...  *)
ProbeUpdateLock(p) ==
  /\ pc[p] = "probe"
  /\ IF updLock # NONE
       THEN Return(p, "staged")
       ELSE updLock' = p /\ Goto(p, "probing") /\ UNCHANGED <<bootLock, out>>
  /\ UNCHANGED <<files, op, coord, faults, ghosts>>

(* ... until the file is closed on return. *)
EndProbe(p) ==
  /\ pc[p] = "probing"
  /\ updLock' = NONE
  /\ Goto(p, "unlink")
  /\ UNCHANGED <<files, bootLock, op, out, coord, faults, ghosts>>

(* Mutation of Unlink: a failed removal is ignored.                         *)
UnlinkIgnoringErrors(p) ==
  /\ pc[p] = "unlink"
  /\ candidates' \in {candidates, candidates \ {meta.pending.version}}
  /\ Goto(p, "clear")
  /\ UNCHANGED <<meta, target, temps, locks, op, out, coord, faults, ghosts>>

(* Discard the unapproved candidate; a missing file is an error too. *)
Unlink(p) ==
  /\ pc[p] = "unlink"
  /\ \/ /\ meta.pending.version \in candidates
        /\ candidates' = candidates \ {meta.pending.version}
        /\ Goto(p, "clear")
        /\ UNCHANGED <<bootLock, updLock, out, faults>>
     \/ /\ meta.pending.version \notin candidates
        /\ Return(p, "error")
        /\ UNCHANGED <<candidates, faults>>
     \/ CallFails(p) /\ UNCHANGED candidates
  /\ UNCHANGED <<meta, target, temps, op, coord, ghosts>>

(* Persist the record without its pending update: the end of a discard, or  *)
(* of a replacement whose candidate is gone.                                *)
Clear(p) ==
  /\ pc[p] = "clear"
  /\ Persisted(p, clear_pending(meta),
               IF meta.pending.phase = "staged" THEN "discarded" ELSE "restored")
  /\ FollowRecord
  /\ UNCHANGED <<target, candidates, temps, op, coord>>

(* stage_candidate, up to its first effect: nothing may be pending, the     *)
(* installed executable must still be the recorded one, and the payload     *)
(* must differ from it.  A verified candidate left behind is adopted.       *)
StageCandidate(c) ==
  /\ Enter(c, {"stage"})
  /\ IF IsPending(meta) \/ target # meta.version \/ selected[c] = meta.version
       THEN Return(c, "error")
       ELSE Lock(c, IF selected[c] \in candidates THEN "record-adopted" ELSE "copy")
  /\ UNCHANGED <<files, op, coord, faults, ghosts>>

(* stage_file: copy to the temporary name, replacing an older attempt.  When *)
(* the copy fails the temporary is removed.                                 *)
Copy(c) ==
  /\ pc[c] = "copy"
  /\ \/ /\ temps' = temps \union {selected[c]}
        /\ Goto(c, "link")
        /\ UNCHANGED <<bootLock, updLock, out, faults>>
     \/ CallFails(c) /\ temps' = temps \ {selected[c]}
  /\ UNCHANGED <<meta, target, candidates, op, coord, ghosts>>

(* ... and rename it to the candidate's name. *)
Link(c) ==
  /\ pc[c] = "link"
  /\ temps' = temps \ {selected[c]}
  /\ \/ /\ candidates' = candidates \union {selected[c]}
        /\ Goto(c, "record")
        /\ UNCHANGED <<bootLock, updLock, out, faults>>
     \/ CallFails(c) /\ UNCHANGED candidates
  /\ UNCHANGED <<meta, target, op, coord, ghosts>>

StagedRecord(c) ==
  [meta EXCEPT !.pending = [phase |-> "staged", version |-> selected[c]]]

(* Record the staged candidate.  When that fails, a candidate this call     *)
(* created is removed again, an adopted one is not.                         *)
RecordStaged(c) ==
  /\ pc[c] \in {"record", "record-adopted"}
  /\ \/ /\ meta' = StagedRecord(c)
        /\ Return(c, "staged")
        /\ UNCHANGED faults
     \/ /\ meta' \in {meta, StagedRecord(c)}
        /\ IF pc[c] = "record"
             THEN /\ faults < MaxFaults /\ faults' = faults + 1
                  /\ Goto(c, "undo")
                  /\ UNCHANGED <<bootLock, updLock, out>>
             ELSE CallFails(c)
  /\ IF IsPending(meta') THEN sponsor' = c /\ approved' = FALSE ELSE UNCHANGED ghosts
  /\ UNCHANGED <<target, candidates, temps, op, coord>>

UndoStage(c) ==
  /\ pc[c] = "undo"
  /\ candidates' = candidates \ {selected[c]}
  /\ Return(c, "error")
  /\ UNCHANGED <<meta, target, temps, op, coord, faults, ghosts>>

(* mark_pending_ready, up to its first effect. *)
MarkPendingReady(c) ==
  /\ Enter(c, {"mark"})
  /\ LET phase == meta.pending.phase IN
       CASE phase = "none"                                   -> Return(c, "none")
         [] phase = "staged" /\ Classified = StagedFiles     -> Lock(c, "approve")
         [] phase = "ready"                                  -> Return(c, "ready")
         [] OTHER                                            -> Return(c, "error")
  /\ UNCHANGED <<files, op, coord, faults, ghosts>>

Approve(c) ==
  /\ pc[c] = "approve"
  /\ Persisted(c, set_phase(meta, "ready"), "ready")
  /\ UNCHANGED <<target, candidates, temps, op, coord, ghosts>>

(* apply_pending, up to its first effect. *)
ApplyPending(c) ==
  /\ Enter(c, {"apply"})
  /\ CASE meta.pending.phase = "none"                   -> Return(c, "none")
       [] meta.pending.phase = "staged"                 -> Return(c, "error")
       [] meta.pending.phase \in {"ready", "replacing"} -> ApplyOrRecover(c)
  /\ UNCHANGED <<files, op, coord, faults, ghosts>>

(* Mutation of Begin: the replacement is not recorded before it happens.     *)
BeginUnrecorded(p) ==
  /\ pc[p] = "begin"
  /\ Goto(p, "swap")
  /\ UNCHANGED <<files, locks, op, out, coord, faults, ghosts>>

(* Record that the replacement has begun, and go on to it. *)
Begin(p) ==
  /\ pc[p] = "begin"
  /\ \/ /\ meta' = set_phase(meta, "replacing")
        /\ Goto(p, "swap")
        /\ UNCHANGED <<bootLock, updLock, out, faults>>
     \/ meta' \in {meta, set_phase(meta, "replacing")} /\ CallFails(p)
  /\ UNCHANGED <<target, candidates, temps, op, coord, ghosts>>

(* replace_candidate: rename the candidate over the stable path. *)
Swap(p) ==
  /\ pc[p] = "swap"
  /\ \/ /\ meta.pending.version \in candidates
        /\ target' = meta.pending.version
        /\ candidates' = candidates \ {meta.pending.version}
        /\ Goto(p, "commit")
        /\ UNCHANGED <<bootLock, updLock, out, faults>>
     \/ /\ meta.pending.version \notin candidates
        /\ Return(p, "error")
        /\ UNCHANGED <<target, candidates, faults>>
     \/ CallFails(p) /\ UNCHANGED <<target, candidates>>
  /\ UNCHANGED <<meta, temps, op, coord, ghosts>>

(* Record the new version as installed. *)
Commit(p) ==
  /\ pc[p] = "commit"
  /\ Persisted(p, CommitNewVersion(meta), "applied")
  /\ FollowRecord
  /\ UNCHANGED <<target, candidates, temps, op, coord>>

EngineStep(p) ==
  \/ RecoverPending(p) \/ ProbeUpdateLock(p) \/ EndProbe(p)
  \/ Unlink(p) \/ Clear(p) \/ Begin(p) \/ Swap(p) \/ Commit(p)

StageOrApplyStep(c) ==
  \/ StageCandidate(c) \/ Copy(c) \/ Link(c) \/ RecordStaged(c) \/ UndoStage(c)
  \/ MarkPendingReady(c) \/ Approve(c) \/ ApplyPending(c)
-----------------------------------------------------------------------------
(* Ordinary invocations *)

(* A normal invocation starts and runs recover_pending before the delegate. *)
Invoke(i) ==
  /\ pc[i] = "rest"
  /\ Goto(i, "want")
  /\ op' = [op EXCEPT ![i] = "recover"]
  /\ UNCHANGED <<files, locks, out, coord, faults, ghosts>>

(* It hands over to the delegate or reports an error.                       *)
Finish(i) ==
  /\ pc[i] = "done"
  /\ Goto(i, "rest")
  /\ op' = [op EXCEPT ![i] = "none"]
  /\ out' = [out EXCEPT ![i] = "none"]
  /\ UNCHANGED <<files, locks, coord, faults, ghosts>>

-----------------------------------------------------------------------------
(* Coordinators and the helpers they spawn *)

(* The coordinator locks the coordination file and spawns v1/check from the *)
(* stable path.                                                             *)
StartCheck(c) ==
  /\ step[c] = "idle"
  /\ updLock = NONE
  /\ updLock' = c
  /\ step' = [step EXCEPT ![c] = "check"]
  /\ running' = [running EXCEPT ![c] = target]
  /\ Goto(c, "spawned")
  /\ op' = [op EXCEPT ![c] = "discard"]
  /\ UNCHANGED <<files, bootLock, out, selected, channel, faults, ghosts>>

(* Spawn v1/stage for the candidate check reported. *)
StartStage(c) ==
  /\ step[c] = "check" /\ pc[c] = "rest"
  /\ step' = [step EXCEPT ![c] = "stage"]
  /\ running' = [running EXCEPT ![c] = target]
  /\ Goto(c, "spawned")
  /\ op' = [op EXCEPT ![c] = "discard"]
  /\ UNCHANGED <<files, locks, out, selected, channel, faults, ghosts>>

(* The inner transaction succeeded: spawn v1/apply. *)
StartApply(c) ==
  /\ step[c] = "inner"
  /\ step' = [step EXCEPT ![c] = "apply"]
  /\ running' = [running EXCEPT ![c] = target]
  /\ approved' = (approved \/ sponsor = c)
  /\ Goto(c, "spawned")
  /\ op' = [op EXCEPT ![c] = "mark"]
  /\ UNCHANGED <<files, locks, out, selected, channel, faults, sponsor>>

(* A declined candidate or a failed inner transaction. *)
GiveUp(c) ==
  /\ \/ step[c] = "inner"
     \/ step[c] = "check" /\ pc[c] = "rest"
  /\ step' = [step EXCEPT ![c] = "release"]
  /\ UNCHANGED <<files, locks, pc, op, out, running, selected, channel, faults, ghosts>>

(* The coordinator drops the lock. *)
Release(c) ==
  /\ step[c] = "release"
  /\ updLock' = NONE
  /\ step' = [step EXCEPT ![c] = "idle"]
  /\ running' = [running EXCEPT ![c] = 0]
  /\ selected' = [selected EXCEPT ![c] = 0]
  /\ UNCHANGED <<files, bootLock, pc, op, out, channel, faults, ghosts>>

(* A helper first tests that somebody holds the coordination lock. *)
HelperStart(c) ==
  /\ pc[c] = "spawned"
  /\ IF updLock = NONE
       THEN Goto(c, "done") /\ out' = [out EXCEPT ![c] = "error"]
       ELSE Goto(c, "want") /\ UNCHANGED out
  /\ UNCHANGED <<files, locks, op, coord, faults, ghosts>>

(* The helper exits; its coordinator, if it still lives, goes on to next.    *)
HelperExits(c, next) ==
  /\ Goto(c, "rest")
  /\ op' = [op EXCEPT ![c] = "none"]
  /\ out' = [out EXCEPT ![c] = "none"]
  /\ step' = [step EXCEPT ![c] = IF step[c] = "orphan" THEN "idle" ELSE next]

(* initialize_current, for a directly owned executable: with nothing pending *)
(* it refuses a record of another version than the helper's own (the guards *)
(* of reconcile_current_executable), otherwise it changes nothing.          *)
InitializeCurrentFails(c) == ~IsPending(meta) /\ meta.version # running[c]

(* Mutation of ResolveCandidate: any version but the installed one will do. *)
ResolveAnyOther(c) == IF channel # running[c] THEN channel ELSE 0

(* select_candidate: the newest package newer than the helper's own header. *)
ResolveCandidate(c) == IF channel > running[c] THEN channel ELSE 0

(* check after discard_unapproved: any recovery means "retry the command".  *)
FinishCheck(c) ==
  /\ pc[c] = "done" /\ op[c] = "discard" /\ selected[c] = 0
  /\ LET candidate == ResolveCandidate(c)
         found     == /\ out[c] = "none"
                      /\ ~InitializeCurrentFails(c)
                      /\ candidate # 0
                      /\ step[c] # "orphan"
     IN  /\ HelperExits(c, IF found THEN "check" ELSE "release")
         /\ selected' = [selected EXCEPT ![c] = IF found THEN candidate ELSE 0]
         /\ running' = [running EXCEPT ![c] = 0]
  /\ UNCHANGED <<files, locks, channel, faults, ghosts>>

(* stage after discard_unapproved: resolve again, insist on the selected    *)
(* candidate, fetch it and stage it.                                        *)
ContinueStage(c) ==
  /\ pc[c] = "done" /\ op[c] = "discard" /\ selected[c] # 0
  /\ IF /\ out[c] \in {"none", "discarded"}
        /\ ~InitializeCurrentFails(c)
        /\ ResolveCandidate(c) = selected[c]
       THEN /\ Goto(c, "want")
            /\ op' = [op EXCEPT ![c] = "stage"]
            /\ out' = [out EXCEPT ![c] = "none"]
            /\ UNCHANGED <<step, running, selected>>
       ELSE /\ HelperExits(c, "release")
            /\ selected' = [selected EXCEPT ![c] = 0]
            /\ running' = [running EXCEPT ![c] = 0]
  /\ UNCHANGED <<files, locks, channel, faults, ghosts>>

(* stage replies: the inner transaction begins, or the coordinator stops.   *)
FinishStage(c) ==
  /\ pc[c] = "done" /\ op[c] = "stage"
  /\ HelperExits(c, IF out[c] = "staged" THEN "inner" ELSE "release")
  /\ selected' = [selected EXCEPT ![c] = 0]
  /\ running' = [running EXCEPT ![c] = 0]
  /\ UNCHANGED <<files, locks, channel, faults, ghosts>>

(* apply after mark_pending_ready: go on to apply_pending.                  *)
ContinueApply(c) ==
  /\ pc[c] = "done" /\ op[c] = "mark"
  /\ IF out[c] = "ready"
       THEN /\ Goto(c, "want")
            /\ op' = [op EXCEPT ![c] = "apply"]
            /\ out' = [out EXCEPT ![c] = "none"]
            /\ UNCHANGED <<step, running>>
       ELSE HelperExits(c, "release") /\ running' = [running EXCEPT ![c] = 0]
  /\ UNCHANGED <<files, locks, selected, channel, faults, ghosts>>

(* apply replies {"applied": true} for "applied" and an error otherwise.    *)
FinishApply(c) ==
  /\ pc[c] = "done" /\ op[c] = "apply"
  /\ HelperExits(c, "release")
  /\ running' = [running EXCEPT ![c] = 0]
  /\ UNCHANGED <<files, locks, selected, channel, faults, ghosts>>

CoordinatorStep(c) ==
  \/ StartCheck(c) \/ StartStage(c) \/ StartApply(c) \/ GiveUp(c) \/ Release(c)
  \/ HelperStart(c) \/ FinishCheck(c) \/ ContinueStage(c) \/ FinishStage(c)
  \/ ContinueApply(c) \/ FinishApply(c)

-----------------------------------------------------------------------------
(* The environment *)

(* A release appears in the channel, or is withdrawn from it. *)
Publish(v) ==
  /\ v # channel
  /\ channel' = v
  /\ UNCHANGED <<files, locks, pc, op, out, running, step, selected, faults, ghosts>>

(* The operating system frees the locks of a process that dies. *)
FreeLocksOf(p) ==
  /\ bootLock' = IF bootLock = p /\ pc[p] \in Locked THEN NONE ELSE bootLock
  /\ updLock' = IF updLock = p /\ pc[p] = "probing" THEN NONE ELSE updLock

(* A helper or an invocation is killed at any point; a coordinator sees its *)
(* helper exit with an error.                                               *)
Crash(p) ==
  /\ pc[p] \notin {"rest", "done"}
  /\ faults < MaxFaults
  /\ faults' = faults + 1
  /\ FreeLocksOf(p)
  /\ Goto(p, "done")
  /\ out' = [out EXCEPT ![p] = "error"]
  /\ UNCHANGED <<files, op, coord, ghosts>>

(* A coordinator dies.  Its lock is freed; a helper it has spawned lives    *)
(* on, in the instances that let it.                                        *)
CoordinatorDies(c) ==
  /\ step[c] \notin {"idle", "orphan"}
  /\ pc[c] = "rest" \/ HelpersMayBeOrphaned
  /\ faults < MaxFaults
  /\ faults' = faults + 1
  /\ updLock' = IF updLock = c THEN NONE ELSE updLock
  /\ step' = [step EXCEPT ![c] = IF pc[c] = "rest" THEN "idle" ELSE "orphan"]
  /\ selected' = [selected EXCEPT ![c] = IF pc[c] = "rest" THEN 0 ELSE selected[c]]
  /\ UNCHANGED <<files, bootLock, pc, op, out, running, channel, ghosts>>

(* Somebody deletes a candidate next to the executable.                     *)
LoseCandidate(v) ==
  /\ v \in candidates
  /\ faults < MaxFaults
  /\ faults' = faults + 1
  /\ candidates' = candidates \ {v}
  /\ UNCHANGED <<meta, target, temps, locks, pc, op, out, coord, ghosts>>

-----------------------------------------------------------------------------
Next ==
  \/ \E p \in Processes : EngineStep(p) \/ Crash(p)
  \/ \E c \in Coordinators : StageOrApplyStep(c) \/ CoordinatorStep(c) \/ CoordinatorDies(c)
  \/ \E i \in Invokers : Invoke(i) \/ Finish(i)
  \/ \E v \in Versions : Publish(v) \/ LoseCandidate(v)

Spec == Init /\ [][Next]_vars

(* Processes that run are scheduled, a process blocked on the lock gets it  *)
(* in the end, coordinators finish what they begin, and the executable is   *)
(* invoked again and again.  Nobody has to start an update or release one.  *)
Fairness ==
  /\ \A p \in Processes : SF_vars(EngineStep(p))
  /\ \A c \in Coordinators : SF_vars(StageOrApplyStep(c))
  /\ \A c \in Coordinators : WF_vars(step[c] # "idle" /\ CoordinatorStep(c))
  /\ \A i \in Invokers : WF_vars(Invoke(i) \/ Finish(i))

FairSpec == Spec /\ Fairness

-----------------------------------------------------------------------------
(* Properties *)

(* The types; on Unix nothing is ever recorded as awaiting cleanup.         *)
TypeOK ==
  /\ meta \in Metadata
  /\ meta.pending.phase # "cleanup"
  /\ target \in Versions
  /\ candidates \subseteq Versions /\ temps \subseteq Versions
  /\ bootLock \in Processes \union {NONE} /\ updLock \in Processes \union {NONE}
  /\ pc \in [Processes -> PCs] /\ op \in [Processes -> Ops]
  /\ out \in [Processes -> Outcomes]
  /\ running \in [Coordinators -> Versions] /\ step \in [Coordinators -> Steps]
  /\ selected \in [Coordinators -> Versions] /\ channel \in Versions
  /\ faults \in 0 .. MaxFaults
  /\ sponsor \in Coordinators \union {NONE} /\ approved \in BOOLEAN

(* The stable path always runs the committed version, or the pending one    *)
(* while the record says it is being replaced: no crash, failed call or     *)
(* race leaves the record describing an executable that is not there        *)
(* (apply_or_recover_locked, replace_candidate).                            *)
RecordMatchesTarget ==
  \/ target = meta.version
  \/ meta.pending.phase = "replacing" /\ target = meta.pending.version

(* Whenever nobody holds the lock, recovery accepts what it would find: no  *)
(* combination of crash, failed call and deleted candidate can make the     *)
(* executable refuse to start (invalid_recovery_state is never reached).    *)
AlwaysRecoverable ==
  bootLock = NONE => UnixRecovery(meta.pending.phase, Classified) # "invalid"

(* A replacement the record allows was approved by the coordinator that     *)
(* staged it, after its inner transaction (mark_pending_ready).             *)
OnlyApprovedIsReady == meta.pending.phase \in {"ready", "replacing"} => approved

(* The stable path changes only to a version whose coordinator approved it. *)
InstalledOnlyApproved == [][approved]_target

(* "The executable ... replaces its recorded stable path only after the     *)
(* coordinator approves the candidate and completes the inner transaction"  *)
(* (runtime-cli.md): not while the coordinator that staged it is in it.     *)
ReplacedOnlyAfterInnerTransaction ==
  [][\A c \in Coordinators : ~(step[c] = "inner" /\ sponsor = c)]_target

(* While a coordinator runs its inner transaction, no other process changes *)
(* what it staged: recovery discards neither the record nor the candidate,  *)
(* unless somebody else deletes that file first, and no other helper runs   *)
(* (update_lock_is_held in recover_pending_with and run_internal_helper).   *)
StagedCandidateProtected ==
  [][\A c \in Coordinators :
       step[c] = "inner" /\ sponsor = c /\ meta.pending.version \in candidates =>
         /\ meta' = meta
         /\ meta.pending.version \in candidates' \/ faults' > faults]_files

(* The stable path never goes back to an older version: candidates are      *)
(* selected against the executable that is installed when they are staged   *)
(* (select_candidate, require_selected_candidate).                          *)
NeverDowngrades == [][target' > target]_target

(* Every update ends, installed, discarded or given up, as long as the      *)
(* executable is invoked again.                                             *)
UpdatesEnd == IsPending(meta) ~> ~IsPending(meta)

(* An approved update is installed unless its candidate is deleted.         *)
ApprovedIsInstalled ==
  \A v \in Versions :
    (meta.pending.phase = "ready" /\ meta.pending.version = v)
      ~> (target = v \/ v \notin candidates)

(* The inductive invariant behind RecordMatchesTarget and AlwaysRecoverable.*)

(* Every step that writes holds the lock. *)
LockInv == \A p \in Processes : pc[p] \in Locked => bootLock = p

(* The pending version is a new one, and is either still a candidate file   *)
(* (unless that was deleted) or already at the stable path, never both.     *)
RecordInv ==
  /\ RecordMatchesTarget
  /\ IsPending(meta) => meta.pending.version # meta.version
  /\ IsPending(meta) /\ target = meta.pending.version => target \notin candidates

(* What a process that is about to write may assume of the record.          *)
StepInv ==
  \A p \in Processes :
    /\ pc[p] \in {"probe", "probing", "unlink", "approve"} => meta.pending.phase = "staged"
    /\ pc[p] = "clear" => /\ IsPending(meta) /\ target = meta.version
                          /\ meta.pending.version \notin candidates
    /\ pc[p] = "begin" => meta.pending.phase = "ready"
    /\ pc[p] = "swap" => meta.pending.phase = "replacing" /\ target = meta.version
    /\ pc[p] = "commit" =>
         meta.pending.phase = "replacing" /\ target = meta.pending.version
    /\ pc[p] \in {"copy", "link", "record", "record-adopted"} =>
         p \in Coordinators /\ ~IsPending(meta) /\ selected[p] # meta.version

(* A coordinator between two helpers has none running.                      *)
ProtocolInv ==
  \A c \in Coordinators : step[c] \in {"idle", "inner", "release"} => pc[c] = "rest"

(* Every combination of record and files that can arise is one recovery     *)
(* knows, with the BootstrapLock as the only guard (apply_or_recover_locked *)
(* and the functions that lead up to it).                                   *)
IInv == TypeOK /\ LockInv /\ RecordInv /\ StepInv /\ ProtocolInv

(* What AtomicUpdate sees of the record and the files.                      *)
CurrentOffer ==
  IF ~IsPending(meta) \/ target = meta.pending.version
    THEN [version |-> 0, state |-> "none", payload |-> "lost"]
    ELSE [version |-> meta.pending.version,
          state   |-> IF meta.pending.phase = "staged" THEN "offered" ELSE "approved",
          payload |-> IF meta.pending.version \in candidates THEN "present" ELSE "lost"]

Atomic == INSTANCE AtomicUpdate WITH installed <- target, offer <- CurrentOffer

(* The engine implements the promise of AtomicUpdate: the installation      *)
(* happens at the rename, and everything after it is bookkeeping.           *)
ImplementsAtomicUpdate == Atomic!Spec
=============================================================================
