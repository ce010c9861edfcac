----------------------- MODULE ExecutableUpdateProofs -----------------------
(***************************************************************************)
(* Theorems about ExecutableUpdate, for any number of coordinators,        *)
(* invocations, versions and faults.                                       *)
(***************************************************************************)
EXTENDS ExecutableUpdate, TLAPS

(* Each recovery decision determines the phase and the files it was taken   *)
(* on (apply_or_recover_locked).                                            *)
LEMMA RecoveryLabels ==
  ASSUME NEW phase \in Phases, NEW f
  PROVE  /\ UnixRecovery(phase, f) \in
              {"nothing", "discard", "clear", "begin", "swap", "commit", "invalid"}
         /\ phase # "none" => UnixRecovery(phase, f) # "nothing"
         /\ UnixRecovery(phase, f) = "discard" => phase = "staged" /\ f = StagedFiles
         /\ UnixRecovery(phase, f) = "begin" => phase = "ready" /\ f = StagedFiles
         /\ UnixRecovery(phase, f) = "swap" => phase = "replacing" /\ f = StagedFiles
         /\ UnixRecovery(phase, f) = "commit" => phase = "replacing" /\ f = SwappedFiles
         /\ UnixRecovery(phase, f) = "clear" => phase # "none" /\ f = LostFiles
BY DEF UnixRecovery, Phases

(* clear_pending keeps the committed version and leaves nothing pending.    *)
LEMMA ClearPending ==
  ASSUME NEW m \in Metadata
  PROVE  /\ clear_pending(m) \in Metadata
         /\ clear_pending(m).version = m.version
         /\ clear_pending(m).pending.phase = "none"
BY MaxVersionAssumption DEF Metadata, Pending, NoPending, Phases, Versions, clear_pending

(* set_phase changes the phase and nothing else.                            *)
LEMMA SetPhase ==
  ASSUME NEW m \in Metadata, NEW phase \in Phases
  PROVE  /\ set_phase(m, phase) \in Metadata
         /\ set_phase(m, phase).version = m.version
         /\ set_phase(m, phase).pending.phase = phase
         /\ set_phase(m, phase).pending.version = m.pending.version
BY DEF Metadata, Pending, set_phase

(* A commit makes the pending version the committed one.                    *)
LEMMA CommitVersion ==
  ASSUME NEW m \in Metadata
  PROVE  /\ CommitNewVersion(m) \in Metadata
         /\ CommitNewVersion(m).version = m.pending.version
         /\ CommitNewVersion(m).pending.phase = "none"
BY MaxVersionAssumption DEF Metadata, Pending, NoPending, Phases, Versions, CommitNewVersion

(* What stage_candidate records: the version the coordinator selected.      *)
LEMMA StagedRecordOf ==
  ASSUME TypeOK, NEW c \in Coordinators
  PROVE  /\ StagedRecord(c) \in Metadata
         /\ StagedRecord(c).version = meta.version
         /\ StagedRecord(c).pending.phase = "staged"
         /\ StagedRecord(c).pending.version = selected[c]
BY DEF StagedRecord, TypeOK, Metadata, Pending, Phases

-----------------------------------------------------------------------------
(* Type correctness *)

(* The version the runtime was bootstrapped with is a version.              *)
LEMMA ZeroIsVersion == 0 \in Versions
BY MaxVersionAssumption DEF Versions

(* The history variables keep their types when they follow the record.      *)
LEMMA FollowRecordType ==
  ASSUME sponsor \in Coordinators \union {NONE}, approved \in BOOLEAN, FollowRecord
  PROVE  sponsor' \in Coordinators \union {NONE} /\ approved' \in BOOLEAN
<1>1. CASE IsPending(meta')
  BY <1>1 DEF FollowRecord, ghosts
<1>2. CASE ~IsPending(meta')
  BY <1>2 DEF FollowRecord, Forget
<1>3. QED
  BY <1>1, <1>2

(* A bootstrapped runtime has every variable of its type.                   *)
LEMMA TypeInit == Init => TypeOK
<1> SUFFICES ASSUME Init PROVE TypeOK
  OBVIOUS
<1>1. meta \in Metadata /\ meta.pending.phase # "cleanup"
  BY ZeroIsVersion DEF Init, Metadata, Pending, NoPending, Phases
<1>2. /\ target \in Versions /\ channel \in Versions
      /\ candidates \subseteq Versions /\ temps \subseteq Versions
      /\ bootLock \in Processes \union {NONE} /\ updLock \in Processes \union {NONE}
      /\ faults \in 0 .. MaxFaults
  BY ZeroIsVersion, ProcessAssumption DEF Init
<1>3. /\ pc \in [Processes -> PCs] /\ op \in [Processes -> Ops]
      /\ out \in [Processes -> Outcomes]
  BY DEF Init, PCs, Ops, Outcomes
<1>4. /\ running \in [Coordinators -> Versions] /\ step \in [Coordinators -> Steps]
      /\ selected \in [Coordinators -> Versions]
  BY ZeroIsVersion DEF Init, Steps
<1>5. sponsor \in Coordinators \union {NONE} /\ approved \in BOOLEAN
  BY DEF Init
<1>6. QED
  BY <1>1, <1>2, <1>3, <1>4, <1>5 DEF TypeOK

(* Every step of an engine function, a helper or the environment keeps      *)
(* the types.                                                               *)
LEMMA TypeNext == TypeOK /\ [Next]_vars => TypeOK'
<1> SUFFICES ASSUME TypeOK, [Next]_vars PROVE TypeOK' OBVIOUS
<1> USE ZeroIsVersion, ProcessAssumption, RecoveryLabels
<1> USE DEF TypeOK, Processes, PCs, Ops, Outcomes, Steps, files, locks, coord, ghosts,
        Goto, Lock, Return, CallFails
<1>1. ASSUME NEW p \in Processes, RecoverPending(p) PROVE TypeOK'
  BY <1>1 DEF RecoverPending, Enter, Metadata, Pending
<1>2. ASSUME NEW p \in Processes, ProbeUpdateLock(p) PROVE TypeOK'
  BY <1>2 DEF ProbeUpdateLock
<1>3. ASSUME NEW p \in Processes, EndProbe(p) PROVE TypeOK'
  BY <1>3 DEF EndProbe
<1>4. ASSUME NEW p \in Processes, Unlink(p) PROVE TypeOK'
  BY <1>4 DEF Unlink
<1>5. ASSUME NEW p \in Processes, Clear(p) PROVE TypeOK'
  <2>1. meta' \in Metadata /\ meta'.pending.phase # "cleanup"
    BY <1>5, ClearPending DEF Clear, Persisted
  <2>2. sponsor' \in Coordinators \union {NONE} /\ approved' \in BOOLEAN
    BY <1>5, FollowRecordType DEF Clear
  <2>3. QED
    BY <1>5, <2>1, <2>2 DEF Clear, Persisted
<1>6. ASSUME NEW p \in Processes, Begin(p) PROVE TypeOK'
  BY <1>6, SetPhase DEF Begin, Phases
<1>7. ASSUME NEW p \in Processes, Swap(p) PROVE TypeOK'
  BY <1>7 DEF Swap, Metadata, Pending
<1>8. ASSUME NEW p \in Processes, Commit(p) PROVE TypeOK'
  <2>1. meta' \in Metadata /\ meta'.pending.phase # "cleanup"
    BY <1>8, CommitVersion DEF Commit, Persisted
  <2>2. sponsor' \in Coordinators \union {NONE} /\ approved' \in BOOLEAN
    BY <1>8, FollowRecordType DEF Commit
  <2>3. QED
    BY <1>8, <2>1, <2>2 DEF Commit, Persisted
<1>9. ASSUME NEW p \in Processes, Crash(p) PROVE TypeOK'
  BY <1>9 DEF Crash, FreeLocksOf
<1>10. ASSUME NEW c \in Coordinators, StageCandidate(c) PROVE TypeOK'
  BY <1>10 DEF StageCandidate, Enter
<1>11. ASSUME NEW c \in Coordinators, Copy(c) PROVE TypeOK'
  BY <1>11 DEF Copy
<1>12. ASSUME NEW c \in Coordinators, Link(c) PROVE TypeOK'
  BY <1>12 DEF Link
<1>13. ASSUME NEW c \in Coordinators, RecordStaged(c) PROVE TypeOK'
  <2>1. meta' \in Metadata /\ meta'.pending.phase # "cleanup"
    BY <1>13, StagedRecordOf DEF RecordStaged
  <2>2. sponsor' \in Coordinators \union {NONE} /\ approved' \in BOOLEAN
    BY <1>13 DEF RecordStaged
  <2>3. QED
    BY <1>13, <2>1, <2>2 DEF RecordStaged
<1>14. ASSUME NEW c \in Coordinators, UndoStage(c) PROVE TypeOK'
  BY <1>14 DEF UndoStage
<1>15. ASSUME NEW c \in Coordinators, MarkPendingReady(c) PROVE TypeOK'
  BY <1>15 DEF MarkPendingReady, Enter
<1>16. ASSUME NEW c \in Coordinators, Approve(c) PROVE TypeOK'
  BY <1>16, SetPhase DEF Approve, Persisted, Phases
<1>17. ASSUME NEW c \in Coordinators, ApplyPending(c) PROVE TypeOK'
  <2>1. meta.pending.phase \in Phases
    BY DEF Metadata, Pending
  <2>2. CASE meta.pending.phase \in {"none", "staged"}
    BY <1>17, <2>2 DEF ApplyPending, Enter
  <2>3. CASE meta.pending.phase \in {"ready", "replacing"}
    <3>1. ApplyOrRecover(c)
      BY <1>17, <2>3 DEF ApplyPending
    <3>2. QED
      BY <1>17, <2>1, <2>3, <3>1 DEF ApplyPending, ApplyOrRecover, Enter
  <2>4. QED
    BY <2>1, <2>2, <2>3 DEF Phases
<1>18. ASSUME NEW c \in Coordinators, StartCheck(c) PROVE TypeOK'
  BY <1>18 DEF StartCheck
<1>19. ASSUME NEW c \in Coordinators, StartStage(c) PROVE TypeOK'
  BY <1>19 DEF StartStage
<1>20. ASSUME NEW c \in Coordinators, StartApply(c) PROVE TypeOK'
  BY <1>20 DEF StartApply
<1>21. ASSUME NEW c \in Coordinators, GiveUp(c) PROVE TypeOK'
  BY <1>21 DEF GiveUp
<1>22. ASSUME NEW c \in Coordinators, Release(c) PROVE TypeOK'
  BY <1>22 DEF Release
<1>23. ASSUME NEW c \in Coordinators, HelperStart(c) PROVE TypeOK'
  BY <1>23 DEF HelperStart
<1>24. ASSUME NEW c \in Coordinators, FinishCheck(c) PROVE TypeOK'
  BY <1>24 DEF FinishCheck, HelperExits, ResolveCandidate
<1>25. ASSUME NEW c \in Coordinators, ContinueStage(c) PROVE TypeOK'
  BY <1>25 DEF ContinueStage, HelperExits
<1>26. ASSUME NEW c \in Coordinators, FinishStage(c) PROVE TypeOK'
  BY <1>26 DEF FinishStage, HelperExits
<1>27. ASSUME NEW c \in Coordinators, ContinueApply(c) PROVE TypeOK'
  BY <1>27 DEF ContinueApply, HelperExits
<1>28. ASSUME NEW c \in Coordinators, FinishApply(c) PROVE TypeOK'
  BY <1>28 DEF FinishApply, HelperExits
<1>29. ASSUME NEW c \in Coordinators, CoordinatorDies(c) PROVE TypeOK'
  BY <1>29 DEF CoordinatorDies
<1>30. ASSUME NEW i \in Invokers, Invoke(i) PROVE TypeOK'
  BY <1>30 DEF Invoke
<1>31. ASSUME NEW i \in Invokers, Finish(i) PROVE TypeOK'
  BY <1>31 DEF Finish
<1>32. ASSUME NEW v \in Versions, Publish(v) PROVE TypeOK'
  BY <1>32 DEF Publish
<1>33. ASSUME NEW v \in Versions, LoseCandidate(v) PROVE TypeOK'
  BY <1>33 DEF LoseCandidate
<1>34. CASE UNCHANGED vars
  BY <1>34 DEF vars
<1>35. QED
  BY <1>1, <1>2, <1>3, <1>4, <1>5, <1>6, <1>7, <1>8, <1>9, <1>10, <1>11, <1>12, <1>13, <1>14, <1>15, <1>16, <1>17, <1>18, <1>19, <1>20, <1>21, <1>22, <1>23, <1>24, <1>25, <1>26, <1>27, <1>28, <1>29, <1>30, <1>31, <1>32, <1>33, <1>34
  DEF Next, EngineStep, StageOrApplyStep, CoordinatorStep

-----------------------------------------------------------------------------
(* The inductive invariant *)

(* What each classification says of the files (classify_files).             *)
LEMMA ClassifiedFiles ==
  /\ Classified = StagedFiles =>
       target = meta.version /\ meta.pending.version \in candidates
  /\ Classified = SwappedFiles =>
       target = meta.pending.version /\ meta.pending.version \notin candidates
  /\ Classified = LostFiles =>
       target = meta.version /\ meta.pending.version \notin candidates
BY DEF Classified, classify_files, StagedFiles, SwappedFiles, LostFiles, Files

(* While the BootstrapLock is free nobody is inside a locked function.      *)
LEMMA NoHolder ==
  ASSUME LockInv, bootLock = NONE, NEW q \in Processes
  PROVE  pc[q] \notin Locked
BY ProcessAssumption DEF LockInv

(* Who is inside a locked function is there alone.                          *)
LEMMA OneHolder ==
  ASSUME LockInv, NEW p \in Processes, pc[p] \in Locked, NEW q \in Processes \ {p}
  PROVE  pc[q] \notin Locked
BY DEF LockInv

(* The inductive invariant holds of a bootstrapped runtime.                 *)
LEMMA InvInit == Init => IInv
<1> SUFFICES ASSUME Init PROVE IInv
  OBVIOUS
<1>1. TypeOK
  BY TypeInit
<1>2. LockInv /\ ProtocolInv
  BY DEF Init, LockInv, ProtocolInv, Locked, Processes
<1>3. RecordInv
  BY DEF Init, RecordInv, RecordMatchesTarget, IsPending, NoPending
<1>4. StepInv
  BY DEF Init, StepInv
<1>5. QED
  BY <1>1, <1>2, <1>3, <1>4 DEF IInv

(* What the label recovery chooses says of the record and the target.       *)
LEMMA RecoverySteps ==
  ASSUME TypeOK
  PROVE  LET next == UnixRecovery(meta.pending.phase, Classified)
         IN  /\ next = "clear" => /\ IsPending(meta) /\ target = meta.version
                                  /\ meta.pending.version \notin candidates
             /\ next = "begin" => meta.pending.phase = "ready"
             /\ next = "swap" => meta.pending.phase = "replacing" /\ target = meta.version
             /\ next = "commit" =>
                  meta.pending.phase = "replacing" /\ target = meta.pending.version
BY RecoveryLabels, ClassifiedFiles DEF TypeOK, Metadata, Pending, IsPending

(* Where recover_pending_with goes on, and what it has not touched by       *)
(* then.                                                                    *)
LEMMA RecoverPendingSteps ==
  ASSUME TypeOK, NEW p \in Processes, RecoverPending(p)
  PROVE  \E label \in {"done", "probe", "unlink", "clear", "begin", "swap", "commit"} :
           /\ pc' = [pc EXCEPT ![p] = label]
           /\ bootLock' = IF label = "done" THEN NONE ELSE p
           /\ UNCHANGED updLock
           /\ \A q \in Processes \ {p} : out'[q] = out[q]
           /\ label \in {"probe", "unlink"} => meta.pending.phase = "staged"
           /\ label = "probe" => op[p] = "recover"
           /\ label \in {"clear", "begin", "swap", "commit"} =>
                label = UnixRecovery(meta.pending.phase, Classified)
<1> DEFINE next == UnixRecovery(meta.pending.phase, Classified)
<1>1. /\ next \in {"nothing", "discard", "clear", "begin", "swap", "commit", "invalid"}
      /\ next = "discard" => meta.pending.phase = "staged"
  BY RecoveryLabels DEF TypeOK, Metadata, Pending
<1>2. CASE next \in {"nothing", "invalid"}
  BY <1>2 DEF RecoverPending, Return, Goto, TypeOK
<1>3. CASE next = "discard"
  BY <1>1, <1>3 DEF RecoverPending, Lock, Goto, TypeOK
<1>4. CASE next \in {"clear", "begin", "swap", "commit"}
  BY <1>4 DEF RecoverPending, Lock, Goto, TypeOK
<1>5. QED
  BY <1>1, <1>2, <1>3, <1>4

(* Where apply_pending goes on, and what it has not touched by then.        *)
LEMMA ApplyPendingSteps ==
  ASSUME TypeOK, NEW c \in Coordinators, ApplyPending(c)
  PROVE  \E label \in {"done", "clear", "begin", "swap", "commit"} :
           /\ pc' = [pc EXCEPT ![c] = label]
           /\ bootLock' = IF label = "done" THEN NONE ELSE c
           /\ UNCHANGED updLock
           /\ \A q \in Processes \ {c} : out'[q] = out[q]
           /\ label # "done" => label = UnixRecovery(meta.pending.phase, Classified)
<1>1. meta.pending.phase \in {"none", "staged", "ready", "replacing"}
  BY DEF TypeOK, Metadata, Pending, Phases
<1>2. CASE meta.pending.phase \in {"none", "staged"}
  BY <1>2 DEF ApplyPending, Return, Goto, TypeOK
<1>3. CASE meta.pending.phase \in {"ready", "replacing"}
  <2>1. ApplyOrRecover(c)
    BY <1>3 DEF ApplyPending
  <2>2. UnixRecovery(meta.pending.phase, Classified)
          \in {"clear", "begin", "swap", "commit", "invalid"}
    BY <1>3, RecoveryLabels DEF Phases
  <2>3. QED
    BY <2>1, <2>2 DEF ApplyOrRecover, Lock, Return, Goto, TypeOK
<1>4. QED
  BY <1>1, <1>2, <1>3

(* Every step keeps the inductive invariant.                                *)
LEMMA InvNext == IInv /\ [Next]_vars => IInv'
<1> SUFFICES ASSUME IInv, [Next]_vars PROVE IInv'
  OBVIOUS
<1> USE NoHolder, OneHolder, ProcessAssumption
<1> USE DEF IInv, files, locks, coord, ghosts, Goto, Lock, Return, CallFails, Processes
<1>t. TypeOK'
  BY TypeNext
<1>1. ASSUME NEW p \in Processes, RecoverPending(p) PROVE IInv'
  <2>1. UNCHANGED <<meta, target, candidates, selected, step>>
    BY <1>1 DEF RecoverPending
  <2>2. PICK label \in {"done", "probe", "unlink", "clear", "begin", "swap", "commit"} :
          /\ pc' = [pc EXCEPT ![p] = label]
          /\ bootLock' = IF label = "done" THEN NONE ELSE p
          /\ label \in {"probe", "unlink"} => meta.pending.phase = "staged"
          /\ label \in {"clear", "begin", "swap", "commit"} =>
               label = UnixRecovery(meta.pending.phase, Classified)
    BY <1>1, RecoverPendingSteps
  <2>3. bootLock = NONE /\ pc[p] = "want"
    BY <1>1 DEF RecoverPending, Enter
  <2>4. LockInv'
    BY <2>2, <2>3 DEF LockInv, Locked, TypeOK
  <2>5. RecordInv'
    BY <2>1 DEF RecordInv, RecordMatchesTarget, IsPending
  <2>6. StepInv'
    BY <2>1, <2>2, <2>3, RecoverySteps DEF StepInv, IsPending, TypeOK, Locked
  <2>7. ProtocolInv'
    BY <2>1, <2>2, <2>3 DEF ProtocolInv, TypeOK
  <2>8. QED
    BY <1>t, <2>4, <2>5, <2>6, <2>7
<1>2. ASSUME NEW p \in Processes, ProbeUpdateLock(p) PROVE IInv'
  <2>1. LockInv'
    BY <1>2 DEF ProbeUpdateLock, LockInv, Locked, TypeOK
  <2>2. RecordInv'
    BY <1>2 DEF ProbeUpdateLock, TypeOK, RecordInv, RecordMatchesTarget, IsPending, StepInv
  <2>3. StepInv'
    BY <1>2 DEF ProbeUpdateLock, TypeOK, RecordInv, RecordMatchesTarget, IsPending, StepInv, Locked
  <2>4. ProtocolInv'
    BY <1>2 DEF ProbeUpdateLock, TypeOK, ProtocolInv
  <2>5. QED
    BY <1>t, <2>1, <2>2, <2>3, <2>4
<1>3. ASSUME NEW p \in Processes, EndProbe(p) PROVE IInv'
  <2>1. LockInv'
    BY <1>3 DEF EndProbe, LockInv, Locked, TypeOK
  <2>2. RecordInv'
    BY <1>3 DEF EndProbe, TypeOK, RecordInv, RecordMatchesTarget, IsPending, StepInv
  <2>3. StepInv'
    BY <1>3 DEF EndProbe, TypeOK, RecordInv, RecordMatchesTarget, IsPending, StepInv, Locked
  <2>4. ProtocolInv'
    BY <1>3 DEF EndProbe, TypeOK, ProtocolInv
  <2>5. QED
    BY <1>t, <2>1, <2>2, <2>3, <2>4
<1>4. ASSUME NEW p \in Processes, Unlink(p) PROVE IInv'
  <2>1. LockInv'
    BY <1>4 DEF Unlink, LockInv, Locked, TypeOK
  <2>2. RecordInv'
    BY <1>4 DEF Unlink, TypeOK, RecordInv, RecordMatchesTarget, IsPending, StepInv
  <2>3. StepInv'
    BY <1>4 DEF Unlink, TypeOK, RecordInv, RecordMatchesTarget, IsPending, StepInv, Locked
  <2>4. ProtocolInv'
    BY <1>4 DEF Unlink, TypeOK, ProtocolInv
  <2>5. QED
    BY <1>t, <2>1, <2>2, <2>3, <2>4
<1>5. ASSUME NEW p \in Processes, Clear(p) PROVE IInv'
  <2>1. LockInv'
    BY <1>5, ClearPending DEF Clear, Persisted, LockInv, Locked, TypeOK
  <2>2. RecordInv'
    BY <1>5, ClearPending DEF Clear, Persisted, TypeOK, RecordInv, RecordMatchesTarget, IsPending, StepInv
  <2>3. StepInv'
    BY <1>5, ClearPending DEF Clear, Persisted, TypeOK, RecordInv, RecordMatchesTarget, IsPending, StepInv, Locked
  <2>4. ProtocolInv'
    BY <1>5, ClearPending DEF Clear, Persisted, TypeOK, ProtocolInv
  <2>5. QED
    BY <1>t, <2>1, <2>2, <2>3, <2>4
<1>6. ASSUME NEW p \in Processes, Begin(p) PROVE IInv'
  <2>1. LockInv'
    BY <1>6, SetPhase DEF Begin, LockInv, Locked, TypeOK
  <2>2. RecordInv'
    BY <1>6, SetPhase DEF Begin, Phases, TypeOK, RecordInv, RecordMatchesTarget, IsPending, StepInv
  <2>3. StepInv'
    BY <1>6, SetPhase DEF Begin, Phases, TypeOK, RecordInv, RecordMatchesTarget, IsPending, StepInv, Locked
  <2>4. ProtocolInv'
    BY <1>6, SetPhase DEF Begin, Phases, TypeOK, ProtocolInv
  <2>5. QED
    BY <1>t, <2>1, <2>2, <2>3, <2>4
<1>7. ASSUME NEW p \in Processes, Swap(p) PROVE IInv'
  <2>1. LockInv'
    BY <1>7 DEF Swap, LockInv, Locked, TypeOK
  <2>2. RecordInv'
    BY <1>7 DEF Swap, TypeOK, RecordInv, RecordMatchesTarget, IsPending, StepInv
  <2>3. StepInv'
    BY <1>7 DEF Swap, TypeOK, RecordInv, RecordMatchesTarget, IsPending, StepInv, Locked
  <2>4. ProtocolInv'
    BY <1>7 DEF Swap, TypeOK, ProtocolInv
  <2>5. QED
    BY <1>t, <2>1, <2>2, <2>3, <2>4
<1>8. ASSUME NEW p \in Processes, Commit(p) PROVE IInv'
  <2>1. LockInv'
    BY <1>8, CommitVersion DEF Commit, Persisted, LockInv, Locked, TypeOK
  <2>2. RecordInv'
    BY <1>8, CommitVersion DEF Commit, Persisted, TypeOK, RecordInv, RecordMatchesTarget, IsPending, StepInv
  <2>3. StepInv'
    BY <1>8, CommitVersion DEF Commit, Persisted, TypeOK, RecordInv, RecordMatchesTarget, IsPending, StepInv, Locked
  <2>4. ProtocolInv'
    BY <1>8, CommitVersion DEF Commit, Persisted, TypeOK, ProtocolInv
  <2>5. QED
    BY <1>t, <2>1, <2>2, <2>3, <2>4
<1>9. ASSUME NEW p \in Processes, Crash(p) PROVE IInv'
  <2>1. LockInv'
    BY <1>9 DEF Crash, FreeLocksOf, LockInv, Locked, TypeOK
  <2>2. RecordInv'
    BY <1>9 DEF Crash, FreeLocksOf, TypeOK, RecordInv, RecordMatchesTarget, IsPending, StepInv
  <2>3. StepInv'
    BY <1>9 DEF Crash, FreeLocksOf, TypeOK, RecordInv, RecordMatchesTarget, IsPending, StepInv, Locked
  <2>4. ProtocolInv'
    BY <1>9 DEF Crash, FreeLocksOf, TypeOK, ProtocolInv
  <2>5. QED
    BY <1>t, <2>1, <2>2, <2>3, <2>4
<1>10. ASSUME NEW c \in Coordinators, StageCandidate(c) PROVE IInv'
  <2>1. LockInv'
    BY <1>10 DEF StageCandidate, Enter, LockInv, Locked, TypeOK
  <2>2. RecordInv'
    BY <1>10 DEF StageCandidate, Enter, TypeOK, RecordInv, RecordMatchesTarget, IsPending, StepInv
  <2>3. StepInv'
    BY <1>10 DEF StageCandidate, Enter, TypeOK, RecordInv, RecordMatchesTarget, IsPending, StepInv, Locked
  <2>4. ProtocolInv'
    BY <1>10 DEF StageCandidate, Enter, TypeOK, ProtocolInv
  <2>5. QED
    BY <1>t, <2>1, <2>2, <2>3, <2>4
<1>11. ASSUME NEW c \in Coordinators, Copy(c) PROVE IInv'
  <2>1. LockInv'
    BY <1>11 DEF Copy, LockInv, Locked, TypeOK
  <2>2. RecordInv'
    BY <1>11 DEF Copy, TypeOK, RecordInv, RecordMatchesTarget, IsPending, StepInv
  <2>3. StepInv'
    BY <1>11 DEF Copy, TypeOK, RecordInv, RecordMatchesTarget, IsPending, StepInv, Locked
  <2>4. ProtocolInv'
    BY <1>11 DEF Copy, TypeOK, ProtocolInv
  <2>5. QED
    BY <1>t, <2>1, <2>2, <2>3, <2>4
<1>12. ASSUME NEW c \in Coordinators, Link(c) PROVE IInv'
  <2>1. LockInv'
    BY <1>12 DEF Link, LockInv, Locked, TypeOK
  <2>2. RecordInv'
    BY <1>12 DEF Link, TypeOK, RecordInv, RecordMatchesTarget, IsPending, StepInv
  <2>3. StepInv'
    BY <1>12 DEF Link, TypeOK, RecordInv, RecordMatchesTarget, IsPending, StepInv, Locked
  <2>4. ProtocolInv'
    BY <1>12 DEF Link, TypeOK, ProtocolInv
  <2>5. QED
    BY <1>t, <2>1, <2>2, <2>3, <2>4
<1>13. ASSUME NEW c \in Coordinators, RecordStaged(c) PROVE IInv'
  <2>1. LockInv'
    BY <1>13, StagedRecordOf DEF RecordStaged, LockInv, Locked, TypeOK
  <2>2. RecordInv'
    BY <1>13, StagedRecordOf DEF RecordStaged, TypeOK, RecordInv, RecordMatchesTarget, IsPending, StepInv
  <2>3. StepInv'
    BY <1>13, StagedRecordOf DEF RecordStaged, TypeOK, RecordInv, RecordMatchesTarget, IsPending, StepInv, Locked
  <2>4. ProtocolInv'
    BY <1>13, StagedRecordOf DEF RecordStaged, TypeOK, ProtocolInv
  <2>5. QED
    BY <1>t, <2>1, <2>2, <2>3, <2>4
<1>14. ASSUME NEW c \in Coordinators, UndoStage(c) PROVE IInv'
  <2>1. LockInv'
    BY <1>14 DEF UndoStage, LockInv, Locked, TypeOK
  <2>2. RecordInv'
    BY <1>14 DEF UndoStage, TypeOK, RecordInv, RecordMatchesTarget, IsPending, StepInv
  <2>3. StepInv'
    BY <1>14 DEF UndoStage, TypeOK, RecordInv, RecordMatchesTarget, IsPending, StepInv, Locked
  <2>4. ProtocolInv'
    BY <1>14 DEF UndoStage, TypeOK, ProtocolInv
  <2>5. QED
    BY <1>t, <2>1, <2>2, <2>3, <2>4
<1>15. ASSUME NEW c \in Coordinators, MarkPendingReady(c) PROVE IInv'
  <2>1. LockInv'
    BY <1>15, ClassifiedFiles DEF MarkPendingReady, Enter, LockInv, Locked, TypeOK
  <2>2. RecordInv'
    BY <1>15, ClassifiedFiles DEF MarkPendingReady, Enter, TypeOK, RecordInv, RecordMatchesTarget, IsPending, StepInv
  <2>3. StepInv'
    BY <1>15, ClassifiedFiles DEF MarkPendingReady, Enter, TypeOK, RecordInv, RecordMatchesTarget, IsPending, StepInv, Locked
  <2>4. ProtocolInv'
    BY <1>15, ClassifiedFiles DEF MarkPendingReady, Enter, TypeOK, ProtocolInv
  <2>5. QED
    BY <1>t, <2>1, <2>2, <2>3, <2>4
<1>16. ASSUME NEW c \in Coordinators, Approve(c) PROVE IInv'
  <2>1. LockInv'
    BY <1>16, SetPhase DEF Approve, Persisted, LockInv, Locked, TypeOK
  <2>2. RecordInv'
    BY <1>16, SetPhase DEF Approve, Persisted, Phases, TypeOK, RecordInv, RecordMatchesTarget, IsPending, StepInv
  <2>3. StepInv'
    BY <1>16, SetPhase DEF Approve, Persisted, Phases, TypeOK, RecordInv, RecordMatchesTarget, IsPending, StepInv, Locked
  <2>4. ProtocolInv'
    BY <1>16, SetPhase DEF Approve, Persisted, Phases, TypeOK, ProtocolInv
  <2>5. QED
    BY <1>t, <2>1, <2>2, <2>3, <2>4
<1>17. ASSUME NEW c \in Coordinators, ApplyPending(c) PROVE IInv'
  <2>1. UNCHANGED <<meta, target, candidates, selected, step>>
    BY <1>17 DEF ApplyPending
  <2>2. PICK label \in {"done", "clear", "begin", "swap", "commit"} :
          /\ pc' = [pc EXCEPT ![c] = label]
          /\ bootLock' = IF label = "done" THEN NONE ELSE c
          /\ label # "done" => label = UnixRecovery(meta.pending.phase, Classified)
    BY <1>17, ApplyPendingSteps
  <2>3. bootLock = NONE /\ pc[c] = "want"
    BY <1>17 DEF ApplyPending, Enter
  <2>4. LockInv'
    BY <2>2, <2>3 DEF LockInv, Locked, TypeOK
  <2>5. RecordInv'
    BY <2>1 DEF RecordInv, RecordMatchesTarget, IsPending
  <2>6. StepInv'
    BY <2>1, <2>2, <2>3, RecoverySteps DEF StepInv, IsPending, TypeOK, Locked
  <2>7. ProtocolInv'
    BY <2>1, <2>2, <2>3 DEF ProtocolInv, TypeOK
  <2>8. QED
    BY <1>t, <2>4, <2>5, <2>6, <2>7
<1>18. ASSUME NEW c \in Coordinators, StartCheck(c) PROVE IInv'
  <2>1. LockInv'
    BY <1>18 DEF StartCheck, LockInv, Locked, TypeOK
  <2>2. RecordInv'
    BY <1>18 DEF StartCheck, TypeOK, RecordInv, RecordMatchesTarget, IsPending, StepInv
  <2>3. StepInv'
    BY <1>18 DEF StartCheck, TypeOK, RecordInv, RecordMatchesTarget, IsPending, StepInv, Locked
  <2>4. ProtocolInv'
    BY <1>18 DEF StartCheck, TypeOK, ProtocolInv
  <2>5. QED
    BY <1>t, <2>1, <2>2, <2>3, <2>4
<1>19. ASSUME NEW c \in Coordinators, StartStage(c) PROVE IInv'
  <2>1. LockInv'
    BY <1>19 DEF StartStage, LockInv, Locked, TypeOK
  <2>2. RecordInv'
    BY <1>19 DEF StartStage, TypeOK, RecordInv, RecordMatchesTarget, IsPending, StepInv
  <2>3. StepInv'
    BY <1>19 DEF StartStage, TypeOK, RecordInv, RecordMatchesTarget, IsPending, StepInv, Locked
  <2>4. ProtocolInv'
    BY <1>19 DEF StartStage, TypeOK, ProtocolInv
  <2>5. QED
    BY <1>t, <2>1, <2>2, <2>3, <2>4
<1>20. ASSUME NEW c \in Coordinators, StartApply(c) PROVE IInv'
  <2>1. LockInv'
    BY <1>20 DEF StartApply, LockInv, Locked, TypeOK
  <2>2. RecordInv'
    BY <1>20 DEF StartApply, TypeOK, RecordInv, RecordMatchesTarget, IsPending, StepInv
  <2>3. StepInv'
    BY <1>20 DEF StartApply, TypeOK, RecordInv, RecordMatchesTarget, IsPending, StepInv, Locked
  <2>4. ProtocolInv'
    BY <1>20 DEF StartApply, TypeOK, ProtocolInv
  <2>5. QED
    BY <1>t, <2>1, <2>2, <2>3, <2>4
<1>21. ASSUME NEW c \in Coordinators, GiveUp(c) PROVE IInv'
  <2>1. LockInv'
    BY <1>21 DEF GiveUp, LockInv, Locked, TypeOK
  <2>2. RecordInv'
    BY <1>21 DEF GiveUp, TypeOK, RecordInv, RecordMatchesTarget, IsPending, StepInv
  <2>3. StepInv'
    BY <1>21 DEF GiveUp, TypeOK, RecordInv, RecordMatchesTarget, IsPending, StepInv, Locked
  <2>4. ProtocolInv'
    BY <1>21 DEF GiveUp, TypeOK, ProtocolInv
  <2>5. QED
    BY <1>t, <2>1, <2>2, <2>3, <2>4
<1>22. ASSUME NEW c \in Coordinators, Release(c) PROVE IInv'
  <2>1. LockInv'
    BY <1>22 DEF Release, LockInv, Locked, TypeOK
  <2>2. RecordInv'
    BY <1>22 DEF Release, TypeOK, RecordInv, RecordMatchesTarget, IsPending, StepInv
  <2>3. StepInv'
    BY <1>22 DEF Release, TypeOK, ProtocolInv, StepInv
  <2>4. ProtocolInv'
    BY <1>22 DEF Release, TypeOK, ProtocolInv
  <2>5. QED
    BY <1>t, <2>1, <2>2, <2>3, <2>4
<1>23. ASSUME NEW c \in Coordinators, HelperStart(c) PROVE IInv'
  <2>1. LockInv'
    BY <1>23 DEF HelperStart, LockInv, Locked, TypeOK
  <2>2. RecordInv'
    BY <1>23 DEF HelperStart, TypeOK, RecordInv, RecordMatchesTarget, IsPending, StepInv
  <2>3. StepInv'
    BY <1>23 DEF HelperStart, TypeOK, RecordInv, RecordMatchesTarget, IsPending, StepInv, Locked
  <2>4. ProtocolInv'
    BY <1>23 DEF HelperStart, TypeOK, ProtocolInv
  <2>5. QED
    BY <1>t, <2>1, <2>2, <2>3, <2>4
<1>24. ASSUME NEW c \in Coordinators, FinishCheck(c) PROVE IInv'
  <2>1. LockInv'
    BY <1>24 DEF FinishCheck, HelperExits, LockInv, Locked, TypeOK
  <2>2. RecordInv'
    BY <1>24 DEF FinishCheck, HelperExits, TypeOK, RecordInv, RecordMatchesTarget, IsPending, StepInv
  <2>3. StepInv'
    BY <1>24 DEF FinishCheck, HelperExits, TypeOK, RecordInv, RecordMatchesTarget, IsPending, StepInv, Locked
  <2>4. ProtocolInv'
    BY <1>24 DEF FinishCheck, HelperExits, TypeOK, ProtocolInv
  <2>5. QED
    BY <1>t, <2>1, <2>2, <2>3, <2>4
<1>25. ASSUME NEW c \in Coordinators, ContinueStage(c) PROVE IInv'
  <2>1. LockInv'
    BY <1>25 DEF ContinueStage, HelperExits, LockInv, Locked, TypeOK
  <2>2. RecordInv'
    BY <1>25 DEF ContinueStage, HelperExits, TypeOK, RecordInv, RecordMatchesTarget, IsPending, StepInv
  <2>3. StepInv'
    BY <1>25 DEF ContinueStage, HelperExits, TypeOK, RecordInv, RecordMatchesTarget, IsPending, StepInv, Locked
  <2>4. ProtocolInv'
    BY <1>25 DEF ContinueStage, HelperExits, TypeOK, ProtocolInv
  <2>5. QED
    BY <1>t, <2>1, <2>2, <2>3, <2>4
<1>26. ASSUME NEW c \in Coordinators, FinishStage(c) PROVE IInv'
  <2>1. LockInv'
    BY <1>26 DEF FinishStage, HelperExits, LockInv, Locked, TypeOK
  <2>2. RecordInv'
    BY <1>26 DEF FinishStage, HelperExits, TypeOK, RecordInv, RecordMatchesTarget, IsPending, StepInv
  <2>3. StepInv'
    BY <1>26 DEF FinishStage, HelperExits, TypeOK, RecordInv, RecordMatchesTarget, IsPending, StepInv, Locked
  <2>4. ProtocolInv'
    BY <1>26 DEF FinishStage, HelperExits, TypeOK, ProtocolInv
  <2>5. QED
    BY <1>t, <2>1, <2>2, <2>3, <2>4
<1>27. ASSUME NEW c \in Coordinators, ContinueApply(c) PROVE IInv'
  <2>1. LockInv'
    BY <1>27 DEF ContinueApply, HelperExits, LockInv, Locked, TypeOK
  <2>2. RecordInv'
    BY <1>27 DEF ContinueApply, HelperExits, TypeOK, RecordInv, RecordMatchesTarget, IsPending, StepInv
  <2>3. StepInv'
    BY <1>27 DEF ContinueApply, HelperExits, TypeOK, RecordInv, RecordMatchesTarget, IsPending, StepInv, Locked
  <2>4. ProtocolInv'
    BY <1>27 DEF ContinueApply, HelperExits, TypeOK, ProtocolInv
  <2>5. QED
    BY <1>t, <2>1, <2>2, <2>3, <2>4
<1>28. ASSUME NEW c \in Coordinators, FinishApply(c) PROVE IInv'
  <2>1. LockInv'
    BY <1>28 DEF FinishApply, HelperExits, LockInv, Locked, TypeOK
  <2>2. RecordInv'
    BY <1>28 DEF FinishApply, HelperExits, TypeOK, RecordInv, RecordMatchesTarget, IsPending, StepInv
  <2>3. StepInv'
    BY <1>28 DEF FinishApply, HelperExits, TypeOK, RecordInv, RecordMatchesTarget, IsPending, StepInv, Locked
  <2>4. ProtocolInv'
    BY <1>28 DEF FinishApply, HelperExits, TypeOK, ProtocolInv
  <2>5. QED
    BY <1>t, <2>1, <2>2, <2>3, <2>4
<1>29. ASSUME NEW c \in Coordinators, CoordinatorDies(c) PROVE IInv'
  <2>1. LockInv'
    BY <1>29 DEF CoordinatorDies, LockInv, Locked, TypeOK
  <2>2. RecordInv'
    BY <1>29 DEF CoordinatorDies, TypeOK, RecordInv, RecordMatchesTarget, IsPending, StepInv
  <2>3. StepInv'
    BY <1>29 DEF CoordinatorDies, TypeOK, RecordInv, RecordMatchesTarget, IsPending, StepInv, Locked
  <2>4. ProtocolInv'
    BY <1>29 DEF CoordinatorDies, TypeOK, ProtocolInv
  <2>5. QED
    BY <1>t, <2>1, <2>2, <2>3, <2>4
<1>30. ASSUME NEW i \in Invokers, Invoke(i) PROVE IInv'
  <2>1. LockInv'
    BY <1>30 DEF Invoke, LockInv, Locked, TypeOK
  <2>2. RecordInv'
    BY <1>30 DEF Invoke, TypeOK, RecordInv, RecordMatchesTarget, IsPending, StepInv
  <2>3. StepInv'
    BY <1>30 DEF Invoke, TypeOK, RecordInv, RecordMatchesTarget, IsPending, StepInv, Locked
  <2>4. ProtocolInv'
    BY <1>30 DEF Invoke, TypeOK, ProtocolInv
  <2>5. QED
    BY <1>t, <2>1, <2>2, <2>3, <2>4
<1>31. ASSUME NEW i \in Invokers, Finish(i) PROVE IInv'
  <2>1. LockInv'
    BY <1>31 DEF Finish, LockInv, Locked, TypeOK
  <2>2. RecordInv'
    BY <1>31 DEF Finish, TypeOK, RecordInv, RecordMatchesTarget, IsPending, StepInv
  <2>3. StepInv'
    BY <1>31 DEF Finish, TypeOK, RecordInv, RecordMatchesTarget, IsPending, StepInv, Locked
  <2>4. ProtocolInv'
    BY <1>31 DEF Finish, TypeOK, ProtocolInv
  <2>5. QED
    BY <1>t, <2>1, <2>2, <2>3, <2>4
<1>32. ASSUME NEW v \in Versions, Publish(v) PROVE IInv'
  <2>1. LockInv'
    BY <1>32 DEF Publish, LockInv, Locked, TypeOK
  <2>2. RecordInv'
    BY <1>32 DEF Publish, TypeOK, RecordInv, RecordMatchesTarget, IsPending, StepInv
  <2>3. StepInv'
    BY <1>32 DEF Publish, TypeOK, RecordInv, RecordMatchesTarget, IsPending, StepInv, Locked
  <2>4. ProtocolInv'
    BY <1>32 DEF Publish, TypeOK, ProtocolInv
  <2>5. QED
    BY <1>t, <2>1, <2>2, <2>3, <2>4
<1>33. ASSUME NEW v \in Versions, LoseCandidate(v) PROVE IInv'
  <2>1. LockInv'
    BY <1>33 DEF LoseCandidate, LockInv, Locked, TypeOK
  <2>2. RecordInv'
    BY <1>33 DEF LoseCandidate, TypeOK, RecordInv, RecordMatchesTarget, IsPending, StepInv
  <2>3. StepInv'
    BY <1>33 DEF LoseCandidate, TypeOK, RecordInv, RecordMatchesTarget, IsPending, StepInv, Locked
  <2>4. ProtocolInv'
    BY <1>33 DEF LoseCandidate, TypeOK, ProtocolInv
  <2>5. QED
    BY <1>t, <2>1, <2>2, <2>3, <2>4
<1>34. CASE UNCHANGED vars
  BY <1>34 DEF vars, TypeOK, LockInv, RecordInv, RecordMatchesTarget, IsPending, StepInv, ProtocolInv
<1>35. QED
  BY <1>1, <1>2, <1>3, <1>4, <1>5, <1>6, <1>7, <1>8, <1>9, <1>10, <1>11, <1>12, <1>13, <1>14, <1>15, <1>16, <1>17, <1>18, <1>19, <1>20, <1>21, <1>22, <1>23, <1>24, <1>25, <1>26, <1>27, <1>28, <1>29, <1>30, <1>31, <1>32, <1>33, <1>34
  DEF Next, EngineStep, StageOrApplyStep, CoordinatorStep

-----------------------------------------------------------------------------
(* Theorems *)

(* Type correctness: the record, the files, the locks and every process are *)
(* always in one of the states executable_update.rs distinguishes; a Unix   *)
(* installation never enters the Windows cleanup phase.                     *)
THEOREM TypeCorrect == Spec => []TypeOK
<1>1. QED
  BY TypeInit, TypeNext, PTL DEF Spec

(* The inductive invariant: whatever the interleaving, crashes and failed   *)
(* calls, the holder of the BootstrapLock is the only writer and each of    *)
(* its steps finds the record and the files as its function left them.      *)
THEOREM Inductive == Spec => []IInv
<1>1. QED
  BY InvInit, InvNext, PTL DEF Spec

(* The record always describes the executable at the stable path.           *)
THEOREM RecordAlwaysMatchesTarget == Spec => []RecordMatchesTarget
<1>1. IInv => RecordMatchesTarget
  BY DEF IInv, RecordInv
<1>2. QED
  BY <1>1, Inductive, PTL

(* Recovery accepts every state: apply_or_recover_locked and                *)
(* recover_pending_with never reach invalid_recovery_state on Unix, so no   *)
(* invocation refuses to start because of an interrupted update.            *)
THEOREM EveryStateIsRecoverable == Spec => []AlwaysRecoverable
<1>1. ASSUME IInv PROVE AlwaysRecoverable
  <2> USE <1>1 DEF IInv
  <2>1. meta.pending.phase \in {"none", "staged", "ready", "replacing"}
    BY DEF TypeOK, Metadata, Pending, Phases
  <2>2. IsPending(meta) /\ target = meta.version => Classified \in {StagedFiles, LostFiles}
    BY DEF Classified, classify_files, StagedFiles, LostFiles, Files, RecordInv
  <2>3. IsPending(meta) /\ target # meta.version =>
          meta.pending.phase = "replacing" /\ Classified = SwappedFiles
    BY DEF Classified, classify_files, SwappedFiles, Files, RecordInv, RecordMatchesTarget
  <2>4. CASE ~IsPending(meta)
    BY <2>4 DEF AlwaysRecoverable, UnixRecovery, IsPending
  <2>5. CASE IsPending(meta) /\ target = meta.version
    BY <2>1, <2>2, <2>5 DEF AlwaysRecoverable, UnixRecovery, IsPending
  <2>6. CASE IsPending(meta) /\ target # meta.version
    BY <2>3, <2>6 DEF AlwaysRecoverable, UnixRecovery
  <2>7. QED
    BY <2>4, <2>5, <2>6
<1>2. QED
  BY <1>1, Inductive, PTL

-----------------------------------------------------------------------------
(* Refinement *)

(* Without a pending update, or after the rename, AtomicUpdate sees no      *)
(* offer.                                                                   *)
LEMMA NothingOnOffer ==
  ASSUME ~IsPending(meta) \/ target = meta.pending.version
  PROVE  CurrentOffer = Atomic!NoOffer
BY DEF CurrentOffer, Atomic!NoOffer

(* What AtomicUpdate sees while an update is pending and not installed.     *)
LEMMA OnOffer ==
  ASSUME IsPending(meta), target # meta.pending.version
  PROVE  /\ CurrentOffer.version = meta.pending.version
         /\ CurrentOffer.state = IF meta.pending.phase = "staged" THEN "offered"
                                                                  ELSE "approved"
         /\ CurrentOffer.payload = IF meta.pending.version \in candidates THEN "present"
                                                                            ELSE "lost"
BY DEF CurrentOffer

(* A step that leaves the record and the files alone is a stutter.          *)
LEMMA StutterStep ==
  ASSUME UNCHANGED <<meta, target>>,
         IsPending(meta) /\ target # meta.pending.version =>
           (meta.pending.version \in candidates <=> meta.pending.version \in candidates')
  PROVE  UNCHANGED Atomic!vars
BY DEF CurrentOffer, Atomic!vars, IsPending

(* The loss of a candidate file is the loss of the payload, or a stutter.   *)
LEMMA LoseStep ==
  ASSUME UNCHANGED <<meta, target>>, candidates' \subseteq candidates
  PROVE  Atomic!LosePayload \/ UNCHANGED Atomic!vars
<1>1. CASE /\ IsPending(meta) /\ target # meta.pending.version
           /\ meta.pending.version \in candidates /\ meta.pending.version \notin candidates'
  <2>1. CurrentOffer' = [CurrentOffer EXCEPT !.payload = "lost"]
        /\ CurrentOffer.payload = "present"
    BY <1>1 DEF CurrentOffer, IsPending
  <2>2. QED
    BY <2>1 DEF Atomic!LosePayload
<1>2. QED
  BY <1>1, StutterStep

(* Every step is a step of AtomicUpdate or a stutter.                       *)
LEMMA StepRefines ==
  ASSUME IInv, IInv', [Next]_vars
  PROVE  [Atomic!Next]_(Atomic!vars)
<1> USE DEF files, locks, coord, ghosts, Goto, Lock, Return, CallFails
<1>v. meta.pending.version \in Atomic!Versions /\ meta'.pending.version \in Atomic!Versions
  BY DEF IInv, TypeOK, Metadata, Pending, Versions, Atomic!Versions
<1>1. ASSUME UNCHANGED <<meta, target, candidates>> PROVE UNCHANGED Atomic!vars
  BY <1>1, StutterStep
<1>2. ASSUME NEW p \in Processes, Unlink(p) PROVE Atomic!LosePayload \/ UNCHANGED Atomic!vars
  <2>1. UNCHANGED <<meta, target>> /\ candidates' \subseteq candidates
    BY <1>2 DEF Unlink
  <2>2. QED
    BY <2>1, LoseStep
<1>3. ASSUME NEW p \in Processes, Clear(p)
      PROVE  Atomic!Withdraw \/ Atomic!GiveUp \/ UNCHANGED Atomic!vars
  <2>1. /\ IsPending(meta) /\ target = meta.version /\ target # meta.pending.version
        /\ meta.pending.version \notin candidates
    BY <1>3 DEF Clear, IInv, StepInv, RecordInv
  <2>2. UNCHANGED <<target, candidates>> /\ (meta' = meta \/ meta' = clear_pending(meta))
    BY <1>3 DEF Clear, Persisted
  <2>3. CASE meta' = meta
    BY <2>2, <2>3, StutterStep
  <2>4. CASE meta' = clear_pending(meta)
    <3>1. CurrentOffer' = Atomic!NoOffer
      BY <2>4, ClearPending DEF CurrentOffer, IsPending, Atomic!NoOffer, IInv, TypeOK
    <3>2. CurrentOffer.payload = "lost" /\ CurrentOffer.state \in {"offered", "approved"}
      BY <2>1, OnOffer
    <3>3. QED
      BY <2>2, <3>1, <3>2 DEF Atomic!Withdraw, Atomic!GiveUp
  <2>5. QED
    BY <2>2, <2>3, <2>4
<1>4. ASSUME NEW p \in Processes, Begin(p) PROVE UNCHANGED Atomic!vars
  <2>1. /\ UNCHANGED <<target, candidates>>
        /\ meta' = meta \/ meta' = set_phase(meta, "replacing")
        /\ meta.pending.phase = "ready"
    BY <1>4 DEF Begin, IInv, StepInv
  <2>2. /\ meta'.pending.version = meta.pending.version
        /\ meta'.pending.phase \in {"ready", "replacing"}
    BY <2>1, SetPhase DEF IInv, TypeOK, Phases
  <2>3. QED
    BY <2>1, <2>2 DEF CurrentOffer, IsPending, Atomic!vars
<1>5. ASSUME NEW p \in Processes, Swap(p) PROVE Atomic!Install \/ UNCHANGED Atomic!vars
  <2>1. CASE UNCHANGED <<target, candidates>>
    BY <1>5, <2>1, StutterStep DEF Swap
  <2>2. CASE /\ meta.pending.version \in candidates
             /\ target' = meta.pending.version
    <3>1. IsPending(meta) /\ target # meta.pending.version /\ meta.pending.phase = "replacing"
      BY <1>5 DEF Swap, IInv, StepInv, RecordInv, IsPending
    <3>2. /\ CurrentOffer.state = "approved" /\ CurrentOffer.payload = "present"
          /\ CurrentOffer.version = meta.pending.version
      BY <2>2, <3>1, OnOffer
    <3>3. CurrentOffer' = Atomic!NoOffer
      BY <1>5, <2>2 DEF Swap, CurrentOffer, Atomic!NoOffer
    <3>4. QED
      BY <2>2, <3>2, <3>3 DEF Atomic!Install
  <2>3. QED
    BY <1>5, <2>1, <2>2 DEF Swap
<1>6. ASSUME NEW p \in Processes, Commit(p) PROVE UNCHANGED Atomic!vars
  <2>1. /\ meta.pending.phase = "replacing" /\ target = meta.pending.version
        /\ UNCHANGED <<target, candidates>>
        /\ meta' = meta \/ meta' = CommitNewVersion(meta)
    BY <1>6 DEF Commit, Persisted, IInv, StepInv
  <2>2. CASE meta' = meta
    BY <2>1, <2>2, StutterStep
  <2>3. CASE meta' = CommitNewVersion(meta)
    BY <2>1, <2>3, CommitVersion, NothingOnOffer
    DEF CurrentOffer, IsPending, Atomic!vars, Atomic!NoOffer, IInv, TypeOK
  <2>4. QED
    BY <2>1, <2>2, <2>3
<1>7. ASSUME NEW c \in Coordinators, Link(c) PROVE UNCHANGED Atomic!vars
  BY <1>7, StutterStep DEF Link, IInv, StepInv, Processes
<1>8. ASSUME NEW c \in Coordinators, RecordStaged(c)
      PROVE  (\E v \in Atomic!Versions : Atomic!Offer(v)) \/ UNCHANGED Atomic!vars
  <2>1. /\ ~IsPending(meta) /\ selected[c] # meta.version
        /\ UNCHANGED <<target, candidates>>
        /\ meta' = meta \/ meta' = StagedRecord(c)
    BY <1>8 DEF RecordStaged, IInv, StepInv, Processes
  <2>2. CASE meta' = meta
    BY <2>1, <2>2, StutterStep
  <2>3. CASE meta' = StagedRecord(c)
    <3>1. /\ meta'.pending.phase = "staged" /\ meta'.pending.version = selected[c]
          /\ IsPending(meta') /\ target' # selected[c]
      BY <2>1, <2>3, StagedRecordOf DEF IInv, RecordInv, RecordMatchesTarget, IsPending
    <3>2. CurrentOffer = Atomic!NoOffer
      BY <2>1, NothingOnOffer
    <3>3. CurrentOffer' = [version |-> selected[c], state |-> "offered",
                           payload |-> IF selected[c] \in candidates THEN "present" ELSE "lost"]
      BY <2>1, <3>1 DEF CurrentOffer
    <3>4. Atomic!Offer(selected[c])
      BY <2>1, <3>1, <3>2, <3>3 DEF Atomic!Offer, Atomic!Payloads
    <3>5. QED
      BY <1>v, <3>1, <3>4
  <2>4. QED
    BY <2>1, <2>2, <2>3
<1>9. ASSUME NEW c \in Coordinators, UndoStage(c)
      PROVE  Atomic!LosePayload \/ UNCHANGED Atomic!vars
  <2>1. UNCHANGED <<meta, target>> /\ candidates' \subseteq candidates
    BY <1>9 DEF UndoStage
  <2>2. QED
    BY <2>1, LoseStep
<1>10. ASSUME NEW c \in Coordinators, Approve(c)
       PROVE  Atomic!Approve \/ UNCHANGED Atomic!vars
  <2>1. /\ meta.pending.phase = "staged"
        /\ UNCHANGED <<target, candidates>>
        /\ meta' = meta \/ meta' = set_phase(meta, "ready")
    BY <1>10 DEF Approve, Persisted, IInv, StepInv, Processes
  <2>2. IsPending(meta) /\ target # meta.pending.version
    BY <2>1 DEF IInv, RecordInv, RecordMatchesTarget, IsPending
  <2>3. CASE meta' = meta
    BY <2>1, <2>3, StutterStep
  <2>4. CASE meta' = set_phase(meta, "ready")
    <3>1. /\ meta'.pending.phase = "ready"
          /\ meta'.pending.version = meta.pending.version
      BY <2>4, SetPhase DEF IInv, TypeOK, Phases
    <3>2. CurrentOffer.state = "offered"
      BY <2>1, <2>2, OnOffer
    <3>3. CurrentOffer' = [CurrentOffer EXCEPT !.state = "approved"]
      BY <2>1, <2>2, <3>1 DEF CurrentOffer, IsPending
    <3>4. QED
      BY <2>1, <3>2, <3>3 DEF Atomic!Approve
  <2>5. QED
    BY <2>1, <2>3, <2>4
<1>11. ASSUME NEW v \in Versions, LoseCandidate(v)
       PROVE  Atomic!LosePayload \/ UNCHANGED Atomic!vars
  <2>1. UNCHANGED <<meta, target>> /\ candidates' \subseteq candidates
    BY <1>11 DEF LoseCandidate
  <2>2. QED
    BY <2>1, LoseStep
<1>12. ASSUME NEW p \in Processes,
              RecoverPending(p) \/ ProbeUpdateLock(p) \/ EndProbe(p) \/ Crash(p)
       PROVE  UNCHANGED <<meta, target, candidates>>
  BY <1>12 DEF RecoverPending, ProbeUpdateLock, EndProbe, Crash
<1>13. ASSUME NEW c \in Coordinators,
              \/ StageCandidate(c) \/ Copy(c) \/ MarkPendingReady(c) \/ ApplyPending(c)
              \/ CoordinatorStep(c) \/ CoordinatorDies(c)
       PROVE  UNCHANGED <<meta, target, candidates>>
  BY <1>13 DEF StageCandidate, Copy, MarkPendingReady, ApplyPending, CoordinatorDies,
     CoordinatorStep, StartCheck, StartStage, StartApply, GiveUp, Release, HelperStart,
     FinishCheck, ContinueStage, FinishStage, ContinueApply, FinishApply
<1>14. ASSUME NEW i \in Invokers, Invoke(i) \/ Finish(i)
       PROVE  UNCHANGED <<meta, target, candidates>>
  BY <1>14 DEF Invoke, Finish
<1>15. ASSUME NEW v \in Versions, Publish(v)
       PROVE  UNCHANGED <<meta, target, candidates>>
  BY <1>15 DEF Publish
<1>16. CASE UNCHANGED vars
  BY <1>1, <1>16 DEF vars
<1>17. CASE Next
  <2>1. CASE \E p \in Processes : EngineStep(p) \/ Crash(p)
    BY <1>1, <1>2, <1>3, <1>4, <1>5, <1>6, <1>12, <2>1 DEF EngineStep, Atomic!Next
  <2>2. CASE \E c \in Coordinators :
               StageOrApplyStep(c) \/ CoordinatorStep(c) \/ CoordinatorDies(c)
    BY <1>1, <1>7, <1>8, <1>9, <1>10, <1>13, <2>2 DEF StageOrApplyStep, Atomic!Next
  <2>3. CASE \E i \in Invokers : Invoke(i) \/ Finish(i)
    BY <1>1, <1>14, <2>3
  <2>4. CASE \E v \in Versions : Publish(v) \/ LoseCandidate(v)
    BY <1>1, <1>11, <1>15, <2>4 DEF Atomic!Next
  <2>5. QED
    BY <1>17, <2>1, <2>2, <2>3, <2>4 DEF Next
<1>18. QED
  BY <1>16, <1>17

(* The engine implements AtomicUpdate: for whoever looks at the stable path *)
(* an update is offered, withdrawn, approved and installed in single steps, *)
(* and nothing but an approved update is ever installed.                    *)
THEOREM Refinement == Spec => ImplementsAtomicUpdate
<1>1. Init => Atomic!Init
  BY ZeroIsVersion DEF Init, Atomic!Init, Atomic!Versions, Versions, CurrentOffer,
     IsPending, NoPending, Atomic!NoOffer
<1>2. IInv /\ IInv' /\ [Next]_vars => [Atomic!Next]_(Atomic!vars)
  BY StepRefines
<1>3. QED
  BY <1>1, <1>2, Inductive, PTL DEF Spec, ImplementsAtomicUpdate, Atomic!Spec

-----------------------------------------------------------------------------
(* Approval, as long as no helper outlives the coordinator that spawned it  *)

(* A live coordinator holds the update lock from check to release, and only *)
(* an ordinary invocation ever tries that lock.                             *)
UpdateLockInv ==
  /\ \A c \in Coordinators : step[c] # "orphan" /\ (step[c] # "idle" => updLock = c)
  /\ \A p \in Processes : pc[p] = "probing" => updLock = p
  /\ \A p \in Processes : pc[p] \in {"probe", "probing"} => op[p] = "recover"
  /\ \A c \in Coordinators : op[c] # "recover"

(* A helper runs the functions of the command it was spawned for.           *)
HelperInv ==
  \A c \in Coordinators :
    /\ op[c] \in {"mark", "apply"} => step[c] = "apply"
    /\ op[c] = "stage" => step[c] = "stage"
    /\ pc[c] = "rest" => op[c] = "none"
    /\ step[c] = "idle" => selected[c] = 0
    /\ step[c] = "check" /\ pc[c] = "rest" => selected[c] # 0
    /\ pc[c] # "rest" /\ op[c] = "discard" =>
         step[c] = IF selected[c] = 0 THEN "check" ELSE "stage"
    /\ pc[c] = "approve" => op[c] = "mark"
    /\ pc[c] \in {"copy", "link", "record", "record-adopted", "undo"} => op[c] = "stage"

(* What is pending while a coordinator is in its inner transaction is what  *)
(* it staged itself, and what is pending afterwards is approved.            *)
SponsorInv ==
  IsPending(meta) =>
    /\ \A c \in Coordinators :
         /\ step[c] = "inner" => sponsor = c
         /\ pc[c] = "done" /\ op[c] = "stage" /\ out[c] = "staged" => sponsor = c
         /\ step[c] = "apply" => approved
    /\ meta.pending.phase \in {"ready", "replacing"} => approved

ApprovalInv == UpdateLockInv /\ HelperInv /\ SponsorInv

(* Nothing is staged, hence nothing awaits approval, in the beginning.      *)
LEMMA ApprovalInit == Init => ApprovalInv
BY ProcessAssumption DEF Init, ApprovalInv, UpdateLockInv, HelperInv, SponsorInv, IsPending,
   NoPending, Processes

(* As long as no helper outlives its coordinator, every step keeps the      *)
(* approval invariant (run_internal_helper).                                *)
LEMMA ApprovalNext ==
  ASSUME ~HelpersMayBeOrphaned, IInv, IInv', ApprovalInv, [Next]_vars
  PROVE  ApprovalInv'
<1> USE ProcessAssumption
<1> USE DEF IInv, files, locks, coord, ghosts, Goto, Lock, Return, CallFails, Processes,
        ApprovalInv
<1>1. ASSUME NEW p \in Processes, RecoverPending(p) PROVE ApprovalInv'
  <2>1. UNCHANGED <<updLock, meta, op, step, selected, sponsor, approved>> /\ pc[p] = "want"
    BY <1>1 DEF RecoverPending, Enter
  <2>2. PICK label \in {"done", "probe", "unlink", "clear", "begin", "swap", "commit"} :
          /\ pc' = [pc EXCEPT ![p] = label]
          /\ \A q \in Processes \ {p} : out'[q] = out[q]
          /\ label = "probe" => op[p] = "recover"
    BY <1>1, RecoverPendingSteps
  <2>3. UpdateLockInv'
    BY <2>1, <2>2 DEF TypeOK, UpdateLockInv
  <2>4. HelperInv'
    BY <2>1, <2>2 DEF TypeOK, HelperInv
  <2>5. SponsorInv'
    <3>1. op[p] \in {"recover", "discard"}
      BY <1>1 DEF RecoverPending, Enter
    <3>2. QED
      BY <2>1, <2>2, <3>1 DEF TypeOK, SponsorInv, IsPending
  <2>6. QED
    BY <2>3, <2>4, <2>5
<1>2. ASSUME NEW p \in Processes, ProbeUpdateLock(p) PROVE ApprovalInv'
  <2>1. UpdateLockInv'
    BY <1>2 DEF ProbeUpdateLock, TypeOK, UpdateLockInv, HelperInv, ProtocolInv
  <2>2. HelperInv'
    BY <1>2 DEF ProbeUpdateLock, TypeOK, HelperInv, ProtocolInv
  <2>3. SponsorInv'
    BY <1>2 DEF ProbeUpdateLock, TypeOK, UpdateLockInv, HelperInv, SponsorInv, IsPending, StepInv
  <2>4. QED
    BY <2>1, <2>2, <2>3
<1>3. ASSUME NEW p \in Processes, EndProbe(p) PROVE ApprovalInv'
  <2>1. UpdateLockInv'
    BY <1>3 DEF EndProbe, TypeOK, UpdateLockInv, HelperInv, ProtocolInv
  <2>2. HelperInv'
    BY <1>3 DEF EndProbe, TypeOK, HelperInv, ProtocolInv
  <2>3. SponsorInv'
    BY <1>3 DEF EndProbe, TypeOK, UpdateLockInv, HelperInv, SponsorInv, IsPending, StepInv
  <2>4. QED
    BY <2>1, <2>2, <2>3
<1>4. ASSUME NEW p \in Processes, Unlink(p) PROVE ApprovalInv'
  <2>1. UpdateLockInv'
    BY <1>4 DEF Unlink, TypeOK, UpdateLockInv, HelperInv, ProtocolInv
  <2>2. HelperInv'
    BY <1>4 DEF Unlink, TypeOK, HelperInv, ProtocolInv
  <2>3. SponsorInv'
    BY <1>4 DEF Unlink, TypeOK, UpdateLockInv, HelperInv, SponsorInv, IsPending, StepInv
  <2>4. QED
    BY <2>1, <2>2, <2>3
<1>5. ASSUME NEW p \in Processes, Clear(p) PROVE ApprovalInv'
  <2>1. UpdateLockInv'
    BY <1>5, ClearPending DEF Clear, Persisted, FollowRecord, Forget, TypeOK, UpdateLockInv, HelperInv, ProtocolInv
  <2>2. HelperInv'
    BY <1>5, ClearPending DEF Clear, Persisted, FollowRecord, Forget, TypeOK, HelperInv, ProtocolInv
  <2>3. SponsorInv'
    BY <1>5, ClearPending DEF Clear, Persisted, FollowRecord, Forget, TypeOK, UpdateLockInv, HelperInv, SponsorInv, IsPending, StepInv
  <2>4. QED
    BY <2>1, <2>2, <2>3
<1>6. ASSUME NEW p \in Processes, Begin(p) PROVE ApprovalInv'
  <2>1. UpdateLockInv'
    BY <1>6, SetPhase DEF Begin, TypeOK, UpdateLockInv, HelperInv, ProtocolInv
  <2>2. HelperInv'
    BY <1>6, SetPhase DEF Begin, TypeOK, HelperInv, ProtocolInv
  <2>3. SponsorInv'
    BY <1>6, SetPhase DEF Begin, TypeOK, UpdateLockInv, HelperInv, SponsorInv, IsPending, StepInv, Phases
  <2>4. QED
    BY <2>1, <2>2, <2>3
<1>7. ASSUME NEW p \in Processes, Swap(p) PROVE ApprovalInv'
  <2>1. UpdateLockInv'
    BY <1>7 DEF Swap, TypeOK, UpdateLockInv, HelperInv, ProtocolInv
  <2>2. HelperInv'
    BY <1>7 DEF Swap, TypeOK, HelperInv, ProtocolInv
  <2>3. SponsorInv'
    BY <1>7 DEF Swap, TypeOK, UpdateLockInv, HelperInv, SponsorInv, IsPending, StepInv
  <2>4. QED
    BY <2>1, <2>2, <2>3
<1>8. ASSUME NEW p \in Processes, Commit(p) PROVE ApprovalInv'
  <2>1. UpdateLockInv'
    BY <1>8, CommitVersion DEF Commit, Persisted, FollowRecord, Forget, TypeOK, UpdateLockInv, HelperInv, ProtocolInv
  <2>2. HelperInv'
    BY <1>8, CommitVersion DEF Commit, Persisted, FollowRecord, Forget, TypeOK, HelperInv, ProtocolInv
  <2>3. SponsorInv'
    BY <1>8, CommitVersion DEF Commit, Persisted, FollowRecord, Forget, TypeOK, UpdateLockInv, HelperInv, SponsorInv, IsPending, StepInv
  <2>4. QED
    BY <2>1, <2>2, <2>3
<1>9. ASSUME NEW p \in Processes, Crash(p) PROVE ApprovalInv'
  <2>1. UpdateLockInv'
    BY <1>9 DEF Crash, FreeLocksOf, TypeOK, UpdateLockInv, HelperInv, ProtocolInv
  <2>2. HelperInv'
    BY <1>9 DEF Crash, FreeLocksOf, TypeOK, HelperInv, ProtocolInv
  <2>3. SponsorInv'
    BY <1>9 DEF Crash, FreeLocksOf, TypeOK, UpdateLockInv, HelperInv, SponsorInv, IsPending, StepInv
  <2>4. QED
    BY <2>1, <2>2, <2>3
<1>10. ASSUME NEW c \in Coordinators, StageCandidate(c) PROVE ApprovalInv'
  <2>1. UpdateLockInv'
    BY <1>10 DEF StageCandidate, Enter, TypeOK, UpdateLockInv, HelperInv, ProtocolInv
  <2>2. HelperInv'
    BY <1>10 DEF StageCandidate, Enter, TypeOK, HelperInv, ProtocolInv
  <2>3. SponsorInv'
    BY <1>10 DEF StageCandidate, Enter, TypeOK, UpdateLockInv, HelperInv, SponsorInv, IsPending, StepInv
  <2>4. QED
    BY <2>1, <2>2, <2>3
<1>11. ASSUME NEW c \in Coordinators, Copy(c) PROVE ApprovalInv'
  <2>1. UpdateLockInv'
    BY <1>11 DEF Copy, TypeOK, UpdateLockInv, HelperInv, ProtocolInv
  <2>2. HelperInv'
    BY <1>11 DEF Copy, TypeOK, HelperInv, ProtocolInv
  <2>3. SponsorInv'
    BY <1>11 DEF Copy, TypeOK, UpdateLockInv, HelperInv, SponsorInv, IsPending, StepInv
  <2>4. QED
    BY <2>1, <2>2, <2>3
<1>12. ASSUME NEW c \in Coordinators, Link(c) PROVE ApprovalInv'
  <2>1. UpdateLockInv'
    BY <1>12 DEF Link, TypeOK, UpdateLockInv, HelperInv, ProtocolInv
  <2>2. HelperInv'
    BY <1>12 DEF Link, TypeOK, HelperInv, ProtocolInv
  <2>3. SponsorInv'
    BY <1>12 DEF Link, TypeOK, UpdateLockInv, HelperInv, SponsorInv, IsPending, StepInv
  <2>4. QED
    BY <2>1, <2>2, <2>3
<1>13. ASSUME NEW c \in Coordinators, RecordStaged(c) PROVE ApprovalInv'
  <2>1. UpdateLockInv'
    BY <1>13, StagedRecordOf DEF RecordStaged, TypeOK, UpdateLockInv, HelperInv, ProtocolInv
  <2>2. HelperInv'
    BY <1>13, StagedRecordOf DEF RecordStaged, TypeOK, HelperInv, ProtocolInv
  <2>3. SponsorInv'
    BY <1>13, StagedRecordOf DEF RecordStaged, TypeOK, UpdateLockInv, HelperInv, SponsorInv, IsPending, StepInv
  <2>4. QED
    BY <2>1, <2>2, <2>3
<1>14. ASSUME NEW c \in Coordinators, UndoStage(c) PROVE ApprovalInv'
  <2>1. UpdateLockInv'
    BY <1>14 DEF UndoStage, TypeOK, UpdateLockInv, HelperInv, ProtocolInv
  <2>2. HelperInv'
    BY <1>14 DEF UndoStage, TypeOK, HelperInv, ProtocolInv
  <2>3. SponsorInv'
    BY <1>14 DEF UndoStage, TypeOK, UpdateLockInv, HelperInv, SponsorInv, IsPending, StepInv
  <2>4. QED
    BY <2>1, <2>2, <2>3
<1>15. ASSUME NEW c \in Coordinators, MarkPendingReady(c) PROVE ApprovalInv'
  <2>1. UpdateLockInv'
    BY <1>15 DEF MarkPendingReady, Enter, TypeOK, UpdateLockInv, HelperInv, ProtocolInv
  <2>2. HelperInv'
    BY <1>15 DEF MarkPendingReady, Enter, TypeOK, HelperInv, ProtocolInv
  <2>3. SponsorInv'
    BY <1>15 DEF MarkPendingReady, Enter, TypeOK, UpdateLockInv, HelperInv, SponsorInv, IsPending, StepInv
  <2>4. QED
    BY <2>1, <2>2, <2>3
<1>16. ASSUME NEW c \in Coordinators, Approve(c) PROVE ApprovalInv'
  <2>1. UpdateLockInv'
    BY <1>16, SetPhase DEF Approve, Persisted, TypeOK, UpdateLockInv, HelperInv, ProtocolInv
  <2>2. HelperInv'
    BY <1>16, SetPhase DEF Approve, Persisted, TypeOK, HelperInv, ProtocolInv
  <2>3. SponsorInv'
    BY <1>16, SetPhase DEF Approve, Persisted, TypeOK, UpdateLockInv, HelperInv, SponsorInv, IsPending, StepInv, Phases
  <2>4. QED
    BY <2>1, <2>2, <2>3
<1>17. ASSUME NEW c \in Coordinators, ApplyPending(c) PROVE ApprovalInv'
  <2>1. /\ UNCHANGED <<updLock, meta, op, step, selected, sponsor, approved>>
        /\ pc[c] = "want" /\ op[c] = "apply"
    <3>1. UNCHANGED updLock
      BY <1>17, ApplyPendingSteps
    <3>2. QED
      BY <1>17, <3>1 DEF ApplyPending, Enter
  <2>2. PICK label \in {"done", "clear", "begin", "swap", "commit"} :
          /\ pc' = [pc EXCEPT ![c] = label]
          /\ \A q \in Processes \ {c} : out'[q] = out[q]
    BY <1>17, ApplyPendingSteps
  <2>3. UpdateLockInv'
    BY <2>1, <2>2 DEF TypeOK, UpdateLockInv
  <2>4. HelperInv'
    BY <2>1, <2>2 DEF TypeOK, HelperInv
  <2>5. SponsorInv'
    BY <2>1, <2>2 DEF TypeOK, SponsorInv, IsPending
  <2>6. QED
    BY <2>3, <2>4, <2>5
<1>18. ASSUME NEW c \in Coordinators, StartCheck(c) PROVE ApprovalInv'
  <2>1. UpdateLockInv'
    BY <1>18 DEF StartCheck, TypeOK, UpdateLockInv, HelperInv, ProtocolInv
  <2>2. HelperInv'
    BY <1>18 DEF StartCheck, TypeOK, HelperInv, ProtocolInv
  <2>3. SponsorInv'
    BY <1>18 DEF StartCheck, TypeOK, UpdateLockInv, HelperInv, SponsorInv, IsPending, StepInv
  <2>4. QED
    BY <2>1, <2>2, <2>3
<1>19. ASSUME NEW c \in Coordinators, StartStage(c) PROVE ApprovalInv'
  <2>1. UpdateLockInv'
    BY <1>19 DEF StartStage, TypeOK, UpdateLockInv, HelperInv, ProtocolInv
  <2>2. HelperInv'
    BY <1>19 DEF StartStage, TypeOK, HelperInv, ProtocolInv
  <2>3. SponsorInv'
    BY <1>19 DEF StartStage, TypeOK, UpdateLockInv, HelperInv, SponsorInv, IsPending, StepInv
  <2>4. QED
    BY <2>1, <2>2, <2>3
<1>20. ASSUME NEW c \in Coordinators, StartApply(c) PROVE ApprovalInv'
  <2>1. UpdateLockInv'
    BY <1>20 DEF StartApply, TypeOK, UpdateLockInv, HelperInv, ProtocolInv
  <2>2. HelperInv'
    BY <1>20 DEF StartApply, TypeOK, HelperInv, ProtocolInv
  <2>3. SponsorInv'
    <3>1. /\ meta' = meta /\ out' = out /\ sponsor' = sponsor
          /\ step[c] = "inner" /\ approved' = (approved \/ sponsor = c)
      BY <1>20 DEF StartApply, files
    <3>2. /\ step'[c] = "apply" /\ pc'[c] # "done"
          /\ \A d \in Coordinators \ {c} : step'[d] = step[d] /\ pc'[d] = pc[d] /\ op'[d] = op[d]
      BY <1>20 DEF StartApply, Goto, TypeOK, Processes
    <3>3. IsPending(meta) => approved'
      BY <3>1 DEF SponsorInv
    <3>4. QED
      BY <3>1, <3>2, <3>3 DEF SponsorInv, IsPending
  <2>4. QED
    BY <2>1, <2>2, <2>3
<1>21. ASSUME NEW c \in Coordinators, GiveUp(c) PROVE ApprovalInv'
  <2>1. UpdateLockInv'
    BY <1>21 DEF GiveUp, TypeOK, UpdateLockInv, HelperInv, ProtocolInv
  <2>2. HelperInv'
    BY <1>21 DEF GiveUp, TypeOK, HelperInv, ProtocolInv
  <2>3. SponsorInv'
    BY <1>21 DEF GiveUp, TypeOK, UpdateLockInv, HelperInv, SponsorInv, IsPending, StepInv
  <2>4. QED
    BY <2>1, <2>2, <2>3
<1>22. ASSUME NEW c \in Coordinators, Release(c) PROVE ApprovalInv'
  <2>1. UpdateLockInv'
    BY <1>22 DEF Release, TypeOK, UpdateLockInv, HelperInv, ProtocolInv
  <2>2. HelperInv'
    BY <1>22 DEF Release, TypeOK, HelperInv, ProtocolInv
  <2>3. SponsorInv'
    BY <1>22 DEF Release, TypeOK, UpdateLockInv, HelperInv, SponsorInv, IsPending, StepInv
  <2>4. QED
    BY <2>1, <2>2, <2>3
<1>23. ASSUME NEW c \in Coordinators, HelperStart(c) PROVE ApprovalInv'
  <2>1. UpdateLockInv'
    BY <1>23 DEF HelperStart, TypeOK, UpdateLockInv, HelperInv, ProtocolInv
  <2>2. HelperInv'
    BY <1>23 DEF HelperStart, TypeOK, HelperInv, ProtocolInv
  <2>3. SponsorInv'
    BY <1>23 DEF HelperStart, TypeOK, UpdateLockInv, HelperInv, SponsorInv, IsPending, StepInv
  <2>4. QED
    BY <2>1, <2>2, <2>3
<1>24. ASSUME NEW c \in Coordinators, FinishCheck(c) PROVE ApprovalInv'
  <2>1. UpdateLockInv'
    BY <1>24 DEF FinishCheck, HelperExits, TypeOK, UpdateLockInv, HelperInv, ProtocolInv
  <2>2. HelperInv'
    BY <1>24 DEF FinishCheck, HelperExits, TypeOK, HelperInv, ProtocolInv
  <2>3. SponsorInv'
    BY <1>24 DEF FinishCheck, HelperExits, TypeOK, UpdateLockInv, HelperInv, SponsorInv, IsPending, StepInv
  <2>4. QED
    BY <2>1, <2>2, <2>3
<1>25. ASSUME NEW c \in Coordinators, ContinueStage(c) PROVE ApprovalInv'
  <2>1. UpdateLockInv'
    BY <1>25 DEF ContinueStage, HelperExits, TypeOK, UpdateLockInv, HelperInv, ProtocolInv
  <2>2. HelperInv'
    BY <1>25 DEF ContinueStage, HelperExits, TypeOK, HelperInv, ProtocolInv
  <2>3. SponsorInv'
    BY <1>25 DEF ContinueStage, HelperExits, TypeOK, UpdateLockInv, HelperInv, SponsorInv, IsPending, StepInv
  <2>4. QED
    BY <2>1, <2>2, <2>3
<1>26. ASSUME NEW c \in Coordinators, FinishStage(c) PROVE ApprovalInv'
  <2>1. UpdateLockInv'
    BY <1>26 DEF FinishStage, HelperExits, TypeOK, UpdateLockInv, HelperInv, ProtocolInv
  <2>2. HelperInv'
    BY <1>26 DEF FinishStage, HelperExits, TypeOK, HelperInv, ProtocolInv
  <2>3. SponsorInv'
    BY <1>26 DEF FinishStage, HelperExits, TypeOK, UpdateLockInv, HelperInv, SponsorInv, IsPending, StepInv
  <2>4. QED
    BY <2>1, <2>2, <2>3
<1>27. ASSUME NEW c \in Coordinators, ContinueApply(c) PROVE ApprovalInv'
  <2>1. UpdateLockInv'
    BY <1>27 DEF ContinueApply, HelperExits, TypeOK, UpdateLockInv, HelperInv, ProtocolInv
  <2>2. HelperInv'
    BY <1>27 DEF ContinueApply, HelperExits, TypeOK, HelperInv, ProtocolInv
  <2>3. SponsorInv'
    BY <1>27 DEF ContinueApply, HelperExits, TypeOK, UpdateLockInv, HelperInv, SponsorInv, IsPending, StepInv
  <2>4. QED
    BY <2>1, <2>2, <2>3
<1>28. ASSUME NEW c \in Coordinators, FinishApply(c) PROVE ApprovalInv'
  <2>1. UpdateLockInv'
    BY <1>28 DEF FinishApply, HelperExits, TypeOK, UpdateLockInv, HelperInv, ProtocolInv
  <2>2. HelperInv'
    BY <1>28 DEF FinishApply, HelperExits, TypeOK, HelperInv, ProtocolInv
  <2>3. SponsorInv'
    BY <1>28 DEF FinishApply, HelperExits, TypeOK, UpdateLockInv, HelperInv, SponsorInv, IsPending, StepInv
  <2>4. QED
    BY <2>1, <2>2, <2>3
<1>29. ASSUME NEW c \in Coordinators, CoordinatorDies(c) PROVE ApprovalInv'
  <2>1. UpdateLockInv'
    BY <1>29 DEF CoordinatorDies, TypeOK, UpdateLockInv, HelperInv, ProtocolInv
  <2>2. HelperInv'
    BY <1>29 DEF CoordinatorDies, TypeOK, HelperInv, ProtocolInv
  <2>3. SponsorInv'
    BY <1>29 DEF CoordinatorDies, TypeOK, UpdateLockInv, HelperInv, SponsorInv, IsPending
  <2>4. QED
    BY <2>1, <2>2, <2>3
<1>30. ASSUME NEW i \in Invokers, Invoke(i) PROVE ApprovalInv'
  <2>1. UpdateLockInv'
    BY <1>30 DEF Invoke, TypeOK, UpdateLockInv, HelperInv, ProtocolInv
  <2>2. HelperInv'
    BY <1>30 DEF Invoke, TypeOK, HelperInv, ProtocolInv
  <2>3. SponsorInv'
    BY <1>30 DEF Invoke, TypeOK, UpdateLockInv, HelperInv, SponsorInv, IsPending, StepInv
  <2>4. QED
    BY <2>1, <2>2, <2>3
<1>31. ASSUME NEW i \in Invokers, Finish(i) PROVE ApprovalInv'
  <2>1. UpdateLockInv'
    BY <1>31 DEF Finish, TypeOK, UpdateLockInv, HelperInv, ProtocolInv
  <2>2. HelperInv'
    BY <1>31 DEF Finish, TypeOK, HelperInv, ProtocolInv
  <2>3. SponsorInv'
    BY <1>31 DEF Finish, TypeOK, UpdateLockInv, HelperInv, SponsorInv, IsPending, StepInv
  <2>4. QED
    BY <2>1, <2>2, <2>3
<1>32. ASSUME NEW v \in Versions, Publish(v) PROVE ApprovalInv'
  <2>1. UpdateLockInv'
    BY <1>32 DEF Publish, TypeOK, UpdateLockInv, HelperInv, ProtocolInv
  <2>2. HelperInv'
    BY <1>32 DEF Publish, TypeOK, HelperInv, ProtocolInv
  <2>3. SponsorInv'
    BY <1>32 DEF Publish, TypeOK, UpdateLockInv, HelperInv, SponsorInv, IsPending, StepInv
  <2>4. QED
    BY <2>1, <2>2, <2>3
<1>33. ASSUME NEW v \in Versions, LoseCandidate(v) PROVE ApprovalInv'
  <2>1. UpdateLockInv'
    BY <1>33 DEF LoseCandidate, TypeOK, UpdateLockInv, HelperInv, ProtocolInv
  <2>2. HelperInv'
    BY <1>33 DEF LoseCandidate, TypeOK, HelperInv, ProtocolInv
  <2>3. SponsorInv'
    BY <1>33 DEF LoseCandidate, TypeOK, UpdateLockInv, HelperInv, SponsorInv, IsPending, StepInv
  <2>4. QED
    BY <2>1, <2>2, <2>3
<1>34. CASE UNCHANGED vars
  BY <1>34 DEF vars, UpdateLockInv, HelperInv, SponsorInv, IsPending
<1>35. QED
  BY <1>1, <1>2, <1>3, <1>4, <1>5, <1>6, <1>7, <1>8, <1>9, <1>10, <1>11, <1>12, <1>13, <1>14, <1>15, <1>16, <1>17, <1>18, <1>19, <1>20, <1>21, <1>22, <1>23, <1>24, <1>25, <1>26, <1>27, <1>28, <1>29, <1>30, <1>31, <1>32, <1>33, <1>34
  DEF Next, EngineStep, StageOrApplyStep, CoordinatorStep

(* The approval invariant holds as long as no helper outlives its           *)
(* coordinator.                                                             *)
LEMMA ApprovalHolds ==
  ASSUME ~HelpersMayBeOrphaned
  PROVE  Spec => []ApprovalInv
<1>1. IInv /\ IInv' /\ ApprovalInv /\ [Next]_vars => ApprovalInv'
  BY ApprovalNext
<1>2. QED
  BY ApprovalInit, <1>1, Inductive, PTL DEF Spec

(* A replacement that the record allows was approved by the coordinator     *)
(* that staged it: mark_pending_ready never approves the candidate of       *)
(* another transaction, as long as no helper outlives its coordinator.      *)
THEOREM ReadyIsApproved ==
  ASSUME ~HelpersMayBeOrphaned
  PROVE  Spec => []OnlyApprovedIsReady
<1>1. ApprovalInv => OnlyApprovedIsReady
  BY DEF ApprovalInv, SponsorInv, OnlyApprovedIsReady, IsPending
<1>2. QED
  BY <1>1, ApprovalHolds, PTL

(* Whoever performs the replacement, apply or a later invocation's          *)
(* recovery, installs only a version whose coordinator approved it.  By the *)
(* refinement only Install changes the stable path.                         *)
THEOREM InstalledIsApproved ==
  ASSUME ~HelpersMayBeOrphaned
  PROVE  Spec => InstalledOnlyApproved
<1>1. IInv /\ IInv' /\ ApprovalInv /\ [Next]_vars => [approved]_target
  <2> SUFFICES ASSUME IInv, IInv', ApprovalInv, [Next]_vars, target' # target
               PROVE  approved
    OBVIOUS
  <2>1. Atomic!Install
    BY StepRefines DEF Atomic!Next, Atomic!Offer, Atomic!LosePayload, Atomic!Withdraw,
       Atomic!Approve, Atomic!GiveUp, Atomic!vars
  <2>2. IsPending(meta) /\ meta.pending.phase # "staged"
    BY <2>1 DEF Atomic!Install, CurrentOffer
  <2>3. meta.pending.phase \in {"ready", "replacing"}
    BY <2>2 DEF IInv, TypeOK, Metadata, Pending, Phases, IsPending
  <2>4. QED
    BY <2>2, <2>3 DEF ApprovalInv, SponsorInv
<1>2. QED
  BY <1>1, ApprovalHolds, Inductive, PTL DEF Spec, InstalledOnlyApproved
-----------------------------------------------------------------------------
(* Versions and the inner transaction, under the same assumption            *)

(* What a helper may conclude from discard_unapproved, and a stage helper   *)
(* from its selection: as it holds its coordinator's lock nobody else       *)
(* stages, so nothing is pending and the committed version stays.           *)
Discarded(c) == pc[c] = "done" /\ op[c] = "discard" /\ out[c] \in {"none", "discarded"}

Staging(c) ==
  op[c] = "stage" /\ pc[c] \in {"want", "copy", "link", "record", "record-adopted"}

OrderInv ==
  /\ IsPending(meta) => meta.pending.version > meta.version
  /\ \A c \in Coordinators :
       /\ Discarded(c) => ~IsPending(meta)
       /\ Staging(c) => ~IsPending(meta) /\ selected[c] > meta.version
       /\ pc[c] = "spawned" => op[c] # "stage"

(* From a successful stage to the end of the inner transaction nobody is    *)
(* about to discard or replace anything.                                    *)
HasStaged(c) ==
  \/ step[c] = "inner"
  \/ pc[c] = "done" /\ op[c] = "stage" /\ out[c] = "staged"

InnerInv ==
  /\ sponsor # NONE => IsPending(meta)
  /\ \A i \in Invokers : op[i] # "discard"
  /\ \A c \in Coordinators : HasStaged(c) =>
       /\ meta.pending.phase \in {"none", "staged"}
       /\ \A p \in Processes : pc[p] # "unlink"

CoordinationInv == OrderInv /\ InnerInv

(* recover_pending_with returns without an error only if nothing is         *)
(* pending, and only discard_unapproved removes without asking for the      *)
(* coordination lock.                                                       *)
LEMMA RecoverPendingEnds ==
  ASSUME TypeOK, NEW p \in Processes, RecoverPending(p)
  PROVE  /\ pc'[p] = "done" => out'[p] = "error" \/ ~IsPending(meta)
         /\ pc'[p] = "unlink" => op[p] = "discard"
<1> DEFINE next == UnixRecovery(meta.pending.phase, Classified)
<1>1. /\ next \in {"nothing", "discard", "clear", "begin", "swap", "commit", "invalid"}
      /\ next = "nothing" => meta.pending.phase = "none"
  BY RecoveryLabels DEF TypeOK, Metadata, Pending
<1>2. op[p] \in {"recover", "discard"}
  BY DEF RecoverPending, Enter
<1>3. CASE next \in {"nothing", "invalid"}
  BY <1>1, <1>3 DEF RecoverPending, Return, Goto, TypeOK, IsPending
<1>4. CASE next = "discard"
  BY <1>2, <1>4 DEF RecoverPending, Lock, Goto, TypeOK
<1>5. CASE next \in {"clear", "begin", "swap", "commit"}
  BY <1>5 DEF RecoverPending, Lock, Goto, TypeOK
<1>6. QED
  BY <1>1, <1>3, <1>4, <1>5

(* Nothing is pending and nobody stages in the beginning.                   *)
LEMMA CoordinationInit == Init => CoordinationInv
BY ProcessAssumption DEF Init, CoordinationInv, OrderInv, InnerInv, Discarded, Staging, HasStaged,
   IsPending, NoPending, Processes

(* Every step keeps it: the coordination lock lets only one coordinator     *)
(* stage, and its helper has discarded what was pending (stage).            *)
LEMMA CoordinationNext ==
  ASSUME ~HelpersMayBeOrphaned, IInv, IInv', ApprovalInv, ApprovalInv', CoordinationInv, [Next]_vars
  PROVE  CoordinationInv'
<1> USE ProcessAssumption
<1> USE DEF IInv, files, locks, coord, ghosts, Goto, Lock, Return, CallFails, Processes,
        ApprovalInv, CoordinationInv
<1>1. ASSUME NEW p \in Processes, RecoverPending(p) PROVE CoordinationInv'
  <2>1. UNCHANGED <<meta, op, step, selected, sponsor>> /\ pc[p] = "want"
    BY <1>1 DEF RecoverPending, Enter
  <2>2. PICK label \in {"done", "probe", "unlink", "clear", "begin", "swap", "commit"} :
          /\ pc' = [pc EXCEPT ![p] = label]
          /\ \A q \in Processes \ {p} : out'[q] = out[q]
          /\ label = "unlink" => op[p] = "discard"
    BY <1>1, RecoverPendingSteps, RecoverPendingEnds
  <2>3. label = "done" => out'[p] = "error" \/ ~IsPending(meta)
    BY <1>1, <2>2, RecoverPendingEnds DEF TypeOK
  <2>4. op[p] \in {"recover", "discard"}
    BY <1>1 DEF RecoverPending, Enter
  <2>5. OrderInv'
    BY <2>1, <2>2, <2>3, <2>4 DEF OrderInv, Discarded, Staging, IsPending, TypeOK
  <2>6. InnerInv'
    BY <2>1, <2>2, <2>4 DEF InnerInv, HasStaged, IsPending, TypeOK, UpdateLockInv, HelperInv, ProtocolInv
  <2>7. QED
    BY <2>5, <2>6
<1>2. ASSUME NEW p \in Processes, ProbeUpdateLock(p) PROVE CoordinationInv'
  <2>1. OrderInv'
    BY <1>2 DEF ProbeUpdateLock, OrderInv, Discarded, Staging, IsPending, TypeOK,
       UpdateLockInv, HelperInv, StepInv, RecordInv, RecordMatchesTarget
  <2>2. InnerInv'
    BY <1>2 DEF ProbeUpdateLock, InnerInv, HasStaged, IsPending, TypeOK, UpdateLockInv,
       HelperInv, ProtocolInv, StepInv, SponsorInv, LockInv, Locked
  <2>3. QED
    BY <2>1, <2>2
<1>3. ASSUME NEW p \in Processes, EndProbe(p) PROVE CoordinationInv'
  <2>1. OrderInv'
    BY <1>3 DEF EndProbe, OrderInv, Discarded, Staging, IsPending, TypeOK, UpdateLockInv,
       HelperInv, StepInv, RecordInv, RecordMatchesTarget
  <2>2. InnerInv'
    BY <1>3 DEF EndProbe, InnerInv, HasStaged, IsPending, TypeOK, UpdateLockInv,
       HelperInv, ProtocolInv, StepInv, SponsorInv, LockInv, Locked
  <2>3. QED
    BY <2>1, <2>2
<1>4. ASSUME NEW p \in Processes, Unlink(p) PROVE CoordinationInv'
  <2>1. OrderInv'
    BY <1>4 DEF Unlink, OrderInv, Discarded, Staging, IsPending, TypeOK, UpdateLockInv,
       HelperInv, StepInv, RecordInv, RecordMatchesTarget
  <2>2. InnerInv'
    BY <1>4 DEF Unlink, InnerInv, HasStaged, IsPending, TypeOK, UpdateLockInv, HelperInv,
       ProtocolInv, StepInv, SponsorInv, LockInv, Locked
  <2>3. QED
    BY <2>1, <2>2
<1>5. ASSUME NEW p \in Processes, Clear(p) PROVE CoordinationInv'
  <2>1. OrderInv'
    BY <1>5, ClearPending DEF Clear, Persisted, FollowRecord, Forget, OrderInv, Discarded,
       Staging, IsPending, TypeOK, UpdateLockInv, HelperInv, StepInv, RecordInv,
       RecordMatchesTarget
  <2>2. InnerInv'
    BY <1>5, ClearPending DEF Clear, Persisted, FollowRecord, Forget, InnerInv, HasStaged,
       IsPending, TypeOK, UpdateLockInv, HelperInv, ProtocolInv, StepInv, SponsorInv,
       LockInv, Locked
  <2>3. QED
    BY <2>1, <2>2
<1>6. ASSUME NEW p \in Processes, Begin(p) PROVE CoordinationInv'
  <2>1. OrderInv'
    BY <1>6, SetPhase DEF Begin, Phases, OrderInv, Discarded, Staging, IsPending, TypeOK,
       UpdateLockInv, HelperInv, StepInv, RecordInv, RecordMatchesTarget
  <2>2. InnerInv'
    BY <1>6, SetPhase DEF Begin, Phases, InnerInv, HasStaged, IsPending, TypeOK,
       UpdateLockInv, HelperInv, ProtocolInv, StepInv, SponsorInv, LockInv, Locked
  <2>3. QED
    BY <2>1, <2>2
<1>7. ASSUME NEW p \in Processes, Swap(p) PROVE CoordinationInv'
  <2>1. OrderInv'
    BY <1>7 DEF Swap, OrderInv, Discarded, Staging, IsPending, TypeOK, UpdateLockInv,
       HelperInv, StepInv, RecordInv, RecordMatchesTarget
  <2>2. InnerInv'
    BY <1>7 DEF Swap, InnerInv, HasStaged, IsPending, TypeOK, UpdateLockInv, HelperInv,
       ProtocolInv, StepInv, SponsorInv, LockInv, Locked
  <2>3. QED
    BY <2>1, <2>2
<1>8. ASSUME NEW p \in Processes, Commit(p) PROVE CoordinationInv'
  <2>1. OrderInv'
    BY <1>8, CommitVersion DEF Commit, Persisted, FollowRecord, Forget, OrderInv,
       Discarded, Staging, IsPending, TypeOK, UpdateLockInv, HelperInv, StepInv,
       RecordInv, RecordMatchesTarget
  <2>2. InnerInv'
    BY <1>8, CommitVersion DEF Commit, Persisted, FollowRecord, Forget, InnerInv,
       HasStaged, IsPending, TypeOK, UpdateLockInv, HelperInv, ProtocolInv, StepInv,
       SponsorInv, LockInv, Locked
  <2>3. QED
    BY <2>1, <2>2
<1>9. ASSUME NEW p \in Processes, Crash(p) PROVE CoordinationInv'
  <2>1. OrderInv'
    BY <1>9 DEF Crash, FreeLocksOf, OrderInv, Discarded, Staging, IsPending, TypeOK,
       UpdateLockInv, HelperInv, StepInv, RecordInv, RecordMatchesTarget
  <2>2. InnerInv'
    BY <1>9 DEF Crash, FreeLocksOf, InnerInv, HasStaged, IsPending, TypeOK, UpdateLockInv,
       HelperInv, ProtocolInv, StepInv, SponsorInv, LockInv, Locked
  <2>3. QED
    BY <2>1, <2>2
<1>10. ASSUME NEW c \in Coordinators, StageCandidate(c) PROVE CoordinationInv'
  <2>1. OrderInv'
    BY <1>10 DEF StageCandidate, Enter, OrderInv, Discarded, Staging, IsPending, TypeOK,
       UpdateLockInv, HelperInv, StepInv, RecordInv, RecordMatchesTarget
  <2>2. InnerInv'
    BY <1>10 DEF StageCandidate, Enter, InnerInv, HasStaged, IsPending, TypeOK,
       UpdateLockInv, HelperInv, ProtocolInv, StepInv, SponsorInv, LockInv, Locked
  <2>3. QED
    BY <2>1, <2>2
<1>11. ASSUME NEW c \in Coordinators, Copy(c) PROVE CoordinationInv'
  <2>1. OrderInv'
    BY <1>11 DEF Copy, OrderInv, Discarded, Staging, IsPending, TypeOK, UpdateLockInv,
       HelperInv, StepInv, RecordInv, RecordMatchesTarget
  <2>2. InnerInv'
    BY <1>11 DEF Copy, InnerInv, HasStaged, IsPending, TypeOK, UpdateLockInv, HelperInv,
       ProtocolInv, StepInv, SponsorInv, LockInv, Locked
  <2>3. QED
    BY <2>1, <2>2
<1>12. ASSUME NEW c \in Coordinators, Link(c) PROVE CoordinationInv'
  <2>1. OrderInv'
    BY <1>12 DEF Link, OrderInv, Discarded, Staging, IsPending, TypeOK, UpdateLockInv,
       HelperInv, StepInv, RecordInv, RecordMatchesTarget
  <2>2. InnerInv'
    BY <1>12 DEF Link, InnerInv, HasStaged, IsPending, TypeOK, UpdateLockInv, HelperInv,
       ProtocolInv, StepInv, SponsorInv, LockInv, Locked
  <2>3. QED
    BY <2>1, <2>2
<1>13. ASSUME NEW c \in Coordinators, RecordStaged(c) PROVE CoordinationInv'
  <2>1. OrderInv'
    BY <1>13, StagedRecordOf DEF RecordStaged, OrderInv, Discarded, Staging, IsPending,
       TypeOK, UpdateLockInv, HelperInv, StepInv, RecordInv, RecordMatchesTarget
  <2>2. InnerInv'
    BY <1>13, StagedRecordOf DEF RecordStaged, InnerInv, HasStaged, IsPending, TypeOK,
       UpdateLockInv, HelperInv, ProtocolInv, StepInv, SponsorInv, LockInv, Locked
  <2>3. QED
    BY <2>1, <2>2
<1>14. ASSUME NEW c \in Coordinators, UndoStage(c) PROVE CoordinationInv'
  <2>1. OrderInv'
    BY <1>14 DEF UndoStage, OrderInv, Discarded, Staging, IsPending, TypeOK,
       UpdateLockInv, HelperInv, StepInv, RecordInv, RecordMatchesTarget
  <2>2. InnerInv'
    BY <1>14 DEF UndoStage, InnerInv, HasStaged, IsPending, TypeOK, UpdateLockInv,
       HelperInv, ProtocolInv, StepInv, SponsorInv, LockInv, Locked
  <2>3. QED
    BY <2>1, <2>2
<1>15. ASSUME NEW c \in Coordinators, MarkPendingReady(c) PROVE CoordinationInv'
  <2>1. OrderInv'
    BY <1>15 DEF MarkPendingReady, Enter, OrderInv, Discarded, Staging, IsPending, TypeOK,
       UpdateLockInv, HelperInv, StepInv, RecordInv, RecordMatchesTarget
  <2>2. InnerInv'
    BY <1>15 DEF MarkPendingReady, Enter, InnerInv, HasStaged, IsPending, TypeOK,
       UpdateLockInv, HelperInv, ProtocolInv, StepInv, SponsorInv, LockInv, Locked
  <2>3. QED
    BY <2>1, <2>2
<1>16. ASSUME NEW c \in Coordinators, Approve(c) PROVE CoordinationInv'
  <2>1. OrderInv'
    BY <1>16, SetPhase DEF Approve, Persisted, Phases, OrderInv, Discarded, Staging,
       IsPending, TypeOK, UpdateLockInv, HelperInv, StepInv, RecordInv,
       RecordMatchesTarget
  <2>2. InnerInv'
    BY <1>16, SetPhase DEF Approve, Persisted, Phases, InnerInv, HasStaged, IsPending,
       TypeOK, UpdateLockInv, HelperInv, ProtocolInv, StepInv, SponsorInv, LockInv, Locked
  <2>3. QED
    BY <2>1, <2>2
<1>17. ASSUME NEW c \in Coordinators, ApplyPending(c) PROVE CoordinationInv'
  <2>1. /\ UNCHANGED <<meta, op, step, selected, sponsor>>
        /\ pc[c] = "want" /\ op[c] = "apply"
    BY <1>17 DEF ApplyPending, Enter
  <2>2. PICK label \in {"done", "clear", "begin", "swap", "commit"} :
          /\ pc' = [pc EXCEPT ![c] = label]
          /\ \A q \in Processes \ {c} : out'[q] = out[q]
    BY <1>17, ApplyPendingSteps
  <2>3. OrderInv'
    BY <2>1, <2>2 DEF OrderInv, Discarded, Staging, IsPending, TypeOK
  <2>4. InnerInv'
    BY <2>1, <2>2 DEF InnerInv, HasStaged, IsPending, TypeOK
  <2>5. QED
    BY <2>3, <2>4
<1>18. ASSUME NEW c \in Coordinators, StartCheck(c) PROVE CoordinationInv'
  <2>1. OrderInv'
    BY <1>18 DEF StartCheck, OrderInv, Discarded, Staging, IsPending, TypeOK,
       UpdateLockInv, HelperInv, StepInv, RecordInv, RecordMatchesTarget
  <2>2. InnerInv'
    BY <1>18 DEF StartCheck, InnerInv, HasStaged, IsPending, TypeOK, UpdateLockInv,
       HelperInv, ProtocolInv, StepInv, SponsorInv, LockInv, Locked
  <2>3. QED
    BY <2>1, <2>2
<1>19. ASSUME NEW c \in Coordinators, StartStage(c) PROVE CoordinationInv'
  <2>1. OrderInv'
    BY <1>19 DEF StartStage, OrderInv, Discarded, Staging, IsPending, TypeOK,
       UpdateLockInv, HelperInv, StepInv, RecordInv, RecordMatchesTarget
  <2>2. InnerInv'
    BY <1>19 DEF StartStage, InnerInv, HasStaged, IsPending, TypeOK, UpdateLockInv,
       HelperInv, ProtocolInv, StepInv, SponsorInv, LockInv, Locked
  <2>3. QED
    BY <2>1, <2>2
<1>20. ASSUME NEW c \in Coordinators, StartApply(c) PROVE CoordinationInv'
  <2>1. OrderInv'
    BY <1>20 DEF StartApply, OrderInv, Discarded, Staging, IsPending, TypeOK,
       UpdateLockInv, HelperInv, StepInv, RecordInv, RecordMatchesTarget
  <2>2. InnerInv'
    BY <1>20 DEF StartApply, InnerInv, HasStaged, IsPending, TypeOK, UpdateLockInv,
       HelperInv, ProtocolInv, StepInv, SponsorInv, LockInv, Locked
  <2>3. QED
    BY <2>1, <2>2
<1>21. ASSUME NEW c \in Coordinators, GiveUp(c) PROVE CoordinationInv'
  <2>1. OrderInv'
    BY <1>21 DEF GiveUp, OrderInv, Discarded, Staging, IsPending, TypeOK, UpdateLockInv,
       HelperInv, StepInv, RecordInv, RecordMatchesTarget
  <2>2. InnerInv'
    BY <1>21 DEF GiveUp, InnerInv, HasStaged, IsPending, TypeOK, UpdateLockInv, HelperInv,
       ProtocolInv, StepInv, SponsorInv, LockInv, Locked
  <2>3. QED
    BY <2>1, <2>2
<1>22. ASSUME NEW c \in Coordinators, Release(c) PROVE CoordinationInv'
  <2>1. OrderInv'
    BY <1>22 DEF Release, OrderInv, Discarded, Staging, IsPending, TypeOK, UpdateLockInv,
       HelperInv, StepInv, RecordInv, RecordMatchesTarget
  <2>2. InnerInv'
    BY <1>22 DEF Release, InnerInv, HasStaged, IsPending, TypeOK, UpdateLockInv,
       HelperInv, ProtocolInv, StepInv, SponsorInv, LockInv, Locked
  <2>3. QED
    BY <2>1, <2>2
<1>23. ASSUME NEW c \in Coordinators, HelperStart(c) PROVE CoordinationInv'
  <2>1. OrderInv'
    BY <1>23 DEF HelperStart, OrderInv, Discarded, Staging, IsPending, TypeOK,
       UpdateLockInv, HelperInv, StepInv, RecordInv, RecordMatchesTarget
  <2>2. InnerInv'
    BY <1>23 DEF HelperStart, InnerInv, HasStaged, IsPending, TypeOK, UpdateLockInv,
       HelperInv, ProtocolInv, StepInv, SponsorInv, LockInv, Locked
  <2>3. QED
    BY <2>1, <2>2
<1>24. ASSUME NEW c \in Coordinators, FinishCheck(c) PROVE CoordinationInv'
  <2>1. OrderInv'
    BY <1>24 DEF FinishCheck, HelperExits, OrderInv, Discarded, Staging, IsPending,
       TypeOK, UpdateLockInv, HelperInv, StepInv, RecordInv, RecordMatchesTarget
  <2>2. InnerInv'
    BY <1>24 DEF FinishCheck, HelperExits, InnerInv, HasStaged, IsPending, TypeOK,
       UpdateLockInv, HelperInv, ProtocolInv, StepInv, SponsorInv, LockInv, Locked
  <2>3. QED
    BY <2>1, <2>2
<1>25. ASSUME NEW c \in Coordinators, ContinueStage(c) PROVE CoordinationInv'
  <2>1. OrderInv'
    BY <1>25 DEF ContinueStage, HelperExits, InitializeCurrentFails, ResolveCandidate,
       OrderInv, Discarded, Staging, IsPending, TypeOK, UpdateLockInv, HelperInv, StepInv,
       RecordInv, RecordMatchesTarget
  <2>2. InnerInv'
    BY <1>25 DEF ContinueStage, HelperExits, InitializeCurrentFails, ResolveCandidate,
       InnerInv, HasStaged, IsPending, TypeOK, UpdateLockInv, HelperInv, ProtocolInv,
       StepInv, SponsorInv, LockInv, Locked
  <2>3. QED
    BY <2>1, <2>2
<1>26. ASSUME NEW c \in Coordinators, FinishStage(c) PROVE CoordinationInv'
  <2>1. OrderInv'
    BY <1>26 DEF FinishStage, HelperExits, OrderInv, Discarded, Staging, IsPending,
       TypeOK, UpdateLockInv, HelperInv, StepInv, RecordInv, RecordMatchesTarget
  <2>2. InnerInv'
    BY <1>26 DEF FinishStage, HelperExits, InnerInv, HasStaged, IsPending, TypeOK,
       UpdateLockInv, HelperInv, ProtocolInv, StepInv, SponsorInv, LockInv, Locked
  <2>3. QED
    BY <2>1, <2>2
<1>27. ASSUME NEW c \in Coordinators, ContinueApply(c) PROVE CoordinationInv'
  <2>1. OrderInv'
    BY <1>27 DEF ContinueApply, HelperExits, OrderInv, Discarded, Staging, IsPending,
       TypeOK, UpdateLockInv, HelperInv, StepInv, RecordInv, RecordMatchesTarget
  <2>2. InnerInv'
    BY <1>27 DEF ContinueApply, HelperExits, InnerInv, HasStaged, IsPending, TypeOK,
       UpdateLockInv, HelperInv, ProtocolInv, StepInv, SponsorInv, LockInv, Locked
  <2>3. QED
    BY <2>1, <2>2
<1>28. ASSUME NEW c \in Coordinators, FinishApply(c) PROVE CoordinationInv'
  <2>1. OrderInv'
    BY <1>28 DEF FinishApply, HelperExits, OrderInv, Discarded, Staging, IsPending,
       TypeOK, UpdateLockInv, HelperInv, StepInv, RecordInv, RecordMatchesTarget
  <2>2. InnerInv'
    BY <1>28 DEF FinishApply, HelperExits, InnerInv, HasStaged, IsPending, TypeOK,
       UpdateLockInv, HelperInv, ProtocolInv, StepInv, SponsorInv, LockInv, Locked
  <2>3. QED
    BY <2>1, <2>2
<1>29. ASSUME NEW c \in Coordinators, CoordinatorDies(c) PROVE CoordinationInv'
  <2>1. OrderInv'
    BY <1>29 DEF CoordinatorDies, OrderInv, Discarded, Staging, IsPending, TypeOK
  <2>2. InnerInv'
    BY <1>29 DEF CoordinatorDies, InnerInv, HasStaged, IsPending, TypeOK
  <2>3. QED
    BY <2>1, <2>2
<1>30. ASSUME NEW i \in Invokers, Invoke(i) PROVE CoordinationInv'
  <2>1. OrderInv'
    BY <1>30 DEF Invoke, OrderInv, Discarded, Staging, IsPending, TypeOK, UpdateLockInv,
       HelperInv, StepInv, RecordInv, RecordMatchesTarget
  <2>2. InnerInv'
    BY <1>30 DEF Invoke, InnerInv, HasStaged, IsPending, TypeOK, UpdateLockInv, HelperInv,
       ProtocolInv, StepInv, SponsorInv, LockInv, Locked
  <2>3. QED
    BY <2>1, <2>2
<1>31. ASSUME NEW i \in Invokers, Finish(i) PROVE CoordinationInv'
  <2>1. OrderInv'
    BY <1>31 DEF Finish, OrderInv, Discarded, Staging, IsPending, TypeOK, UpdateLockInv,
       HelperInv, StepInv, RecordInv, RecordMatchesTarget
  <2>2. InnerInv'
    BY <1>31 DEF Finish, InnerInv, HasStaged, IsPending, TypeOK, UpdateLockInv, HelperInv,
       ProtocolInv, StepInv, SponsorInv, LockInv, Locked
  <2>3. QED
    BY <2>1, <2>2
<1>32. ASSUME NEW v \in Versions, Publish(v) PROVE CoordinationInv'
  <2>1. OrderInv'
    BY <1>32 DEF Publish, OrderInv, Discarded, Staging, IsPending, TypeOK, UpdateLockInv,
       HelperInv, StepInv, RecordInv, RecordMatchesTarget
  <2>2. InnerInv'
    BY <1>32 DEF Publish, InnerInv, HasStaged, IsPending, TypeOK, UpdateLockInv,
       HelperInv, ProtocolInv, StepInv, SponsorInv, LockInv, Locked
  <2>3. QED
    BY <2>1, <2>2
<1>33. ASSUME NEW v \in Versions, LoseCandidate(v) PROVE CoordinationInv'
  <2>1. OrderInv'
    BY <1>33 DEF LoseCandidate, OrderInv, Discarded, Staging, IsPending, TypeOK,
       UpdateLockInv, HelperInv, StepInv, RecordInv, RecordMatchesTarget
  <2>2. InnerInv'
    BY <1>33 DEF LoseCandidate, InnerInv, HasStaged, IsPending, TypeOK, UpdateLockInv,
       HelperInv, ProtocolInv, StepInv, SponsorInv, LockInv, Locked
  <2>3. QED
    BY <2>1, <2>2
<1>34. CASE UNCHANGED vars
  BY <1>34 DEF vars, OrderInv, InnerInv, Discarded, Staging, HasStaged, IsPending
<1>35. QED
  BY <1>1, <1>2, <1>3, <1>4, <1>5, <1>6, <1>7, <1>8, <1>9, <1>10, <1>11, <1>12, <1>13,
     <1>14, <1>15, <1>16, <1>17, <1>18, <1>19, <1>20, <1>21, <1>22, <1>23, <1>24, <1>25,
     <1>26, <1>27, <1>28, <1>29, <1>30, <1>31, <1>32, <1>33, <1>34 DEF Next, EngineStep,
     StageOrApplyStep, CoordinatorStep

(* It holds as long as no helper outlives its coordinator.                  *)
LEMMA CoordinationHolds ==
  ASSUME ~HelpersMayBeOrphaned
  PROVE  Spec => []CoordinationInv
<1>1. /\ IInv /\ IInv' /\ ApprovalInv /\ ApprovalInv' /\ CoordinationInv /\ [Next]_vars
      => CoordinationInv'
  BY CoordinationNext
<1>2. QED
  BY CoordinationInit, <1>1, ApprovalHolds, Inductive, PTL DEF Spec

(* The stable path changes only by the rename of replace_candidate.         *)
LEMMA OnlySwapInstalls ==
  ASSUME [Next]_vars, target' # target
  PROVE  \E p \in Processes : Swap(p)
BY ZenonT(40) DEF Next, EngineStep, StageOrApplyStep, CoordinatorStep, vars, files,
   RecoverPending, ProbeUpdateLock, EndProbe, Unlink, Clear, Begin, Commit, Crash,
   StageCandidate, Copy, Link, RecordStaged, UndoStage, MarkPendingReady, Approve, ApplyPending,
   StartCheck, StartStage, StartApply, GiveUp, Release, HelperStart, FinishCheck, ContinueStage,
   FinishStage, ContinueApply, FinishApply, CoordinatorDies, Invoke, Finish, Publish, LoseCandidate

(* The stable path never goes back to an older version, although a helper   *)
(* selects against the version it was itself started from                   *)
(* (select_candidate, require_selected_candidate).                          *)
THEOREM VersionsOnlyGrow ==
  ASSUME ~HelpersMayBeOrphaned
  PROVE  Spec => NeverDowngrades
<1>1. IInv /\ CoordinationInv /\ [Next]_vars => [target' > target]_target
  <2> SUFFICES ASSUME IInv, CoordinationInv, [Next]_vars, target' # target
               PROVE  target' > target
    OBVIOUS
  <2>1. PICK p \in Processes : Swap(p)
    BY OnlySwapInstalls
  <2>2. target' = meta.pending.version /\ target = meta.version /\ IsPending(meta)
    BY <2>1 DEF Swap, IInv, StepInv, IsPending
  <2>3. QED
    BY <2>2 DEF CoordinationInv, OrderInv
<1>2. QED
  BY <1>1, CoordinationHolds, Inductive, PTL DEF Spec, NeverDowngrades
(* From a successful stage to the end of the inner transaction what was     *)
(* staged is left alone: recovery finds the coordination lock held, and     *)
(* the helpers of other coordinators are not running.                       *)
LEMMA StagedIsLeftAlone ==
  ASSUME IInv, ApprovalInv, CoordinationInv, Next,
         NEW c \in Coordinators, step[c] = "inner", sponsor = c,
         meta.pending.version \in candidates
  PROVE  /\ meta' = meta
         /\ meta.pending.version \in candidates' \/ faults' > faults
<1> USE ProcessAssumption DEF IInv, files, locks, coord, ghosts
<1> DEFINE Kept == meta' = meta /\ (meta.pending.version \in candidates' \/ faults' > faults)
<1>1. meta.pending.phase = "staged" /\ IsPending(meta)
  <2>1. sponsor # NONE /\ HasStaged(c)
    BY DEF HasStaged, Processes
  <2>2. QED
    BY <2>1 DEF CoordinationInv, InnerInv, IsPending
<1>2. \A d \in Coordinators : step[d] # "idle" => d = c
  BY DEF ApprovalInv, UpdateLockInv
<1>3. \A p \in Processes :
        pc[p] \notin {"unlink", "clear", "begin", "swap", "commit", "record", "record-adopted"}
  BY <1>1 DEF CoordinationInv, InnerInv, HasStaged, StepInv, Processes
<1>4. \A d \in Coordinators : pc[d] \notin {"approve", "undo"}
  BY <1>2 DEF ApprovalInv, HelperInv
<1>5. ASSUME NEW p \in Processes,
             Unlink(p) \/ Clear(p) \/ Begin(p) \/ Swap(p) \/ Commit(p)
      PROVE  Kept
  BY <1>3, <1>5 DEF Unlink, Clear, Begin, Swap, Commit
<1>6. ASSUME NEW d \in Coordinators, RecordStaged(d) \/ Approve(d) \/ UndoStage(d)
      PROVE  Kept
  BY <1>3, <1>4, <1>6 DEF RecordStaged, Approve, UndoStage, Processes
<1>7. ASSUME NEW d \in Coordinators, Copy(d) \/ Link(d) PROVE Kept
  BY <1>7 DEF Copy, Link
<1>8. ASSUME NEW v \in Versions, LoseCandidate(v) PROVE Kept
  <2>1. faults \in Nat /\ faults' = faults + 1 /\ UNCHANGED meta
    BY <1>8, ProcessAssumption DEF LoseCandidate, TypeOK
  <2>2. QED
    BY <2>1
<1>9. ASSUME UNCHANGED <<meta, candidates>> PROVE Kept
  BY <1>9
<1>10. QED
  <2> HIDE DEF Kept
  <2>1. Kept
    BY <1>5, <1>6, <1>7, <1>8, <1>9, ZenonT(40)
    DEF Next, EngineStep, StageOrApplyStep, CoordinatorStep, RecoverPending, ProbeUpdateLock,
        EndProbe, Crash, StageCandidate, MarkPendingReady, ApplyPending, StartCheck, StartStage,
        StartApply, GiveUp, Release, HelperStart, FinishCheck, ContinueStage, FinishStage,
        ContinueApply, FinishApply, CoordinatorDies, Invoke, Finish, Publish
  <2>2. QED
    BY <2>1 DEF Kept

(* While a coordinator is in its inner transaction, neither recovery nor    *)
(* another helper touches what it has staged.                               *)
THEOREM InnerTransactionIsUndisturbed ==
  ASSUME ~HelpersMayBeOrphaned
  PROVE  Spec => StagedCandidateProtected
<1> DEFINE Protected ==
      \A c \in Coordinators :
        step[c] = "inner" /\ sponsor = c /\ meta.pending.version \in candidates =>
          /\ meta' = meta
          /\ meta.pending.version \in candidates' \/ faults' > faults
<1>1. IInv /\ ApprovalInv /\ CoordinationInv /\ [Next]_vars => [Protected]_files
  BY StagedIsLeftAlone DEF vars
<1>2. QED
  BY <1>1, ApprovalHolds, CoordinationHolds, Inductive, PTL DEF Spec, StagedCandidateProtected
=============================================================================
