------------------------ MODULE WindowsUpdateProofs ------------------------
(***************************************************************************)
(* Proofs about WindowsUpdate, for any versions, runtimes, workers and     *)
(* number of faults.                                                       *)
(***************************************************************************)
EXTENDS WindowsUpdate, TLAPS

(* Nobody and nothing is told apart from processes, versions and places.    *)
LEMMA Constants ==
  /\ \A p \in Processes : p # NONE
  /\ \A v \in Versions : v # NONE
  /\ 0 \in Versions /\ MaxFaults \in Nat
  /\ \A p \in Runtimes : p \in Processes
  /\ \A w \in Workers : w \in Processes
BY WindowsAssumption, MaxVersionAssumption DEF Processes, Versions

(* What the three ways to change the record make of it.                     *)
LEMMA RecordForms ==
  ASSUME NEW m \in Metadata
  PROVE  /\ \A phase \in Phases :
              /\ set_phase(m, phase) \in Metadata
              /\ set_phase(m, phase).version = m.version
              /\ set_phase(m, phase).pending.phase = phase
              /\ set_phase(m, phase).pending.version = m.pending.version
         /\ clear_pending(m) \in Metadata /\ clear_pending(m).version = m.version
         /\ clear_pending(m).pending = NoPending
         /\ CommitNewVersion(m) \in Metadata
         /\ CommitNewVersion(m).version = m.pending.version
         /\ CommitNewVersion(m).pending = NoPending
<1>1. NoPending \in Pending /\ m.version \in Versions /\ m.pending \in Pending
      /\ m.pending.version \in Versions
  BY Constants DEF Metadata, Pending, NoPending, Phases
<1>2. \A phase \in Phases :
        /\ set_phase(m, phase) \in Metadata
        /\ set_phase(m, phase).version = m.version
        /\ set_phase(m, phase).pending.phase = phase
        /\ set_phase(m, phase).pending.version = m.pending.version
  BY DEF Metadata, Pending, set_phase
<1>3. /\ clear_pending(m) \in Metadata /\ clear_pending(m).version = m.version
      /\ clear_pending(m).pending = NoPending
  BY <1>1 DEF Metadata, clear_pending
<1>4. /\ CommitNewVersion(m) \in Metadata
      /\ CommitNewVersion(m).version = m.pending.version
      /\ CommitNewVersion(m).pending = NoPending
  BY <1>1 DEF Metadata, CommitNewVersion
<1> QED
  BY <1>2, <1>3, <1>4

LEMMA NothingPending == NoPending.phase = "none" /\ NoPending.version = 0
BY DEF NoPending

(* What classification tells of the files.                                  *)
LEMMA ClassifiedIs ==
  ASSUME IInv
  PROVE  /\ Classified = Files(Classified.target, Classified.candidate, Classified.backup)
         /\ Classified.target = IF target = NONE THEN "missing"
                                ELSE IF target = meta.version THEN "old"
                                ELSE IF target = meta.pending.version THEN "new" ELSE "other"
         /\ Classified.candidate =
              IF meta.pending.version \in candidates THEN "new" ELSE "missing"
         /\ Classified.backup = IF meta.version \in backups THEN "old" ELSE "missing"
<1> DEFINE t == IF target = meta.version THEN "old"
                ELSE IF target = meta.pending.version THEN "new" ELSE "other"
           c == IF meta.pending.version \in candidates THEN "new" ELSE "missing"
           b == IF meta.version \in backups THEN "old" ELSE "missing"
           found == [target |-> t, candidate |-> c, backup |-> b]
           u == IF target = NONE THEN "missing" ELSE t
<1>1. t = IF target = meta.version THEN "old"
          ELSE IF target = meta.pending.version THEN "new" ELSE "other"
  OBVIOUS
<1>2. classify_files(meta, target, meta.pending.version \in candidates,
                     meta.version \in backups) = found
  BY Zenon DEF classify_files
<1> HIDE DEF t, c, b
<1>3. [found EXCEPT !.target = IF target = NONE THEN "missing" ELSE @] = Files(u, c, b)
  BY DEF Files
<1>4. Classified = Files(u, c, b)
  BY <1>2, <1>3, Zenon DEF Classified
<1>5. Classified.target = u /\ Classified.candidate = c /\ Classified.backup = b
  BY <1>4 DEF Files
<1> QED
  BY <1>1, <1>4, <1>5 DEF c, b

LEMMA FilesAre ==
  ASSUME NEW t, NEW c, NEW b, NEW t2, NEW c2, NEW b2
  PROVE  Files(t, c, b) = Files(t2, c2, b2) <=> t = t2 /\ c = c2 /\ b = b2
<1>1. /\ Files(t, c, b).target = t /\ Files(t, c, b).candidate = c
      /\ Files(t, c, b).backup = b
      /\ Files(t2, c2, b2).target = t2 /\ Files(t2, c2, b2).candidate = c2
      /\ Files(t2, c2, b2).backup = b2
  BY DEF Files
<1> QED
  BY <1>1

(* Which files a state of theirs names.                                     *)
LEMMA FoundFiles ==
  ASSUME IInv
  PROVE  /\ \A t, c, b : Classified = Files(t, c, b) <=>
              Classified.target = t /\ Classified.candidate = c /\ Classified.backup = b
         /\ Classified.target = "old" <=> target = meta.version
         /\ Classified.target = "missing" <=> target = NONE
         /\ Classified.target = "new" => target = meta.pending.version
         /\ target = meta.pending.version /\ IsPending(meta) => Classified.target = "new"
         /\ Classified.candidate = "new" <=> meta.pending.version \in candidates
         /\ Classified.candidate = "missing" <=> meta.pending.version \notin candidates
         /\ Classified.backup = "old" <=> meta.version \in backups
         /\ Classified.backup = "missing" <=> meta.version \notin backups
<1>1. meta.version \in Versions /\ meta.pending.version \in Versions
  BY DEF IInv, TypeOK, Metadata, Pending
<1>2. meta.version # NONE /\ meta.pending.version # NONE
  BY <1>1, Constants
<1>3. IsPending(meta) => meta.pending.version # meta.version
  BY <1>1 DEF IInv, FilesInv, Versions
<1>4. ASSUME NEW t, NEW c, NEW b
      PROVE  Classified = Files(t, c, b) <=>
               Classified.target = t /\ Classified.candidate = c /\ Classified.backup = b
  <2> DEFINE f == Classified
  <2>1. f = Files(f.target, f.candidate, f.backup)
    BY ClassifiedIs
  <2>2. Files(f.target, f.candidate, f.backup) = Files(t, c, b)
          <=> f.target = t /\ f.candidate = c /\ f.backup = b
    BY FilesAre
  <2> HIDE DEF f
  <2>3. f = Files(t, c, b) <=> f.target = t /\ f.candidate = c /\ f.backup = b
    BY <2>1, <2>2
  <2> QED
    BY <2>3 DEF f
<1> QED
  BY <1>2, <1>3, <1>4, ClassifiedIs

(* What each decision of recovery takes for granted.                        *)
LEMMA RecoveryFacts ==
  ASSUME IInv, NEW next, next = WindowsRecovery(meta.pending.phase, Classified)
  PROVE  /\ next \in {"nothing", "discard", "clear", "prepare", "abandon", "restore",
                      "restore-only", "cleanup", "remove", "commit", "invalid"}
         /\ next = "nothing" <=> meta.pending.phase = "none"
         /\ next = "discard" => meta.pending.phase = "staged" /\ target = meta.version
         /\ next \in {"clear", "abandon"} =>
              target = meta.version /\ meta.pending.version \notin candidates
         /\ next = "prepare" =>
              meta.pending.phase \in {"ready", "replacing"} /\ target = meta.version
         /\ next \in {"restore", "restore-only"} =>
              meta.pending.phase = "replacing" /\ target = NONE
         /\ next = "restore-only" => meta.pending.version \notin candidates
         /\ next \in {"cleanup", "remove", "commit"} =>
              /\ meta.pending.phase \in {"replacing", "cleanup"}
              /\ target = meta.pending.version /\ meta.pending.version \notin candidates
<1> DEFINE phase == meta.pending.phase
           f == Classified
<1>1. phase \in Phases
  BY DEF IInv, TypeOK, Metadata, Pending
<1>2. /\ f = StagedFiles <=>
           f.target = "old" /\ f.candidate = "new" /\ f.backup = "missing"
      /\ f = LostFiles <=>
           f.target = "old" /\ f.candidate = "missing" /\ f.backup = "missing"
      /\ f = SwappedFiles <=>
           f.target = "new" /\ f.candidate = "missing" /\ f.backup = "missing"
      /\ f = Files("old", "missing", "old") <=>
           f.target = "old" /\ f.candidate = "missing" /\ f.backup = "old"
      /\ f = Files("missing", "new", "old") <=>
           f.target = "missing" /\ f.candidate = "new" /\ f.backup = "old"
      /\ f = Files("missing", "missing", "old") <=>
           f.target = "missing" /\ f.candidate = "missing" /\ f.backup = "old"
      /\ f = Files("new", "missing", "old") <=>
           f.target = "new" /\ f.candidate = "missing" /\ f.backup = "old"
  BY FoundFiles DEF StagedFiles, LostFiles, SwappedFiles
<1>3. /\ f.target = "old" => target = meta.version
      /\ f.target = "missing" => target = NONE
      /\ f.target = "new" => target = meta.pending.version
      /\ f.candidate = "missing" => meta.pending.version \notin candidates
  BY FoundFiles
<1> HIDE DEF f
<1>4. next = WindowsRecovery(phase, f)
  BY DEF f
<1> HIDE DEF phase
<1>5. CASE phase = "none"
  BY <1>4, <1>5 DEF WindowsRecovery, phase
<1>6. CASE phase = "staged"
  BY <1>2, <1>3, <1>4, <1>6 DEF WindowsRecovery, phase
<1>7. CASE phase = "ready"
  BY <1>2, <1>3, <1>4, <1>7 DEF WindowsRecovery, phase
<1>8. CASE phase = "replacing"
  BY <1>2, <1>3, <1>4, <1>8 DEF WindowsRecovery, phase
<1>9. CASE phase = "cleanup"
  BY <1>2, <1>3, <1>4, <1>9 DEF WindowsRecovery, phase
<1> QED
  BY <1>1, <1>5, <1>6, <1>7, <1>8, <1>9 DEF Phases

(* At first the executable of version 0 is installed, and nobody runs.      *)
LEMMA InitCorrect == Init => IInv
<1> SUFFICES ASSUME Init PROVE IInv
  OBVIOUS
<1> USE Constants DEF Init
<1>1. meta \in Metadata /\ meta.version = 0 /\ meta.pending.phase = "none"
  BY DEF Metadata, Pending, NoPending, Phases
<1>2. TypeOK
  <2>1. \A p \in Processes : bootLock = p <=> pc[p] \in Locked
    BY DEF Locked
  <2>2. /\ pc \in [Processes -> PCs] /\ op \in [Processes -> Ops]
        /\ out \in [Processes -> Outcomes] /\ image \in [Processes -> Places \union {NONE}]
        /\ worker \in [Workers -> Versions]
    BY DEF PCs, Ops, Outcomes, Places
  <2>3. /\ target \in Versions \union {NONE} /\ bootLock \in Processes \union {NONE}
        /\ coordinated \in BOOLEAN /\ moved \in BOOLEAN
    OBVIOUS
  <2>4. candidates \subseteq Versions /\ backups \subseteq Versions /\ copies \subseteq Versions
    OBVIOUS
  <2>5. faults \in 0 .. MaxFaults
    OBVIOUS
  <2> HIDE DEF Init
  <2> QED
    BY <1>1, <2>1, <2>2, <2>3, <2>4, <2>5 DEF TypeOK
<1>3. FilesInv
  BY <1>1 DEF FilesInv, IsPending, NotReplaced
<1>4. \A p \in Processes : StepInv(p)
  BY DEF StepInv
<1> QED
  BY <1>2, <1>3, <1>4 DEF IInv

-----------------------------------------------------------------------------
(* Who is inside the locked section, before and after a step *)

(* Who is inside is alone there.                                            *)
LEMMA OneInside ==
  ASSUME IInv, NEW p \in Processes, pc[p] \in Locked \/ bootLock = NONE
  PROVE  \A q \in Processes \ {p} : pc[q] \notin Locked
BY Constants DEF IInv, TypeOK

(* Outside there is nothing to know of a process.                           *)
LEMMA OutsideKnowsNothing ==
  ASSUME NEW q \in Processes, pc'[q] \notin Locked, pc'[q] \in PCs
  PROVE  StepInv(q)'
BY DEF StepInv, Locked, PCs

(* A step of p inside, or into, the locked section.                         *)
LEMMA InsideStep ==
  ASSUME IInv, NEW p \in Processes, pc[p] \in Locked \/ bootLock = NONE,
         bootLock' = p, NEW l \in Locked, Goto(p, l),
         UNCHANGED <<coordinated, op, out, worker, faults, moved>>,
         meta' \in Metadata, target' \in Versions \union {NONE},
         candidates' \subseteq Versions, backups' \subseteq Versions, copies' \subseteq Versions,
         image' \in [Processes -> Places \union {NONE}],
         FilesInv', pc'[p] = l => StepInv(p)'
  PROVE  IInv'
<1>1. pc' \in [Processes -> PCs] /\ pc'[p] = l /\ \A q \in Processes \ {p} : pc'[q] = pc[q]
  BY DEF IInv, TypeOK, Goto, Locked
<1>2. \A q \in Processes \ {p} : pc'[q] \notin Locked
  BY <1>1, OneInside
<1>3. TypeOK'
  <2>1. \A q \in Processes : bootLock' = q <=> pc'[q] \in Locked
    BY <1>1, <1>2
  <2> QED
    BY <1>1, <2>1 DEF IInv, TypeOK
<1>4. \A q \in Processes \ {p} : StepInv(q)'
  BY <1>1, <1>2, OutsideKnowsNothing
<1> QED
  BY <1>1, <1>3, <1>4 DEF IInv

(* A step after which nobody is inside.                                     *)
LEMMA EmptyStep ==
  ASSUME bootLock' = NONE, \A q \in Processes : pc'[q] \notin Locked,
         coordinated' \in BOOLEAN, pc' \in [Processes -> PCs], op' \in [Processes -> Ops],
         out' \in [Processes -> Outcomes], image' \in [Processes -> Places \union {NONE}],
         worker' \in [Workers -> Versions], faults' \in 0 .. MaxFaults, moved' \in BOOLEAN,
         meta' \in Metadata, target' \in Versions \union {NONE},
         candidates' \subseteq Versions, backups' \subseteq Versions, copies' \subseteq Versions,
         FilesInv'
  PROVE  IInv'
<1>1. TypeOK'
  BY Constants DEF TypeOK
<1>2. \A q \in Processes : StepInv(q)'
  BY OutsideKnowsNothing
<1> QED
  BY <1>1, <1>2 DEF IInv

(* A step of which the lock and the files know nothing.                     *)
LEMMA OutsideStep ==
  ASSUME IInv, UNCHANGED <<files, bootLock, moved>>,
         \A q \in Processes : pc'[q] = pc[q] \/ (pc[q] \notin Locked /\ pc'[q] \notin Locked),
         coordinated' \in BOOLEAN, pc' \in [Processes -> PCs], op' \in [Processes -> Ops],
         out' \in [Processes -> Outcomes], image' \in [Processes -> Places \union {NONE}],
         worker' \in [Workers -> Versions], faults' \in 0 .. MaxFaults
  PROVE  IInv'
<1>1. TypeOK'
  BY DEF IInv, TypeOK, files
<1>2. FilesInv'
  BY DEF IInv, FilesInv, files, NotReplaced, Replaced, IsPending
<1>3. ASSUME NEW q \in Processes PROVE StepInv(q)'
  <2>1. CASE pc'[q] \notin Locked
    BY <2>1, OutsideKnowsNothing
  <2>2. CASE pc'[q] = pc[q]
    BY <2>2 DEF IInv, StepInv, files, NotReplaced, Replaced, IsPending
  <2> QED
    BY <2>1, <2>2
<1> QED
  BY <1>1, <1>2, <1>3 DEF IInv

(* The function returns, or a call of it fails.                             *)
LEMMA ReturnStep ==
  ASSUME IInv, NEW p \in Processes, pc[p] \in Locked \/ bootLock = NONE,
         NEW outcome \in Outcomes, Return(p, outcome),
         UNCHANGED <<coordinated, op, image, worker, moved>>, faults' \in 0 .. MaxFaults,
         meta' \in Metadata, UNCHANGED <<target, candidates, copies>>,
         backups' \subseteq Versions, FilesInv'
  PROVE  IInv'
<1>1. \A q \in Processes \ {p} : pc[q] \notin Locked
  BY OneInside
<1>2. pc' \in [Processes -> PCs] /\ \A q \in Processes : pc'[q] \notin Locked
  BY <1>1 DEF IInv, TypeOK, Return, Goto, PCs, Locked
<1>3. out' \in [Processes -> Outcomes]
  BY DEF IInv, TypeOK, Return
<1>4. bootLock' = NONE
  BY DEF Return
<1>5. /\ op' \in [Processes -> Ops] /\ image' \in [Processes -> Places \union {NONE}]
      /\ worker' \in [Workers -> Versions] /\ coordinated' \in BOOLEAN /\ moved' \in BOOLEAN
      /\ target' \in Versions \union {NONE} /\ candidates' \subseteq Versions
      /\ copies' \subseteq Versions
  BY DEF IInv, TypeOK
<1> QED
  BY <1>2, <1>3, <1>4, <1>5, EmptyStep

LEMMA FailStep ==
  ASSUME IInv, NEW p \in Processes, pc[p] \in Locked \/ bootLock = NONE, CallFails(p),
         UNCHANGED <<coordinated, op, image, worker, moved>>,
         meta' \in Metadata, UNCHANGED <<target, candidates, copies, backups>>, FilesInv'
  PROVE  IInv'
<1>1. Return(p, "error") /\ "error" \in Outcomes /\ faults' \in 0 .. MaxFaults
  BY Constants DEF CallFails, IInv, TypeOK, Outcomes
<1> QED
  BY <1>1, ReturnStep DEF IInv, TypeOK

(* The files know nothing of faults or of who is inside.                    *)
LEMMA FilesKept ==
  ASSUME IInv, UNCHANGED <<meta, target, candidates, backups, moved>>
  PROVE  FilesInv' /\ meta' \in Metadata
BY DEF IInv, TypeOK, FilesInv, NotReplaced, Replaced, IsPending

(* The facts about the record every lemma below uses.                       *)
LEMMA RecordFacts ==
  ASSUME IInv
  PROVE  /\ meta \in Metadata /\ meta.version \in Versions /\ meta.pending.version \in Versions
         /\ meta.pending.phase \in Phases
         /\ meta.version # NONE /\ meta.pending.version # NONE
         /\ IsPending(meta) => meta.pending.version # meta.version
         /\ \A phase \in {"staged", "ready", "replacing", "cleanup"} :
              meta.pending.phase = phase => IsPending(meta)
<1>1. /\ meta \in Metadata /\ meta.version \in Versions /\ meta.pending.version \in Versions
      /\ meta.pending.phase \in Phases
  BY DEF IInv, TypeOK, Metadata, Pending
<1>2. IsPending(meta) => meta.pending.version > meta.version
  BY DEF IInv, FilesInv
<1>3. IsPending(meta) => meta.pending.version # meta.version
  BY <1>1, <1>2 DEF Versions
<1>4. \A phase \in {"staged", "ready", "replacing", "cleanup"} :
        meta.pending.phase = phase => IsPending(meta)
  BY DEF IsPending
<1> QED
  BY <1>1, <1>3, <1>4, Constants

-----------------------------------------------------------------------------
(* One lemma per action *)

(* What recovery decides on is as it takes it to be.                        *)
LEMMA RecoverStep ==
  ASSUME IInv, NEW p \in Processes, bootLock = NONE, Recover(p),
         meta.pending.phase # "none",
         UNCHANGED <<files, coordinated, op, image, worker, faults, moved>>
  PROVE  IInv'
<1> DEFINE next == WindowsRecovery(meta.pending.phase, Classified)
<1>1. /\ meta' = meta /\ target' = target /\ candidates' = candidates /\ backups' = backups
      /\ copies' = copies
  BY DEF files
<1>2. FilesInv' /\ meta' \in Metadata /\ faults' \in 0 .. MaxFaults
  BY <1>1, FilesKept DEF IInv, TypeOK
<1>3. CASE next = "invalid"
  <2>1. Return(p, "error") /\ "error" \in Outcomes
    BY <1>3 DEF Recover, Outcomes
  <2> QED
    BY <1>1, <1>2, <2>1, ReturnStep DEF IInv, TypeOK
<1>4. CASE next # "invalid"
  <2>1. Lock(p, next)
    BY <1>4 DEF Recover
  <2>2. next \in Locked
    BY <1>4, RecoveryFacts DEF Locked, PCs
  <2>3. IsPending(meta)
    BY DEF IsPending
  <2> HIDE DEF next
  <2>4. pc'[p] = next => StepInv(p)'
    <3>1. next \notin {"link", "replacing", "spawn"}
      BY RecoveryFacts DEF next
    <3>2. ASSUME next \in {"clear", "abandon"}
          PROVE  target = meta.version /\ meta.pending.version \notin candidates
      BY <3>2, RecoveryFacts DEF next
    <3>3. ASSUME next = "discard" PROVE meta.pending.phase = "staged" /\ target = meta.version
      BY <3>3, RecoveryFacts DEF next
    <3>4. ASSUME next = "prepare"
          PROVE  meta.pending.phase \in {"ready", "replacing"} /\ target = meta.version
      BY <3>4, RecoveryFacts DEF next
    <3>5. ASSUME next \in {"restore", "restore-only"}
          PROVE  /\ meta.pending.phase = "replacing" /\ target = NONE
                 /\ next = "restore-only" => meta.pending.version \notin candidates
      BY <3>5, RecoveryFacts DEF next
    <3>6. ASSUME next \in {"cleanup", "remove", "commit"}
          PROVE  /\ meta.pending.phase \in {"replacing", "cleanup"}
                 /\ target = meta.pending.version /\ meta.pending.version \notin candidates
      BY <3>6, RecoveryFacts DEF next
    <3> QED
      BY <1>1, <2>3, <3>1, <3>2, <3>3, <3>4, <3>5, <3>6
      DEF StepInv, NotReplaced, Replaced, IsPending
  <2>5. bootLock' = p /\ Goto(p, next) /\ out' = out
    BY <2>1 DEF Lock
  <2> QED
    BY <1>1, <1>2, <2>2, <2>4, <2>5, InsideStep DEF IInv, TypeOK
<1> QED
  BY <1>3, <1>4

LEMMA RecoverPendingKeeps ==
  ASSUME IInv, NEW p \in Processes, RecoverPending(p)
  PROVE  IInv'
<1> DEFINE next == WindowsRecovery(meta.pending.phase, Classified)
<1>1. /\ meta' = meta /\ target' = target /\ candidates' = candidates /\ backups' = backups
      /\ copies' = copies /\ bootLock = NONE
      /\ UNCHANGED <<files, coordinated, op, image, worker, faults, moved>>
  BY DEF RecoverPending, files, Enter
<1>2. FilesInv' /\ meta' \in Metadata /\ faults' \in 0 .. MaxFaults
  BY <1>1, FilesKept DEF IInv, TypeOK
<1>3. next = "nothing" <=> meta.pending.phase = "none"
  BY RecoveryFacts
<1>4. next = "discard" => next # "invalid"
  OBVIOUS
<1>5. CASE next = "nothing"
  <2>1. Return(p, "none") /\ "none" \in Outcomes
    BY <1>5 DEF RecoverPending, Outcomes
  <2> QED
    BY <1>1, <1>2, <2>1, ReturnStep DEF IInv, TypeOK
<1>6. CASE next = "discard" /\ op[p] = "recover" /\ coordinated
  <2>1. Return(p, "staged") /\ "staged" \in Outcomes
    BY <1>6 DEF RecoverPending, Outcomes
  <2> QED
    BY <1>1, <1>2, <2>1, ReturnStep DEF IInv, TypeOK
<1>7. CASE next # "nothing" /\ ~(next = "discard" /\ op[p] = "recover" /\ coordinated)
  <2>1. Recover(p)
    <3>1. CASE next = "discard"
      <4>1. Lock(p, "discard")
        BY <1>7, <3>1 DEF RecoverPending
      <4> QED
        BY <3>1, <4>1 DEF Recover
    <3>2. CASE next # "discard"
      BY <1>7, <3>2 DEF RecoverPending
    <3> QED
      BY <3>1, <3>2
  <2> QED
    BY <1>1, <1>3, <1>7, <2>1, RecoverStep
<1> QED
  BY <1>5, <1>6, <1>7

LEMMA ApplyPendingKeeps ==
  ASSUME IInv, NEW p \in Processes, ApplyPending(p)
  PROVE  IInv'
<1>1. /\ meta' = meta /\ target' = target /\ candidates' = candidates /\ backups' = backups
      /\ copies' = copies /\ bootLock = NONE
      /\ UNCHANGED <<files, coordinated, op, image, worker, faults, moved>>
  BY DEF ApplyPending, files, Enter
<1>2. FilesInv' /\ meta' \in Metadata /\ faults' \in 0 .. MaxFaults
  BY <1>1, FilesKept DEF IInv, TypeOK
<1>3. CASE meta.pending.phase \in {"none", "staged"}
  <2>1. PICK outcome \in {"none", "error"} : Return(p, outcome)
    BY <1>3 DEF ApplyPending
  <2>2. outcome \in Outcomes
    BY DEF Outcomes
  <2> QED
    BY <1>1, <1>2, <2>1, <2>2, ReturnStep DEF IInv, TypeOK
<1>4. CASE meta.pending.phase \notin {"none", "staged"}
  <2>1. Recover(p)
    BY <1>4 DEF ApplyPending
  <2> QED
    BY <1>1, <1>4, <2>1, RecoverStep
<1> QED
  BY <1>3, <1>4

LEMMA MarkPendingReadyKeeps ==
  ASSUME IInv, NEW p \in Processes, MarkPendingReady(p)
  PROVE  IInv'
<1> DEFINE Approved == op' = [op EXCEPT ![p] = "apply"] /\ UNCHANGED <<bootLock, pc, out>>
<1>1. /\ UNCHANGED <<target, candidates, backups, copies, coordinated, image, worker, moved>>
      /\ bootLock = NONE /\ pc[p] = "want"
  BY DEF MarkPendingReady, Enter
<1>2. \A q \in Processes : pc[q] \notin Locked
  BY <1>1, Constants DEF IInv, TypeOK
<1>3. ASSUME meta' = meta PROVE FilesInv'
  BY <1>1, <1>3, FilesKept
<1>4. ASSUME meta.pending.phase = "staged", meta' = set_phase(meta, "ready") PROVE FilesInv'
  <2>1. /\ meta'.version = meta.version /\ meta'.pending.phase = "ready"
        /\ meta'.pending.version = meta.pending.version
    BY <1>4, RecordForms, RecordFacts DEF Phases
  <2> QED
    BY <1>1, <1>4, <2>1 DEF IInv, FilesInv, IsPending, NotReplaced, Replaced
<1>5. set_phase(meta, "ready") \in Metadata /\ meta \in Metadata
  BY RecordForms, RecordFacts DEF Phases
<1>6. ASSUME Approved, meta' \in Metadata, UNCHANGED faults, FilesInv' PROVE IInv'
  <2>1. op' \in [Processes -> Ops]
    BY <1>6 DEF IInv, TypeOK, Ops
  <2> QED
    BY <1>1, <1>2, <1>6, <2>1, EmptyStep DEF IInv, TypeOK
<1>7. CASE meta.pending.phase = "staged" /\ Classified = StagedFiles
  <2>1. \/ meta' = set_phase(meta, "ready") /\ Approved /\ UNCHANGED faults
        \/ /\ meta' \in {meta, set_phase(meta, "ready")}
           /\ CallFails(p) /\ UNCHANGED op
    BY <1>7 DEF MarkPendingReady
  <2> HIDE DEF Approved
  <2>2. FilesInv' /\ meta' \in Metadata
    BY <1>3, <1>4, <1>5, <1>7, <2>1
  <2> QED
    BY <1>1, <1>6, <2>1, <2>2, FailStep
<1>8. CASE meta.pending.phase = "ready"
  <2>1. Approved /\ UNCHANGED <<meta, faults>>
    BY <1>8 DEF MarkPendingReady
  <2> HIDE DEF Approved
  <2> QED
    BY <1>3, <1>5, <1>6, <2>1
<1>9. CASE /\ ~(meta.pending.phase = "staged" /\ Classified = StagedFiles)
           /\ meta.pending.phase # "ready"
  <2>1. Return(p, "error") /\ UNCHANGED <<meta, op, faults>> /\ "error" \in Outcomes
    BY <1>9 DEF MarkPendingReady, Outcomes
  <2> QED
    BY <1>1, <1>3, <1>5, <2>1, ReturnStep DEF IInv, TypeOK
<1> QED
  BY <1>7, <1>8, <1>9

(* From the backup to the worker that runs from it.                         *)
LEMMA PrepareWorkerKeeps ==
  ASSUME IInv, NEW p \in Processes, PrepareWorker(p)
  PROVE  IInv'
<1>1. /\ pc[p] = "prepare" /\ pc[p] \in Locked /\ bootLock = p
      /\ UNCHANGED <<meta, target, candidates, backups, coordinated, op, image, worker, moved>>
  BY DEF PrepareWorker, Locked, PCs, IInv, TypeOK
<1>2. FilesInv' /\ meta' \in Metadata
  BY <1>1, FilesKept
<1>3. meta.pending.phase \in {"ready", "replacing"} /\ NotReplaced
  BY <1>1 DEF IInv, StepInv
<1>4. ASSUME NEW l \in {"replacing", "link"}, Goto(p, l), UNCHANGED <<bootLock, out, faults>>,
             l = "replacing" => meta.version \in backups,
             copies' \in {copies \ {meta.version}, copies \union {meta.version}}
      PROVE  IInv'
  <2>1. l \in Locked
    BY DEF Locked, PCs
  <2>2. copies' \subseteq Versions
    BY <1>4, RecordFacts DEF IInv, TypeOK
  <2>3. pc'[p] = l => StepInv(p)'
    BY <1>1, <1>3, <1>4 DEF StepInv, NotReplaced
  <2> QED
    BY <1>1, <1>2, <1>4, <2>1, <2>2, <2>3, InsideStep DEF IInv, TypeOK
<1>5. CASE CallFails(p) /\ UNCHANGED copies
  BY <1>1, <1>2, <1>5, FailStep
<1> QED
  BY <1>4, <1>5 DEF PrepareWorker

LEMMA LinkWorkerKeeps ==
  ASSUME IInv, NEW p \in Processes, LinkWorker(p)
  PROVE  IInv'
<1>1. /\ pc[p] = "link" /\ pc[p] \in Locked /\ bootLock = p
      /\ UNCHANGED <<meta, target, candidates, coordinated, op, image, worker, moved>>
  BY DEF LinkWorker, Locked, PCs, IInv, TypeOK
<1>2. meta.pending.phase \in {"ready", "replacing"} /\ NotReplaced
  BY <1>1 DEF IInv, StepInv
<1>3. CASE /\ copies' = copies \ {meta.version} /\ backups' = backups \union {meta.version}
           /\ Goto(p, "replacing") /\ UNCHANGED <<bootLock, out, faults>>
  <2>1. "replacing" \in Locked
    BY DEF Locked, PCs
  <2>2. FilesInv'
    BY <1>1, <1>2, <1>3 DEF IInv, FilesInv, NotReplaced, Replaced, IsPending
  <2>3. pc'[p] = "replacing" => StepInv(p)'
    BY <1>1, <1>2, <1>3 DEF StepInv, NotReplaced
  <2>4. copies' \subseteq Versions /\ backups' \subseteq Versions /\ meta' \in Metadata
    BY <1>1, <1>3, RecordFacts DEF IInv, TypeOK
  <2> QED
    BY <1>1, <1>3, <2>1, <2>2, <2>3, <2>4, InsideStep DEF IInv, TypeOK
<1>4. CASE CallFails(p) /\ UNCHANGED <<copies, backups>>
  <2>1. FilesInv' /\ meta' \in Metadata
    BY <1>1, <1>4, FilesKept
  <2> QED
    BY <1>1, <1>4, <2>1, FailStep
<1> QED
  BY <1>3, <1>4 DEF LinkWorker

(* What a phase recorded under the lock leaves to show.                     *)
LEMMA PersistedPhaseKeeps ==
  ASSUME IInv, NEW p \in Processes, pc[p] \in Locked, bootLock = p,
         NEW phase \in Phases, NEW l \in Locked, PersistedPhase(p, phase, l),
         UNCHANGED <<target, candidates, backups, copies, coordinated, op, image, worker, moved>>,
         meta' = set_phase(meta, phase) => FilesInv',
         meta' = set_phase(meta, phase) /\ pc'[p] = l => StepInv(p)'
  PROVE  IInv'
<1>1. set_phase(meta, phase) \in Metadata /\ meta \in Metadata
  BY RecordForms, RecordFacts
<1>2. meta' = meta => FilesInv'
  BY FilesKept
<1>3. CASE /\ meta' = set_phase(meta, phase) /\ Goto(p, l)
           /\ UNCHANGED <<bootLock, out, faults>>
  BY <1>1, <1>3, InsideStep DEF IInv, TypeOK
<1>4. CASE meta' \in {meta, set_phase(meta, phase)} /\ CallFails(p)
  BY <1>1, <1>2, <1>4, FailStep
<1> QED
  BY <1>3, <1>4 DEF PersistedPhase

LEMMA RecordReplacingKeeps ==
  ASSUME IInv, NEW p \in Processes, RecordReplacing(p)
  PROVE  IInv'
<1>1. /\ pc[p] = "replacing" /\ pc[p] \in Locked /\ bootLock = p
      /\ PersistedPhase(p, "replacing", "spawn")
      /\ UNCHANGED <<target, candidates, backups, copies, coordinated, op, image, worker, moved>>
  BY DEF RecordReplacing, Locked, PCs, IInv, TypeOK
<1>2. meta.pending.phase \in {"ready", "replacing"} /\ NotReplaced /\ meta.version \in backups
  BY <1>1 DEF IInv, StepInv
<1>3. "replacing" \in Phases /\ "spawn" \in Locked
  BY DEF Phases, Locked, PCs
<1>4. ASSUME meta' = set_phase(meta, "replacing")
      PROVE  FilesInv' /\ (pc'[p] = "spawn" => StepInv(p)')
  <2>1. /\ meta'.version = meta.version /\ meta'.pending.phase = "replacing"
        /\ meta'.pending.version = meta.pending.version
    BY <1>3, <1>4, RecordForms, RecordFacts
  <2>2. FilesInv'
    BY <1>1, <1>2, <2>1 DEF IInv, FilesInv, NotReplaced, Replaced, IsPending
  <2> QED
    BY <1>1, <1>2, <2>1, <2>2 DEF StepInv, NotReplaced
<1> QED
  BY <1>1, <1>3, <1>4, PersistedPhaseKeeps

LEMMA SpawnWorkerKeeps ==
  ASSUME IInv, NEW p \in Processes, SpawnWorker(p)
  PROVE  IInv'
<1>1. /\ pc[p] = "spawn" /\ pc[p] \in Locked /\ UNCHANGED <<files, coordinated, moved>>
  BY DEF SpawnWorker, Locked, PCs
<1>2. /\ UNCHANGED <<meta, target, candidates, backups, copies>>
      /\ \A q \in Processes \ {p} : pc[q] \notin Locked
  BY <1>1, OneInside DEF files
<1>3. FilesInv' /\ meta' \in Metadata
  BY <1>1, <1>2, FilesKept
<1>4. ASSUME NEW w \in Workers, bootLock' = NONE,
             pc' = [pc EXCEPT ![p] = "done", ![w] = "want"],
             op' = [op EXCEPT ![w] = "replace"],
             out' = [out EXCEPT ![p] = "replacement-pending"],
             image' = [image EXCEPT ![w] = "backup"],
             worker' = [worker EXCEPT ![w] = meta.version], UNCHANGED faults
      PROVE  IInv'
  <2>1. pc' \in [Processes -> PCs] /\ \A q \in Processes : pc'[q] \notin Locked
    BY <1>2, <1>4, Constants DEF IInv, TypeOK, PCs, Locked
  <2>2. op' \in [Processes -> Ops] /\ out' \in [Processes -> Outcomes]
    BY <1>4 DEF IInv, TypeOK, Ops, Outcomes
  <2>3. image' \in [Processes -> Places \union {NONE}] /\ worker' \in [Workers -> Versions]
    BY <1>4, RecordFacts DEF IInv, TypeOK, Places
  <2> QED
    BY <1>1, <1>2, <1>3, <1>4, <2>1, <2>2, <2>3, EmptyStep DEF IInv, TypeOK
<1>5. CASE CallFails(p) /\ UNCHANGED <<op, image, worker>>
  BY <1>1, <1>2, <1>3, <1>5, FailStep
<1> QED
  BY <1>4, <1>5 DEF SpawnWorker

(* The old executable is back, and had been moved away.                     *)
LEMMA RestoreTargetKeeps ==
  ASSUME IInv, NEW p \in Processes, RestoreTarget(p)
  PROVE  IInv'
<1>1. /\ pc[p] \in {"restore", "restore-only"} /\ pc[p] \in Locked /\ bootLock = p
      /\ UNCHANGED <<meta, candidates, copies, coordinated, op, worker, moved>>
  BY DEF RestoreTarget, Locked, PCs, IInv, TypeOK
<1>2. /\ meta.pending.phase = "replacing" /\ target = NONE /\ moved
      /\ pc[p] = "restore-only" => meta.pending.version \notin candidates
  BY <1>1 DEF IInv, StepInv, FilesInv
<1>3. CASE /\ target' = meta.version /\ backups' = backups \ {meta.version}
           /\ image' = [q \in Processes |-> IF image[q] = "backup" THEN "target" ELSE image[q]]
           /\ Goto(p, IF pc[p] = "restore" THEN "prepare" ELSE "clear")
           /\ UNCHANGED <<bootLock, out, faults>>
  <2> DEFINE l == IF pc[p] = "restore" THEN "prepare" ELSE "clear"
  <2>1. l \in Locked
    BY DEF Locked, PCs
  <2>2. FilesInv'
    BY <1>1, <1>2, <1>3, RecordFacts DEF IInv, FilesInv, NotReplaced, Replaced, IsPending
  <2>3. pc'[p] = l => StepInv(p)'
    BY <1>1, <1>2, <1>3 DEF StepInv, NotReplaced, IsPending
  <2>4. /\ meta' \in Metadata /\ target' \in Versions \union {NONE}
        /\ backups' \subseteq Versions
        /\ image' \in [Processes -> Places \union {NONE}]
    BY <1>1, <1>3, RecordFacts DEF IInv, TypeOK, Places
  <2> HIDE DEF l
  <2>5. Goto(p, l)
    BY <1>3 DEF l
  <2> QED
    BY <1>1, <1>3, <2>1, <2>2, <2>3, <2>4, <2>5, InsideStep DEF IInv, TypeOK
<1>4. CASE CallFails(p) /\ UNCHANGED <<target, backups, image>>
  <2>1. FilesInv' /\ meta' \in Metadata
    BY <1>1, <1>4, FilesKept
  <2> QED
    BY <1>1, <1>4, <2>1, FailStep
<1> QED
  BY <1>3, <1>4 DEF RestoreTarget

(* The pending version is installed, and the candidate gone.                *)
LEMMA RecordCleanupKeeps ==
  ASSUME IInv, NEW p \in Processes, RecordCleanup(p)
  PROVE  IInv'
<1>1. /\ pc[p] = "cleanup" /\ pc[p] \in Locked /\ bootLock = p
      /\ PersistedPhase(p, "cleanup", "remove")
      /\ UNCHANGED <<target, candidates, backups, copies, coordinated, op, image, worker, moved>>
  BY DEF RecordCleanup, Locked, PCs, IInv, TypeOK
<1>2. meta.pending.phase \in {"replacing", "cleanup"} /\ Replaced
  BY <1>1 DEF IInv, StepInv
<1>3. "cleanup" \in Phases /\ "remove" \in Locked
  BY DEF Phases, Locked, PCs
<1>4. ASSUME meta' = set_phase(meta, "cleanup")
      PROVE  FilesInv' /\ (pc'[p] = "remove" => StepInv(p)')
  <2>1. /\ meta'.version = meta.version /\ meta'.pending.phase = "cleanup"
        /\ meta'.pending.version = meta.pending.version
    BY <1>3, <1>4, RecordForms, RecordFacts
  <2>2. FilesInv'
    BY <1>1, <1>2, <2>1 DEF IInv, FilesInv, NotReplaced, Replaced, IsPending
  <2> QED
    BY <1>1, <1>2, <2>1, <2>2 DEF StepInv, Replaced
<1> QED
  BY <1>1, <1>3, <1>4, PersistedPhaseKeeps

(* The backup of what is replaced, or of what nothing will replace.         *)
LEMMA RemoveBackupKeeps ==
  ASSUME IInv, NEW p \in Processes, RemoveBackup(p)
  PROVE  IInv'
<1>1. /\ pc[p] \in {"remove", "abandon"} /\ pc[p] \in Locked /\ bootLock = p
      /\ UNCHANGED <<meta, target, candidates, copies, coordinated, op, image, worker, moved>>
  BY DEF RemoveBackup, Locked, PCs, IInv, TypeOK
<1>2. /\ pc[p] = "remove" => meta.pending.phase \in {"replacing", "cleanup"} /\ Replaced
      /\ pc[p] = "abandon" => /\ NotReplaced /\ IsPending(meta)
                              /\ meta.pending.version \notin candidates
  BY <1>1 DEF IInv, StepInv
<1>3. CASE /\ backups' = backups \ {meta.version}
           /\ Goto(p, IF pc[p] = "remove" THEN "commit" ELSE "clear")
           /\ UNCHANGED <<bootLock, out, faults>>
  <2> DEFINE l == IF pc[p] = "remove" THEN "commit" ELSE "clear"
  <2>1. l \in Locked
    BY DEF Locked, PCs
  <2>2. FilesInv'
    BY <1>1, <1>2, <1>3, RecordFacts DEF IInv, FilesInv, NotReplaced, Replaced, IsPending
  <2>3. pc'[p] = l => StepInv(p)'
    BY <1>1, <1>2, <1>3 DEF StepInv, NotReplaced, Replaced, IsPending
  <2>4. meta' \in Metadata /\ backups' \subseteq Versions
    BY <1>1, <1>3 DEF IInv, TypeOK
  <2> HIDE DEF l
  <2>5. Goto(p, l)
    BY <1>3 DEF l
  <2> QED
    BY <1>1, <1>3, <2>1, <2>2, <2>3, <2>4, <2>5, InsideStep DEF IInv, TypeOK
<1>4. CASE /\ UNCHANGED backups /\ Return(p, "cleanup-pending")
           /\ faults' = faults \/ (faults < MaxFaults /\ faults' = faults + 1)
  <2>1. FilesInv' /\ meta' \in Metadata
    BY <1>1, <1>4, FilesKept
  <2>2. faults' \in 0 .. MaxFaults /\ "cleanup-pending" \in Outcomes
    BY <1>4, Constants DEF IInv, TypeOK, Outcomes
  <2> QED
    BY <1>1, <1>4, <2>1, <2>2, ReturnStep DEF IInv, TypeOK
<1> QED
  BY <1>3, <1>4 DEF RemoveBackup

(* What a record written for good leaves to show.                           *)
LEMMA PersistedKeeps ==
  ASSUME IInv, NEW p \in Processes, pc[p] \in Locked, NEW m \in Metadata,
         NEW outcome \in Outcomes, Persisted(p, m, outcome),
         UNCHANGED <<target, candidates, backups, copies, coordinated, op, image, worker, moved>>,
         meta' = m => FilesInv'
  PROVE  IInv'
<1>1. meta' = meta => FilesInv'
  BY FilesKept
<1>2. meta \in Metadata /\ backups \subseteq Versions
  BY DEF IInv, TypeOK
<1>3. CASE meta' = m /\ Return(p, outcome) /\ UNCHANGED faults
  BY <1>2, <1>3, ReturnStep DEF IInv, TypeOK
<1>4. CASE meta' \in {meta, m} /\ CallFails(p)
  BY <1>1, <1>2, <1>4, FailStep
<1> QED
  BY <1>3, <1>4 DEF Persisted

LEMMA CommitKeeps ==
  ASSUME IInv, NEW p \in Processes, Commit(p)
  PROVE  IInv'
<1>1. /\ pc[p] = "commit" /\ pc[p] \in Locked
      /\ Persisted(p, CommitNewVersion(meta), "applied")
      /\ UNCHANGED <<target, candidates, backups, copies, coordinated, op, image, worker, moved>>
  BY DEF Commit, Locked, PCs
<1>2. meta.pending.phase \in {"replacing", "cleanup"} /\ Replaced
  BY <1>1 DEF IInv, StepInv
<1>3. CommitNewVersion(meta) \in Metadata /\ "applied" \in Outcomes
  BY RecordForms, RecordFacts DEF Outcomes
<1>4. ASSUME meta' = CommitNewVersion(meta) PROVE FilesInv'
  <2>1. meta'.version = meta.pending.version /\ meta'.pending.phase = "none"
    BY <1>4, RecordForms, RecordFacts, NothingPending
  <2> QED
    BY <1>1, <1>2, <2>1, RecordFacts DEF IInv, FilesInv, NotReplaced, Replaced, IsPending
<1> QED
  BY <1>1, <1>3, <1>4, PersistedKeeps

LEMMA DiscardCandidateKeeps ==
  ASSUME IInv, NEW p \in Processes, DiscardCandidate(p)
  PROVE  IInv'
<1>1. /\ pc[p] = "discard" /\ pc[p] \in Locked /\ bootLock = p
      /\ UNCHANGED <<meta, target, backups, copies, coordinated, op, image, worker, moved>>
  BY DEF DiscardCandidate, Locked, PCs, IInv, TypeOK
<1>2. meta.pending.phase = "staged" /\ NotReplaced
  BY <1>1 DEF IInv, StepInv
<1>3. CASE /\ candidates' = candidates \ {meta.pending.version}
           /\ Goto(p, "clear") /\ UNCHANGED <<bootLock, out, faults>>
  <2>1. "clear" \in Locked
    BY DEF Locked, PCs
  <2>2. FilesInv'
    BY <1>1, <1>2, <1>3 DEF IInv, FilesInv, NotReplaced, Replaced, IsPending
  <2>3. pc'[p] = "clear" => StepInv(p)'
    BY <1>1, <1>2, <1>3 DEF StepInv, NotReplaced, IsPending
  <2>4. meta' \in Metadata /\ candidates' \subseteq Versions
    BY <1>1, <1>3 DEF IInv, TypeOK
  <2> QED
    BY <1>1, <1>3, <2>1, <2>2, <2>3, <2>4, InsideStep DEF IInv, TypeOK
<1>4. CASE CallFails(p) /\ UNCHANGED candidates
  <2>1. FilesInv' /\ meta' \in Metadata
    BY <1>1, <1>4, FilesKept
  <2> QED
    BY <1>1, <1>4, <2>1, FailStep
<1> QED
  BY <1>3, <1>4 DEF DiscardCandidate

LEMMA ClearKeeps ==
  ASSUME IInv, NEW p \in Processes, Clear(p)
  PROVE  IInv'
<1> DEFINE outcome == IF meta.pending.phase = "staged" THEN "discarded" ELSE "restored"
<1>1. /\ pc[p] = "clear" /\ pc[p] \in Locked
      /\ Persisted(p, clear_pending(meta), outcome)
      /\ UNCHANGED <<target, candidates, backups, copies, coordinated, op, image, worker, moved>>
  BY DEF Clear, Locked, PCs
<1>2. NotReplaced
  BY <1>1 DEF IInv, StepInv
<1>3. clear_pending(meta) \in Metadata /\ outcome \in Outcomes
  BY RecordForms, RecordFacts DEF Outcomes
<1>4. ASSUME meta' = clear_pending(meta) PROVE FilesInv'
  <2>1. meta'.version = meta.version /\ meta'.pending.phase = "none"
    BY <1>4, RecordForms, RecordFacts, NothingPending
  <2> QED
    BY <1>1, <1>2, <2>1 DEF IInv, FilesInv, NotReplaced, Replaced, IsPending
<1> HIDE DEF outcome
<1> QED
  BY <1>1, <1>3, <1>4, PersistedKeeps

LEMMA EngineStepKeeps ==
  ASSUME IInv, NEW p \in Processes, EngineStep(p)
  PROVE  IInv'
BY RecoverPendingKeeps, MarkPendingReadyKeeps, ApplyPendingKeeps, PrepareWorkerKeeps,
   LinkWorkerKeeps, RecordReplacingKeeps, SpawnWorkerKeeps, RestoreTargetKeeps,
   RecordCleanupKeeps, RemoveBackupKeeps, CommitKeeps, DiscardCandidateKeeps, ClearKeeps
DEF EngineStep

(* What is left of a process that ends.                                     *)
LEMMA ExitTypes ==
  ASSUME IInv, NEW p \in Processes, Exits(p)
  PROVE  /\ pc' \in [Processes -> PCs] /\ pc'[p] = "rest" /\ pc'[p] \notin Locked
         /\ \A q \in Processes \ {p} : pc'[q] = pc[q]
         /\ op' \in [Processes -> Ops] /\ out' \in [Processes -> Outcomes]
         /\ image' \in [Processes -> Places \union {NONE}] /\ worker' \in [Workers -> Versions]
<1>1. /\ pc' \in [Processes -> PCs] /\ pc'[p] = "rest" /\ pc'[p] \notin Locked
      /\ \A q \in Processes \ {p} : pc'[q] = pc[q]
  BY DEF Exits, IInv, TypeOK, PCs, Locked
<1>2. /\ op' \in [Processes -> Ops] /\ out' \in [Processes -> Outcomes]
      /\ image' \in [Processes -> Places \union {NONE}]
  BY DEF Exits, IInv, TypeOK, Ops, Outcomes
<1>3. worker' \in [Workers -> Versions]
  BY Constants DEF Exits, IInv, TypeOK
<1> QED
  BY <1>1, <1>2, <1>3

(* The rename, and all that the worker has to be sure of.                   *)
LEMMA WorkerReplacesKeeps ==
  ASSUME IInv, NEW w \in Processes, WorkerReplaces(w)
  PROVE  IInv'
<1>1. /\ bootLock = NONE /\ meta.pending.phase = "replacing"
      /\ target' = meta.pending.version
      /\ candidates' = candidates \ {meta.pending.version}
      /\ bootLock' = w /\ Goto(w, "cleanup") /\ out' = out
      /\ UNCHANGED <<meta, backups, copies, coordinated, op, image, worker, faults, moved>>
  BY DEF WorkerReplaces, WorkerEnters, Lock
<1>2. "cleanup" \in Locked
  BY DEF Locked, PCs
<1>3. FilesInv'
  BY <1>1, RecordFacts DEF IInv, FilesInv, NotReplaced, Replaced, IsPending
<1>4. pc'[w] = "cleanup" => StepInv(w)'
  BY <1>1 DEF StepInv, Replaced
<1>5. meta' \in Metadata /\ target' \in Versions /\ candidates' \subseteq Versions
  BY <1>1, RecordFacts DEF IInv, TypeOK
<1> QED
  BY <1>1, <1>2, <1>3, <1>4, <1>5, InsideStep DEF IInv, TypeOK

LEMMA WorkerFindsReplacedKeeps ==
  ASSUME IInv, NEW w \in Processes, WorkerFindsReplaced(w)
  PROVE  IInv'
<1>1. /\ bootLock = NONE /\ meta.pending.phase \in {"replacing", "cleanup"}
      /\ Classified = Files("new", "missing", "old")
      /\ bootLock' = w /\ Goto(w, "cleanup") /\ out' = out
      /\ UNCHANGED <<files, coordinated, op, image, worker, faults, moved>>
  BY DEF WorkerFindsReplaced, WorkerEnters, Lock
<1>2. UNCHANGED <<meta, target, candidates, backups, copies>>
  BY <1>1 DEF files
<1>3. Replaced
  <2>1. Classified.target = "new" /\ Classified.candidate = "missing"
    BY <1>1, FoundFiles
  <2> QED
    BY <2>1, FoundFiles DEF Replaced
<1>4. "cleanup" \in Locked
  BY DEF Locked, PCs
<1>5. FilesInv' /\ meta' \in Metadata
  BY <1>1, <1>2, FilesKept
<1>6. pc'[w] = "cleanup" => StepInv(w)'
  BY <1>1, <1>2, <1>3 DEF StepInv, Replaced
<1> QED
  BY <1>1, <1>2, <1>4, <1>5, <1>6, InsideStep DEF IInv, TypeOK

LEMMA WorkerRecordsCleanupKeeps ==
  ASSUME IInv, NEW w \in Processes, WorkerRecordsCleanup(w)
  PROVE  IInv'
<1>1. /\ pc[w] = "cleanup" /\ pc[w] \in Locked /\ bootLock' = NONE /\ Exits(w)
      /\ UNCHANGED <<target, candidates, backups, copies, coordinated, moved>>
      /\ meta' \in {meta, set_phase(meta, "cleanup")}
  BY DEF WorkerRecordsCleanup, Locked, PCs
<1>2. faults' \in 0 .. MaxFaults
  BY Constants DEF WorkerRecordsCleanup, IInv, TypeOK
<1>3. meta.pending.phase \in {"replacing", "cleanup"} /\ Replaced
  BY <1>1 DEF IInv, StepInv
<1>4. FilesInv' /\ meta' \in Metadata
  <2>1. CASE meta' = meta
    BY <1>1, <2>1, FilesKept
  <2>2. CASE meta' = set_phase(meta, "cleanup")
    <3>1. /\ meta' \in Metadata /\ meta'.version = meta.version
          /\ meta'.pending.phase = "cleanup"
          /\ meta'.pending.version = meta.pending.version
      BY <2>2, RecordForms, RecordFacts DEF Phases
    <3> QED
      BY <1>1, <1>3, <3>1 DEF IInv, FilesInv, NotReplaced, Replaced, IsPending
  <2> QED
    BY <1>1, <2>1, <2>2
<1>5. \A q \in Processes : pc'[q] \notin Locked
  BY <1>1, OneInside, ExitTypes
<1> QED
  BY <1>1, <1>2, <1>4, <1>5, ExitTypes, EmptyStep DEF IInv, TypeOK

(* A process that ends outside the locked section.                          *)
LEMMA LeaveStep ==
  ASSUME IInv, NEW p \in Processes, pc[p] \notin Locked, Exits(p),
         UNCHANGED <<files, bootLock, coordinated, moved>>, faults' \in 0 .. MaxFaults
  PROVE  IInv'
<1>1. \A q \in Processes : pc'[q] = pc[q] \/ (pc[q] \notin Locked /\ pc'[q] \notin Locked)
  BY ExitTypes
<1> QED
  BY <1>1, ExitTypes, OutsideStep DEF IInv, TypeOK

LEMMA WorkerLeaves ==
  ASSUME IInv, NEW w \in Processes, WorkerStops(w) \/ WorkerTimesOut(w)
  PROVE  IInv'
<1>1. /\ pc[w] = "want" /\ Exits(w)
      /\ UNCHANGED <<files, bootLock, coordinated, moved>>
  BY DEF WorkerStops, WorkerTimesOut, WorkerEnters
<1>2. faults' \in 0 .. MaxFaults
  BY Constants DEF WorkerStops, WorkerTimesOut, IInv, TypeOK
<1> QED
  BY <1>1, <1>2, LeaveStep DEF Locked

LEMMA WorkerStepKeeps ==
  ASSUME IInv, NEW w \in Processes, WorkerStep(w) \/ WorkerTimesOut(w)
  PROVE  IInv'
BY WorkerReplacesKeeps, WorkerFindsReplacedKeeps, WorkerRecordsCleanupKeeps, WorkerLeaves
DEF WorkerStep

(* Invocations and helpers come and go.                                     *)
LEMMA StartsKeeps ==
  ASSUME IInv, NEW p \in Processes, NEW function \in Ops, Starts(p, function)
  PROVE  IInv'
<1>1. /\ pc[p] = "rest" /\ Goto(p, "want") /\ op' = [op EXCEPT ![p] = function]
      /\ image' = [image EXCEPT ![p] = "target"]
      /\ UNCHANGED <<files, bootLock, coordinated, out, worker, faults, moved>>
  BY DEF Starts
<1>2. /\ pc' \in [Processes -> PCs]
      /\ \A q \in Processes : pc'[q] = pc[q] \/ (pc[q] \notin Locked /\ pc'[q] \notin Locked)
  BY <1>1 DEF IInv, TypeOK, Goto, PCs, Locked
<1>3. op' \in [Processes -> Ops] /\ image' \in [Processes -> Places \union {NONE}]
  BY <1>1 DEF IInv, TypeOK, Places
<1> QED
  BY <1>1, <1>2, <1>3, OutsideStep DEF IInv, TypeOK

LEMMA ComesAndGoes ==
  ASSUME IInv, NEW p \in Processes,
         Invoke(p) \/ StartDiscard(p) \/ StartApply(p) \/ RunDelegate(p) \/ Exit(p)
  PROVE  IInv'
<1>1. CASE Invoke(p) \/ StartDiscard(p) \/ StartApply(p)
  BY <1>1, StartsKeeps DEF Invoke, StartDiscard, StartApply, Ops
<1>2. CASE RunDelegate(p)
  <2>1. /\ pc[p] = "done" /\ Goto(p, "delegate")
        /\ UNCHANGED <<files, bootLock, coordinated, op, out, image, worker, faults, moved>>
    BY <1>2 DEF RunDelegate
  <2>2. /\ pc' \in [Processes -> PCs]
        /\ \A q \in Processes : pc'[q] = pc[q] \/ (pc[q] \notin Locked /\ pc'[q] \notin Locked)
    BY <2>1 DEF IInv, TypeOK, Goto, PCs, Locked
  <2> QED
    BY <2>1, <2>2, OutsideStep DEF IInv, TypeOK
<1>3. CASE Exit(p)
  <2>1. /\ pc[p] \notin Locked /\ Exits(p)
        /\ UNCHANGED <<files, bootLock, coordinated, faults, moved>>
    BY <1>3 DEF Exit, Locked
  <2> QED
    BY <2>1, LeaveStep DEF IInv, TypeOK
<1> QED
  BY <1>1, <1>2, <1>3

(* A newer version is staged for the one that is installed.                 *)
LEMMA StageCandidateKeeps ==
  ASSUME IInv, NEW v \in Versions, StageCandidate(v)
  PROVE  IInv'
<1>1. /\ bootLock = NONE /\ target = meta.version /\ v > meta.version
      /\ meta.version \notin backups /\ coordinated' = TRUE
      /\ candidates' = candidates \union {v}
      /\ meta' = [meta EXCEPT !.pending = [phase |-> "staged", version |-> v]]
      /\ UNCHANGED <<target, backups, copies, bootLock, procs, faults, moved>>
  BY DEF StageCandidate
<1>2. UNCHANGED <<pc, op, out, image, worker>>
  BY <1>1 DEF procs
<1>3. \A q \in Processes : pc'[q] \notin Locked
  BY <1>1, <1>2, Constants DEF IInv, TypeOK
<1>4. /\ meta' \in Metadata /\ meta'.version = meta.version
      /\ meta'.pending.phase = "staged" /\ meta'.pending.version = v
  BY <1>1, RecordFacts DEF Metadata, Pending, Phases
<1>5. FilesInv'
  BY <1>1, <1>4, RecordFacts DEF IInv, FilesInv, NotReplaced, Replaced, IsPending
<1>6. candidates' \subseteq Versions
  BY <1>1 DEF IInv, TypeOK
<1> QED
  BY <1>1, <1>2, <1>3, <1>4, <1>5, <1>6, EmptyStep DEF IInv, TypeOK

LEMMA EndCoordinationKeeps ==
  ASSUME IInv, EndCoordination
  PROVE  IInv'
BY OutsideStep DEF EndCoordination, procs, IInv, TypeOK

LEMMA CrashKeeps ==
  ASSUME IInv, NEW p \in Processes, Crash(p)
  PROVE  IInv'
<1>1. /\ bootLock' = IF bootLock = p THEN NONE ELSE bootLock
      /\ Exits(p) /\ UNCHANGED <<files, coordinated, moved>>
  BY DEF Crash
<1>2. faults' \in 0 .. MaxFaults
  BY Constants DEF Crash, IInv, TypeOK
<1>3. CASE bootLock = p
  <2>1. \A q \in Processes : pc'[q] \notin Locked
    BY <1>1, <1>3, ExitTypes, OneInside DEF IInv, TypeOK
  <2>2. UNCHANGED <<meta, target, candidates, backups, copies>>
    BY <1>1 DEF files
  <2>3. FilesInv' /\ meta' \in Metadata
    BY <1>1, <2>2, FilesKept
  <2>4. bootLock' = NONE
    BY <1>1, <1>3
  <2> QED
    BY <1>1, <1>2, <2>1, <2>2, <2>3, <2>4, ExitTypes, EmptyStep DEF IInv, TypeOK
<1>4. CASE bootLock # p
  <2>1. pc[p] \notin Locked /\ bootLock' = bootLock
    BY <1>1, <1>4 DEF IInv, TypeOK
  <2> QED
    BY <1>1, <1>2, <2>1, LeaveStep
<1> QED
  BY <1>3, <1>4

(* Whoever is inside has not counted on a candidate.                        *)
LEMMA LoseCandidateKeeps ==
  ASSUME IInv, NEW v \in Versions, LoseCandidate(v)
  PROVE  IInv'
<1>1. /\ candidates' = candidates \ {v}
      /\ UNCHANGED <<meta, target, backups, copies, bootLock, coordinated, procs, moved>>
  BY DEF LoseCandidate
<1>2. UNCHANGED <<pc, op, out, image, worker>> /\ faults' \in 0 .. MaxFaults
  BY <1>1, Constants DEF procs, LoseCandidate, IInv, TypeOK
<1>3. TypeOK'
  BY <1>1, <1>2 DEF IInv, TypeOK
<1>4. FilesInv'
  BY <1>1 DEF IInv, FilesInv, NotReplaced, Replaced, IsPending
<1>5. ASSUME NEW q \in Processes PROVE StepInv(q)'
  BY <1>1, <1>2 DEF IInv, StepInv, NotReplaced, Replaced, IsPending
<1> QED
  BY <1>3, <1>4, <1>5 DEF IInv

(* Nor on the executable's staying where it is: the old one is not the new. *)
LEMMA MoveTargetAwayKeeps ==
  ASSUME IInv, MoveTargetAway
  PROVE  IInv'
<1>1. /\ ~moved /\ moved' = TRUE /\ target = meta.version /\ target' = NONE
      /\ image' = [p \in Processes |-> IF image[p] = "target" THEN "elsewhere" ELSE image[p]]
      /\ UNCHANGED <<meta, candidates, backups, copies, bootLock, coordinated, pc, op, out,
                     worker>>
  BY DEF MoveTargetAway
<1>2. faults' \in 0 .. MaxFaults
  BY Constants DEF MoveTargetAway, IInv, TypeOK
<1>3. image' \in [Processes -> Places \union {NONE}]
  BY <1>1 DEF IInv, TypeOK, Places
<1>4. TypeOK'
  BY <1>1, <1>2, <1>3 DEF IInv, TypeOK
<1>5. target # NONE /\ (IsPending(meta) => target # meta.pending.version)
  BY <1>1, RecordFacts
<1>6. FilesInv'
  BY <1>1, <1>5, RecordFacts DEF IInv, FilesInv, NotReplaced, Replaced, IsPending
<1>7. ASSUME NEW q \in Processes PROVE StepInv(q)'
  <2>1. pc[q] \notin {"restore", "restore-only", "cleanup", "remove", "commit"}
    BY <1>5, RecordFacts DEF IInv, StepInv, Replaced
  <2> QED
    BY <1>1, <2>1 DEF IInv, StepInv, NotReplaced, IsPending
<1> QED
  BY <1>4, <1>6, <1>7 DEF IInv

LEMMA NextPreserves == IInv /\ [Next]_vars => IInv'
<1> SUFFICES ASSUME IInv, [Next]_vars PROVE IInv'
  OBVIOUS
<1>1. ASSUME NEW p \in Runtimes,
             RuntimeStep(p) \/ Invoke(p) \/ StartDiscard(p) \/ StartApply(p)
      PROVE  IInv'
  BY <1>1, Constants, EngineStepKeeps, ComesAndGoes DEF RuntimeStep
<1>2. ASSUME NEW w \in Workers, WorkerStep(w) \/ WorkerTimesOut(w) PROVE IInv'
  BY <1>2, Constants, WorkerStepKeeps
<1>3. CASE UNCHANGED vars
  BY <1>3, OutsideStep DEF vars, procs, IInv, TypeOK
<1> QED
  BY <1>1, <1>2, <1>3, CrashKeeps, StageCandidateKeeps, LoseCandidateKeeps,
     EndCoordinationKeeps, MoveTargetAwayKeeps DEF Next

LEMMA Invariance == Spec => []IInv
BY InitCorrect, NextPreserves, PTL DEF Spec

-----------------------------------------------------------------------------
(* The results *)

(* The state of the engine on Windows is always of its types, and whoever   *)
(* is inside a locked section holds the BootstrapLock.                      *)
THEOREM TypeCorrect == Spec => []TypeOK
<1>1. IInv => TypeOK
  BY DEF IInv
<1> QED
  BY <1>1, Invariance, PTL

(* The record always describes the executable at the stable path: the       *)
(* committed version until the worker's rename, the pending one from then   *)
(* until the commit (run_windows_worker_once, finish_cleanup_locked).       *)
THEOREM TargetIsRecorded == Spec => []RecordMatchesTarget
<1>1. IInv => RecordMatchesTarget
  BY DEF IInv, FilesInv, NotReplaced, Replaced, RecordMatchesTarget
<1> QED
  BY <1>1, Invariance, PTL

(* As long as the stable executable is there, recovery accepts whatever an  *)
(* interrupted helper, worker or recovery left, under any number of faults  *)
(* (recover_or_schedule_windows_locked, finish_cleanup_locked).             *)
THEOREM EveryStateIsRecoverable == Spec => []AlwaysRecoverable
<1>1. ASSUME IInv, target # NONE
      PROVE  WindowsRecovery(meta.pending.phase, Classified) # "invalid"
  <2> DEFINE phase == meta.pending.phase
             f == Classified
  <2>1. phase \in Phases
    BY <1>1, RecordFacts
  <2>2. /\ \A t, c, b : f = Files(t, c, b) <=> f.target = t /\ f.candidate = c /\ f.backup = b
        /\ f.candidate \in {"new", "missing"} /\ f.backup \in {"old", "missing"}
    BY <1>1, FoundFiles
  <2>3. /\ phase = "staged" => f.backup = "missing" /\ f.target = "old"
        /\ phase = "ready" => f.target = "old"
        /\ phase = "replacing" => f.target = "old" \/ (f.target = "new" /\ f.candidate = "missing")
        /\ phase = "cleanup" => f.target = "new" /\ f.candidate = "missing"
    BY <1>1, FoundFiles, RecordFacts DEF IInv, FilesInv, NotReplaced, Replaced, IsPending
  <2> HIDE DEF f, phase
  <2>4. WindowsRecovery(phase, f) # "invalid"
    <3>1. CASE phase = "none"
      BY <3>1 DEF WindowsRecovery
    <3>2. CASE phase = "staged"
      BY <2>2, <2>3, <3>2 DEF WindowsRecovery, StagedFiles, LostFiles
    <3>3. CASE phase = "ready"
      BY <2>2, <2>3, <3>3 DEF WindowsRecovery, StagedFiles, LostFiles
    <3>4. CASE phase = "replacing"
      BY <2>2, <2>3, <3>4 DEF WindowsRecovery, LostFiles, SwappedFiles
    <3>5. CASE phase = "cleanup"
      BY <2>2, <2>3, <3>5 DEF WindowsRecovery, LostFiles, SwappedFiles
    <3> QED
      BY <2>1, <3>1, <3>2, <3>3, <3>4, <3>5 DEF Phases
  <2> QED
    BY <2>4 DEF f, phase
<1>2. IInv => AlwaysRecoverable
  BY <1>1 DEF AlwaysRecoverable
<1> QED
  BY <1>2, Invariance, PTL

(* Once a replacement has begun, a stable path that goes missing once can   *)
(* be restored from the backup (prepare_and_spawn_windows_worker_locked).   *)
THEOREM BackupsAreKept == Spec => []BackupUntilReplaced
<1>1. IInv => BackupUntilReplaced
  BY DEF IInv, FilesInv, NotReplaced, Replaced, BackupUntilReplaced
<1> QED
  BY <1>1, Invariance, PTL

-----------------------------------------------------------------------------
(* Refinement *)

(* What AtomicUpdate sees of a pending update that is not installed.        *)
LEMMA OnOffer ==
  ASSUME IsPending(meta), target # meta.pending.version
  PROVE  /\ CurrentOffer.version = meta.pending.version
         /\ CurrentOffer.state = IF meta.pending.phase = "staged" THEN "offered"
                                                                  ELSE "approved"
         /\ CurrentOffer.payload = IF meta.pending.version \in candidates THEN "present"
                                                                            ELSE "lost"
BY DEF CurrentOffer

LEMMA NothingOnOffer ==
  /\ ~IsPending(meta) \/ target = meta.pending.version => CurrentOffer = Atomic!NoOffer
  /\ (~IsPending(meta) \/ target = meta.pending.version)' => CurrentOffer' = Atomic!NoOffer
BY DEF CurrentOffer, Atomic!NoOffer

(* The same files under the same record, or a phase that tells it nothing.  *)
LEMMA SameOffer ==
  ASSUME UNCHANGED <<target, candidates>>, meta'.version = meta.version,
         meta'.pending.version = meta.pending.version,
         \/ meta'.pending.phase = meta.pending.phase
         \/ {meta.pending.phase, meta'.pending.phase} \subseteq {"ready", "replacing", "cleanup"}
  PROVE  UNCHANGED Atomic!vars
BY DEF CurrentOffer, Atomic!vars, IsPending

LEMMA SameMeta ==
  ASSUME UNCHANGED <<meta, target, candidates>>
  PROVE  UNCHANGED Atomic!vars
BY DEF CurrentOffer, Atomic!vars, IsPending

(* A file that disappears is the payload, or is none of its business.       *)
LEMMA LoseStep ==
  ASSUME UNCHANGED <<meta, target>>, candidates' \subseteq candidates
  PROVE  Atomic!LosePayload \/ UNCHANGED Atomic!vars
<1>1. CASE /\ IsPending(meta) /\ target # meta.pending.version
           /\ meta.pending.version \in candidates /\ meta.pending.version \notin candidates'
  <2>1. CurrentOffer' = [CurrentOffer EXCEPT !.payload = "lost"]
        /\ CurrentOffer.payload = "present"
    BY <1>1 DEF CurrentOffer, IsPending
  <2> QED
    BY <2>1 DEF Atomic!LosePayload
<1>2. CASE ~ /\ IsPending(meta) /\ target # meta.pending.version
             /\ meta.pending.version \in candidates /\ meta.pending.version \notin candidates'
  BY <1>2 DEF CurrentOffer, Atomic!vars, IsPending
<1> QED
  BY <1>1, <1>2

(* The executable's absence, and its return, are no change of what is       *)
(* installed.                                                               *)
LEMMA AwayAndBack ==
  ASSUME IInv, UNCHANGED <<meta, candidates>>,
         target \in {meta.version, NONE}, target' \in {meta.version, NONE}
  PROVE  UNCHANGED Atomic!vars
<1>1. meta.version # NONE
      /\ (IsPending(meta) => /\ target # meta.pending.version
                             /\ target' # meta.pending.version)
  BY RecordFacts
<1> QED
  BY <1>1 DEF CurrentOffer, Atomic!vars, IsPending

LEMMA MarkRefines ==
  ASSUME IInv, NEW p \in Processes, MarkPendingReady(p)
  PROVE  Atomic!Approve \/ UNCHANGED Atomic!vars
<1>1. /\ UNCHANGED <<target, candidates>>
      /\ \/ meta' = meta
         \/ /\ meta.pending.phase = "staged" /\ Classified = StagedFiles
            /\ meta' = set_phase(meta, "ready")
  BY DEF MarkPendingReady
<1>2. CASE meta.pending.phase = "staged" /\ meta' = set_phase(meta, "ready")
  <2>1. /\ meta'.version = meta.version /\ meta'.pending.phase = "ready"
        /\ meta'.pending.version = meta.pending.version
    BY <1>2, RecordForms, RecordFacts DEF Phases
  <2>2. IsPending(meta) /\ NotReplaced /\ target # meta.pending.version
    BY <1>2, RecordFacts DEF IInv, FilesInv, NotReplaced
  <2>3. CurrentOffer.state = "offered"
    BY <1>2, <2>2, OnOffer
  <2>4. CurrentOffer' = [CurrentOffer EXCEPT !.state = "approved"]
    BY <1>1, <1>2, <2>1, <2>2 DEF CurrentOffer, IsPending
  <2>5. UNCHANGED (IF target = NONE THEN meta.version ELSE target)
    BY <1>1, <2>1
  <2> QED
    BY <2>3, <2>4, <2>5 DEF Atomic!Approve
<1> QED
  BY <1>1, <1>2, SameMeta

LEMMA RecordRefines ==
  ASSUME IInv, NEW p \in Processes, RecordReplacing(p) \/ RecordCleanup(p)
  PROVE  UNCHANGED Atomic!vars
<1>1. PICK phase \in {"replacing", "cleanup"} :
        meta' \in {meta, set_phase(meta, phase)}
  BY DEF RecordReplacing, RecordCleanup, PersistedPhase
<1>2. UNCHANGED <<target, candidates>>
      /\ meta.pending.phase \in {"ready", "replacing", "cleanup"}
  BY DEF RecordReplacing, RecordCleanup, IInv, StepInv
<1>3. CASE meta' = set_phase(meta, phase)
  <2>1. /\ meta'.version = meta.version /\ meta'.pending.phase = phase
        /\ meta'.pending.version = meta.pending.version
    BY <1>3, RecordForms, RecordFacts DEF Phases
  <2> QED
    BY <1>2, <2>1, SameOffer
<1> QED
  BY <1>1, <1>2, <1>3, SameMeta

LEMMA CommitRefines ==
  ASSUME IInv, NEW p \in Processes, Commit(p)
  PROVE  UNCHANGED Atomic!vars
<1>1. Replaced /\ UNCHANGED <<target, candidates>>
      /\ (meta' = meta \/ meta' = CommitNewVersion(meta))
  BY DEF Commit, Persisted, IInv, StepInv
<1>2. CASE meta' = CommitNewVersion(meta)
  <2>1. meta'.pending.phase = "none" /\ meta'.version = meta.pending.version
    BY <1>2, RecordForms, RecordFacts, NothingPending
  <2>2. ~IsPending(meta')
    BY <2>1 DEF IsPending
  <2>3. CurrentOffer = Atomic!NoOffer /\ CurrentOffer' = Atomic!NoOffer
    BY <1>1, <2>2, NothingOnOffer DEF Replaced
  <2>4. UNCHANGED (IF target = NONE THEN meta.version ELSE target)
    BY <1>1, RecordFacts DEF Replaced
  <2> QED
    BY <2>3, <2>4 DEF Atomic!vars
<1> QED
  BY <1>1, <1>2, SameMeta

(* The update is given up only when its candidate is gone.                  *)
LEMMA ClearRefines ==
  ASSUME IInv, NEW p \in Processes, Clear(p)
  PROVE  Atomic!Withdraw \/ Atomic!GiveUp \/ UNCHANGED Atomic!vars
<1>1. /\ IsPending(meta) /\ NotReplaced /\ meta.pending.version \notin candidates
      /\ UNCHANGED <<target, candidates>>
      /\ (meta' = meta \/ meta' = clear_pending(meta))
  BY DEF Clear, Persisted, IInv, StepInv
<1>2. CASE meta' = clear_pending(meta)
  <2>1. meta'.pending.phase = "none" /\ meta'.version = meta.version
    BY <1>2, RecordForms, RecordFacts, NothingPending
  <2>2. ~IsPending(meta')
    BY <2>1 DEF IsPending
  <2>3. CurrentOffer' = Atomic!NoOffer
    BY <2>2, NothingOnOffer
  <2>4. target # meta.pending.version
    BY <1>1, RecordFacts DEF NotReplaced
  <2>5. CurrentOffer.payload = "lost" /\ CurrentOffer.state \in {"offered", "approved"}
    BY <1>1, <2>4, OnOffer
  <2>6. UNCHANGED (IF target = NONE THEN meta.version ELSE target)
    BY <1>1, <2>1
  <2> QED
    BY <2>3, <2>5, <2>6 DEF Atomic!Withdraw, Atomic!GiveUp
<1> QED
  BY <1>1, <1>2, SameMeta

LEMMA ReplaceRefines ==
  ASSUME IInv, NEW w \in Processes, WorkerReplaces(w)
  PROVE  Atomic!Install
<1>1. /\ IsPending(meta) /\ meta.pending.phase = "replacing"
      /\ target' = meta.pending.version /\ meta' = meta
      /\ Classified = Files("old", "new", "old")
  BY DEF WorkerReplaces, ReplaceableFiles
<1>2. Classified.target = "old" /\ Classified.candidate = "new"
  BY <1>1, FoundFiles
<1>3. target = meta.version /\ meta.pending.version \in candidates
  BY <1>2, FoundFiles
<1>4. target # meta.pending.version /\ meta.pending.version # NONE
  BY <1>1, <1>3, RecordFacts
<1>5. /\ CurrentOffer.state = "approved" /\ CurrentOffer.payload = "present"
      /\ CurrentOffer.version = meta.pending.version
  BY <1>1, <1>3, <1>4, OnOffer
<1>6. (target = meta.pending.version)'
  BY <1>1
<1>7. CurrentOffer' = Atomic!NoOffer
  BY <1>6, NothingOnOffer
<1>8. (IF target = NONE THEN meta.version ELSE target)' = meta.pending.version
  BY <1>1, <1>4
<1> QED
  BY <1>5, <1>7, <1>8 DEF Atomic!Install

LEMMA StageRefines ==
  ASSUME IInv, NEW v \in Versions, StageCandidate(v)
  PROVE  Atomic!Offer(v)
<1>1. /\ ~IsPending(meta) /\ target = meta.version /\ v > meta.version
      /\ target' = target /\ candidates' = candidates \union {v}
      /\ meta' = [meta EXCEPT !.pending = [phase |-> "staged", version |-> v]]
  BY DEF StageCandidate
<1>2. /\ meta'.version = meta.version
      /\ meta'.pending.phase = "staged" /\ meta'.pending.version = v
  BY <1>1, RecordFacts DEF Metadata
<1>3. IsPending(meta') /\ v # meta.version /\ meta.version # NONE
  BY <1>1, <1>2, RecordFacts DEF IsPending, Versions
<1>4. CurrentOffer = Atomic!NoOffer
  BY <1>1, NothingOnOffer
<1>5. CurrentOffer' = [version |-> v, state |-> "offered", payload |-> "present"]
  BY <1>1, <1>2, <1>3 DEF CurrentOffer
<1>6. /\ (IF target = NONE THEN meta.version ELSE target) = meta.version
      /\ (IF target = NONE THEN meta.version ELSE target)' = meta.version
  BY <1>1, <1>2
<1> QED
  BY <1>3, <1>4, <1>5, <1>6 DEF Atomic!Offer, Atomic!Payloads

(* Every step is a step of AtomicUpdate or a stutter.                       *)
LEMMA StepRefines ==
  ASSUME IInv, [Next]_vars
  PROVE  [Atomic!Next]_(Atomic!vars)
<1>1. ASSUME NEW p \in Processes, EngineStep(p)
      PROVE  \/ Atomic!Approve \/ Atomic!LosePayload \/ Atomic!Withdraw \/ Atomic!GiveUp
             \/ UNCHANGED Atomic!vars
  <2>1. ASSUME RecoverPending(p) \/ ApplyPending(p) \/ PrepareWorker(p) \/ LinkWorker(p)
               \/ SpawnWorker(p) \/ RemoveBackup(p)
        PROVE  UNCHANGED <<meta, target, candidates>>
    BY <2>1 DEF RecoverPending, ApplyPending, PrepareWorker, LinkWorker, SpawnWorker,
       RemoveBackup, files
  <2>2. ASSUME DiscardCandidate(p)
        PROVE  UNCHANGED <<meta, target>> /\ candidates' \subseteq candidates
    BY <2>2 DEF DiscardCandidate
  <2>3. ASSUME RestoreTarget(p)
        PROVE  /\ UNCHANGED <<meta, candidates>>
               /\ target \in {meta.version, NONE} /\ target' \in {meta.version, NONE}
    BY <2>3 DEF RestoreTarget, IInv, StepInv
  <2> QED
    BY <1>1, <2>1, <2>2, <2>3, SameMeta, LoseStep, AwayAndBack, MarkRefines, RecordRefines,
       CommitRefines, ClearRefines DEF EngineStep
<1>2. ASSUME NEW w \in Processes, WorkerStep(w) \/ WorkerTimesOut(w)
      PROVE  Atomic!Install \/ UNCHANGED Atomic!vars
  <2>1. ASSUME WorkerFindsReplaced(w) \/ WorkerStops(w) \/ WorkerTimesOut(w)
        PROVE  UNCHANGED <<meta, target, candidates>>
    BY <2>1 DEF WorkerFindsReplaced, WorkerStops, WorkerTimesOut, files
  <2>2. ASSUME WorkerRecordsCleanup(w) PROVE UNCHANGED Atomic!vars
    <3>1. /\ UNCHANGED <<target, candidates>>
          /\ meta' \in {meta, set_phase(meta, "cleanup")}
          /\ meta.pending.phase \in {"replacing", "cleanup"}
      BY <2>2 DEF WorkerRecordsCleanup, IInv, StepInv
    <3>2. CASE meta' = set_phase(meta, "cleanup")
      <4>1. /\ meta'.version = meta.version /\ meta'.pending.phase = "cleanup"
            /\ meta'.pending.version = meta.pending.version
        BY <3>2, RecordForms, RecordFacts DEF Phases
      <4> QED
        BY <3>1, <4>1, SameOffer
    <3> QED
      BY <3>1, <3>2, SameMeta
  <2> QED
    BY <1>2, <2>1, <2>2, ReplaceRefines, SameMeta DEF WorkerStep
<1>3. ASSUME NEW p \in Processes,
             \/ Invoke(p) \/ StartDiscard(p) \/ StartApply(p) \/ RunDelegate(p) \/ Exit(p)
             \/ Crash(p)
      PROVE  UNCHANGED <<meta, target, candidates>>
  BY <1>3 DEF Invoke, StartDiscard, StartApply, Starts, RunDelegate, Exit, Crash, files
<1>4. ASSUME EndCoordination \/ UNCHANGED vars PROVE UNCHANGED <<meta, target, candidates>>
  BY <1>4 DEF EndCoordination, vars, files
<1>5. ASSUME NEW v \in Versions, LoseCandidate(v)
      PROVE  UNCHANGED <<meta, target>> /\ candidates' \subseteq candidates
  BY <1>5 DEF LoseCandidate
<1>6. ASSUME MoveTargetAway
      PROVE  /\ UNCHANGED <<meta, candidates>>
             /\ target \in {meta.version, NONE} /\ target' \in {meta.version, NONE}
  BY <1>6 DEF MoveTargetAway
<1>7. Versions = Atomic!Versions
  BY DEF Versions, Atomic!Versions
<1>8. CASE \E p \in Runtimes : RuntimeStep(p) \/ Invoke(p) \/ StartDiscard(p) \/ StartApply(p)
  BY <1>1, <1>3, <1>8, Constants, SameMeta DEF RuntimeStep, Atomic!Next
<1>9. CASE \E w \in Workers : WorkerStep(w) \/ WorkerTimesOut(w)
  BY <1>2, <1>9, Constants DEF Atomic!Next
<1>10. CASE \E p \in Processes : Crash(p)
  BY <1>3, <1>10, SameMeta
<1>11. CASE \E v \in Versions : StageCandidate(v) \/ LoseCandidate(v)
  BY <1>5, <1>7, <1>11, StageRefines, LoseStep DEF Atomic!Next
<1>12. CASE EndCoordination \/ UNCHANGED vars
  BY <1>4, <1>12, SameMeta
<1>13. CASE MoveTargetAway
  BY <1>6, <1>13, AwayAndBack
<1> QED
  BY <1>8, <1>9, <1>10, <1>11, <1>12, <1>13 DEF Next

(* The deferred replacement implements AtomicUpdate, though the process     *)
(* that installs is not the one that was told to: an update is offered,     *)
(* withdrawn, approved and installed in single steps, and only an approved  *)
(* one is installed (run_windows_worker).                                   *)
THEOREM Refinement == Spec => ImplementsAtomicUpdate
<1>1. Init => Atomic!Init
  <2> SUFFICES ASSUME Init PROVE Atomic!Init
    OBVIOUS
  <2>1. ~IsPending(meta)
    BY NothingPending DEF Init, IsPending
  <2>2. CurrentOffer = Atomic!NoOffer
    BY <2>1, NothingOnOffer
  <2>3. (IF target = NONE THEN meta.version ELSE target) \in Versions
    BY Constants DEF Init
  <2>4. Versions = Atomic!Versions
    BY DEF Versions, Atomic!Versions
  <2> QED
    BY <2>2, <2>3, <2>4 DEF Atomic!Init
<1>2. IInv /\ [Next]_vars => [Atomic!Next]_(Atomic!vars)
  BY StepRefines
<1> QED
  BY <1>1, <1>2, Invariance, PTL DEF Spec, ImplementsAtomicUpdate, Atomic!Spec
=============================================================================
