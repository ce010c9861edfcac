----------------------- MODULE InstallationOwnership ------------------------
(***************************************************************************)
(* Who manages the installed executable: the ownership part of the prefix  *)
(* metadata, written by record_installation (an installer or a delivery    *)
(* detector) and by reconcile_current_executable (every invocation whose   *)
(* own stamp differs from the record).                                     *)
(*                                                                         *)
(* record_installation does all its reading under the BootstrapLock.       *)
(* initialize_current and reconcile_current read the record without the    *)
(* lock and hand what they read to reconcile_current_executable, which     *)
(* takes the lock and reads again: one step each here.                     *)
(*                                                                         *)
(* A coordinated update is the offer and the installation of AtomicUpdate. *)
(*                                                                         *)
(* An executable stands for its bytes and their digest.  The code compares *)
(* digests in some places and what is stamped, version and build number,   *)
(* in others, and different bytes may carry the same stamp.                *)
(***************************************************************************)
EXTENDS Naturals

CONSTANTS
  Processes,        \* runtime processes
  Paths,            \* resolved executable paths
  Labels,           \* installation labels ("standalone", "homebrew")
  Instructions,     \* external update instructions
  Exes,             \* executables that come to lie at a path
  FirstExe,         \* the one the prefix was bootstrapped with
  IdentityOf,       \* version and build number stamped in an executable
  ReplacedExeKeepsPath,  \* current_exe still resolves after a replacement (macOS)
  NONE

Identity == [version : Nat, build : Nat]

ASSUME OwnershipAssumption ==
  /\ FirstExe \in Exes
  /\ IdentityOf \in [Exes -> Identity]
  /\ ReplacedExeKeepsPath \in BOOLEAN
  /\ NONE \notin Paths \union Labels \union Instructions \union Exes

VARIABLES
  file,     \* executable at each path, or NONE
  rec,      \* the update section of the metadata, with the recorded version
  pc,       \* where each process is
  running,  \* the path and executable each process was started from
  stash     \* what a process carries to its locked call

vars == <<file, rec, pc, running, stash>>

Ownerships == {"direct", "external"}

(* ExecutableUpdateMetadata with the recorded version.  "identity" is the    *)
(* recorded version and build number, "digest" the executable whose SHA-256  *)
(* is recorded; "pending" is the executable being installed.  A record is    *)
(* initialized with a path.                                                  *)
Record == [ownership : Ownerships, label : Labels \union {NONE},
           instruction : Instructions \union {NONE}, path : Paths \union {NONE},
           identity : Identity, digest : Exes \union {NONE}, pending : Exes \union {NONE}]

(* What reconcile_current passes on, and what record-installation may be    *)
(* asked: a direct installation has no instruction.                         *)
Reading == [ownership : Ownerships, label : Labels \union {NONE},
            instruction : Instructions \union {NONE}, path : Paths, digest : Exes]

Request == [ownership : {"external"}, label : Labels,
            instruction : Instructions \union {NONE}, path : Paths]
             \union
           [ownership : {"direct"}, label : Labels, instruction : {NONE}, path : Paths]

Process == [path : Paths, exe : Exes]

initialized == rec.path # NONE

(* Bootstrap has just written the record (ExecutableUpdateMetadata           *)
(* ::from_config): no path, no artifact name and no digest.  A stamp with a  *)
(* compatibility policy decides the initial ownership and instruction.       *)
Init ==
  /\ file \in {f \in [Paths -> {FirstExe, NONE}] : \E path \in Paths : f[path] # NONE}
  /\ rec \in [ownership : Ownerships, label : {NONE}, instruction : Instructions \union {NONE},
              path : {NONE}, identity : {IdentityOf[FirstExe]}, digest : {NONE},
              pending : {NONE}]
  /\ pc = [p \in Processes |-> "rest"]
  /\ running = [p \in Processes |-> NONE]
  /\ stash = [p \in Processes |-> NONE]

-----------------------------------------------------------------------------
Exe(p)  == running[p].exe
Path(p) == running[p].path

Ends(p) ==
  /\ pc' = [pc EXCEPT ![p] = "rest"]
  /\ running' = [running EXCEPT ![p] = NONE]
  /\ stash' = [stash EXCEPT ![p] = NONE]

Moves(p, label) == pc' = [pc EXCEPT ![p] = label] /\ UNCHANGED running

(* verify_running_executable: the path resolves to the running executable.  *)
IsRunning(p, path) ==
  /\ path = Path(p)
  /\ ReplacedExeKeepsPath \/ file[path] = Exe(p)

(* verify_stamped_file on the executable at a path, for p's own version.    *)
(* The build number is not compared.                                        *)
StampMatches(p, path) == IdentityOf[file[path]].version = IdentityOf[Exe(p)].version

(* A normal invocation, or a check or stage helper, starts.                 *)
Invoke(p, path) ==
  /\ pc[p] = "rest"
  /\ file[path] # NONE
  /\ running' = [running EXCEPT ![p] = [path |-> path, exe |-> file[path]]]
  /\ pc' = [pc EXCEPT ![p] = "recover"]
  /\ UNCHANGED <<file, rec, stash>>

Installed ==
  [rec EXCEPT !.identity = IdentityOf[rec.pending], !.digest = rec.pending, !.pending = NONE]

(* The coordinated update is over: installed, unless somebody else has put   *)
(* an executable in its place, or discarded.                                *)
ResolvePending ==
  \/ /\ file[rec.path] \in {rec.digest, rec.pending}
     /\ rec' = Installed
     /\ file' = [file EXCEPT ![rec.path] = rec.pending]
  \/ /\ rec' = [rec EXCEPT !.pending = NONE]
     /\ UNCHANGED file

(* recover_pending.  An invocation that recovers does not reconcile; one    *)
(* that leaves a candidate to its coordinator does not either.              *)
RecoverPending(p) ==
  /\ pc[p] = "recover"
  /\ \/ rec.pending = NONE /\ Moves(p, "initialize") /\ UNCHANGED <<file, rec, stash>>
     \/ rec.pending # NONE /\ ResolvePending /\ Ends(p)
     \/ rec.pending # NONE /\ Ends(p) /\ UNCHANGED <<file, rec>>

(* Mutation of InitializeCurrent: an initialized record is never looked at   *)
(* again.                                                                   *)
InitializeOnce(p) ==
  /\ pc[p] = "initialize"
  /\ IF rec.pending # NONE \/ initialized
       THEN Ends(p)
       ELSE Moves(p, "reconcile") /\ UNCHANGED stash
  /\ UNCHANGED <<file, rec>>

(* initialize_current: nothing to do when an update is pending or the       *)
(* record carries this executable's version and build number, whatever the  *)
(* digest.                                                                  *)
InitializeCurrent(p) ==
  /\ pc[p] = "initialize"
  /\ IF rec.pending # NONE \/ (initialized /\ rec.identity = IdentityOf[Exe(p)])
       THEN Ends(p)
       ELSE Moves(p, "reconcile") /\ UNCHANGED stash
  /\ UNCHANGED <<file, rec>>

(* reconcile_current, up to the lock: an installation that was recorded is  *)
(* kept, any other record is bound to the path this process was started     *)
(* from.  The executable there must be the running one, and is hashed.      *)
ReconcileCurrent(p) ==
  /\ pc[p] = "reconcile"
  /\ LET recorded == rec.label # NONE /\ initialized
         path     == IF recorded THEN rec.path ELSE Path(p)
     IN  IF IsRunning(p, path)
           THEN /\ stash' = [stash EXCEPT ![p] =
                     [ownership |-> rec.ownership, instruction |-> rec.instruction,
                      label |-> IF recorded THEN rec.label ELSE NONE,
                      path |-> path, digest |-> file[path]]]
                /\ Moves(p, "persist")
           ELSE Ends(p)
  /\ UNCHANGED <<file, rec>>

(* The record p writes for what it carries, or is asked.                     *)
Replacement(p, asked, instruction) ==
  [ownership |-> asked.ownership, label |-> asked.label, instruction |-> instruction,
   path |-> asked.path, identity |-> IdentityOf[Exe(p)], digest |-> file[asked.path],
   pending |-> NONE]

ConfirmedDirect == initialized /\ rec.ownership = "direct" /\ rec.label # NONE

(* Mutations of CanReconcile: the checks under the lock forget the stamp,   *)
(* or that a direct installation is confirmed.                              *)
ReconcileAnyStamp(p) ==
  /\ file[stash[p].path] = stash[p].digest
  /\ rec.pending = NONE
  /\ ConfirmedDirect => rec = Replacement(p, stash[p], stash[p].instruction)

ReconcileConfirmedDirect(p) ==
  /\ file[stash[p].path] = stash[p].digest
  /\ rec.pending = NONE
  /\ StampMatches(p, stash[p].path)

(* reconcile_current_executable, under the lock: the executable must still  *)
(* be the hashed one with this version's stamp, nothing may be pending, and *)
(* a confirmed direct installation must not differ in anything.             *)
CanReconcile(p) ==
  /\ file[stash[p].path] = stash[p].digest
  /\ rec.pending = NONE
  /\ ConfirmedDirect => rec = Replacement(p, stash[p], stash[p].instruction)
  /\ StampMatches(p, stash[p].path)

ReconcileCurrentExecutable(p) ==
  /\ pc[p] = "persist"
  /\ rec' = IF CanReconcile(p) THEN Replacement(p, stash[p], stash[p].instruction) ELSE rec
  /\ Ends(p)
  /\ UNCHANGED file

-----------------------------------------------------------------------------
(* An installer or a delivery detector invokes record-installation with the *)
(* executable at a path.                                                    *)
InvokeRecordInstallation(p, path) ==
  /\ pc[p] = "rest"
  /\ file[path] # NONE
  /\ running' = [running EXCEPT ![p] = [path |-> path, exe |-> file[path]]]
  /\ pc' = [pc EXCEPT ![p] = "record"]
  /\ UNCHANGED <<file, rec, stash>>

(* An external record keeps its instruction when none is given.             *)
RequestedInstruction(asked) ==
  IF asked.instruction = NONE /\ asked.ownership = "external" /\ rec.ownership = "external"
    THEN rec.instruction
    ELSE asked.instruction

(* Mutation of CanRecord: a recorded label can be changed.                   *)
CanRelabel(p, asked) ==
  /\ rec.pending = NONE
  /\ rec.ownership = "external" => asked.ownership = "external"
  /\ IsRunning(p, asked.path)
  /\ StampMatches(p, asked.path)

CanRecord(p, asked) ==
  /\ rec.pending = NONE
  /\ rec.ownership = "external" => asked.ownership = "external"
  /\ \/ rec.label \in {NONE, asked.label}
     \/ rec.ownership = "direct" /\ asked.ownership = "external"
  /\ rec.ownership = "external" /\ rec.label # NONE =>
       rec.path = asked.path /\ rec.instruction = RequestedInstruction(asked)
  /\ IsRunning(p, asked.path)
  /\ initialized /\ rec.ownership = "direct" /\ asked.ownership = "direct" =>
       /\ rec.path = asked.path
       /\ rec.identity = IdentityOf[Exe(p)]
       /\ rec.digest = file[asked.path]
  /\ StampMatches(p, asked.path)

(* record_installation, all of it under the lock, where the arguments it    *)
(* was invoked with are first compared with anything.                       *)
RecordInstallation(p, asked) ==
  /\ pc[p] = "record"
  /\ rec' = IF CanRecord(p, asked) THEN Replacement(p, asked, RequestedInstruction(asked))
                                   ELSE rec
  /\ Ends(p)
  /\ UNCHANGED file

-----------------------------------------------------------------------------
(* A package manager or an installer puts an executable at a path: a newer  *)
(* package, an older one, or the same one with other bytes.                 *)
InstallExternally(path, exe) ==
  /\ file' = [file EXCEPT ![path] = exe]
  /\ UNCHANGED <<rec, pc, running, stash>>

(* stage_candidate, for a directly owned executable that is unchanged.  The *)
(* candidate is another file; that it is newer is up to its selection.      *)
StageCandidate(exe) ==
  /\ initialized /\ rec.ownership = "direct" /\ rec.pending = NONE
  /\ file[rec.path] = rec.digest
  /\ IdentityOf[rec.digest].version = rec.identity.version
  /\ exe # rec.digest
  /\ rec' = [rec EXCEPT !.pending = exe]
  /\ UNCHANGED <<file, pc, running, stash>>

(* apply_pending, or the discard of an unapproved candidate.                *)
FinishUpdate ==
  /\ rec.pending # NONE
  /\ ResolvePending
  /\ UNCHANGED <<pc, running, stash>>

ProcessStep(p) ==
  \/ RecoverPending(p) \/ InitializeCurrent(p) \/ ReconcileCurrent(p)
  \/ ReconcileCurrentExecutable(p)
  \/ \E asked \in Request : RecordInstallation(p, asked)

Next ==
  \/ \E p \in Processes : ProcessStep(p)
  \/ \E p \in Processes, path \in Paths : Invoke(p, path) \/ InvokeRecordInstallation(p, path)
  \/ \E path \in Paths, exe \in Exes : InstallExternally(path, exe)
  \/ \E exe \in Exes : StageCandidate(exe)
  \/ FinishUpdate

Spec == Init /\ [][Next]_vars

-----------------------------------------------------------------------------
(* Properties *)

(* "It cannot make an external installation direct" (runtime-cli.md,        *)
(* "Record installation"; the doc comment of record_installation).          *)
ExternalStaysExternal == [][rec.ownership = "external" => rec'.ownership = "external"]_rec

(* What p read before it took the lock is not what is recorded now.         *)
ActsOnStaleReading(p) ==
  /\ pc[p] = "persist" /\ pc'[p] = "rest"
  /\ <<stash[p].ownership, stash[p].label, stash[p].path, stash[p].instruction>>
       # <<rec.ownership, rec.label, rec.path, rec.instruction>>

(* An external installation does not become direct, an installation label   *)
(* changes only when a direct installation becomes external, and an         *)
(* external one keeps its stable path and its instruction, unless an        *)
(* invocation writes what it had read before record-installation            *)
(* (record_installation, reconcile_current).                                *)
InstallationIsKept ==
  [][\/ \E p \in Processes : ActsOnStaleReading(p)
     \/ /\ rec.ownership = "external" =>
             /\ rec'.ownership = "external"
             /\ rec.label # NONE =>
                  rec'.path = rec.path /\ rec'.instruction = rec.instruction
        /\ \/ rec.label \in {NONE, rec'.label}
           \/ rec.ownership = "direct" /\ rec'.ownership = "external"]_rec

(* Whatever was read before the lock and whoever replaced the file: while a *)
(* replacement is pending the record is only resolved, and the executable   *)
(* of a confirmed direct installation changes in the record only by its     *)
(* coordinated update or by becoming external (the checks of                *)
(* reconcile_current_executable and record_installation under the lock).    *)
OnlyUpdatesTakeEffect ==
  [][/\ rec.pending # NONE => rec' \in {Installed, [rec EXCEPT !.pending = NONE]}
     /\ ConfirmedDirect =>
          \/ rec'.ownership = "external"
          \/ rec.pending # NONE /\ rec' = Installed
          \/ rec'.digest = rec.digest /\ rec'.identity = rec.identity /\ rec'.path = rec.path]_rec

(* The recorded version is the one stamped in the executable whose digest   *)
(* is recorded, even when a process of an older executable reconciles after *)
(* the file was replaced (verify_stamped_file).                             *)
RecordedVersionIsStamped ==
  initialized => rec.identity.version = IdentityOf[rec.digest].version

(* After a package manager replaced a recorded external executable, by a    *)
(* newer one or an older one, an invocation of what lies there now ends     *)
(* with its version and build number in the record, and with its digest     *)
(* unless the record had that version and build number before, whatever     *)
(* other invocations did meanwhile (initialize_current, reconcile_current). *)
(* Left out is one that hashed another executable, because the file was     *)
(* replaced and put back while it was running: it ends with an error.       *)
ExternalIsReconciled ==
  [][\A p \in Processes :
       /\ pc[p] \in {"initialize", "reconcile", "persist"} /\ pc'[p] = "rest"
       /\ rec.ownership = "external" /\ rec.label # NONE
       /\ running[p] = [path |-> rec.path, exe |-> file[rec.path]]
       /\ pc[p] = "persist" => stash[p].digest = Exe(p)
       => /\ rec'.identity = IdentityOf[Exe(p)]
          /\ rec'.digest = Exe(p) \/ rec.identity = IdentityOf[Exe(p)]]_vars

-----------------------------------------------------------------------------
(* Why they hold: the inductive invariant *)

TypeOK ==
  /\ file \in [Paths -> Exes \union {NONE}]
  /\ rec \in Record
  /\ pc \in [Processes -> {"rest", "recover", "initialize", "reconcile", "persist", "record"}]
  /\ running \in [Processes -> Process \union {NONE}]
  /\ stash \in [Processes -> Reading \union {NONE}]

(* The record of an installation has a digest, and there is an executable   *)
(* at its path; only a direct one is updated.                               *)
RecordInv ==
  /\ rec.label # NONE \/ rec.pending # NONE => initialized
  /\ initialized => rec.digest \in Exes /\ file[rec.path] \in Exes
  /\ rec.pending # NONE => rec.ownership = "direct"

(* What a process carries: the executable it was started from, and the      *)
(* digest of the one it has found at that path since.                       *)
ProcessInv(p) ==
  /\ pc[p] # "rest" => running[p] \in Process /\ file[Path(p)] \in Exes
  /\ pc[p] = "persist" => stash[p] \in Reading /\ stash[p].path = Path(p)

IInv ==
  /\ TypeOK /\ RecordInv /\ RecordedVersionIsStamped
  /\ \A p \in Processes : ProcessInv(p)
=============================================================================
