---------------------------- MODULE UpdateRecord ----------------------------
(***************************************************************************)
(* The persisted executable-update record of conda-ship and the pure       *)
(* decisions taken on it: how the files next to the installed executable   *)
(* are classified, and which recovery each (phase, files) pair calls for.  *)
(*                                                                         *)
(* A stamped executable is abstracted to its version: the digest, build    *)
(* number and header of a version are functions of it, so "has the digest  *)
(* of version v" is "is v".  A file whose stamp or digest does not verify  *)
(* never gets one of the recorded names (stage_file copies to a temporary  *)
(* name and renames), so a name either is absent or holds its version.     *)
(***************************************************************************)
EXTENDS Naturals

CONSTANT MaxVersion                      \* newest version that can be released

ASSUME MaxVersionAssumption == MaxVersion \in Nat \ {0}

Versions == 0 .. MaxVersion

(* PendingExecutablePhase, with "none" for pending = None. *)
Phases == {"none", "staged", "ready", "replacing", "cleanup"}

(* PendingExecutableUpdate: the phase and the version being installed. *)
Pending == [phase : Phases, version : Versions]

NoPending == [phase |-> "none", version |-> 0]

(* PrefixMetadata, reduced to what the update engine reads and writes. *)
Metadata == [version : Versions, pending : Pending]

IsPending(meta) == meta.pending.phase # "none"

set_phase(meta, phase) == [meta EXCEPT !.pending.phase = phase]

clear_pending(meta) == [meta EXCEPT !.pending = NoPending]

(* commit_new_version followed by clear_pending, as every caller does. *)
CommitNewVersion(meta) == [version |-> meta.pending.version, pending |-> NoPending]

-----------------------------------------------------------------------------
FileVersion == {"missing", "old", "new"}

(* The three files of an update, named by the role they play.  "other" is a *)
(* target that matches neither digest: classify_target returns an error.    *)
FileState == [target : FileVersion \union {"other"},
              candidate : FileVersion, backup : FileVersion]

(* The path of a version's candidate carries only its digest, and a backup's *)
(* only the old digest: presence of that name is all that is classified.    *)
classify_files(meta, target, hasCandidate, hasBackup) ==
  [target    |-> IF target = meta.version THEN "old"
                 ELSE IF target = meta.pending.version THEN "new" ELSE "other",
   candidate |-> IF hasCandidate THEN "new" ELSE "missing",
   backup    |-> IF hasBackup THEN "old" ELSE "missing"]

Files(target, candidate, backup) ==
  [target |-> target, candidate |-> candidate, backup |-> backup]

StagedFiles  == Files("old", "new", "missing")        \* FileState::staged()
SwappedFiles == Files("new", "missing", "missing")
LostFiles    == Files("old", "missing", "missing")

(* Mutations of UnixRecovery: a replacement whose candidate is gone is not   *)
(* expected; an unapproved candidate is applied like an approved one; an     *)
(* approved one is given up like a lost one.                                *)
RecoveryWithoutLostFiles(phase, files) ==
  CASE phase = "none"                                 -> "nothing"
    [] phase = "staged" /\ files = StagedFiles        -> "discard"
    [] phase = "staged" /\ files = LostFiles          -> "clear"
    [] phase = "ready" /\ files = StagedFiles         -> "begin"
    [] phase = "replacing" /\ files = StagedFiles     -> "swap"
    [] phase = "replacing" /\ files = SwappedFiles    -> "commit"
    [] OTHER                                          -> "invalid"

RecoveryAppliesUnapproved(phase, files) ==
  CASE phase = "none"                                                  -> "nothing"
    [] phase \in {"staged", "ready"} /\ files = StagedFiles            -> "begin"
    [] phase = "replacing" /\ files = StagedFiles                      -> "swap"
    [] phase = "replacing" /\ files = SwappedFiles                     -> "commit"
    [] phase \in {"staged", "ready", "replacing"} /\ files = LostFiles -> "clear"
    [] OTHER                                                           -> "invalid"

RecoveryDropsApproved(phase, files) ==
  CASE phase = "none"                                           -> "nothing"
    [] phase = "staged" /\ files = StagedFiles                  -> "discard"
    [] phase = "replacing" /\ files = StagedFiles               -> "swap"
    [] phase = "replacing" /\ files = SwappedFiles              -> "commit"
    [] phase # "none" /\ files \in {StagedFiles, LostFiles}     -> "clear"
    [] OTHER                                                    -> "invalid"

(* What recovery does next on Unix: drop an unapproved candidate, continue  *)
(* or finish a replacement, give the update up, or refuse the state.        *)
UnixRecovery(phase, files) ==
  CASE phase = "none"                                                  -> "nothing"
    [] phase = "staged" /\ files = StagedFiles                         -> "discard"
    [] phase = "staged" /\ files = LostFiles                           -> "clear"
    [] phase = "ready" /\ files = StagedFiles                          -> "begin"
    [] phase = "replacing" /\ files = StagedFiles                      -> "swap"
    [] phase = "replacing" /\ files = SwappedFiles                     -> "commit"
    [] phase \in {"ready", "replacing"} /\ files = LostFiles           -> "clear"
    [] OTHER                                                           -> "invalid"
=============================================================================
