---------------------------- MODULE ManagedPrefix ----------------------------
(***************************************************************************)
(* The life of one managed prefix: the bootstrap of a stamped runtime      *)
(* (commands.rs) and the install and remove operations of Fleet (fleet.rs).*)
(* Both hold the BootstrapLock, mark the prefix as being installed, drop   *)
(* the old ready metadata, install the packages of a lock, write ready     *)
(* metadata and drop the marker.  Every file-system effect is a step, so a *)
(* crash or a failed call may come between any two.                        *)
(*                                                                         *)
(* The packages are installed by the rattler library, which this module    *)
(* only assumes to unlink and link one package at a time and then to run   *)
(* their link scripts, for the packages that are not recorded as linked    *)
(* and for those it is told to reinstall.                                  *)
(***************************************************************************)
EXTENDS Naturals

CONSTANTS
  Processes,    \* invocations of a stamped runtime, or callers of Fleet
  Specs,        \* what can be asked for: stamped data, or a RuntimeSpec
  Packages,
  LockOf,       \* the packages a spec locks
  Configures,   \* specs with a configured policy output (.condarc, frozen)
  Ships,        \* packages that put a file where that output goes
  Delegate,     \* the package that holds the delegate executable
  MaxFaults,    \* bound on crashes and failed calls
  NONE, Partial, Installing, Foreign    \* what a file holds besides a spec

ASSUME PrefixAssumption ==
  /\ LockOf \in [Specs -> SUBSET Packages]
  /\ Configures \subseteq Specs
  /\ Ships \subseteq Packages
  /\ Delegate \in Packages
  /\ MaxFaults \in Nat
  /\ NONE \notin {Partial, Installing, Foreign}
  /\ Partial \notin {Installing, Foreign} /\ Installing # Foreign
  /\ {NONE, Partial, Installing, Foreign} \intersect (Specs \union Processes) = {}

VARIABLES
  fleet,      \* whether the prefix is one of Fleet's (never changes)
  exists,     \* the prefix directory exists
  file,       \* the files in it that decide what it is
  linked,     \* packages recorded as installed
  ran,        \* those whose link scripts have finished
  bootLock,   \* holder of the BootstrapLock
  pc,         \* where each process is
  op, spec,   \* the function it runs and what it installs
  reinstall,  \* whether it reinstalls every package
  work,       \* what is left of the installer's transaction
  faults,     \* crashes and failed calls so far
  foreign,    \* history: the prefix is somebody else's
  torn        \* history: a removal was interrupted

disk  == <<exists, file, linked, ran>>
procs == <<pc, op, spec, reinstall, work>>
ghosts == <<foreign, torn>>
vars  == <<fleet, disk, bootLock, procs, faults, ghosts>>

(* .conda-ship-bootstrap.json and .RUNTIME_NAME.json with their temporary   *)
(* files, the configured policy output, and all that belongs to the user.   *)
Files == {"marker", "marker.tmp", "metadata", "metadata.tmp", "output", "unrelated"}

Contents == Specs \union {NONE, Partial, Installing, Foreign}

Ops == {"none", "bootstrap", "install", "force", "remove"}
PCs == {"rest", "want", "unmark-ready", "mark", "create-marker", "fill-marker",
        "persist-marker", "invalidate", "reset", "begin", "transact", "reset-again",
        "configure", "validate", "create-metadata", "fill-metadata", "persist-metadata",
        "unmark", "delete"}
Locked == PCs \ {"rest", "want"}

NoFiles == [name \in Files |-> NONE]
NoWork  == [unlink |-> {}, link |-> {}, scripts |-> {}]

(* A missing or empty prefix, one with files nobody knows, or one that      *)
(* belongs to another runtime.                                              *)
Init ==
  /\ fleet \in BOOLEAN
  /\ exists \in BOOLEAN
  /\ \E m, d, u \in {NONE, Foreign} :
       file = [NoFiles EXCEPT !["marker"] = m, !["metadata"] = d, !["unrelated"] = u]
  /\ ~exists => file = NoFiles
  /\ foreign = (file # NoFiles) /\ torn = FALSE
  /\ linked = {} /\ ran = {}
  /\ bootLock = NONE
  /\ pc = [p \in Processes |-> "rest"]
  /\ op = [p \in Processes |-> "none"]
  /\ spec = [p \in Processes |-> NONE]
  /\ reinstall = [p \in Processes |-> FALSE]
  /\ work = [p \in Processes |-> NoWork]
  /\ faults = 0

-----------------------------------------------------------------------------
(* Judging a prefix *)

Empty == file = NoFiles /\ linked = {}

(* Mutation of MarkerRead: the temporary file never counts.                 *)
FinalMarkerOnly == file["marker"]

(* bootstrap_state::read: the temporary file counts when it is the only one.*)
MarkerRead == IF file["marker"] # NONE THEN file["marker"] ELSE file["marker.tmp"]

(* read_metadata_for; nothing here leaves a backup of the metadata.         *)
MetadataRead == IF file["metadata"] # NONE THEN file["metadata"] ELSE file["metadata.tmp"]

(* validate_delegate, which a forced install does not ask for.              *)
DelegateOK(force) == force \/ Delegate \in linked

(* Mutations of Disposition: an interrupted install is continued like a      *)
(* first one; any directory without a marker can be bootstrapped into.      *)
DispositionContinues(force) ==
  CASE MarkerRead = Installing ->
         IF file["metadata"] \in Specs /\ DelegateOK(force) THEN "unmark" ELSE "bootstrap"
    [] MarkerRead \in {Partial, Foreign}       -> "refuse"
    [] MarkerRead = NONE /\ (~exists \/ Empty) -> "bootstrap"
    [] OTHER -> IF MetadataRead \in Specs /\ DelegateOK(force) THEN "ready" ELSE "refuse"

DispositionTakesAny(force) ==
  CASE MarkerRead = Installing ->
         IF file["metadata"] \in Specs /\ DelegateOK(force) THEN "unmark" ELSE "reinstall"
    [] MarkerRead \in {Partial, Foreign} -> "refuse"
    [] OTHER -> IF MetadataRead \in Specs /\ DelegateOK(force) THEN "ready" ELSE "bootstrap"

(* prefix_disposition_for.  Next to a marker only metadata at its final     *)
(* path counts, and without one a complete temporary file does too.         *)
Disposition(force) ==
  CASE MarkerRead = Installing ->
         IF file["metadata"] = Foreign THEN "refuse"
         ELSE IF file["metadata"] \in Specs /\ DelegateOK(force) THEN "unmark"
         ELSE "reinstall"
    [] MarkerRead \in {Partial, Foreign}       -> "refuse"
    [] MarkerRead = NONE /\ (~exists \/ Empty) -> "bootstrap"
    [] OTHER -> IF MetadataRead \in Specs /\ DelegateOK(force) THEN "ready" ELSE "refuse"

(* What Fleet::remove accepts: its marker, an empty directory, or its ready *)
(* metadata.  It looks for the directory only before it takes the lock.     *)
Removable ==
  IF MarkerRead # NONE THEN MarkerRead = Installing
  ELSE (exists /\ Empty) \/ MetadataRead \in Specs

-----------------------------------------------------------------------------
(* Steps *)

Goto(p, label) == pc' = [pc EXCEPT ![p] = label]

Lock(p, label) == bootLock' = p /\ Goto(p, label) /\ UNCHANGED <<op, spec, work>>

(* The operation returns, with or without an error.                         *)
Return(p) ==
  /\ bootLock' = NONE
  /\ Goto(p, "rest")
  /\ op' = [op EXCEPT ![p] = "none"]
  /\ spec' = [spec EXCEPT ![p] = NONE]
  /\ reinstall' = [reinstall EXCEPT ![p] = FALSE]
  /\ work' = [work EXCEPT ![p] = NoWork]

Proceed(p, from, to) ==
  /\ pc[p] = from
  /\ Goto(p, to)
  /\ UNCHANGED <<fleet, bootLock, op, spec, reinstall, faults, ghosts>>

Write(name, content) == file' = [file EXCEPT ![name] = content]

(* read_metadata_for moves a complete temporary file to its final path.     *)
RestoreMetadata ==
  file' = IF MarkerRead = NONE /\ file["metadata"] = NONE /\ file["metadata.tmp"] \in Specs
            THEN [file EXCEPT !["metadata"] = file["metadata.tmp"], !["metadata.tmp"] = NONE]
            ELSE file

(* ensure_bootstrapped, Fleet::install with or without force, or            *)
(* Fleet::remove is called.                                                 *)
Call(p, function, s) ==
  /\ pc[p] = "rest"
  /\ function \in (IF fleet THEN {"install", "force", "remove"} ELSE {"bootstrap"})
  /\ function = "remove" => exists
  /\ Goto(p, "want")
  /\ op' = [op EXCEPT ![p] = function]
  /\ spec' = [spec EXCEPT ![p] = s]
  /\ UNCHANGED <<fleet, disk, bootLock, reinstall, work, faults, ghosts>>

Forced(p) == op[p] = "force"

(* The lock is taken and the prefix judged: a ready one is left alone       *)
(* unless the install is forced, and a marker left next to it goes first.   *)
EnterInstall(p) ==
  /\ pc[p] = "want" /\ op[p] # "remove" /\ bootLock = NONE
  /\ LET found == Disposition(Forced(p)) IN
       /\ RestoreMetadata
       /\ IF found = "refuse" \/ (found = "ready" /\ ~Forced(p))
            THEN Return(p)
            ELSE /\ Lock(p, IF found = "unmark" THEN "unmark-ready" ELSE "mark")
                 /\ reinstall' = [reinstall EXCEPT ![p] = found # "bootstrap"]
  /\ UNCHANGED <<fleet, exists, linked, ran, faults, ghosts>>

(* Fleet::remove, up to the first deletion.                                 *)
EnterRemove(p) ==
  /\ pc[p] = "want" /\ op[p] = "remove" /\ bootLock = NONE
  /\ IF Removable
       THEN RestoreMetadata /\ Lock(p, "delete") /\ UNCHANGED reinstall
       ELSE Return(p) /\ UNCHANGED file
  /\ UNCHANGED <<fleet, exists, linked, ran, faults, ghosts>>

(* Mutation of Unmark: only the temporary file is removed.                  *)
UnmarkTmpOnly(p) ==
  /\ pc[p] \in {"unmark-ready", "unmark"}
  /\ Write("marker.tmp", NONE)
  /\ IF pc[p] = "unmark-ready" /\ Forced(p)
       THEN Goto(p, "mark") /\ UNCHANGED <<bootLock, op, spec, reinstall, work>>
       ELSE Return(p)
  /\ torn' = (torn /\ pc[p] = "unmark-ready")
  /\ UNCHANGED <<fleet, exists, linked, ran, faults, foreign>>

(* bootstrap_state::remove, one file after the other.  It ends a completed  *)
(* install, or leads to a ready prefix.                                     *)
Unmark(p) ==
  /\ pc[p] \in {"unmark-ready", "unmark"}
  /\ IF file["marker"] # NONE
       THEN /\ Write("marker", NONE)
            /\ UNCHANGED <<bootLock, procs, torn>>
       ELSE /\ Write("marker.tmp", NONE)
            /\ IF pc[p] = "unmark-ready" /\ Forced(p)
                 THEN Goto(p, "mark") /\ UNCHANGED <<bootLock, op, spec, reinstall, work>>
                 ELSE Return(p)
            /\ torn' = (torn /\ pc[p] = "unmark-ready")
  /\ UNCHANGED <<fleet, exists, linked, ran, faults, foreign>>

(* write_installing_for: create the directory, remove an old temporary file,*)
(* write a new one, remove an old marker, and rename.                       *)
StartMarker(p) ==
  /\ Proceed(p, "mark", "create-marker")
  /\ exists' = TRUE
  /\ Write("marker.tmp", NONE)
  /\ UNCHANGED <<linked, ran, work>>

CreateMarker(p) ==
  /\ Proceed(p, "create-marker", "fill-marker")
  /\ Write("marker.tmp", Partial)
  /\ UNCHANGED <<exists, linked, ran, work>>

FillMarker(p) ==
  /\ Proceed(p, "fill-marker", "persist-marker")
  /\ Write("marker.tmp", Installing)
  /\ UNCHANGED <<exists, linked, ran, work>>

PersistMarker(p) ==
  /\ Proceed(p, "persist-marker",
             IF file["marker"] # NONE THEN "persist-marker" ELSE "invalidate")
  /\ file' = IF file["marker"] # NONE
               THEN [file EXCEPT !["marker"] = NONE]
               ELSE [file EXCEPT !["marker"] = file["marker.tmp"], !["marker.tmp"] = NONE]
  /\ UNCHANGED <<exists, linked, ran, work>>

(* invalidate_metadata_for: the metadata, then its temporary file.          *)
Invalidate(p) ==
  /\ Proceed(p, "invalidate", IF file["metadata"] # NONE THEN "invalidate"
                              ELSE IF fleet THEN "reset" ELSE "begin")
  /\ Write(IF file["metadata"] # NONE THEN "metadata" ELSE "metadata.tmp", NONE)
  /\ UNCHANGED <<exists, linked, ran, work>>

(* reset_managed_policy_outputs, before and after the packages.             *)
ResetOutputs(p) ==
  /\ \/ Proceed(p, "reset", "begin")
     \/ Proceed(p, "reset-again", "configure")
  /\ Write("output", NONE)
  /\ UNCHANGED <<exists, linked, ran, work>>

(* The installer compares the lock with what is recorded as linked; told to *)
(* reinstall, it takes every package of the lock.                           *)
BeginTransaction(p) ==
  /\ Proceed(p, "begin", "transact")
  /\ LET lock == LockOf[spec[p]]
         new  == IF reinstall[p] THEN lock ELSE lock \ linked
     IN  work' = [work EXCEPT ![p] =
                    [unlink |-> linked \ (lock \ new), link |-> new, scripts |-> new]]
  /\ UNCHANGED disk

(* Packages ship files too, one of them perhaps at the output's path.       *)
Unlink(p, pkg) ==
  /\ pkg \in work[p].unlink
  /\ linked' = linked \ {pkg} /\ ran' = ran \ {pkg}
  /\ IF pkg \in Ships THEN Write("output", NONE) ELSE UNCHANGED file
  /\ work' = [work EXCEPT ![p].unlink = @ \ {pkg}]

Link(p, pkg) ==
  /\ pkg \in work[p].link \ work[p].unlink
  /\ linked' = linked \union {pkg} /\ UNCHANGED ran
  /\ IF pkg \in Ships THEN Write("output", Foreign) ELSE UNCHANGED file
  /\ work' = [work EXCEPT ![p].link = @ \ {pkg}]

RunLinkScript(p, pkg) ==
  /\ work[p].unlink = {} /\ work[p].link = {}
  /\ pkg \in work[p].scripts
  /\ ran' = ran \union {pkg} /\ UNCHANGED <<linked, file>>
  /\ work' = [work EXCEPT ![p].scripts = @ \ {pkg}]

Transact(p, pkg) ==
  /\ Proceed(p, "transact", "transact")
  /\ Unlink(p, pkg) \/ Link(p, pkg) \/ RunLinkScript(p, pkg)
  /\ UNCHANGED exists

EndTransaction(p) ==
  /\ Proceed(p, "transact", IF fleet THEN "reset-again" ELSE "configure")
  /\ work[p] = NoWork
  /\ UNCHANGED <<disk, work>>

(* write_configured_policy. *)
Configure(p) ==
  /\ Proceed(p, "configure", "validate")
  /\ IF spec[p] \in Configures THEN Write("output", spec[p]) ELSE UNCHANGED file
  /\ UNCHANGED <<exists, linked, ran, work>>

(* validate_delegate: an install without its delegate is never ready.      *)
ValidateDelegate(p) ==
  /\ pc[p] = "validate"
  /\ IF Delegate \in linked
       THEN Goto(p, "create-metadata") /\ UNCHANGED <<bootLock, op, spec, reinstall, work>>
       ELSE Return(p)
  /\ UNCHANGED <<fleet, disk, faults, ghosts>>

(* write_metadata_for_identity over invalidated metadata.                   *)
CreateMetadata(p) ==
  /\ Proceed(p, "create-metadata", "fill-metadata")
  /\ Write("metadata.tmp", Partial)
  /\ UNCHANGED <<exists, linked, ran, work>>

FillMetadata(p) ==
  /\ Proceed(p, "fill-metadata", "persist-metadata")
  /\ Write("metadata.tmp", spec[p])
  /\ UNCHANGED <<exists, linked, ran, work>>

PersistMetadata(p) ==
  /\ Proceed(p, "persist-metadata", "unmark")
  /\ file' = [file EXCEPT !["metadata"] = file["metadata.tmp"], !["metadata.tmp"] = NONE]
  /\ UNCHANGED <<exists, linked, ran, work>>

(* remove_dir_all deletes the entries of the prefix in any order ...        *)
DeleteEntry(p) ==
  /\ Proceed(p, "delete", "delete")
  /\ \/ \E name \in Files :
          file[name] # NONE /\ Write(name, NONE) /\ UNCHANGED <<linked, ran>>
     \/ \E pkg \in linked :
          linked' = linked \ {pkg} /\ ran' = ran \ {pkg} /\ UNCHANGED file
  /\ UNCHANGED <<exists, work>>

(* ... and then the prefix itself. *)
DeletePrefix(p) ==
  /\ pc[p] = "delete"
  /\ Empty
  /\ exists' = FALSE
  /\ Return(p)
  /\ torn' = FALSE
  /\ UNCHANGED <<fleet, file, linked, ran, faults, foreign>>

InstallStep(p) ==
  \/ EnterInstall(p) \/ Unmark(p)
  \/ StartMarker(p) \/ CreateMarker(p) \/ FillMarker(p) \/ PersistMarker(p)
  \/ Invalidate(p) \/ ResetOutputs(p)
  \/ BeginTransaction(p) \/ (\E pkg \in Packages : Transact(p, pkg)) \/ EndTransaction(p)
  \/ Configure(p) \/ ValidateDelegate(p)
  \/ CreateMetadata(p) \/ FillMetadata(p) \/ PersistMetadata(p)

RemoveStep(p) == EnterRemove(p) \/ DeleteEntry(p) \/ DeletePrefix(p)

-----------------------------------------------------------------------------
(* The environment *)

(* The process is killed, or a call fails and the operation returns it.     *)
Interrupt(p) ==
  /\ pc[p] \in Locked
  /\ faults < MaxFaults /\ faults' = faults + 1
  /\ Return(p)
  /\ torn' = (torn \/ pc[p] = "delete")
  /\ UNCHANGED <<fleet, disk, foreign>>

(* A user creates named environments and files in a prefix that is ready.   *)
UsePrefix ==
  /\ bootLock = NONE /\ file["unrelated"] = NONE
  /\ Disposition(FALSE) = "ready"
  /\ Write("unrelated", Foreign)
  /\ UNCHANGED <<fleet, exists, linked, ran, bootLock, procs, faults, ghosts>>

(* A user puts something else where there is no prefix.                     *)
OccupyPrefix ==
  /\ bootLock = NONE /\ ~exists
  /\ exists' = TRUE
  /\ Write("unrelated", Foreign)
  /\ foreign' = TRUE
  /\ UNCHANGED <<fleet, linked, ran, bootLock, procs, faults, torn>>

Next ==
  \/ \E p \in Processes : InstallStep(p) \/ RemoveStep(p) \/ Interrupt(p)
  \/ \E p \in Processes, function \in Ops, s \in Specs : Call(p, function, s)
  \/ UsePrefix \/ OccupyPrefix

Spec == Init /\ [][Next]_vars

(* Whoever holds the lock runs on, a process blocked on it gets it in the   *)
(* end, and every stamped runtime is invoked again and again.               *)
Fairness ==
  /\ WF_vars(\E p \in Processes : pc[p] \in Locked /\ (InstallStep(p) \/ RemoveStep(p)))
  /\ \A p \in Processes : SF_vars(EnterInstall(p))
  /\ \A s \in Specs : SF_vars(\E p \in Processes : Call(p, "bootstrap", s))

FairSpec == Spec /\ Fairness
-----------------------------------------------------------------------------
(* Properties *)

OutputOf(s) ==
  /\ s \in Configures => file["output"] = s
  /\ fleet /\ s \notin Configures => file["output"] = NONE

Complete(s) == linked = LockOf[s] /\ ran = linked /\ Delegate \in linked /\ OutputOf(s)

Deleting == \E p \in Processes : pc[p] = "delete"

(* Whoever finds ready metadata, with the lock or without it, finds exactly *)
(* the packages of that lock, every link script run, the delegate, and the  *)
(* configured output: never a half-finished install, an install mixed from  *)
(* two locks, or one whose scripts were cut short (bootstrap,               *)
(* Fleet::install).  An interrupted removal is the exception.               *)
ReadyMeansComplete ==
  file["metadata"] \in Specs /\ ~Deleting /\ ~torn => Complete(file["metadata"])

(* What was somebody else's from the start, or was put in the place of a    *)
(* prefix later, is neither installed into nor removed, whatever operation  *)
(* had looked at the path before (prefix_disposition_for, Fleet::remove).   *)
ForeignUntouched == [][foreign => foreign' /\ UNCHANGED disk]_<<disk, foreign>>

(* "If an owned install was interrupted, the next install retries it"       *)
(* (fleet.md): a prefix with packages of ours in it is never refused.       *)
InterruptedIsRetried ==
  bootLock = NONE /\ ~foreign /\ ~torn /\ linked # {} => Disposition(FALSE) # "refuse"

(* One interruption is always recovered from, unless it comes while the     *)
(* temporary marker is written: the prefix is then retried or found ready   *)
(* (prefix_disposition_for, write_installing_for).                          *)
OneInterruptionIsRetried ==
  faults <= 1 /\ bootLock = NONE /\ ~foreign /\ ~torn /\ MarkerRead # Partial =>
    Disposition(FALSE) # "refuse"

(* A stamped runtime whose bootstrap was interrupted once becomes ready, as  *)
(* long as it is invoked again.                                             *)
BootstrapCompletes ==
  ~fleet /\ file["marker"] = Installing
    ~> (file["metadata"] \in Specs /\ MarkerRead = NONE) \/ faults > 1

-----------------------------------------------------------------------------
(* Why they hold: the inductive invariant *)

(* Besides the types: who is inside a locked section holds the lock.        *)
TypeOK ==
  /\ fleet \in BOOLEAN /\ exists \in BOOLEAN
  /\ file \in [Files -> Contents]
  /\ linked \subseteq Packages /\ ran \subseteq linked
  /\ bootLock \in Processes \union {NONE}
  /\ pc \in [Processes -> PCs] /\ op \in [Processes -> Ops]
  /\ spec \in [Processes -> Specs \union {NONE}]
  /\ reinstall \in [Processes -> BOOLEAN]
  /\ work \in [Processes -> [unlink : SUBSET Packages, link : SUBSET Packages,
                             scripts : SUBSET Packages]]
  /\ faults \in 0 .. MaxFaults /\ foreign \in BOOLEAN /\ torn \in BOOLEAN
  /\ \A p \in Processes : bootLock = p <=> pc[p] \in Locked

(* What the files may hold, in ours and in somebody else's directory.       *)
OurFiles ==
  /\ file["marker"] \in {NONE, Installing}
  /\ file["marker.tmp"] \in {NONE, Partial, Installing}
  /\ file["metadata"] \in Specs \union {NONE}
  /\ file["metadata.tmp"] \in Specs \union {NONE, Partial}

FilesInv ==
  /\ ~exists => Empty
  /\ foreign =>
       /\ exists /\ bootLock = NONE /\ file # NoFiles
       /\ file["marker"] \in {NONE, Foreign} /\ file["metadata"] \in {NONE, Foreign}
       /\ file["marker.tmp"] = NONE /\ file["metadata.tmp"] = NONE
  /\ ~foreign => OurFiles

(* Metadata that a reader would restore describes what is installed, too.   *)
MetadataInv ==
  ~Deleting /\ ~torn =>
    \A name \in {"metadata", "metadata.tmp"} : file[name] \in Specs => Complete(file[name])

(* The marker is there before the first package is touched, until the       *)
(* metadata is.                                                             *)
MarkerInv(p) ==
  /\ pc[p] \in Locked \ {"mark", "delete"} => exists
  /\ pc[p] = "unmark-ready" => file["metadata"] \in Specs /\ DelegateOK(Forced(p))
  /\ pc[p] = "fill-marker" => file["marker.tmp"] = Partial
  /\ pc[p] = "persist-marker" => file["marker.tmp"] = Installing
  /\ pc[p] \in {"invalidate", "reset", "begin", "transact", "reset-again", "configure", "validate",
                "create-metadata", "fill-metadata", "persist-metadata"} =>
       file["marker"] = Installing

(* The metadata goes before the packages change, and comes when they are    *)
(* complete.                                                                *)
ReadyInv(p) ==
  /\ pc[p] # "rest" => spec[p] \in Specs
  /\ pc[p] \in {"reset", "begin", "transact", "reset-again", "configure", "validate",
                "create-metadata"} => file["metadata"] = NONE /\ file["metadata.tmp"] = NONE
  /\ pc[p] = "fill-metadata" => file["metadata"] = NONE /\ file["metadata.tmp"] = Partial
  /\ pc[p] = "persist-metadata" => file["metadata"] = NONE /\ file["metadata.tmp"] = spec[p]
  /\ pc[p] = "unmark" => file["metadata"] = spec[p] /\ file["metadata.tmp"] = NONE

(* A first install starts from nothing, a later one replaces everything.    *)
PackagesInv(p) ==
  LET lock == LockOf[spec[p]]
      kept == linked \ work[p].unlink
  IN
    /\ pc[p] = "unmark-ready" => reinstall[p]
    /\ pc[p] \in {"mark", "create-marker", "fill-marker", "persist-marker", "invalidate", "reset",
                  "begin"} /\ ~reinstall[p] => linked = {}
    /\ pc[p] = "transact" =>
         /\ kept \union work[p].link = lock
         /\ work[p].link \subseteq work[p].scripts /\ work[p].scripts \subseteq lock
         /\ kept \ work[p].scripts \subseteq ran
    /\ pc[p] \in {"reset-again", "configure", "validate", "create-metadata", "fill-metadata",
                  "persist-metadata", "unmark"} => linked = lock /\ ran = lock
    /\ pc[p] = "configure" /\ fleet => file["output"] = NONE
    /\ pc[p] \in {"validate", "create-metadata", "fill-metadata", "persist-metadata", "unmark"} =>
         OutputOf(spec[p])
    /\ pc[p] \in {"create-metadata", "fill-metadata", "persist-metadata", "unmark"} =>
         Delegate \in linked

(* A prefix that the next install does not refuse, but for a partial marker.*)
Retried ==
  \/ MarkerRead \in {Installing, Partial}
  \/ Empty
  \/ MarkerRead = NONE /\ MetadataRead \in Specs /\ Delegate \in linked

(* An interruption leaves such a prefix if it is the first one; otherwise   *)
(* only an operation that ends on its own does.                             *)
RetryInv ==
  faults <= 1 /\ ~foreign /\ ~torn =>
    /\ bootLock = NONE => Retried
    /\ faults = 0 =>
         /\ ~Deleting => Retried
         /\ (\A p \in Processes : pc[p] \notin {"fill-marker", "persist-marker"}) =>
              file["marker.tmp"] = NONE

IInv ==
  /\ TypeOK /\ FilesInv /\ MetadataInv /\ RetryInv
  /\ \A p \in Processes : MarkerInv(p) /\ ReadyInv(p) /\ PackagesInv(p)
=============================================================================
