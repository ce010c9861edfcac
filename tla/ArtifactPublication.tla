------------------------ MODULE ArtifactPublication ------------------------
(***************************************************************************)
(* The builder, from a locked project to a published set of artifacts and  *)
(* an update package (bin/cs/artifact.rs, bundle.rs, update_package.rs).   *)
(*                                                                         *)
(* A build empties and fills the bundle directory of its project, archives *)
(* it, stages every artifact in a private directory, and publishes the     *)
(* files one by one under a lock of the output directory.  The .sha256     *)
(* file is removed first and published last: while it is there, it names a *)
(* complete set.  Packagers read the published info file and executable    *)
(* without the lock.                                                       *)
(*                                                                         *)
(* A builder is a project root: "Concurrent builds must use separate       *)
(* project roots" (trust-and-provenance.md), so one root runs one build at *)
(* a time.  All share one output directory and one artifact stem.          *)
(***************************************************************************)
EXTENDS Naturals

CONSTANTS
  Builders,      \* project roots
  Packagers,     \* processes that run cs package-update
  Projects,      \* what a build may find: records [layout, lock, version]
  MaxBuilds,     \* bound on the number of builds begun
  MaxFaults,     \* bound on failed calls and killed builds
  NONE, Partial  \* no file; an archive that was not finished

Layouts == {"online", "external", "embedded"}
Locks == {j.lock : j \in Projects}
Packages == UNION Locks
Versions == {j.version : j \in Projects}

Processes == Builders \union Packagers

ASSUME PublicationAssumption ==
  /\ Builders \intersect Packagers = {}
  /\ \A j \in Projects : j.layout \in Layouts
  /\ MaxBuilds \in Nat /\ MaxFaults \in Nat
  /\ NONE \notin Processes
  /\ NONE \notin [no : 1 .. MaxBuilds, project : Projects]

(* The files of a set, in the order in which they are published.            *)
After == [bundle |-> "lock", lock |-> "packages", packages |-> "sbom",
          sbom |-> "binary", binary |-> "info", info |-> "sha256", sha256 |-> "rest"]
Kinds == DOMAIN After

VARIABLES
  pc,         \* where each process is
  build,      \* of each builder: the build it runs, [no, project], or NONE
  dir,        \* of each builder: entries of .conda-ship/bundle
  archive,    \* of each builder: the generated bundle.tar.zst
  staged,     \* of each builder: the contents of its staging directory
  out,        \* the published files
  pubLock,    \* holder of the ArtifactPublicationLock
  job,        \* of each packager: what it has read
  final,      \* a finalized (signed) copy of a published executable, or NONE
  package,    \* the update package of each version, or NONE
  builds,     \* builds begun
  faults      \* failed calls and killed builds

rootVars == <<dir, archive>>
packageVars == <<job, final, package>>
vars == <<pc, build, rootVars, staged, out, pubLock, packageVars, builds, faults>>

Download(p) == <<"download", p>>   \* the temporary file of a download

Init ==
  /\ pc = [p \in Processes |-> "rest"]
  /\ build = [b \in Builders |-> NONE]
  /\ dir = [b \in Builders |-> {}]
  /\ archive = [b \in Builders |-> NONE]
  /\ staged = [b \in Builders |-> NONE]
  /\ out = [k \in Kinds |-> NONE]
  /\ pubLock = NONE
  /\ job = [q \in Packagers |-> NONE]
  /\ final = NONE
  /\ package = [v \in Versions |-> NONE]
  /\ builds = 0 /\ faults = 0

Goto(p, label) == pc' = [pc EXCEPT ![p] = label]

Layout(b) == build[b].project.layout
Lock(b) == build[b].project.lock

-----------------------------------------------------------------------------
(* build_artifact: the bundle *)

(* The project is read once; an online build makes no bundle.               *)
StartBuild(b) ==
  /\ pc[b] = "rest"
  /\ builds < MaxBuilds
  /\ builds' = builds + 1
  /\ \E j \in Projects :
       /\ build' = [build EXCEPT ![b] = [no |-> builds + 1, project |-> j]]
       /\ Goto(b, IF j.layout = "online" THEN "stage" ELSE "empty")
  /\ UNCHANGED <<rootVars, staged, out, pubLock, packageVars, faults>>

(* Mutation of EmptyBundleDir: what is there already is kept.               *)
KeepBundleDir(b) ==
  /\ pc[b] = "empty"
  /\ Goto(b, "download")
  /\ UNCHANGED <<build, rootVars, staged, out, pubLock, packageVars, builds, faults>>

(* download_and_bundle removes the directory an earlier build has left ...  *)
EmptyBundleDir(b) ==
  /\ pc[b] = "empty"
  /\ dir' = [dir EXCEPT ![b] = {}]
  /\ Goto(b, "download")
  /\ UNCHANGED <<build, archive, staged, out, pubLock, packageVars, builds, faults>>

(* ... and downloads, in any order, what the lock names.  A package gets    *)
(* its name only once its hash was verified.                                *)
DownloadPackage(b) ==
  /\ pc[b] = "download"
  /\ \E p \in Lock(b) \ dir[b] : dir' = [dir EXCEPT ![b] = @ \union {p}]
  /\ UNCHANGED <<pc, build, archive, staged, out, pubLock, packageVars, builds, faults>>

(* write_bundle creates the archive in its place ...                        *)
CreateArchive(b) ==
  /\ pc[b] = "download"
  /\ Lock(b) \subseteq dir[b]
  /\ archive' = [archive EXCEPT ![b] = Partial]
  /\ Goto(b, "archive")
  /\ UNCHANGED <<build, dir, staged, out, pubLock, packageVars, builds, faults>>

(* ... and adds every file of the directory.                                *)
FinishArchive(b) ==
  /\ pc[b] = "archive"
  /\ archive' = [archive EXCEPT ![b] = dir[b]]
  /\ Goto(b, "stage")
  /\ UNCHANGED <<build, dir, staged, out, pubLock, packageVars, builds, faults>>

-----------------------------------------------------------------------------
(* stage_artifacts *)

(* The stamped executable, which contains the bundle of an embedded build.  *)
Binary(b) ==
  [no |-> build[b].no, project |-> build[b].project, signed |-> FALSE,
   embedded |-> IF Layout(b) = "embedded" THEN archive[b] ELSE NONE]

(* Everything that ends up next to the executable; a checksum is the        *)
(* content itself.  write_artifact_metadata hashes the staged files.        *)
Payload(b) ==
  LET always == [lock |-> Lock(b), packages |-> Lock(b), sbom |-> build[b].no,
                 binary |-> Binary(b)]
  IN  IF Layout(b) = "external"
        THEN [k \in DOMAIN always \union {"bundle"} |->
                IF k = "bundle" THEN archive[b] ELSE always[k]]
        ELSE always

Info(b) == [project |-> build[b].project, checksums |-> Payload(b)]

Checksums(b) ==
  [k \in DOMAIN Payload(b) \union {"info"} |->
     IF k = "info" THEN Info(b) ELSE Payload(b)[k]]

(* All of it happens in a private directory.                                *)
StageArtifacts(b) ==
  /\ pc[b] = "stage"
  /\ staged' = [staged EXCEPT ![b] =
       [k \in DOMAIN Checksums(b) \union {"sha256"} |->
          IF k = "sha256" THEN Checksums(b) ELSE Checksums(b)[k]]]
  /\ Goto(b, "acquire")
  /\ UNCHANGED <<build, rootVars, out, pubLock, packageVars, builds, faults>>

-----------------------------------------------------------------------------
(* publish_staged_artifact_set *)

AcquireLock(b) ==
  /\ pc[b] = "acquire"
  /\ pubLock = NONE
  /\ pubLock' = b
  /\ Goto(b, "retire-marker")
  /\ UNCHANGED <<build, rootVars, staged, out, packageVars, builds, faults>>

(* The build is over; its staging directory and its lock are dropped.       *)
Ends(b) ==
  /\ Goto(b, "rest")
  /\ build' = [build EXCEPT ![b] = NONE]
  /\ staged' = [staged EXCEPT ![b] = NONE]
  /\ pubLock' = IF pubLock = b THEN NONE ELSE pubLock

(* Mutation of RetireMarker: there must be a marker to retire.              *)
RetireExistingMarker(b) ==
  /\ pc[b] = "retire-marker"
  /\ IF out["sha256"] = NONE
       THEN Ends(b) /\ UNCHANGED out
       ELSE /\ out' = [out EXCEPT !["sha256"] = NONE]
            /\ Goto(b, IF Layout(b) = "external" THEN "bundle" ELSE "retire-bundle")
            /\ UNCHANGED <<build, staged, pubLock>>
  /\ UNCHANGED <<rootVars, packageVars, builds, faults>>

(* Mutation of RetireMarker: the marker stays until the new one replaces it. *)
KeepMarker(b) ==
  /\ pc[b] = "retire-marker"
  /\ Goto(b, IF Layout(b) = "external" THEN "bundle" ELSE "retire-bundle")
  /\ UNCHANGED <<build, rootVars, staged, out, pubLock, packageVars, builds, faults>>

(* retire_completion_marker: the old set is no longer complete.             *)
RetireMarker(b) ==
  /\ pc[b] = "retire-marker"
  /\ out' = [out EXCEPT !["sha256"] = NONE]
  /\ Goto(b, IF Layout(b) = "external" THEN "bundle" ELSE "retire-bundle")
  /\ UNCHANGED <<build, rootVars, staged, pubLock, packageVars, builds, faults>>

(* retire_obsolete_bundle, where the new set has none.                      *)
RetireBundle(b) ==
  /\ pc[b] = "retire-bundle"
  /\ out' = [out EXCEPT !["bundle"] = NONE]
  /\ Goto(b, "lock")
  /\ UNCHANGED <<build, rootVars, staged, pubLock, packageVars, builds, faults>>

(* publish_staged_file: one rename.  The last one ends the build.           *)
PublishFile(b) ==
  /\ pc[b] \in Kinds
  /\ out' = [out EXCEPT ![pc[b]] = staged[b][pc[b]]]
  /\ IF pc[b] = "sha256"
       THEN Ends(b)
       ELSE Goto(b, After[pc[b]]) /\ UNCHANGED <<build, staged, pubLock>>
  /\ UNCHANGED <<rootVars, packageVars, builds, faults>>

(* What a build that stops now leaves in its bundle directory: part of what *)
(* it was removing, or temporary files of unfinished downloads.             *)
LeftBehind(b) ==
  CASE pc[b] = "empty"    -> SUBSET dir[b]
    [] pc[b] = "download" -> {dir[b] \union {Download(p) : p \in P} :
                                P \in SUBSET (Lock(b) \ dir[b])}
    [] OTHER              -> {dir[b]}

(* A call fails and the build returns the error, or the build is killed.    *)
Stop(b) ==
  /\ pc[b] # "rest"
  /\ faults < MaxFaults
  /\ faults' = faults + 1
  /\ \E left \in LeftBehind(b) : dir' = [dir EXCEPT ![b] = left]
  /\ Ends(b)
  /\ UNCHANGED <<archive, out, packageVars, builds>>

-----------------------------------------------------------------------------
(* package_update *)

(* Outside of the builder: a release step signs a copy of the executable.   *)
Sign ==
  /\ out["binary"] # NONE
  /\ final' = [out["binary"] EXCEPT !.signed = TRUE]
  /\ UNCHANGED <<pc, build, rootVars, staged, out, pubLock, job, package, builds,
                 faults>>

PackagerEnds(q) ==
  /\ Goto(q, "rest")
  /\ job' = [job EXCEPT ![q] = NONE]

(* Read and validate the info file: external artifacts are refused.         *)
ReadInfo(q) ==
  /\ pc[q] = "rest"
  /\ out["info"] # NONE /\ out["info"].project.layout # "external"
  /\ \E override \in BOOLEAN :
       job' = [job EXCEPT ![q] = [info |-> out["info"], override |-> override,
                                  snapshot |-> NONE]]
  /\ Goto(q, "snapshot")
  /\ UNCHANGED <<build, rootVars, staged, out, pubLock, final, package, builds,
                 faults>>

(* Mutation of Valid: the checksum is checked for signed executables only,  *)
(* where --binary was given.                                                *)
ValidStamp(info, override, binary) ==
  /\ binary.project.version = info.project.version
  /\ binary.project.layout = info.project.layout

(* validate_recorded_binary_checksum and validate_stamp                     *)
Valid(info, override, binary) ==
  /\ ~override => binary = info.checksums["binary"]
  /\ binary.project.version = info.project.version
  /\ binary.project.layout = info.project.layout

(* Copy the executable and validate the copy.                               *)
TakeSnapshot(q) ==
  /\ pc[q] = "snapshot"
  /\ LET info == job[q].info
         override == job[q].override
         binary == IF override THEN final ELSE out["binary"]
     IN  IF binary # NONE /\ Valid(info, override, binary)
           THEN /\ job' = [job EXCEPT ![q].snapshot = binary]
                /\ Goto(q, "check")
           ELSE PackagerEnds(q)
  /\ UNCHANGED <<build, rootVars, staged, out, pubLock, final, package, builds,
                 faults>>

Version(q) == job[q].snapshot.project.version

(* Refuse early when the package exists.                                    *)
CheckOutput(q) ==
  /\ pc[q] = "check"
  /\ IF package[Version(q)] # NONE
       THEN PackagerEnds(q)
       ELSE Goto(q, "persist") /\ UNCHANGED job
  /\ UNCHANGED <<build, rootVars, staged, out, pubLock, final, package, builds,
                 faults>>

(* Mutation of PersistPackage: persist instead of persist_noclobber.        *)
PersistClobbering(q) ==
  /\ pc[q] = "persist"
  /\ package' = [package EXCEPT ![Version(q)] = job[q].snapshot]
  /\ Goto(q, "report")
  /\ UNCHANGED <<build, rootVars, staged, out, pubLock, job, final, builds, faults>>

(* The package was written to a temporary file; it gets its name unless it  *)
(* is taken by now.                                                         *)
PersistPackage(q) ==
  /\ pc[q] = "persist"
  /\ IF package[Version(q)] # NONE
       THEN PackagerEnds(q) /\ UNCHANGED package
       ELSE /\ package' = [package EXCEPT ![Version(q)] = job[q].snapshot]
            /\ Goto(q, "report") /\ UNCHANGED job
  /\ UNCHANGED <<build, rootVars, staged, out, pubLock, final, builds, faults>>

(* Hash the package by its name, and report it with the digest of the       *)
(* snapshot.                                                                *)
Report(q) ==
  /\ pc[q] = "report"
  /\ PackagerEnds(q)
  /\ UNCHANGED <<build, rootVars, staged, out, pubLock, final, package, builds, faults>>

-----------------------------------------------------------------------------
BuildStep(b) ==
  \/ EmptyBundleDir(b) \/ DownloadPackage(b) \/ CreateArchive(b) \/ FinishArchive(b)
  \/ StageArtifacts(b) \/ RetireMarker(b) \/ RetireBundle(b) \/ PublishFile(b)

PackageStep(q) ==
  \/ ReadInfo(q) \/ TakeSnapshot(q) \/ CheckOutput(q) \/ PersistPackage(q) \/ Report(q)

Next ==
  \/ \E b \in Builders : StartBuild(b) \/ BuildStep(b) \/ AcquireLock(b) \/ Stop(b)
  \/ \E q \in Packagers : PackageStep(q)
  \/ Sign

Spec == Init /\ [][Next]_vars

(* A running build goes on, and gets the lock if it is dropped again and    *)
(* again.                                                                   *)
Fairness ==
  \A b \in Builders : WF_vars(BuildStep(b)) /\ SF_vars(AcquireLock(b))

FairSpec == Spec /\ Fairness
-----------------------------------------------------------------------------
(* Properties *)

BuilderPCs ==
  Kinds \union {"rest", "empty", "download", "archive", "stage", "acquire",
                "retire-marker", "retire-bundle"}
PackagerPCs == {"rest", "snapshot", "check", "persist", "report"}

Publishing == Kinds \union {"retire-marker", "retire-bundle"}

(* Types, and that whoever publishes holds the lock.                        *)
TypeOK ==
  /\ pc \in [Processes -> BuilderPCs \union PackagerPCs]
  /\ \A q \in Packagers : pc[q] \in PackagerPCs
  /\ DOMAIN build = Builders /\ DOMAIN staged = Builders /\ DOMAIN job = Packagers
  /\ \A b \in Builders :
       /\ pc[b] \in BuilderPCs
       /\ IF pc[b] = "rest"
            THEN build[b] = NONE
            ELSE build[b] \in [no : 1 .. MaxBuilds, project : Projects]
       /\ pubLock = b <=> pc[b] \in Publishing
  /\ dir \in [Builders -> SUBSET (Packages \union {Download(p) : p \in Packages})]
  /\ archive \in [Builders -> (SUBSET Packages) \union {NONE, Partial}]
  /\ pubLock \in Builders \union {NONE}
  /\ DOMAIN out = Kinds /\ DOMAIN package = Versions
  /\ builds \in 0 .. MaxBuilds /\ faults \in 0 .. MaxFaults

(* Whether every file is the one that marker and info file name, and no     *)
(* bundle lies beside them that they do not name.                           *)
Verifies(files) ==
  LET marker == files["sha256"]
  IN  /\ \A k \in DOMAIN marker : files[k] = marker[k]
      /\ marker["info"].checksums = [k \in DOMAIN marker \ {"info"} |-> marker[k]]
      /\ files["bundle"] # NONE => "bundle" \in DOMAIN marker

(* "Ordinary signing or rename failures therefore cannot leave an old       *)
(* manifest beside a mixed set" (trust-and-provenance.md): while there is a *)
(* completion marker, every file it names has the content it names, they    *)
(* are all of one build, and no bundle of another one lies beside them.     *)
CompleteSetIsOneBuild == out["sha256"] # NONE => Verifies(out)

BundleOf(files) ==
  IF files["binary"].project.layout = "embedded"
    THEN files["binary"].embedded
    ELSE files["bundle"]

(* The bundle of a complete set has exactly the packages of its lock,       *)
(* whatever an interrupted build or one of another lock left in the bundle  *)
(* directory and in the archive (download_and_bundle, write_bundle).        *)
BundleHasLockedPackages ==
  out["sha256"] # NONE /\ out["binary"].project.layout # "online" =>
    BundleOf(out) = out["lock"]

(* What the completion marker lets a reader find.                           *)
CompleteSet ==
  IF out["sha256"] = NONE
    THEN NONE
    ELSE [build |-> [no |-> out["binary"].no, project |-> out["binary"].project],
          info |-> out["info"].project, sbom |-> out["sbom"],
          lock |-> out["lock"], packages |-> out["packages"],
          embedded |-> out["binary"].embedded, bundle |-> out["bundle"],
          verifies |-> Verifies(out)]

Atomic == INSTANCE AtomicPublication
            WITH running <- build, publisher <- pubLock,
                 published <- CompleteSet, begun <- builds

(* To whoever waits for the marker, a build replaces the set of another one *)
(* as a whole, as the only publisher, and only by what its own project      *)
(* locks, although it publishes file by file and any step may be the last   *)
(* (publish_staged_artifact_set).                                           *)
ImplementsAtomicPublication == Atomic!Spec

(* What the two invariants above rest on, for each builder at work.         *)

(* The bundle directory and the archive, until the set is staged.           *)
BundleCorrect(b) ==
  /\ pc[b] \in {"empty", "download", "archive"} => Layout(b) # "online"
  /\ pc[b] = "download" => dir[b] \subseteq Lock(b)
  /\ pc[b] = "archive" => dir[b] = Lock(b)
  /\ pc[b] = "stage" /\ Layout(b) # "online" => archive[b] = Lock(b)

(* The staged set names its own files and has the bundle of its lock.       *)
StagedCorrect(b) ==
  LET files == DOMAIN staged[b]
  IN  pc[b] \in Publishing \union {"acquire"} =>
        /\ files = IF Layout(b) = "external" THEN Kinds ELSE Kinds \ {"bundle"}
        /\ staged[b]["sha256"] = [k \in files \ {"sha256"} |-> staged[b][k]]
        /\ staged[b]["info"].checksums =
             [k \in files \ {"sha256", "info"} |-> staged[b][k]]
        /\ staged[b]["binary"].project = build[b].project
        /\ Layout(b) # "online" => BundleOf(staged[b]) = staged[b]["lock"]

(* The files that are published before the given one.                       *)
Before ==
  [bundle |-> {}, lock |-> {"bundle"}, packages |-> {"bundle", "lock"},
   sbom |-> {"bundle", "lock", "packages"},
   binary |-> {"bundle", "lock", "packages", "sbom"},
   info |-> {"bundle", "lock", "packages", "sbom", "binary"},
   sha256 |-> {"bundle", "lock", "packages", "sbom", "binary", "info"}]

(* While a set is published there is no marker, what was published is the   *)
(* builder's, and an obsolete bundle is gone.                               *)
PublishedCorrect(b) ==
  /\ pc[b] \in Kinds \union {"retire-bundle"} => out["sha256"] = NONE
  /\ pc[b] = "retire-bundle" => Layout(b) # "external"
  /\ pc[b] = "bundle" => Layout(b) = "external"
  /\ pc[b] \in Kinds =>
       /\ \A k \in Before[pc[b]] \intersect DOMAIN staged[b] : out[k] = staged[b][k]
       /\ Layout(b) # "external" => out["bundle"] = NONE

(* The inductive invariant.                                                 *)
IInv ==
  /\ TypeOK
  /\ \A b \in Builders : BundleCorrect(b) /\ StagedCorrect(b) /\ PublishedCorrect(b)
  /\ CompleteSetIsOneBuild
  /\ BundleHasLockedPackages

(* package_update reads the info file and the executable at different times *)
(* while builds replace them: a package comes from the executable the info  *)
(* describes, or, with --binary, from one with the same identity, and an    *)
(* embedded bundle is complete.                                             *)
PackagedMatchesInfo ==
  \A q \in Packagers : pc[q] = "report" =>
    LET info == job[q].info
        payload == package[Version(q)]
    IN  /\ ~job[q].override => payload = info.checksums["binary"]
        /\ payload.project.version = info.project.version
        /\ payload.embedded # NONE => payload.embedded = payload.project.lock

(* "The command refuses to overwrite an existing file" (cli.md), and the    *)
(* digests it reports are those of the package with that name, also when    *)
(* two processes package the same version at once.                          *)
ReportedIsThePackage ==
  \A q \in Packagers : pc[q] = "report" => package[Version(q)] = job[q].snapshot

(* What these two rest on.  Whoever stamps, signs or packages an executable *)
(* passes on one whose embedded bundle, if any, is that of its lock, and a  *)
(* packager past validation has an executable its info allows.              *)
IsStamped(binary) ==
  /\ binary \in [no : 1 .. MaxBuilds, project : Projects, signed : BOOLEAN,
                 embedded : (SUBSET Packages) \union {NONE}]
  /\ binary.embedded # NONE => binary.embedded = binary.project.lock

JobCorrect(q) ==
  /\ pc[q] # "rest" =>
       DOMAIN job[q] = {"info", "override", "snapshot"} /\ job[q].override \in BOOLEAN
  /\ pc[q] \in {"check", "persist", "report"} =>
       /\ job[q].snapshot # NONE /\ IsStamped(job[q].snapshot)
       /\ Valid(job[q].info, job[q].override, job[q].snapshot)
  /\ pc[q] = "report" => package[Version(q)] = job[q].snapshot

PackageInv ==
  /\ \A b \in Builders :
       pc[b] \in Publishing \union {"acquire"} => IsStamped(staged[b]["binary"])
  /\ out["binary"] # NONE => IsStamped(out["binary"])
  /\ final # NONE => IsStamped(final)
  /\ \A q \in Packagers : JobCorrect(q)

(* A build that nothing disturbs any more publishes its set, whatever       *)
(* earlier builds have left and whoever else publishes.                     *)
UndisturbedBuildPublishes ==
  \A n \in 1 .. MaxBuilds :
    (faults = MaxFaults /\ \E b \in Builders : build[b] # NONE /\ build[b].no = n)
      ~> (out["sha256"] # NONE /\ out["binary"].no = n)
=============================================================================
