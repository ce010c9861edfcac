# conda-ship: TLA+ specifications and proofs

conda-ship turns a locked conda environment into one native executable. The
builder (`cs`) stamps a lock, and optionally a bundle of packages, onto a
runtime executable; that runtime installs the packages into a managed prefix
on its first invocation, keeps a metadata file there, hands over to a delegate
executable of the prefix, and can later be replaced by a newer version of
itself in coordination with whoever updates the packages. `Fleet` is the same
installation machinery as a library.

This directory holds TLA+ modules of the parts of that program in which a
crash, a failed system call or another process can come between two steps,
the TLC configurations that check them, and TLAPS proofs of the safety properties
for every value of the constants. Paths below are relative to the repository; `src/`
there holds the Rust code. `PROJECT.json` is the machine-readable index: runs,
mutants of the code that each property catches, the source lines of every
definition, the hazards, the findings and the theorems.

## Inventory

### Components

| Component | Code | State it keeps | Operations |
| --- | --- | --- | --- |
| Executable-update engine | `executable_update.rs` | update record in the prefix metadata; stable executable, adjacent candidate, backup and worker copy | stage, mark ready, apply, recover, discard, reconcile, record installation; on Windows a detached worker |
| Update helpers and coordination | `runtime_update.rs`, `main.rs` | coordination lock | the hidden `v1/...` actions a coordinator spawns; recovery at every invocation |
| Update selection | `runtime_update.rs` | repodata cache with its lock, package cache | load repodata, select and confirm a package, fetch and validate it; probe for a notification |
| Prefix metadata | `config.rs` | `.RUNTIME_NAME.json` with temporary file and backup | write, read with restoration, invalidate |
| Bootstrap lock | `bootstrap_lock.rs` | a lock file beside the prefix | acquire, dropped with the process |
| Stamped bootstrap | `commands.rs`, `bootstrap_state.rs` | installing marker, packages, policy outputs, ready metadata | judge the prefix, bootstrap, retry |
| Fleet library | `fleet.rs` | the same for one prefix per runtime id | install, forced install, get, list, remove |
| Package installation | `install.rs` | package cache shared by all runtimes of a user, unpacked embedded bundle, private copies, prefix records | unpack the embedded bundle; index, copy and verify a bundle; stage it into the cache; run the rattler installer |
| Stamped data | `runtime_data.rs` | header, bundle and footer in the executable, within the layout rules of PE and Mach-O | stamp a template through a temporary file; read and validate a stamp |
| Policy and Constructor outputs | `policy.rs`, `constructor_metadata.rs` | `.condarc`, `frozen`, `.installer.info` and others | written during an install |
| Delegate execution | `exec.rs` | none | validate and replace the process |
| Bundle construction | `bin/cs/bundle.rs` | bundle directory and archive of a project root | empty the directory, download and verify, archive |
| Artifact publication | `bin/cs/artifact.rs` | staging directory, published files, completion marker, publication lock | stamp, write metadata, retire the old set, publish file by file |
| Update packages | `bin/cs/update_package.rs` | packages in the output directory | snapshot and validate a published executable, package it |
| Rest of the builder | `bin/cs.rs`, `project.rs`, `sbom.rs`, `diagnostic.rs` | none | resolve a project, render documents |
| Python integration, CI | `python/`, `action.yml`, `.github/` | none | locate and run the builder |

### Interactions

- Ordinary invocations, update helpers, the Windows worker and Fleet callers
  are separate processes. They share files and two locks: the bootstrap lock of
  a prefix, taken by every function that writes there, and the coordination
  lock, held by an external coordinator for a whole package transaction and
  only probed by the runtime.
- An ordinary invocation bootstraps, recovers a pending update, initializes or
  reconciles the ownership record, and then becomes the delegate.
- A coordinator takes its lock, spawns a check helper and a stage helper, runs
  its own package transaction, spawns the apply helper, and unlocks. Nothing
  ties a helper's life to its coordinator's.
- Builds of different project roots share an output directory and the
  publication lock of an artifact stem. Packagers, release steps and users read
  the published files without it and rely on the `.sha256` completion marker.
- Users, package managers and installers change the stable executable, delete
  adjacent files and put files into prefixes without any lock.

### Hard behaviours and what makes each component correct

| Component | What is hard | What must hold |
| --- | --- | --- |
| Update engine | a crash or failed call between recording a phase, renaming and committing; recovery must know each resulting combination | the record describes the executable that is there; recovery never refuses what the engine itself left; only approved updates are installed; every update ends |
| Coordination | liveness of the coordinator is inferred from its lock; helpers can outlive it | what is staged is not approved, discarded or replaced by someone else while its coordinator is at work; no downgrade |
| Windows worker | the replacement happens after the invocation returned, retried with a deadline, by several workers at once | the same promise as on Unix; a copy of the old executable exists until the new one is in place |
| Update selection | the channel changes between check, confirmation, repodata and download; prefixes and notification hooks share the caches and read them without a lock | what is staged is what the user confirmed; a probe never mistakes something else for repodata and waits for nobody |
| Ownership | the record is read before the lock is taken; the executable at the path may have been replaced, by a newer, an older or an equally stamped one | external stays external; recorded version and digest belong together; a pending update is not overwritten; what replaced an external executable is reconciled |
| Metadata | two renames with a gap; reading has side effects; some readers have no lock | there is always metadata that parses, with every acknowledged write |
| Bootstrap and Fleet | many effects in a row, two markers of progress with temporary files, packages recorded before their scripts run | ready means complete; an interrupted install is retried; foreign prefixes are untouched |
| Package installation | archives change between index, copy, digest check and use; the executable is replaced after its header was read; the cache trusts what it is given | only content with a locked digest reaches cache and prefix; an installation is of one version; an unpacked bundle outlives only an installation that was killed or failed to remove it |
| Stamped data | three layouts with their alignments and signatures, whose bytes may look like a stamp; template and bundle are read twice without a lock | a stamp reads back whatever is signed over it; the program stays as it was; a stamp is of one version of its inputs; the writer accepts nothing the reader refuses |
| Bundle construction | an interrupted build, or one of another lock, leaves files that the archive would take along | the bundle of a set has exactly the packages of its lock |
| Publication | several files published one by one, by several builds | a completion marker lies beside the complete set of one build only; the next build always gets through |
| Update packages | info file and executable are read at different times while builds replace them | a package is the executable its info file describes, and the report is about that package |

`PROJECT.json` lists the hazards one by one with their lines.

## Modules

| Module | Models |
| --- | --- |
| `UpdateRecord` | record, phases, file classification, Unix recovery table |
| `AtomicUpdate` | abstract specification of an update |
| `ExecutableUpdate` | Unix engine, helpers, coordinators, invocations |
| `WindowsUpdate` | deferred replacement with workers |
| `InstallationOwnership` | ownership record, reconciliation |
| `UpdateSelection` | repodata and package caches, selection, confirmation, probes |
| `AtomicMetadata` | abstract specification of metadata under the lock |
| `MetadataFile` | metadata, temporary file, backup |
| `ManagedPrefix` | bootstrap, Fleet install and remove |
| `BundleInstall` | embedded and configured bundles, package cache, installation |
| `RuntimeDataLayout` | the layouts of stamped files: what the writer accepts and writes, what the reader finds (operators) |
| `RuntimeStamping` | stamping a template step by step, signers, other programs |
| `AtomicPublication` | abstract specification of published sets |
| `ArtifactPublication` | bundle, staging, publication and update packages of the builder |
| `ExecutableUpdateProofs`, `WindowsUpdateProofs`, `UpdateSelectionProofs`, `MetadataFileProofs`, `ManagedPrefixProofs`, `BundleInstallProofs`, `ArtifactPublicationProofs` | theorems about the module each is named after |
| `StampedRuntimeProofs` | theorems about the layout operators, `RuntimeStamping` and `InstallationOwnership`: an executable from its stamp to what is recorded of it |

An `MC...` module only extends its module with constants for TLC and the
symmetry sets. A definition whose comment begins with "Mutation of" is a plausible
bug in the code: it takes no part in the specification, and `PROJECT.json` says
which property finds it. Each module but the abstract ones and the two of pure
operators ends with the inductive invariant its properties rest on (`IInv`);
that of `RuntimeStamping` is in `StampedRuntimeProofs`. The names of its
specification (`StampInit`, `StampNext`, `StampSpec`) are its own because that
module extends `InstallationOwnership` as well.

How they fit together: `AtomicUpdate` is what `ExecutableUpdate` and
`WindowsUpdate` implement and what `InstallationOwnership` and `UpdateSelection`
assume of the engine. `MetadataFile` implements `AtomicMetadata`, whose
all-or-nothing write the engines call `Persisted`. `BundleInstall` looks into the step that
`ManagedPrefix` takes as the installer's. `RuntimeDataLayout` is used by
`RuntimeStamping`, which is the step `StageArtifacts` of `ArtifactPublication`,
which implements `AtomicPublication`;
what it promises, a stamp of one version that reads back, is what `BundleInstall`
assumes of an executable.

### UpdateRecord and AtomicUpdate

`UpdateRecord` has the persisted record (`config.rs`) and the two pure
functions everything turns on: `classify_files` and the recovery table of
`apply_or_recover_locked`. An executable is a version: its digest, build and
header are functions of that, and files are named by digest, so a name is
absent or holds its version.

`AtomicUpdate` says what a user of the engine may rely on, without phases and
files. One update is on offer; it can be withdrawn only if its payload is gone;
once approved it is installed in one step, or given up if its payload was lost.
`ExecutableUpdate` and `WindowsUpdate` implement it: `installed` is the
executable at the stable path, and the offer ends with the rename, so the
commit and the cleanup after it are stuttering steps (`CurrentOffer`).

### ExecutableUpdate

A process is at a place (`pc`) in one engine function (`op`); the places name
the next file-system effect. Taking the lock, reading and deciding is one step:
everything the decision reads is only written under the same lock, but for a
candidate that somebody deletes, and that is an action (`LoseCandidate`).

| Code | Actions |
| --- | --- |
| `recover_pending_with` (recover, discard) | `RecoverPending`, `ProbeUpdateLock`, `EndProbe`, `Unlink`, `Clear` |
| `stage_candidate`, `stage_file` | `StageCandidate`, `Copy`, `Link`, `RecordStaged`, `UndoStage` |
| `mark_pending_ready`, `apply_pending` | `MarkPendingReady`, `Approve`, `ApplyPending` |
| `apply_or_recover_locked`, `replace_candidate`, `commit_new_version` | `Begin`, `Swap`, `Commit` |
| `run_internal_helper` | `HelperStart`, `HelperExits`, `FinishCheck`, `ContinueStage`, `FinishStage`, `ContinueApply`, `FinishApply` |
| `main.rs` and `recover_pending` of `runtime_update.rs` | `Invoke`, `Finish` |
| the documented coordinator (external) | `StartCheck`, `StartStage`, `StartApply`, `GiveUp`, `Release` |
| the world | `Publish`, `Crash`, `CoordinatorDies`, `LoseCandidate` |

Writing the metadata is one step with three outcomes (done, failed before, and
failed after the rename), the outcomes of `persist_metadata_for` that
`MetadataFile` has in detail (`ImplementsAtomicMetadata`). `sponsor` and `approved`
are history variables.

### WindowsUpdate

The recovery of `recover_or_schedule_windows_locked`: preparing the worker's
copy, recording "replacing", spawning, restoring a missing target, and cleaning
up. A worker loops over `run_windows_worker_once` until its deadline. `image`
is the file each process runs from: Windows does not rename over it. Staging is
one action here, its steps being in `ExecutableUpdate`.

### InstallationOwnership

`initialize_current` and `reconcile_current` read the record without the lock
(one step) and hand what they concluded (`stash`) to the locked
`reconcile_current_executable` (another step, which reads again).
`record_installation` is one step under the lock. A package manager can replace
the file at any moment, and a coordinated update is the offer and installation
of `AtomicUpdate`, which makes this module the composition of ownership with
the engine's promise.

An executable (`Exes`) stands for its bytes, and so for its digest; `IdentityOf` is
the version and build number stamped in it. They are kept apart because the code
compares now one, now the other: `initialize_current` looks for a changed version
or build number and never at the digest, the checks under the lock compare digests,
and `verify_stamped_file` the version alone. A package manager or installer puts
any executable at any path: newer, older, or with the same stamp and other bytes.
All executables are of one runtime, so artifact name, channel and package never
differ. `record-installation` is asked for anything (`Request`) but what it refuses
before it takes the lock: a direct installation with an instruction, an empty label
or an empty instruction.

### UpdateSelection

What `ExecutableUpdate` calls selecting: one remote channel whose list of
packages changes (`Publish`), the repodata cache file with its lock, the package
cache, and for each prefix the package the coordinator was offered and the
executable that is staged. The caches belong to the user, so prefixes share them.
The check and stage helpers of one prefix never run at once (their coordinator
holds its lock); a probe of a notification hook may run at any time.

| Code | Actions |
| --- | --- |
| `run_internal_helper` (check, stage) | `StartCheck`, `StartStage`, `StagePackage` |
| `load_repodata` | `ReadCache` offline, `Download` online |
| `write_cache_file` | `LockCache`, `RemoveCache`, `PersistCache` |
| `select_candidate`, `require_selected_candidate` | `SelectForCheck`, `SelectForStage` with `Candidates`, `Selectable`, `Newest`, `IsConfirmed` |
| `fetch_package_into`, `validate_extracted_candidate` | `FetchPackage`, `StagePackage` with `Validated` |
| `probe`, `probe_channel`, `try_write_cache_file` | `StartProbe`, `ReadMetadata`, `Request`, `TryLock`, `ReplaceCache`, `OpenCache`, `Report` |
| a killed helper or a failed call | `Stop`, at any place and any number of times |

A package is its version, build number and digest, with two flags: repodata has
size and digest (`complete`), and the executable inside is stamped as the index
says (`sound`). A request returns the channel's list, JSON without package maps
(`Unrelated`) or something that does not parse (`Garbage`); a download returns
anything that has the package's file name, which does not contain its digest.
Applying a staged update is one step, the promise of `AtomicUpdate`.

### MetadataFile and AtomicMetadata

Three paths, the content being the number of the write that produced it. Writers
read and write under the lock, as every caller of `persist_metadata_for` does;
readers do not take the lock, as `initialize_current`, `reconcile_current` and
the helpers do not. A rename may fail although it should succeed, which is what
the code's fallback is for. A reader moves a file only after such a failure; the
history variable `meddled` says that one did.

`AtomicMetadata` has one value and the lock. Its value is `Effective`, what a
reading of the three paths would return, so the step that writes is the one rename
(or, after a fallback, the one removal) that changes that; reading, restoring and
cleaning up are stutters or the end of a reading. A write that fails may have been
rolled back. Once a reader without the lock has moved a file, nothing is promised.
`WritesAreAllOrNothing`, which it implies, is the part the engines rely on.

### ManagedPrefix

One prefix, either of a stamped runtime or of Fleet (`fleet`, chosen
initially), initially missing, empty, unknown or of another runtime. The state
is the files that `prefix_disposition_for` and `Fleet::remove` look at, the
packages recorded as installed and those whose link scripts ran. The steps
follow `bootstrap` and `Fleet::install`, which share their order; where they
differ (Fleet resets its policy outputs) the action is guarded by `fleet`.
Rattler's installer is external: it unlinks, links and then runs scripts, for
what is not recorded and for what it is told to reinstall. `Disposition` and
`Removable` are the two judgements the safety of foreign data rests on.

### BundleInstall

Several processes run `bootstrap` of the same runtime, or of two versions of it,
each into a prefix of its own. They share the package cache and, if they were
given one, a directory of package archives. A content stands for the bytes of one
archive and for their digest, so a lock is a content for every package.

| Code | Actions |
| --- | --- |
| `bootstrap` up to the installation | `Start`, `Cleanup`, `Kill` |
| `extract_embedded_bundle`, `EmbeddedBundle::open_verified` | `Extract` with `ReadsAsHeader` |
| `index_bundle_dir` | `IndexBundle` |
| `match_records_to_bundle`, `verify_bundle_package` | `OpenArchive`, `CopyArchive`, `VerifyCopy` with `Verified`, `Matched` |
| staging into the package cache | `StorePackage`, `Stored` |
| `Installer::install` (external) | `DownloadPackage`, `LinkPackage`, `Installed` |
| a failed call, a killed process | `FailingCall`, `Kill` |
| users and updates | `ChangeDirectory`, `ReplaceExecutable` |

A copy of an archive that is overwritten meanwhile is the old content, the new one
or neither (`Torn`). The cache keeps what it has under a digest and otherwise
believes the record it is given, which is how `get_or_fetch_from_path` is called.
`extracted` is the directory with the unpacked bundle as long as it is on disk.
`bootstrap` removes it whatever the installation returned, and ignores whether that
worked; a killed process does not get there. In both cases `abandoned` says so: no
later invocation knows the directory, which has a random name.
Without a download client the installer is assumed not to download. What bootstrap
does before and after, and installing into a prefix that has records, is in
`ManagedPrefix`.

### RuntimeDataLayout and RuntimeStamping

A file is a sequence of cells and an image, which is what its headers parse to.
One cell stands for what is read and written whole: a footer, a section header, a
load command, the JSON header. `RuntimeDataLayout` has the conditions and offset
computations of the code one by one: `pe_layout_from_file` (`PeAccepted`),
`write_pe_runtime_data`, `read_pe_runtime_data` with the certificate table and
the older stamps without an anchor section; `read_macho_layout` (`MachOAccepted`),
`validate_macho_final_layout` (`FinalLayout`), `write_macho_runtime_data`,
`read_macho_runtime_data`; and the plain append for other formats.

| Code | Actions of `RuntimeStamping` |
| --- | --- |
| `stamp_runtime_data` | `BeginStamp` |
| `BundleSource::open`, the template, the temporary file | `OpenBundle`, `OpenTemplate`, `CreateTemporary` |
| the copy of the template, its length and time, its digest | `CopyFirst`, `CopyRest`, `Recheck`, `HashFirst`, `HashRest` |
| the copy of the bundle and its checks | `CopyBundleFirst`, `CopyBundleRest`, `RecheckBundle`, `HashBundleFirst`, `HashBundleRest`, `RecheckHashedBundle` |
| writing the layout, reading it back | `WriteStamp`, `ReadBack` |
| path checks and rename | `CheckTemporary`, `CheckTemplate`, `Rename`, `CheckPersisted` |
| `codesign`, Authenticode (external) | `Sign` |
| other programs | `OverwriteTemplate`, `ReplaceTemplate`, `ReplaceTemporary`, `OverwriteBundle` |

Each copy and each digest takes two reads, so an overwrite can come between them;
it may keep the length and the modification time (`silent`). The layout is
written in one step because nobody reads the temporary file before it is whole.
Checked additions, the initialized-data size and the section characteristics are
left out. `Executables` is the set of all files the operators speak of.

The signers are external, and what is assumed of them is named. `codesign` refuses
an image whose layout is not valid or that has no room for its load command
(`Signable`, `RoomForSignature`); its signature is not empty. An Authenticode
signature is a table of whole certificate entries. The proofs need each of these.

### ArtifactPublication and AtomicPublication

A builder is a project root and runs one build at a time: the documentation asks
for separate roots, because nothing locks the bundle directory
(`docs/explanation/trust-and-provenance.md`). All roots publish one stem into
one output directory. A package archive is its name, a checksum is the content
itself, a project is its layout, its set of packages and its version.

| Code | Actions |
| --- | --- |
| `build_artifact`, `resolve_artifact_layout` | `StartBuild` |
| `download_and_bundle`, `write_bundle` | `EmptyBundleDir`, `DownloadPackage`, `CreateArchive`, `FinishArchive` |
| `stamp_runtime_data`, `write_artifact_metadata` in `stage_artifacts` | `StageArtifacts` |
| `ArtifactPublicationLock::acquire` | `AcquireLock` |
| `retire_completion_marker`, `retire_obsolete_bundle` | `RetireMarker`, `RetireBundle` |
| `publish_staged_file` | `PublishFile`, once for each file in the order `After` |
| `package_update` | `ReadInfo`, `TakeSnapshot`, `CheckOutput`, `PersistPackage`, `Report` |
| a failed call or a killed build | `Stop`, with what `LeftBehind` says stays in the bundle directory |
| signing between a build and its packaging (external) | `Sign` |

Staging happens in a private directory and is one step; so is a verified
download, whose temporary file appears only in `LeftBehind`. The generated
`runtime.lock` is left out: it is written and only its name is used. A
packager's snapshot is one step although `fs::copy` is not atomic: the file it
has opened is never written again, only replaced.

In `AtomicPublication` a build publishes its set in one step, and `ArtifactsOf` is
that set: an executable, an info file, locks and a bundle of one project, with
checksums that verify. Its `published` is `CompleteSet`, what lies beside a
completion marker, so the last rename is the step `Publish`, removing the marker is
`Retire`, and everything in between is a stutter. A failure leaves the old set or
none. A reader who does not look for the marker, as a packager does not, is promised
nothing by it; `PackagedMatchesInfo` is about that one. `CompleteSetIsOneBuild`
is the part about checksums.

## Runs

`tlc -config X.cfg M` in this directory. Passing runs:

| Run | Question | Bounds |
| --- | --- | --- |
| `MCExecutableUpdate` | record and executable agree, recovery knows every state, approval and staged candidates are respected, no downgrade, refinement of `AtomicUpdate`, updates end, approved ones are installed | 2 coordinators, 1 process that is invoked again and again, versions 0..2, 2 faults |
| `MCWindowsUpdate` | the same safety on Windows, the backup outlives the replacement, updates end and approved ones are installed | 1 runtime, killed and invoked again, 2 workers, versions 0..2, 5 faults, the executable may vanish |
| `MCInstallationOwnership` | recorded version and digest belong together, what was recorded is kept, only coordinated updates take effect, an external replacement is reconciled | 2 processes, 2 paths, 2 labels, 1 instruction, 3 executables, two of which carry the same stamp |
| `MCUpdateSelection` | the staged package is the confirmed one, probes answer from real repodata and wait for nobody | a direct and an external prefix, 1 probe, 4 packages (a later build, the same version with other bytes and a wrong stamp, one without a digest), 3 lists of the channel, any number of deaths |
| `MCMetadataFile` | an acknowledged write is durable, and the three paths implement `AtomicMetadata`, unless an unlocked reader has moved a file | 2 writers, 1 unlocked reader, 4 writes, 4 faults |
| `MCManagedPrefix` | ready means complete, one interruption is recovered from, foreign prefixes untouched, bootstrap completes | 2 processes, 3 locks over 2 packages, 2 interruptions |
| `MCBundleInstall` | only locked content in cache and prefixes, an installation is of one version, an unpacked bundle outlives only a killed installation or a failed removal, a whole embedded bundle suffices | 2 processes and 3 invocations, 2 versions whose locks share a package, one with a whole and one with an incomplete bundle, 2 configured directories, 3 contents, 1 change, 1 fault |
| `MCRuntimeStamping` | a stamp reads back, the program is kept, a stamp is of one version of its inputs, writer and reader agree | 5 good and 9 bad templates of all formats, 5 replacements, 3 bundles, 2 signatures, 2 platforms, 3 stamps or changes by others, 2 signings |
| `MCArtifactPublication` | refinement of `AtomicPublication`, bundle matches lock, packages match their info, reports are true, an undisturbed build publishes | 2 roots, 2 packagers, 3 projects over 3 packages (one per layout, two of the same version), 2 builds, 1 fault |

Runs that end in a counterexample, each a disagreement between the code and its
documentation:

| Run | What happens |
| --- | --- |
| `MCApplyWithoutApproval` | A coordinator dies after spawning its apply helper. The next coordinator takes the lock and stages. The orphaned helper finds the lock held and a staged update, approves it and installs it in the middle of the second coordinator's transaction. |
| `MCOwnershipRace` | A first invocation reads a direct record, record-installation makes it external, and the invocation's locked half writes "direct" again: it compares the executable, not the ownership it had read. |
| `MCPrefixInterrupted` | A forced reinstall of a ready Fleet prefix stops when the temporary marker exists but is empty. It is then the only marker, does not parse, and every later install and removal refuses the prefix. `OneInterruptionIsRetried` shows that this is the only place where one interruption does that. |

Type invariants are proved and not run.

Why the bounds are enough: every race in this code is between the holder of a
lock, or a process that has checked something, and one other process that acts on
what it saw earlier, which two processes of a kind exhibit. A third version lets a
second update start while a process of the version before the first is still
running. A fault is consumed by each crash, failed call or lost file; two (five on
Windows, where workers die as well, four in `MetadataFile`) allow an interrupted
operation whose recovery is interrupted too. `ArtifactPublication` has one fault
for its two builds, and `BundleInstall` one fault and one change for three
invocations: each can come anywhere, before, while or after another process is at
work, which then has to cope; the safety of both for any numbers is proved.
In `MCInstallationOwnership` two executables of one stamp and one of another
version give every outcome of the code's comparisons but one, a changed build
number within a version; the theorems cover any stamps.

In `MCExecutableUpdate` one invoking process is enough, because invocations only
meet through the bootstrap lock and each is forgotten when it ends; and coordinators
die at any moment except while a helper of theirs runs: a helper left behind would
act for the next coordinator, as `MCApplyWithoutApproval` shows.

`MCRuntimeStamping` is scaled: a page and the large section alignment are 8 cells,
a file alignment is 4, a signature alignment 4, a certificate alignment 2, so that
each of them makes a gap that is filled, and none divides away. The templates
include, for PE, file offsets that must equal addresses together with memory beyond
the file, an old stamp without anchor, a certificate, no room for a section; for
Mach-O, signed and unsigned images and a signature that begins inside a table. A
signature holds arbitrary cells, among them a complete stamp. Three stamps or
changes allow two changes within one stamp; signing twice replaces a signature by
one of another length. One of the builds that may replace a template is longer than what
it begins with, halves of two others, which is why `StampIsOneVersion` speaks of
beginnings of a version. `MaxImageSize` and `MaxOffset` are out of reach at this size:
their checks are there but no property is about them.

Counters bounded in guards: `MaxFaults`, `MaxVersion` (`Publish`, `StageCandidate`),
`MaxWrites` (writes begun), `MaxBuilds` (builds begun), `MaxStarts` (invocations),
`MaxChanges`, `MaxEvents` (stamps and changes), `MaxSigns`. `ReplacedExeKeepsPath` lets a process whose executable was replaced
still know its path or not; with `TRUE` it does everything it does with `FALSE` but
give up. `MCUpdateSelection` and `MCInstallationOwnership` have no
bounds but their constants. Deadlock is checked
except in `MetadataFile`, `ArtifactPublication`, `BundleInstall` and
`RuntimeStamping`, where all writes, builds, invocations or events may be used up,
and in `WindowsUpdate`, where nothing can run once the executable was moved away.

Symmetry is used only in runs without liveness properties.

### Fairness

- `ExecutableUpdate`: a process inside an engine function keeps running and a
  process blocked on the bootstrap lock gets it eventually (strong fairness of
  `EngineStep` and `StageOrApplyStep`: file locks are released by their holder,
  and it is one of several contenders that enters); a coordinator that has begun
  carries its protocol on; the executable is invoked again (`Invoke`). Crashes,
  publication and the start of a coordination are not fair. No waiting or
  retrying of the code is assumed to succeed.
- `WindowsUpdate`: the same, and processes that run from the stable path come
  to an end now and then, without which no Windows replacement is possible.
  Workers may die and time out; the faults are bounded.
- `BundleInstall`: a process that was started goes on until it ends; a start, a
  fault or a change by others is never assumed. The cache is not waited for.
- `UpdateSelection`: a probe keeps running (its request has a timeout). Nothing is
  assumed of the process that holds the cache lock.
- `ManagedPrefix`: the holder of the lock goes on, a blocked process gets the
  lock, and each stamped runtime is invoked again. Nobody retries a Fleet
  install, so nothing is claimed about its completion.
- `ArtifactPublication`: a running build goes on, and a build that waits for the
  publication lock gets it when the lock is dropped again and again. Builds
  begin, stop and are packaged without fairness; `UndisturbedBuildPublishes`
  speaks of builds that run once no fault is left.

## Proofs

`tlapm M.tla` checks each of the eight `...Proofs` modules. Every theorem is about
the specification of its module for all values of the constants: any sets of
processes, packages, locks, versions and contents, any numbers of faults. The
assumptions are the named ones of the modules: processes of different kinds are
different, values such as `NONE`, `Partial` and `Torn` are none of the things they
stand beside, bounds are natural numbers, there is a version beyond the first, and
each constant function has its type. `StampAssumption` says that templates and
builds are files of a format with an image of that format; whether that image is
valid is not assumed, and neither is anything about the sizes of pages, sections and
alignments that the code does not itself check.

| Module | Theorems | Properties they state |
| --- | --- | --- |
| `ExecutableUpdateProofs` | `TypeCorrect`, `Inductive`, `RecordAlwaysMatchesTarget`, `EveryStateIsRecoverable`, `Refinement`; if no helper outlives its coordinator, `ReadyIsApproved`, `InstalledIsApproved`, `VersionsOnlyGrow`, `InnerTransactionIsUndisturbed` | `RecordMatchesTarget`, `AlwaysRecoverable`, `ImplementsAtomicUpdate`, `InstalledOnlyApproved`, `NeverDowngrades`, `StagedCandidateProtected` |
| `WindowsUpdateProofs` | `TypeCorrect`, `TargetIsRecorded`, `EveryStateIsRecoverable`, `BackupsAreKept`, `Refinement` | `RecordMatchesTarget`, `AlwaysRecoverable`, `BackupUntilReplaced`, `ImplementsAtomicUpdate` |
| `StampedRuntimeProofs`, of `RuntimeStamping` | `StampTypeCorrect`, `StampsReadBack`, `ImagesKept`, `WriterAndReaderAgree`, `StampsAreOneVersion` | `StampReadsBack`, `ImageKept`, `WriterAgreesWithReader`, `StampIsOneVersion` |
| `StampedRuntimeProofs`, of `InstallationOwnership` | `TypeCorrect`, `VersionsAreStamped`, `InstallationsAreKept`, `UpdatesOnly`, `ExternalsAreReconciled` | `RecordedVersionIsStamped`, `InstallationIsKept`, `OnlyUpdatesTakeEffect`, `ExternalIsReconciled` |
| `UpdateSelectionProofs` | `TypeCorrect`, `StagingIsConfirmed`, `AnswersAreReal`, `SelectionAnswers`, `OffersAreGood`, `UpdatesGoForward` | `StagedIsConfirmed`, `ProbeAnswersAreReal`; `SelectionsDecide`, `OffersStand` and `InstallsConfirmed`, which are not run |
| `MetadataFileProofs` | `TypeCorrect`, `ReportedWritesAreDurable`, `WritesAreAtomic`, `Refinement` | `DurableUnlessMeddled`, `ImplementsAtomicMetadata`; `WritesAreAllOrNothing`, which is not run |
| `ManagedPrefixProofs` | `TypeCorrect`, `ReadyIsComplete`, `InterruptionIsRetried`, `ForeignIsLeftAlone` | `ReadyMeansComplete`, `OneInterruptionIsRetried`, `ForeignUntouched` |
| `BundleInstallProofs` | `TypeCorrect`, `CacheAndPrefixesAreLocked`, `InstallationsAreOfOneVersion`, `OnlyAbandonedBundlesStay` | `OnlyLockedContent`, `InstalledFromOneVersion`, `ExtractionRemoved` |
| `ArtifactPublicationProofs` | `TypeCorrect`, `Inductive`, `MarkerMeansComplete`, `BundleMatchesLock`, `Refinement`, `PackagesMatchInfo`, `ReportsAreTrue` | `BundleHasLockedPackages`, `ImplementsAtomicPublication`, `PackagedMatchesInfo`, `ReportedIsThePackage`; `CompleteSetIsOneBuild`, which is not run |

The properties speak of states in which no one is at work, or of the end of an
operation; a step reaches such a state from the middle of a function. Each
inductive invariant `IInv` therefore says what every function has established at
each of its places, and the lemma that a step preserves it has one step per action.
The runs check what follows from these invariants, which are themselves proved;
each was checked by TLC before it was proved.

- `ExecutableUpdate`: `LockInv` (who is inside a locked function holds the lock,
  hence is alone: `OneHolder`), `RecordInv` (a pending version differs from the
  committed one and is either a candidate file or installed, never both),
  `StepInv` (for each place, the phase and the files its next effect relies on)
  and `ProtocolInv` (a coordinator between two helpers has none running).
  `EveryStateIsRecoverable` is then a case analysis of phases and files, and
  `StepRefines` maps each action to a step of `AtomicUpdate` or a stutter. The
  other four theorems assume `~HelpersMayBeOrphaned`, which
  `MCApplyWithoutApproval` shows to be necessary for the first two. They rest on
  two more invariants. `ApprovalInv`: the coordination lock is held by the
  coordinator whose helper runs, who is the sponsor of what is staged.
  `CoordinationInv`: after its helper's discard nothing is pending, so the selected
  version is newer than the committed one until it is recorded (`OrderInv`), and
  from then on nobody is about to discard it (`InnerInv`).
- `WindowsUpdate`: the same with the worker's files. A pending version is newer
  than the committed one, so the target cannot be taken for both (`FilesInv`); a
  missing target means that it was moved away or that the backup of the recorded
  version is there; whoever restores or abandons an update has found its candidate
  gone (`StepInv`). `BackupUntilReplaced` rests on the target being moved away at
  most once and never by the engine without a backup.
- `RuntimeStamping`: `StampKept` says that the temporary file, once written, and
  then the published one are `Stamped`: a property of a file alone, for each format,
  that implies `StampReadsBack` and `ImageKept`. So the theorems come from lemmas
  about the layout operators. What the writer writes for an accepted template is
  stamped (`PeWritten`, `MachOWrites`, `WriterStamps`): the checks that
  `pe_layout_from_file` and `read_macho_layout` make of a template hold again of the
  image with one more section (`AnchoredLayout`) or a longer `__LINKEDIT`
  (`GrownIsSound`). A signature leaves a stamped file stamped (`PeSigned`,
  `MachOSigns`, `SigningKeeps`). A stamped file reads back (`PeStampedReads`,
  `MachOStampedReads`, `AppendedReads`): the reader finds the footer at the one
  position where it looks, for a Mach-O file within the few cells of padding that
  `SearchFinds` counts, and whatever a signature contains lies outside. `Placed`
  (template, temporary file and published file are the files they were opened as)
  says that the other programs' files are not these.
- `StampIsOneVersion` rests on two further invariants. `TemplateRead` says for each
  step between opening the template and comparing the digests which versions the
  copy, and the half that was hashed, are made of, and how many overwrites of which
  kind it takes for them to differ: a copy of two halves takes one that kept the
  time, and not to be noticed by the second reading a second of that kind or two
  more. `BundleRead` is the same for the bundle, whose time is compared once more,
  so that only overwrites that kept it count. The property itself speaks only of
  what is past the checks and is far from inductive.
- `InstallationOwnership`: what a process carries from its unlocked reading
  (`ProcessInv`) is an executable it has itself verified, and every change of the
  record under the lock is one of those `RecordInv` allows. No order of executables
  is assumed: `ExternalsAreReconciled` holds for downgrades as well, and says of the
  digest only what the code does, that it follows when version or build differ.
- `UpdateSelection`: `HelperInv` follows one helper from the confirmed package
  through selection, download and validation; `CacheInv` says that a cache, from
  whoever it is, only holds lists of the channel, unrelated JSON or nothing;
  `ProbeInv` that a probe has kept the metadata it read first.
  `OffersStand` adds that an offer is newer than the installed executable and stays
  until it is installed, however long the helpers take; with it, an installation is
  that of the offer and never goes back (`InstallsConfirmed`). `SelectionAnswers`
  is about `select_candidate` itself: any finite list, hence every response a helper
  or probe selects from, has an answer, of one version and build, that no listed
  package exceeds. So no action that chooses from `Newest` is ever disabled by it. It
  rests on `NewestExists`: the package that the fewest are newer than is a newest
  one.
- `MetadataFile`: `Sound` (the next reader finds a current write) and `Progress`
  (what the writer read is at the path, or in the backup while the new write is in
  the temporary file), both as long as no unlocked reader has moved a file. They
  say what `Effective` is at every place, so each step is a step of
  `AtomicMetadata` or a stutter (`StepRefines`); `NothingPending` adds that a write
  has a number only while it is being written.
- `ManagedPrefix`: `MarkerInv` and `MetadataInv` say which of the files exist at
  each place, `PackagesInv` which packages are linked and which scripts have run,
  `ReadyInv` that ready metadata is only written when all is done, and `RetryInv`
  that after one interruption what is left is retried.
- `BundleInstall`: `CopiesVerified` (what is done with has been compared with the
  digest of the lock, in the private copy) carries `OnlyLockedContent` over the
  cache, and `LinkedAsLocked` carries it into the prefix. It does not matter what
  happens to the archives, as the copy is private. `OnlyAbandonedBundlesStay` needs
  no more than that each way out of an installation passes the removal.
- `ArtifactPublication`: the invariant follows a set on its way. `BundleCorrect`
  says of the bundle directory and the archive what each step of the construction
  has established, whatever was there before; `StagedCorrect` that a staged set
  names its own files and contains the bundle of its lock; `PublishedCorrect` that
  during publication there is no marker and that everything before the next file
  (`Before`) is the builder's. The lock makes the publisher the only writer of
  these files, so the last rename completes the set; with `StagedIsOfBuild`, what a
  staged set is made of, that is the step of `AtomicPublication` (`MarkerPublishes`).
  `PackageInv` says that whatever is stamped, signed or packaged passes on an
  executable whose embedded bundle is that of its lock, and that a packager past
  validation has an executable its info file allows; a package is written once.

Only model-checked: the liveness properties (`UpdatesEnd`, `ApprovedIsInstalled`,
`BootstrapCompletes`, `ProbeEnds`, `EmbeddedSuffices`, `UndisturbedBuildPublishes`),
because liveness under fairness is out of the prover's reach, and with it `ENABLED`.
Every invariant and action property that a run checks is proved. Induction with an
operator as its parameter cannot be used either; where a least or greatest number is
needed (the end of the last section, the first gap that is a footer, the package that
the fewest are newer than) the proofs use that every nonempty set of numbers has a
least one (`LeastNatural`, `WFMin`).

Six properties are proved and not listed for a run. For three a run checks one that
rests on them or implies them: `OnlyApprovedIsReady` (`InstalledOnlyApproved`),
`WritesAreAllOrNothing` (`ImplementsAtomicMetadata`) and `CompleteSetIsOneBuild`
(`ImplementsAtomicPublication`). The three about selection (`SelectionsDecide`,
`OffersStand`, `InstallsConfirmed`) are defined beside their proofs; TLC agrees with
them on the instance of `MCUpdateSelection`. `SelectionAnswers` assumes that the
lists of the channel are finite, which no other theorem needs.

## Observations that are not properties

- `apply` takes the bootstrap lock twice. An ordinary invocation in between
  installs the update, and `apply` then reports an error for an update that is
  installed.
- On Windows, after a worker has timed out, each invocation of the old
  executable schedules another worker and exits asking for a retry, although the
  old executable could run.
- docs/reference/runtime-cli.md:193 calls the metadata the source of truth for
  later checks, but a reader without the lock can undo an acknowledged write
  (`read_metadata_for`, `config.rs:308`). A writer's rename fails, so it moves the
  old file to the backup. The reader finds no metadata; the writer's second rename
  succeeds, so the reader finds no temporary file either, finds the backup, and
  restores it over the new metadata. `DurableUnlessMeddled` excludes this by name.
- docs/reference/runtime-cli.md:111 says that the next normal invocation after an
  external replacement reconciles the record. `initialize_current`
  (`runtime_update.rs:433`) compares version and build number: when the replacement
  carries those that are recorded, with other bytes, the recorded SHA-256 remains
  that of the earlier file, until version or build change or record-installation is
  called. `ExternalIsReconciled` excepts exactly this.
- A killed bootstrap, or one whose removal fails (`commands.rs:338` ignores that),
  leaves its unpacked bundle in the temporary directory for good.
- With one failed rename an unlocked reader can even leave no metadata at all
  (`config.rs:319`): it decides to restore the temporary file of one write and renames that of the
  next, whose fallback then moves the result to the backup, which the reader
  removes.
- An interrupted `Fleet::remove` leaves whatever was not yet deleted. If the
  marker or metadata went first the rest is owned by nobody and refused by
  install and remove; if packages went first the metadata still says ready.
  `ManagedPrefix` calls such a prefix `torn` and excludes it by name from two
  properties.
- Two interruptions while the marker is rewritten (old marker removed, temporary
  file not yet renamed; then the retry removes the temporary file) leave packages
  without any marker, which every later install refuses.
- A check takes any JSON object for repodata: a channel that answers with an
  unrelated document has no newer package for it, and the document is cached.
  A probe refuses both (`parse_probe_repodata`), which `ProbeAnswersAreReal` needs.
- A check that dies between removing the cache file and renaming the new one in
  leaves offline helpers without repodata. Repodata is downloaded before the cache
  lock is taken, so a slow check can put older repodata over newer.
- A stamped runtime never removes the policy outputs of an earlier stamp.
- With a bundle and without a network, a package that is in the package cache but
  not in the bundle is refused, although the comment at `install.rs:129` and
  docs/reference/fleet.md:181 speak of the cache or the supplied bundle: what the
  bundle lacks is reported as missing before the cache is asked.
- A stamp is made of one version of its inputs only up to what length, time and
  digest can tell: two overwrites that keep the time, or three of any kind, one
  before and one after each read, can deceive both reads (`StampIsOneVersion` names
  these exceptions).
- The digests of the template cover the length it had when it was opened. If it is
  replaced in place by a longer file that begins with the two halves that were
  copied, the comparison succeeds on a file that was never whole at the path;
  `StampIsOneVersion` therefore speaks of the beginning of a version.
- Two kinds of Mach-O template that no linker writes pass every check of the writer
  and are refused only by the read-back, after the copy: one whose `__LINKEDIT` takes
  up no memory, and one with an empty section that lies outside its segment. The
  output is not published. `AsLinked` excludes them from `WriterAgreesWithReader`.
- `append_to_binary` compares the path of the template with the file it has open
  and then renames over it. A template that is put there in between is lost without
  an error. Before that, `artifact.rs:827` copies the template without checking
  that it did not change while it was copied.
- The limit on the image size applies to PE32+ only.
- Removal tests that a prefix exists before it waits for the lock; after a
  concurrent removal it reports an error for a prefix that is gone.
- A crash between linking a candidate and recording it leaves a file that no record
  names; only the same version ever reuses it.
- `cs run` starts whatever is at the published path after its own build has
  dropped the publication lock.

## Not modelled, and why

- Content and formatting: JSON, TOML, lock parsing, SBOM, diagnostics, the
  format of packages, repodata. They are functions from documents to documents.
- HTTP, TLS, hashing: library calls; a failure is a failed call.
- Symlinks and other irregular files at the managed paths: the code refuses
  them wherever it looks; no model has them.
- Power loss that reorders writes: the models assume that what a completed call
  wrote is there after a crash of the process.
- `--dry-run`, `inspect` and `run` of the builder: they publish nothing beyond
  what a build does.
- Python integration and CI: they keep no state.

- The content of policy outputs and of the Constructor metadata (`policy.rs`,
  `constructor_metadata.rs`): `ManagedPrefix` has their place in the order of
  effects, which is all that anything decides on.
- Delegate execution (`exec.rs`): validates a path and replaces the process; the
  models of an invocation end there.
- `Fleet::get` and `list`, which read under the lock and change nothing, and the
  validation of a runtime specification.
- Bytes of headers: checked additions over 64 bits, PE characteristics, Mach-O
  load commands other than those `RuntimeDataLayout` names.

## Plan

What is left, in this order:

1. Fleet with several ids that share the package cache: its theorems would combine
   `CacheAndPrefixesAreLocked` and `ForeignIsLeftAlone` for more than one prefix.
2. The policy outputs that are not regular files.

A run is kept for each question, and related questions of one module share a run
where their bounds agree. A new property replaces one that it implies, except
`BundleHasLockedPackages`: the bundle directory is a hazard of its own, and
`ImplementsAtomicPublication` would only say that some part of a set is wrong.
