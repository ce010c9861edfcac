----------------------------- MODULE BundleInstall -----------------------------
(***************************************************************************)
(* Installation of the packages of a stamped lock (install.rs), as         *)
(* bootstrap in commands.rs calls it: from a configured bundle directory,  *)
(* from the bundle embedded in the executable, from the package cache      *)
(* alone, or with downloads.  Several processes share the cache and the    *)
(* configured directory; the directory changes while it is read, and the   *)
(* executable at its path is replaced by updates.                          *)
(*                                                                         *)
(* A content stands for the bytes of one archive and for their digest.     *)
(***************************************************************************)
EXTENDS Naturals, FiniteSets

CONSTANTS
  Processes,
  Packages,     \* the archives, numbered in the order of the lock
  Contents,     \* digests that locks and bundles name
  Absent,       \* no archive, or an entry the index leaves out
  Torn,         \* a copy of an archive that changed while it was read
  Versions,     \* executables that come to lie at the path
  Locked,       \* their locks: the digest of every package
  Embedded,     \* their embedded bundles, NoBundle for none
  Configured,   \* what the configured directory may hold at first
  NoBundle,     \* no bundle, and no directory of one
  MaxStarts,    \* invocations of bootstrap
  MaxChanges,   \* replacements of the executable and changes in the directory
  MaxFaults     \* kills, failing system calls, failing link scripts

Directories == [Packages -> Contents \union {Absent}]

ASSUME BundleAssumption ==
  /\ Packages \subseteq Nat
  /\ Absent \notin Contents /\ Torn \notin Contents /\ Absent # Torn
  /\ Locked \in [Versions -> [Packages -> Contents]]
  /\ NoBundle \notin Directories
  /\ Embedded \in [Versions -> Directories \union {NoBundle}]
  /\ Configured \subseteq Directories
  /\ MaxStarts \in Nat /\ MaxChanges \in Nat /\ MaxFaults \in Nat

VARIABLES
  exe,        \* the version at the path of the executable
  shared,     \* the configured bundle directory
  cache,      \* the package cache: the content stored under each digest
  prefix,     \* the packages installed by each process
  step,       \* where each process is, or how it ended
  version,    \* the version whose header it runs with
  offline,    \* whether it has no download client
  configured, \* whether it uses the configured directory
  extracted,  \* the directory it unpacked its embedded bundle to, while it is on disk
  abandoned,  \* whether it was killed or could not remove that directory
  index,      \* index_bundle_dir: the archives it found
  todo,       \* lock records it has still to match, store or install
  opened,     \* the archive it is copying, as it was opened
  copies,     \* its private copies
  outcome,    \* how it ends after cleaning up
  starts, changes, faults

process == <<step, version, offline, configured, extracted, abandoned, index, todo, opened,
             copies, outcome>>
vars == <<exe, shared, cache, prefix, process, starts, changes, faults>>

NoCopies == [k \in Packages |-> Absent]
NothingOpen == [package |-> 0, content |-> Absent]
Ended == {"idle", "done", "failed"}

Init ==
  /\ exe \in Versions /\ shared \in Configured
  /\ cache = [c \in Contents |-> Absent]
  /\ prefix = [p \in Processes |-> NoCopies]
  /\ step = [p \in Processes |-> "idle"] /\ outcome = [p \in Processes |-> "failed"]
  /\ version = [p \in Processes |-> exe]
  /\ offline = [p \in Processes |-> FALSE] /\ configured = [p \in Processes |-> FALSE]
  /\ extracted = [p \in Processes |-> NoBundle] /\ abandoned = [p \in Processes |-> FALSE]
  /\ index = [p \in Processes |-> {}] /\ todo = [p \in Processes |-> {}]
  /\ opened = [p \in Processes |-> NothingOpen] /\ copies = [p \in Processes |-> NoCopies]
  /\ starts = 0 /\ changes = 0 /\ faults = 0

Lock(p) == Locked[version[p]]
Goto(p, s) == step' = [step EXCEPT ![p] = s]

(* Mutation of Bundle: the configured directory whatever was unpacked.       *)
SharedBundle(p) == shared

(* The directory of archives: the configured one goes before the embedded.  *)
Bundle(p) == IF configured[p] THEN shared ELSE extracted[p]

(* Mutation of EndAs: an error returns before the directory is removed.     *)
EndAtOnce(p, result) ==
  /\ step' = [step EXCEPT ![p] = IF result = "failed" THEN "failed" ELSE "cleanup"]
  /\ outcome' = [outcome EXCEPT ![p] = result]

(* from_lockfile_with_bundle has its result; bootstrap removes the          *)
(* directory before it looks at the result.                                 *)
EndAs(p, result) ==
  /\ Goto(p, "cleanup")
  /\ outcome' = [outcome EXCEPT ![p] = result]

Fail(p) ==
  /\ EndAs(p, "failed")
  /\ UNCHANGED <<version, offline, configured, extracted, abandoned, index, todo, opened,
                 copies>>

-----------------------------------------------------------------------------
(* One process *)

(* bootstrap: the header is that of the executable as it lies at the path;  *)
(* an embedded bundle is always installed offline.  The directory is a new  *)
(* one: nobody finds what an earlier invocation left behind.                *)
Start(p) ==
  \E bundled, wanted \in BOOLEAN :
    LET embedded == ~bundled /\ Embedded[exe] # NoBundle IN
      /\ step[p] \in Ended /\ starts < MaxStarts /\ starts' = starts + 1
      /\ version' = [version EXCEPT ![p] = exe]
      /\ configured' = [configured EXCEPT ![p] = bundled]
      /\ offline' = [offline EXCEPT ![p] = wanted \/ embedded]
      /\ Goto(p, IF bundled THEN "index" ELSE IF embedded THEN "extract" ELSE "install")
      /\ todo' = [todo EXCEPT ![p] = Packages]
      /\ extracted' = [extracted EXCEPT ![p] = NoBundle]
      /\ abandoned' = [abandoned EXCEPT ![p] = FALSE]
      /\ UNCHANGED <<exe, shared, cache, prefix, index, opened, copies, outcome, changes,
                     faults>>

(* Mutation of ReadsAsHeader: the digest of the embedded bundle is not      *)
(* compared, only its length.                                               *)
AnyBundle(p) == Embedded[exe] # NoBundle

(* EmbeddedBundle::open_verified reads the range that the header names from *)
(* whatever lies at the path by now.                                        *)
ReadsAsHeader(p) == Embedded[exe] = Embedded[version[p]]

Extract(p) ==
  /\ step[p] = "extract"
  /\ \/ /\ ReadsAsHeader(p)
        /\ extracted' = [extracted EXCEPT ![p] = Embedded[exe]]
        /\ Goto(p, "index")
        /\ UNCHANGED <<version, offline, configured, abandoned, index, todo, opened, copies,
                       outcome>>
     \/ ~ReadsAsHeader(p) /\ Fail(p)
  /\ UNCHANGED <<exe, shared, cache, prefix, starts, changes, faults>>

IndexBundle(p) ==
  /\ step[p] = "index"
  /\ index' = [index EXCEPT ![p] = {k \in Packages : Bundle(p)[k] # Absent}]
  /\ Goto(p, "match")
  /\ UNCHANGED <<exe, shared, cache, prefix, version, offline, configured, extracted, abandoned,
                 todo, opened, copies, outcome, starts, changes, faults>>

(* match_records_to_bundle: the next record that is in the index is opened, *)
(* where it may have vanished since.                                        *)
OpenArchive(p, k) ==
  /\ step[p] = "match" /\ k \in todo[p] \intersect index[p]
  /\ \A other \in todo[p] \intersect index[p] : k <= other
  /\ IF Bundle(p)[k] = Absent THEN Fail(p)
     ELSE /\ opened' = [opened EXCEPT ![p] = [package |-> k, content |-> Bundle(p)[k]]]
          /\ Goto(p, "copy")
          /\ UNCHANGED <<version, offline, configured, extracted, abandoned, index, todo, copies,
                         outcome>>
  /\ UNCHANGED <<exe, shared, cache, prefix, starts, changes, faults>>

(* An archive that is replaced while it is copied is read as it was; one    *)
(* that is overwritten, partly or wholly as it is now.                      *)
Read(p) ==
  LET k == opened[p].package IN
    {opened[p].content} \union
      (IF Bundle(p)[k] \in {opened[p].content, Absent} THEN {} ELSE {Bundle(p)[k], Torn})

CopyArchive(p) ==
  /\ step[p] = "copy"
  /\ \E content \in Read(p) : copies' = [copies EXCEPT ![p][opened[p].package] = content]
  /\ Goto(p, "verify")
  /\ UNCHANGED <<exe, shared, cache, prefix, version, offline, configured, extracted, abandoned,
                 index, todo, opened, outcome, starts, changes, faults>>

(* Mutation of Verified: the archive in the directory is hashed, not the    *)
(* private copy that the cache will read.                                   *)
SourceVerified(p) == Bundle(p)[opened[p].package] = Lock(p)[opened[p].package]

(* verify_bundle_package. *)
Verified(p) == copies[p][opened[p].package] = Lock(p)[opened[p].package]

VerifyCopy(p) ==
  /\ step[p] = "verify"
  /\ \/ /\ Verified(p)
        /\ todo' = [todo EXCEPT ![p] = @ \ {opened[p].package}]
        /\ opened' = [opened EXCEPT ![p] = NothingOpen]
        /\ Goto(p, "match")
        /\ UNCHANGED <<version, offline, configured, extracted, abandoned, index, copies,
                       outcome>>
     \/ ~Verified(p) /\ Fail(p)
  /\ UNCHANGED <<exe, shared, cache, prefix, starts, changes, faults>>

(* What is left is missing: an error offline, a download otherwise.         *)
Matched(p) ==
  /\ step[p] = "match" /\ todo[p] \intersect index[p] = {}
  /\ IF offline[p] /\ todo[p] # {} THEN Fail(p)
     ELSE /\ todo' = [todo EXCEPT ![p] = Packages \ todo[p]]
          /\ Goto(p, "store")
          /\ UNCHANGED <<version, offline, configured, extracted, abandoned, index, opened,
                         copies, outcome>>
  /\ UNCHANGED <<exe, shared, cache, prefix, starts, changes, faults>>

(* PackageCache::get_or_fetch_from_path trusts the digest of the record: it *)
(* keeps what it has, and otherwise stores the archive it is given.         *)
StorePackage(p, k) ==
  /\ step[p] = "store" /\ k \in todo[p]
  /\ cache' = [cache EXCEPT ![Lock(p)[k]] = IF @ = Absent THEN copies[p][k] ELSE @]
  /\ todo' = [todo EXCEPT ![p] = @ \ {k}]
  /\ UNCHANGED <<exe, shared, prefix, step, version, offline, configured, extracted, abandoned,
                 index, opened, copies, outcome, starts, changes, faults>>

(* The private copies are dropped. *)
Stored(p) ==
  /\ step[p] = "store" /\ todo[p] = {}
  /\ copies' = [copies EXCEPT ![p] = NoCopies]
  /\ todo' = [todo EXCEPT ![p] = Packages]
  /\ Goto(p, "install")
  /\ UNCHANGED <<exe, shared, cache, prefix, version, offline, configured, extracted, abandoned,
                 index, opened, outcome, starts, changes, faults>>

(* Installer::install, a package at a time.  Without a download client a    *)
(* package that is not in the cache is an error.                            *)
DownloadPackage(p, k) ==
  /\ step[p] = "install" /\ k \in todo[p] /\ cache[Lock(p)[k]] = Absent
  /\ IF offline[p] THEN Fail(p) /\ UNCHANGED cache
     ELSE /\ cache' = [cache EXCEPT ![Lock(p)[k]] = Lock(p)[k]]
          /\ UNCHANGED process
  /\ UNCHANGED <<exe, shared, prefix, starts, changes, faults>>

LinkPackage(p, k) ==
  /\ step[p] = "install" /\ k \in todo[p] /\ cache[Lock(p)[k]] # Absent
  /\ prefix' = [prefix EXCEPT ![p][k] = cache[Lock(p)[k]]]
  /\ todo' = [todo EXCEPT ![p] = @ \ {k}]
  /\ UNCHANGED <<exe, shared, cache, step, version, offline, configured, extracted, abandoned,
                 index, opened, copies, outcome, starts, changes, faults>>

Installed(p) ==
  /\ step[p] = "install" /\ todo[p] = {}
  /\ EndAs(p, "done")
  /\ UNCHANGED <<exe, shared, cache, prefix, version, offline, configured, extracted, abandoned,
                 index, todo, opened, copies, starts, changes, faults>>

(* What a process knows goes when it ends; its directory does not.          *)
Forget(p) ==
  /\ offline' = [offline EXCEPT ![p] = FALSE] /\ configured' = [configured EXCEPT ![p] = FALSE]
  /\ index' = [index EXCEPT ![p] = {}] /\ todo' = [todo EXCEPT ![p] = {}]
  /\ opened' = [opened EXCEPT ![p] = NothingOpen] /\ copies' = [copies EXCEPT ![p] = NoCopies]
  /\ outcome' = [outcome EXCEPT ![p] = "failed"]

(* The directory of p stays on disk, and nobody removes it any more.        *)
LeavesDirectory(p) ==
  /\ abandoned' = [abandoned EXCEPT ![p] = TRUE]
  /\ UNCHANGED extracted

Fault == faults < MaxFaults /\ faults' = faults + 1

(* The directory of the embedded bundle is removed.  Whether that worked is *)
(* ignored: the installation ends as it did.  Private copies are dropped.   *)
Cleanup(p) ==
  /\ step[p] = "cleanup"
  /\ Goto(p, outcome[p]) /\ Forget(p)
  /\ \/ /\ extracted' = [extracted EXCEPT ![p] = NoBundle]
        /\ UNCHANGED <<abandoned, faults>>
     \/ extracted[p] # NoBundle /\ LeavesDirectory(p) /\ Fault
  /\ UNCHANGED <<exe, shared, cache, prefix, version, starts, changes>>

-----------------------------------------------------------------------------
(* Faults and other programs *)

(* A system call, a decoder or a post-link script fails: that removing the  *)
(* directory can fail is in Cleanup.                                        *)
FailingCall(p) ==
  /\ Fault /\ step[p] \notin Ended \union {"cleanup"}
  /\ Fail(p)
  /\ UNCHANGED <<exe, shared, cache, prefix, starts, changes>>

(* A killed process leaves its directory behind; one that is killed while it *)
(* unpacks, the part it has, which nobody reads.                            *)
Kill(p) ==
  /\ Fault /\ step[p] \notin Ended
  /\ Goto(p, "failed") /\ Forget(p) /\ LeavesDirectory(p)
  /\ UNCHANGED <<exe, shared, cache, prefix, version, starts, changes>>

Change == changes < MaxChanges /\ changes' = changes + 1

(* A direct update. *)
ReplaceExecutable(v) ==
  /\ Change /\ exe' = v
  /\ UNCHANGED <<shared, cache, prefix, process, starts, faults>>

ChangeDirectory(k, content) ==
  /\ Change /\ shared' = [shared EXCEPT ![k] = content]
  /\ UNCHANGED <<exe, cache, prefix, process, starts, faults>>

-----------------------------------------------------------------------------

Advance(p) ==
  \/ Extract(p) \/ IndexBundle(p) \/ CopyArchive(p) \/ VerifyCopy(p) \/ Matched(p)
  \/ Stored(p) \/ Installed(p) \/ Cleanup(p)
  \/ \E k \in Packages :
       OpenArchive(p, k) \/ StorePackage(p, k) \/ DownloadPackage(p, k) \/ LinkPackage(p, k)

Next ==
  \/ \E p \in Processes : Start(p) \/ Advance(p) \/ FailingCall(p) \/ Kill(p)
  \/ \E v \in Versions : ReplaceExecutable(v)
  \/ \E k \in Packages, content \in Contents \union {Absent} : ChangeDirectory(k, content)

(* A process that was started runs until it ends. *)
Spec == Init /\ [][Next]_vars /\ \A p \in Processes : WF_vars(Advance(p))

-----------------------------------------------------------------------------
(* What an installation promises *)

(* The cache holds nothing but what its digests say, and nothing but what   *)
(* a lock names is installed, whatever happens to the bundle's archives     *)
(* between the index, the copy and the cache: one bad archive would spread  *)
(* to every runtime that shares the cache.                                  *)
OnlyLockedContent ==
  /\ \A c \in Contents : cache[c] \in {Absent, c}
  /\ \A p \in Processes, k \in Packages :
       prefix[p][k] \in {Absent} \union {Locked[v][k] : v \in Versions}

(* A successful installation has every package of the lock of the version   *)
(* that installs, although another version may lie at the path by then, and *)
(* an embedded bundle is only used when it is the one of that version.      *)
InstalledFromOneVersion ==
  \A p \in Processes :
    /\ step[p] = "done" => prefix[p] = Lock(p)
    /\ extracted[p] # NoBundle => extracted[p] = Embedded[version[p]]

(* An unpacked bundle only outlives an installation that was killed, or     *)
(* whose removal of it failed: success and every error, of the index, of an *)
(* archive that vanished or is not the locked one, of the cache or of the   *)
(* installer, reach the removal in bootstrap (commands.rs).                 *)
ExtractionRemoved ==
  \A p \in Processes : step[p] \in Ended /\ extracted[p] # NoBundle => abandoned[p]

(* A whole embedded bundle suffices: once it is unpacked the installation   *)
(* succeeds, without a network and whatever is in the cache and the         *)
(* configured directory, unless something fails.                            *)
EmbeddedSuffices ==
  \A p \in Processes :
    (step[p] = "index" /\ extracted[p] = Lock(p)) ~> (step[p] = "done" \/ faults > 0)

-----------------------------------------------------------------------------
(* Why it does: the inductive invariant *)

Steps == Ended \union {"extract", "index", "match", "copy", "verify", "store", "install", "cleanup"}
Archives == Contents \union {Absent, Torn}

TypeOK ==
  /\ exe \in Versions /\ shared \in Directories
  /\ cache \in [Contents -> Archives]
  /\ prefix \in [Processes -> [Packages -> Archives]]
  /\ copies \in [Processes -> [Packages -> Archives]]
  /\ step \in [Processes -> Steps] /\ outcome \in [Processes -> {"done", "failed"}]
  /\ version \in [Processes -> Versions]
  /\ offline \in [Processes -> BOOLEAN] /\ configured \in [Processes -> BOOLEAN]
  /\ extracted \in [Processes -> Directories \union {NoBundle}]
  /\ abandoned \in [Processes -> BOOLEAN]
  /\ index \in [Processes -> SUBSET Packages] /\ todo \in [Processes -> SUBSET Packages]
  /\ opened \in [Processes -> [package : Packages \union {0}, content : Contents \union {Absent}]]
  /\ starts \in 0 .. MaxStarts /\ changes \in 0 .. MaxChanges /\ faults \in 0 .. MaxFaults

(* While p looks for archives it has a directory to look in.                *)
HasBundle(p) ==
  /\ step[p] = "extract" => Embedded[version[p]] # NoBundle
  /\ step[p] \in {"index", "match", "copy", "verify"} => configured[p] \/ extracted[p] # NoBundle

(* The copies of the records p is done with are as locked; so are those of  *)
(* the records it is going to store.                                        *)
CopiesVerified(p) ==
  /\ step[p] \in {"extract", "index"} => todo[p] = Packages
  /\ step[p] \in {"match", "copy", "verify"} =>
       \A k \in Packages \ todo[p] : copies[p][k] = Lock(p)[k]
  /\ step[p] \in {"copy", "verify"} => opened[p].package \in todo[p]
  /\ step[p] = "store" => \A k \in todo[p] : copies[p][k] = Lock(p)[k]

(* The packages p is done with are installed as locked.                     *)
LinkedAsLocked(p) ==
  /\ step[p] = "install" => \A k \in Packages \ todo[p] : prefix[p][k] = Lock(p)[k]
  /\ step[p] = "cleanup" /\ outcome[p] = "done" => prefix[p] = Lock(p)

IInv ==
  /\ TypeOK
  /\ OnlyLockedContent /\ InstalledFromOneVersion /\ ExtractionRemoved
  /\ \A p \in Processes : HasBundle(p) /\ CopiesVerified(p) /\ LinkedAsLocked(p)
=============================================================================
