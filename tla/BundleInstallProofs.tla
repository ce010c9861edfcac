-------------------------- MODULE BundleInstallProofs --------------------------
(***************************************************************************)
(* Proofs about BundleInstall, for any number of processes, packages and   *)
(* versions, and any locks and bundles.                                    *)
(***************************************************************************)
EXTENDS BundleInstall, TLAPS

(* What is constant about the locks and the bundles.                        *)
LEMMA Constants ==
  /\ \A v \in Versions, k \in Packages : Locked[v][k] \in Contents
  /\ \A v \in Versions : Locked[v] \in [Packages -> Contents]
  /\ \A v \in Versions : Embedded[v] \in Directories \union {NoBundle}
  /\ Absent \notin Contents /\ Torn \notin Contents /\ Absent # Torn
  /\ NoBundle \notin Directories
  /\ MaxStarts \in Nat /\ MaxChanges \in Nat /\ MaxFaults \in Nat
BY BundleAssumption

(* Nobody has started, nothing is cached and nothing is installed.          *)
LEMMA InitCorrect == Init => IInv
<1> SUFFICES ASSUME Init PROVE IInv
  OBVIOUS
<1> USE DEF Init, NoCopies, NothingOpen, Ended
<1>1. TypeOK
  <2>1. shared \in Directories
    BY BundleAssumption
  <2> QED
    BY <2>1, Constants DEF TypeOK, Steps, Archives
<1>2. OnlyLockedContent /\ InstalledFromOneVersion /\ ExtractionRemoved
  BY DEF OnlyLockedContent, InstalledFromOneVersion, ExtractionRemoved
<1>3. \A p \in Processes : HasBundle(p) /\ CopiesVerified(p) /\ LinkedAsLocked(p)
  BY DEF HasBundle, CopiesVerified, LinkedAsLocked
<1> QED
  BY <1>1, <1>2, <1>3 DEF IInv

(* A step of p leaves what the invariant says of the other processes alone. *)
LEMMA OneProcessMoves ==
  ASSUME IInv, NEW p \in Processes,
         \A q \in Processes \ {p} :
           /\ step'[q] = step[q] /\ version'[q] = version[q] /\ configured'[q] = configured[q]
           /\ extracted'[q] = extracted[q] /\ abandoned'[q] = abandoned[q]
           /\ todo'[q] = todo[q] /\ opened'[q] = opened[q] /\ copies'[q] = copies[q]
           /\ outcome'[q] = outcome[q] /\ prefix'[q] = prefix[q],
         TypeOK', OnlyLockedContent',
         HasBundle(p)', CopiesVerified(p)', LinkedAsLocked(p)',
         step'[p] = "done" => prefix'[p] = Lock(p)',
         extracted'[p] # NoBundle => extracted'[p] = Embedded[version'[p]],
         step'[p] \in Ended /\ extracted'[p] # NoBundle => abandoned'[p]
  PROVE  IInv'
<1>1. ASSUME NEW q \in Processes
      PROVE  /\ HasBundle(q)' /\ CopiesVerified(q)' /\ LinkedAsLocked(q)'
             /\ step'[q] = "done" => prefix'[q] = Lock(q)'
             /\ extracted'[q] # NoBundle => extracted'[q] = Embedded[version'[q]]
             /\ step'[q] \in Ended /\ extracted'[q] # NoBundle => abandoned'[q]
  <2>1. CASE q = p
    BY <2>1
  <2>2. CASE q # p
    <3> USE <2>2 DEF IInv, Lock
    <3>1. HasBundle(q)'
      BY DEF HasBundle
    <3>2. CopiesVerified(q)'
      BY DEF CopiesVerified
    <3>3. LinkedAsLocked(q)'
      BY DEF LinkedAsLocked
    <3> QED
      BY <3>1, <3>2, <3>3 DEF InstalledFromOneVersion, ExtractionRemoved
  <2> QED
    BY <2>1, <2>2
<1> QED
  BY <1>1 DEF IInv, InstalledFromOneVersion, ExtractionRemoved

(* The content of the cache and of the prefixes stays locked content when   *)
(* neither changes.                                                         *)
LEMMA ContentUnmoved ==
  ASSUME IInv, cache' = cache, prefix' = prefix
  PROVE  OnlyLockedContent'
BY DEF IInv, OnlyLockedContent

(* What a process does when it fails.                                       *)
LEMMA FailPreserves ==
  ASSUME IInv, NEW p \in Processes, step[p] \notin Ended, Fail(p), OnlyLockedContent',
         UNCHANGED <<exe, shared, prefix, starts, changes>>,
         cache' \in [Contents -> Archives], faults' \in 0 .. MaxFaults
  PROVE  IInv'
<1> USE DEF IInv, Fail, EndAs, Goto
<1>1. step' = [step EXCEPT ![p] = "cleanup"] /\ outcome' = [outcome EXCEPT ![p] = "failed"]
  OBVIOUS
<1>2. TypeOK'
  BY <1>1 DEF TypeOK, Steps
<1>3. step'[p] = "cleanup" /\ outcome'[p] = "failed"
  BY <1>1 DEF TypeOK
<1>4. HasBundle(p)' /\ CopiesVerified(p)' /\ LinkedAsLocked(p)'
  BY <1>3 DEF HasBundle, CopiesVerified, LinkedAsLocked
<1>5. extracted[p] # NoBundle => extracted[p] = Embedded[version[p]]
  BY DEF InstalledFromOneVersion
<1> QED
  BY <1>1, <1>2, <1>3, <1>4, <1>5, OneProcessMoves DEF TypeOK, Ended

-----------------------------------------------------------------------------
(* One process *)

(* A new process has everything before it.                                  *)
LEMMA StartPreserves ==
  ASSUME IInv, NEW p \in Processes, Start(p)
  PROVE  IInv'
<1>1. PICK bundled \in BOOLEAN, wanted \in BOOLEAN :
        LET embedded == ~bundled /\ Embedded[exe] # NoBundle IN
          /\ step[p] \in Ended /\ starts < MaxStarts /\ starts' = starts + 1
          /\ version' = [version EXCEPT ![p] = exe]
          /\ configured' = [configured EXCEPT ![p] = bundled]
          /\ offline' = [offline EXCEPT ![p] = wanted \/ embedded]
          /\ Goto(p, IF bundled THEN "index" ELSE IF embedded THEN "extract" ELSE "install")
          /\ todo' = [todo EXCEPT ![p] = Packages]
          /\ extracted' = [extracted EXCEPT ![p] = NoBundle]
          /\ abandoned' = [abandoned EXCEPT ![p] = FALSE]
          /\ UNCHANGED <<exe, shared, cache, prefix, index, opened, copies, outcome, changes,
                         faults>>
  BY DEF Start
<1> USE <1>1 DEF IInv
<1>2. TypeOK'
  <2>1. starts' \in 0 .. MaxStarts
    BY Constants DEF TypeOK
  <2>2. step' \in [Processes -> Steps]
    BY DEF TypeOK, Goto, Steps
  <2> QED
    BY <2>1, <2>2 DEF TypeOK
<1>3. /\ todo'[p] = Packages /\ version'[p] = exe /\ extracted'[p] = NoBundle
      /\ step'[p] = "index" => configured'[p]
      /\ step'[p] = "extract" => Embedded[exe] # NoBundle
      /\ step'[p] \in {"index", "extract", "install"}
  BY DEF TypeOK, Goto
<1>4. HasBundle(p)'
  BY <1>3 DEF HasBundle
<1>5. CopiesVerified(p)' /\ LinkedAsLocked(p)'
  BY <1>3 DEF CopiesVerified, LinkedAsLocked
<1> QED
  BY <1>2, <1>3, <1>4, <1>5, ContentUnmoved, OneProcessMoves DEF TypeOK, Goto, Ended

(* The embedded bundle that is unpacked is that of the running version.     *)
LEMMA ExtractPreserves ==
  ASSUME IInv, NEW p \in Processes, Extract(p)
  PROVE  IInv'
<1> USE DEF IInv, Extract
<1>1. CASE ~ReadsAsHeader(p) /\ Fail(p)
  BY <1>1, FailPreserves, ContentUnmoved DEF TypeOK, Ended
<1>2. CASE /\ ReadsAsHeader(p)
           /\ extracted' = [extracted EXCEPT ![p] = Embedded[exe]]
           /\ Goto(p, "index")
           /\ UNCHANGED <<version, offline, configured, abandoned, index, todo, opened, copies,
                          outcome>>
  <2> USE <1>2
  <2>1. TypeOK'
    BY Constants DEF TypeOK, Goto, Steps
  <2>2. /\ step'[p] = "index" /\ extracted'[p] = Embedded[version[p]]
        /\ extracted'[p] # NoBundle /\ todo'[p] = Packages
    BY DEF TypeOK, Goto, ReadsAsHeader, HasBundle, CopiesVerified
  <2>3. HasBundle(p)' /\ CopiesVerified(p)' /\ LinkedAsLocked(p)'
    BY <2>2 DEF HasBundle, CopiesVerified, LinkedAsLocked
  <2> QED
    BY <2>1, <2>2, <2>3, ContentUnmoved, OneProcessMoves DEF TypeOK, Goto, Ended
<1> QED
  BY <1>1, <1>2

(* Indexing copies nothing.                                                 *)
LEMMA IndexBundlePreserves ==
  ASSUME IInv, NEW p \in Processes, IndexBundle(p)
  PROVE  IInv'
<1> USE DEF IInv, IndexBundle
<1>1. TypeOK'
  <2>1. {k \in Packages : Bundle(p)[k] # Absent} \in SUBSET Packages
    OBVIOUS
  <2> QED
    BY <2>1 DEF TypeOK, Goto, Steps
<1>2. step'[p] = "match" /\ todo'[p] = Packages
  BY DEF TypeOK, Goto, CopiesVerified
<1>3. HasBundle(p)' /\ CopiesVerified(p)' /\ LinkedAsLocked(p)'
  BY <1>2 DEF HasBundle, CopiesVerified, LinkedAsLocked
<1>4. extracted[p] # NoBundle => extracted[p] = Embedded[version[p]]
  BY DEF InstalledFromOneVersion
<1> QED
  BY <1>1, <1>2, <1>3, <1>4, ContentUnmoved, OneProcessMoves DEF TypeOK, Goto, Ended

(* The directory that is being read is a directory.                         *)
LEMMA BundleIsDirectory ==
  ASSUME IInv, NEW p \in Processes, step[p] \in {"index", "match", "copy", "verify"}
  PROVE  Bundle(p) \in Directories
BY DEF IInv, TypeOK, HasBundle, Bundle

(* The archive that is opened belongs to a record that is still to match.   *)
LEMMA OpenArchivePreserves ==
  ASSUME IInv, NEW p \in Processes, NEW k \in Packages, OpenArchive(p, k)
  PROVE  IInv'
<1> USE DEF IInv, OpenArchive
<1>1. CASE Bundle(p)[k] = Absent
  BY <1>1, FailPreserves, ContentUnmoved DEF TypeOK, Ended
<1>2. CASE Bundle(p)[k] # Absent
  <2> USE <1>2
  <2>1. TypeOK'
    <3>1. Bundle(p)[k] \in Contents \union {Absent}
      BY BundleIsDirectory DEF Directories
    <3>2. opened' = [opened EXCEPT ![p] = [package |-> k, content |-> Bundle(p)[k]]]
      OBVIOUS
    <3>3. opened' \in [Processes -> [package : Packages \union {0},
                                    content : Contents \union {Absent}]]
      BY <3>1, <3>2 DEF TypeOK
    <3> QED
      BY <3>3 DEF TypeOK, Goto, Steps
  <2>2. step'[p] = "copy" /\ opened'[p].package = k /\ k \in todo'[p]
    BY DEF TypeOK, Goto
  <2>3. HasBundle(p)' /\ CopiesVerified(p)' /\ LinkedAsLocked(p)'
    BY <2>2 DEF HasBundle, CopiesVerified, LinkedAsLocked, Lock
  <2>4. extracted[p] # NoBundle => extracted[p] = Embedded[version[p]]
    BY DEF InstalledFromOneVersion
  <2> QED
    BY <2>1, <2>2, <2>3, <2>4, ContentUnmoved, OneProcessMoves DEF TypeOK, Goto, Ended
<1> QED
  BY <1>1, <1>2

(* A copy replaces no verified one.                                         *)
LEMMA CopyArchivePreserves ==
  ASSUME IInv, NEW p \in Processes, CopyArchive(p)
  PROVE  IInv'
<1> USE DEF IInv, CopyArchive
<1> DEFINE k == opened[p].package
<1>1. PICK content \in Read(p) : copies' = [copies EXCEPT ![p][k] = content]
  OBVIOUS
<1>2. k \in todo[p] /\ k \in Packages
  BY DEF CopiesVerified, TypeOK
<1>3. content \in Archives
  <2>1. opened[p].content \in Contents \union {Absent} /\ Bundle(p)[k] \in Contents \union {Absent}
    BY <1>2, BundleIsDirectory DEF TypeOK, Directories
  <2> QED
    BY <2>1 DEF Read, Archives
<1>4. TypeOK'
  <2>1. copies' \in [Processes -> [Packages -> Archives]]
    BY <1>1, <1>2, <1>3 DEF TypeOK
  <2> QED
    BY <2>1 DEF TypeOK, Goto, Steps
<1>5. step'[p] = "verify" /\ \A other \in Packages \ todo[p] : copies'[p][other] = copies[p][other]
  BY <1>1, <1>2 DEF TypeOK, Goto
<1>6. HasBundle(p)' /\ CopiesVerified(p)' /\ LinkedAsLocked(p)'
  BY <1>5 DEF HasBundle, CopiesVerified, LinkedAsLocked, Lock
<1>7. extracted[p] # NoBundle => extracted[p] = Embedded[version[p]]
  BY DEF InstalledFromOneVersion
<1> QED
  BY <1>1, <1>4, <1>5, <1>6, <1>7, ContentUnmoved, OneProcessMoves DEF TypeOK, Goto, Ended

(* A record is done with when its copy has the digest of the lock.          *)
LEMMA VerifyCopyPreserves ==
  ASSUME IInv, NEW p \in Processes, VerifyCopy(p)
  PROVE  IInv'
<1> USE DEF IInv, VerifyCopy
<1>1. CASE ~Verified(p) /\ Fail(p)
  BY <1>1, FailPreserves, ContentUnmoved DEF TypeOK, Ended
<1>2. CASE /\ Verified(p)
           /\ todo' = [todo EXCEPT ![p] = @ \ {opened[p].package}]
           /\ opened' = [opened EXCEPT ![p] = NothingOpen]
           /\ Goto(p, "match")
           /\ UNCHANGED <<version, offline, configured, extracted, abandoned, index, copies,
                          outcome>>
  <2> USE <1>2
  <2>1. TypeOK'
    BY DEF TypeOK, Goto, Steps, NothingOpen
  <2>2. step'[p] = "match" /\ todo'[p] = todo[p] \ {opened[p].package}
    BY DEF TypeOK, Goto
  <2>3. \A k \in Packages \ todo'[p] : copies[p][k] = Lock(p)[k]
    BY <2>2 DEF CopiesVerified, Verified
  <2>4. HasBundle(p)' /\ CopiesVerified(p)' /\ LinkedAsLocked(p)'
    BY <2>2, <2>3 DEF HasBundle, CopiesVerified, LinkedAsLocked, Lock
  <2>5. extracted[p] # NoBundle => extracted[p] = Embedded[version[p]]
    BY DEF InstalledFromOneVersion
  <2> QED
    BY <2>1, <2>2, <2>4, <2>5, ContentUnmoved, OneProcessMoves DEF TypeOK, Goto, Ended
<1> QED
  BY <1>1, <1>2

(* The records that were matched are those that are stored.                 *)
LEMMA MatchedPreserves ==
  ASSUME IInv, NEW p \in Processes, Matched(p)
  PROVE  IInv'
<1> USE DEF IInv, Matched
<1>1. CASE offline[p] /\ todo[p] # {}
  BY <1>1, FailPreserves, ContentUnmoved DEF TypeOK, Ended
<1>2. CASE ~(offline[p] /\ todo[p] # {})
  <2> USE <1>2
  <2>1. TypeOK'
    <3>1. todo' = [todo EXCEPT ![p] = Packages \ todo[p]]
          /\ Packages \ todo[p] \in SUBSET Packages
      OBVIOUS
    <3>2. todo' \in [Processes -> SUBSET Packages]
      BY <3>1 DEF TypeOK
    <3> QED
      BY <3>2 DEF TypeOK, Goto, Steps
  <2>2. step'[p] = "store" /\ todo'[p] = Packages \ todo[p]
    BY DEF TypeOK, Goto
  <2>3. HasBundle(p)' /\ CopiesVerified(p)' /\ LinkedAsLocked(p)'
    BY <2>2 DEF HasBundle, CopiesVerified, LinkedAsLocked, Lock
  <2>4. extracted[p] # NoBundle => extracted[p] = Embedded[version[p]]
    BY DEF InstalledFromOneVersion
  <2> QED
    BY <2>1, <2>2, <2>3, <2>4, ContentUnmoved, OneProcessMoves DEF TypeOK, Goto, Ended
<1> QED
  BY <1>1, <1>2

(* What is stored has the digest it is stored under.                        *)
LEMMA StorePackagePreserves ==
  ASSUME IInv, NEW p \in Processes, NEW k \in Packages, StorePackage(p, k)
  PROVE  IInv'
<1> USE DEF IInv, StorePackage
<1> DEFINE c == Lock(p)[k]
<1>1. c \in Contents /\ copies[p][k] = c
  BY Constants DEF TypeOK, CopiesVerified, Lock
<1>2. cache' = [cache EXCEPT ![c] = IF cache[c] = Absent THEN copies[p][k] ELSE cache[c]]
  BY <1>1 DEF TypeOK
<1>3. \A d \in Contents : cache'[d] \in {cache[d], d}
  BY <1>1, <1>2 DEF TypeOK
<1>4. TypeOK'
  <2>1. cache' \in [Contents -> Archives]
    BY <1>1, <1>2 DEF TypeOK, Archives
  <2> QED
    BY <2>1 DEF TypeOK
<1>5. OnlyLockedContent'
  BY <1>3 DEF OnlyLockedContent
<1>6. step'[p] = "store" /\ todo'[p] \subseteq todo[p]
  BY DEF TypeOK
<1>7. HasBundle(p)' /\ CopiesVerified(p)' /\ LinkedAsLocked(p)'
  BY <1>6 DEF HasBundle, CopiesVerified, LinkedAsLocked, Lock
<1>8. extracted[p] # NoBundle => extracted[p] = Embedded[version[p]]
  BY DEF InstalledFromOneVersion
<1> QED
  BY <1>4, <1>5, <1>6, <1>7, <1>8, OneProcessMoves DEF TypeOK, Ended

(* The installer starts with every record.                                  *)
LEMMA StoredPreserves ==
  ASSUME IInv, NEW p \in Processes, Stored(p)
  PROVE  IInv'
<1> USE DEF IInv, Stored
<1>1. TypeOK'
  BY DEF TypeOK, Goto, Steps, NoCopies, Archives
<1>2. step'[p] = "install" /\ todo'[p] = Packages
  BY DEF TypeOK, Goto
<1>3. HasBundle(p)' /\ CopiesVerified(p)' /\ LinkedAsLocked(p)'
  BY <1>2 DEF HasBundle, CopiesVerified, LinkedAsLocked
<1>4. extracted[p] # NoBundle => extracted[p] = Embedded[version[p]]
  BY DEF InstalledFromOneVersion
<1> QED
  BY <1>1, <1>2, <1>3, <1>4, ContentUnmoved, OneProcessMoves DEF TypeOK, Goto, Ended

(* A downloaded package has its digest.                                     *)
LEMMA DownloadPackagePreserves ==
  ASSUME IInv, NEW p \in Processes, NEW k \in Packages, DownloadPackage(p, k)
  PROVE  IInv'
<1> USE DEF IInv, DownloadPackage
<1>1. CASE offline[p]
  BY <1>1, FailPreserves, ContentUnmoved DEF TypeOK, Ended
<1>2. CASE ~offline[p]
  <2> USE <1>2
  <2> DEFINE c == Lock(p)[k]
  <2>1. c \in Contents /\ cache' = [cache EXCEPT ![c] = c]
    BY Constants DEF TypeOK, Lock
  <2>2. TypeOK'
    BY <2>1 DEF TypeOK, Archives, process
  <2>3. OnlyLockedContent'
    BY <2>1 DEF OnlyLockedContent, TypeOK
  <2>4. HasBundle(p)' /\ CopiesVerified(p)' /\ LinkedAsLocked(p)'
    BY DEF HasBundle, CopiesVerified, LinkedAsLocked, Lock, process
  <2>5. extracted[p] # NoBundle => extracted[p] = Embedded[version[p]]
    BY DEF InstalledFromOneVersion
  <2> QED
    BY <2>2, <2>3, <2>4, <2>5, OneProcessMoves DEF TypeOK, Ended, process
<1> QED
  BY <1>1, <1>2

(* What the cache has under the digest of the lock is what is linked.       *)
LEMMA LinkPackagePreserves ==
  ASSUME IInv, NEW p \in Processes, NEW k \in Packages, LinkPackage(p, k)
  PROVE  IInv'
<1> USE DEF IInv, LinkPackage
<1>1. Lock(p)[k] \in Contents /\ cache[Lock(p)[k]] = Lock(p)[k] /\ version[p] \in Versions
  BY Constants DEF TypeOK, Lock, OnlyLockedContent
<1>2. prefix' = [prefix EXCEPT ![p][k] = Lock(p)[k]]
  BY <1>1
<1>3. \A q \in Processes, j \in Packages :
        prefix'[q][j] = IF q = p /\ j = k THEN Lock(p)[k] ELSE prefix[q][j]
  BY <1>2 DEF TypeOK
<1>4. TypeOK'
  <2>1. prefix' \in [Processes -> [Packages -> Archives]]
    BY <1>1, <1>2 DEF TypeOK, Archives
  <2> QED
    BY <2>1 DEF TypeOK
<1>5. OnlyLockedContent'
  BY <1>1, <1>3 DEF OnlyLockedContent, Lock
<1>6. step'[p] = "install" /\ todo'[p] = todo[p] \ {k}
  BY DEF TypeOK
<1>7. HasBundle(p)' /\ CopiesVerified(p)' /\ LinkedAsLocked(p)'
  BY <1>3, <1>6 DEF HasBundle, CopiesVerified, LinkedAsLocked, Lock
<1>8. extracted[p] # NoBundle => extracted[p] = Embedded[version[p]]
  BY DEF InstalledFromOneVersion
<1>9. \A q \in Processes \ {p} : prefix'[q] = prefix[q]
  BY <1>2 DEF TypeOK
<1> QED
  BY <1>4, <1>5, <1>6, <1>7, <1>8, <1>9, OneProcessMoves DEF TypeOK, Ended

(* When nothing is left to link, the prefix is as locked.                   *)
LEMMA InstalledPreserves ==
  ASSUME IInv, NEW p \in Processes, Installed(p)
  PROVE  IInv'
<1> USE DEF IInv, Installed, EndAs
<1>1. TypeOK'
  BY DEF TypeOK, Goto, Steps
<1>2. step'[p] = "cleanup"
  BY DEF TypeOK, Goto
<1>3. prefix[p] = Lock(p)
  <2>1. \A k \in Packages : prefix[p][k] = Lock(p)[k]
    BY DEF LinkedAsLocked
  <2>2. prefix[p] \in [Packages -> Archives] /\ Lock(p) \in [Packages -> Contents]
    BY Constants DEF TypeOK, Lock
  <2> QED
    BY <2>1, <2>2
<1>4. HasBundle(p)' /\ CopiesVerified(p)' /\ LinkedAsLocked(p)'
  BY <1>2, <1>3 DEF HasBundle, CopiesVerified, LinkedAsLocked, Lock
<1>5. extracted[p] # NoBundle => extracted[p] = Embedded[version[p]]
  BY DEF InstalledFromOneVersion
<1> QED
  BY <1>1, <1>2, <1>4, <1>5, ContentUnmoved, OneProcessMoves DEF TypeOK, Goto, Ended

(* A process that ends has removed its directory, or leaves it and says so. *)
LEMMA EndPreserves ==
  ASSUME IInv, NEW p \in Processes, NEW s \in Ended, Goto(p, s), Forget(p),
         s = "done" => prefix[p] = Lock(p),
         \/ extracted' = [extracted EXCEPT ![p] = NoBundle] /\ abandoned' = abandoned
         \/ LeavesDirectory(p),
         faults' \in 0 .. MaxFaults,
         UNCHANGED <<exe, shared, cache, prefix, version, starts, changes>>
  PROVE  IInv'
<1> USE DEF IInv, Forget
<1>1. /\ abandoned' \in [Processes -> BOOLEAN]
      /\ extracted' \in [Processes -> Directories \union {NoBundle}]
      /\ \A q \in Processes \ {p} : extracted'[q] = extracted[q] /\ abandoned'[q] = abandoned[q]
  BY DEF LeavesDirectory, TypeOK
<1>2. TypeOK'
  BY <1>1 DEF TypeOK, Goto, Steps, NothingOpen, NoCopies, Archives
<1>3. step'[p] = s /\ (extracted'[p] # NoBundle => abandoned'[p])
  BY DEF TypeOK, Goto, LeavesDirectory
<1>4. extracted'[p] # NoBundle => extracted'[p] = Embedded[version[p]]
  BY DEF InstalledFromOneVersion, TypeOK, LeavesDirectory
<1>5. HasBundle(p)' /\ CopiesVerified(p)' /\ LinkedAsLocked(p)'
  BY <1>3 DEF HasBundle, CopiesVerified, LinkedAsLocked, Ended
<1> QED
  BY <1>1, <1>2, <1>3, <1>4, <1>5, ContentUnmoved, OneProcessMoves DEF TypeOK, Goto, Lock

-----------------------------------------------------------------------------
(* All steps *)

(* A process on its way.                                                    *)
LEMMA AdvancePreserves ==
  ASSUME IInv, NEW p \in Processes, Advance(p)
  PROVE  IInv'
<1>1. CASE Cleanup(p)
  <2>1. /\ outcome[p] \in Ended /\ (outcome[p] = "done" => prefix[p] = Lock(p))
        /\ faults' \in 0 .. MaxFaults
    BY <1>1, Constants DEF Cleanup, Fault, IInv, TypeOK, LinkedAsLocked, Ended
  <2> QED
    BY <1>1, <2>1, EndPreserves DEF Cleanup
<1>2. CASE \E k \in Packages :
             OpenArchive(p, k) \/ StorePackage(p, k) \/ DownloadPackage(p, k) \/ LinkPackage(p, k)
  BY <1>2, OpenArchivePreserves, StorePackagePreserves, DownloadPackagePreserves,
     LinkPackagePreserves
<1> QED
  BY <1>1, <1>2, ExtractPreserves, IndexBundlePreserves, CopyArchivePreserves,
     VerifyCopyPreserves, MatchedPreserves, StoredPreserves, InstalledPreserves DEF Advance

(* A fault that befalls one process.                                        *)
LEMMA FaultPreserves ==
  ASSUME IInv, NEW p \in Processes, FailingCall(p) \/ Kill(p)
  PROVE  IInv'
<1>1. faults' \in 0 .. MaxFaults
  BY Constants DEF FailingCall, Kill, Fault, IInv, TypeOK
<1>2. CASE FailingCall(p)
  BY <1>1, <1>2, FailPreserves, ContentUnmoved DEF FailingCall, IInv, TypeOK
<1>3. CASE Kill(p)
  BY <1>1, <1>3, EndPreserves DEF Kill, Ended
<1> QED
  BY <1>2, <1>3

(* Another executable, or another archive in the configured directory, does *)
(* not concern what was copied and verified.                                *)
LEMMA ChangePreserves ==
  ASSUME IInv,
         \/ \E v \in Versions : ReplaceExecutable(v)
         \/ \E k \in Packages, content \in Contents \union {Absent} : ChangeDirectory(k, content)
  PROVE  IInv'
<1> USE DEF IInv, process
<1>1. UNCHANGED <<cache, prefix, process, starts, faults>>
  BY DEF ReplaceExecutable, ChangeDirectory
<1>2. exe' \in Versions /\ shared' \in Directories /\ changes' \in 0 .. MaxChanges
  <2>1. CASE \E v \in Versions : ReplaceExecutable(v)
    BY <2>1, Constants DEF ReplaceExecutable, Change, TypeOK
  <2>2. ASSUME NEW k \in Packages, NEW content \in Contents \union {Absent},
               ChangeDirectory(k, content)
        PROVE  exe' = exe /\ shared' \in Directories /\ changes' \in 0 .. MaxChanges
    <3>1. exe' = exe /\ shared' = [shared EXCEPT ![k] = content]
      BY <2>2 DEF ChangeDirectory
    <3>2. changes' \in 0 .. MaxChanges
      BY <2>2, Constants DEF ChangeDirectory, Change, TypeOK
    <3> QED
      BY <3>1, <3>2 DEF TypeOK, Directories
  <2> QED
    BY <2>1, <2>2 DEF TypeOK
<1>3. TypeOK'
  BY <1>1, <1>2 DEF TypeOK
<1>4. InstalledFromOneVersion' /\ ExtractionRemoved'
  BY <1>1 DEF InstalledFromOneVersion, ExtractionRemoved, Lock
<1>5. \A p \in Processes : HasBundle(p)' /\ CopiesVerified(p)' /\ LinkedAsLocked(p)'
  BY <1>1 DEF HasBundle, CopiesVerified, LinkedAsLocked, Lock
<1> QED
  BY <1>1, <1>3, <1>4, <1>5, ContentUnmoved

(* Every step preserves the invariant.                                      *)
LEMMA NextPreserves == IInv /\ [Next]_vars => IInv'
<1> SUFFICES ASSUME IInv, [Next]_vars PROVE IInv'
  OBVIOUS
<1>1. CASE UNCHANGED vars
  <2> USE <1>1 DEF vars, process
  <2>1. TypeOK' /\ OnlyLockedContent'
    BY ContentUnmoved DEF IInv, TypeOK
  <2>2. InstalledFromOneVersion' /\ ExtractionRemoved'
    BY DEF IInv, InstalledFromOneVersion, ExtractionRemoved, Lock
  <2>3. \A p \in Processes : HasBundle(p)' /\ CopiesVerified(p)' /\ LinkedAsLocked(p)'
    BY DEF IInv, HasBundle, CopiesVerified, LinkedAsLocked, Lock
  <2> QED
    BY <2>1, <2>2, <2>3 DEF IInv
<1>2. CASE \E p \in Processes : Start(p) \/ Advance(p) \/ FailingCall(p) \/ Kill(p)
  BY <1>2, StartPreserves, AdvancePreserves, FaultPreserves
<1>3. CASE \/ \E v \in Versions : ReplaceExecutable(v)
           \/ \E k \in Packages, content \in Contents \union {Absent} :
                ChangeDirectory(k, content)
  BY <1>3, ChangePreserves
<1> QED
  BY <1>1, <1>2, <1>3 DEF Next

(* The invariant holds in every state the installations reach.              *)
LEMMA Invariance == Spec => []IInv
BY InitCorrect, NextPreserves, PTL DEF Spec

-----------------------------------------------------------------------------

(* The variables have their types.                                          *)
THEOREM TypeCorrect == Spec => []TypeOK
<1>1. IInv => TypeOK
  BY DEF IInv
<1> QED
  BY <1>1, Invariance, PTL

(* However many processes share the package cache, and whatever happens to  *)
(* the archives while they are read, the cache and the prefixes hold locked *)
(* content only.                                                            *)
THEOREM CacheAndPrefixesAreLocked == Spec => []OnlyLockedContent
<1>1. IInv => OnlyLockedContent
  BY DEF IInv
<1> QED
  BY <1>1, Invariance, PTL

(* An installation that succeeds is of the lock of one version, and an      *)
(* unpacked bundle is that of the version that unpacked it.                 *)
THEOREM InstallationsAreOfOneVersion == Spec => []InstalledFromOneVersion
<1>1. IInv => InstalledFromOneVersion
  BY DEF IInv
<1> QED
  BY <1>1, Invariance, PTL

(* An unpacked bundle that outlives its installation is that of one that    *)
(* was killed or could not remove it: on every other way to an end, success *)
(* or error, with any number of processes and faults, it is removed.        *)
THEOREM OnlyAbandonedBundlesStay == Spec => []ExtractionRemoved
<1>1. IInv => ExtractionRemoved
  BY DEF IInv
<1> QED
  BY <1>1, Invariance, PTL
=============================================================================
