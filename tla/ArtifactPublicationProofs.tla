--------------------- MODULE ArtifactPublicationProofs ---------------------
(***************************************************************************)
(* Proofs about ArtifactPublication, for any number of project roots,      *)
(* packagers, projects and builds.                                         *)
(***************************************************************************)
EXTENDS ArtifactPublication, TLAPS

(* The kinds of files, spelled out.                                         *)
LEMMA KindsAre ==
  Kinds = {"bundle", "lock", "packages", "sbom", "binary", "info", "sha256"}
BY DEF Kinds, After

(* At first nothing is built, staged or published.                          *)
LEMMA InitCorrect == Init => IInv
<1> SUFFICES ASSUME Init PROVE IInv
  OBVIOUS
<1> USE DEF Init
<1>1. TypeOK
  <2>1. pc \in [Processes -> BuilderPCs \union PackagerPCs]
        /\ \A q \in Packagers : pc[q] \in PackagerPCs
    BY DEF Processes, BuilderPCs, PackagerPCs
  <2>2. \A b \in Builders :
          /\ pc[b] = "rest" /\ pc[b] \in BuilderPCs /\ pc[b] \notin Publishing
          /\ build[b] = NONE /\ pubLock # b
    BY PublicationAssumption, KindsAre DEF Processes, BuilderPCs, Publishing
  <2>3. dir \in [Builders -> SUBSET (Packages \union {Download(p) : p \in Packages})]
        /\ archive \in [Builders -> (SUBSET Packages) \union {NONE, Partial}]
    OBVIOUS
  <2>4. DOMAIN build = Builders /\ DOMAIN staged = Builders /\ DOMAIN job = Packagers
        /\ DOMAIN out = Kinds /\ DOMAIN package = Versions
    OBVIOUS
  <2>5. builds \in 0 .. MaxBuilds /\ faults \in 0 .. MaxFaults
    BY PublicationAssumption
  <2> QED
    BY <2>1, <2>2, <2>3, <2>4, <2>5 DEF TypeOK
<1>2. \A b \in Builders : BundleCorrect(b) /\ StagedCorrect(b) /\ PublishedCorrect(b)
  BY KindsAre DEF BundleCorrect, StagedCorrect, PublishedCorrect, Processes, Publishing
<1>3. CompleteSetIsOneBuild /\ BundleHasLockedPackages
  BY KindsAre DEF CompleteSetIsOneBuild, BundleHasLockedPackages
<1> QED
  BY <1>1, <1>2, <1>3 DEF IInv

(* Packagers and the signing step write nothing that builders read.         *)
LEMMA ReadersPreserve ==
  ASSUME IInv,
         UNCHANGED <<build, rootVars, staged, out, pubLock, builds, faults>>,
         DOMAIN job' = DOMAIN job, DOMAIN package' = DOMAIN package,
         pc' = pc \/ \E q \in Packagers, l \in PackagerPCs : Goto(q, l)
  PROVE  IInv'
<1> USE DEF IInv, rootVars
<1>1. \A b \in Builders : pc'[b] = pc[b]
  BY PublicationAssumption DEF TypeOK, Goto, Processes
<1>2. TypeOK'
  <2>1. pc' \in [Processes -> BuilderPCs \union PackagerPCs]
        /\ \A q \in Packagers : pc'[q] \in PackagerPCs
    BY DEF TypeOK, Goto, Processes
  <2> QED
    BY <1>1, <2>1 DEF TypeOK
<1>3. ASSUME NEW b \in Builders
      PROVE  BundleCorrect(b)' /\ StagedCorrect(b)' /\ PublishedCorrect(b)'
  <2>1. BundleCorrect(b) /\ StagedCorrect(b) /\ PublishedCorrect(b) /\ pc'[b] = pc[b]
    BY <1>1
  <2>2. BundleCorrect(b)'
    BY <2>1 DEF BundleCorrect, Layout, Lock
  <2>3. StagedCorrect(b)'
    BY <2>1 DEF StagedCorrect, Layout, BundleOf
  <2>4. PublishedCorrect(b)'
    BY <2>1 DEF PublishedCorrect, Layout
  <2> QED
    BY <2>2, <2>3, <2>4
<1>4. CompleteSetIsOneBuild' /\ BundleHasLockedPackages'
  BY DEF CompleteSetIsOneBuild, Verifies, BundleHasLockedPackages, BundleOf
<1> QED
  BY <1>2, <1>3, <1>4

(* What a step of one builder leaves of another one: its own state, and all *)
(* of out unless the first one publishes, which excludes the second.        *)
LEMMA OthersUnmoved ==
  ASSUME IInv,
         NEW b \in Builders, NEW c \in Builders, c # b,
         pc'[c] = pc[c], build'[c] = build[c], dir'[c] = dir[c],
         archive'[c] = archive[c], staged'[c] = staged[c],
         out' = out \/ pc[b] \in Publishing
  PROVE  BundleCorrect(c)' /\ StagedCorrect(c)' /\ PublishedCorrect(c)'
<1>1. BundleCorrect(c) /\ StagedCorrect(c) /\ PublishedCorrect(c)
  BY DEF IInv
<1>2. BundleCorrect(c)'
  BY <1>1 DEF BundleCorrect, Layout, Lock
<1>3. StagedCorrect(c)'
  BY <1>1 DEF StagedCorrect, Layout, BundleOf
<1>4. PublishedCorrect(c)'
  <2>1. CASE out' = out
    BY <1>1, <2>1 DEF PublishedCorrect, Layout
  <2>2. CASE pc[b] \in Publishing
    <3>1. pubLock = b /\ pc[c] \notin Publishing
      BY <2>2 DEF IInv, TypeOK
    <3> QED
      BY <3>1, KindsAre DEF PublishedCorrect, Publishing
  <2> QED
    BY <2>1, <2>2
<1> QED
  BY <1>2, <1>3, <1>4

(* The published set keeps its properties when out does not change.         *)
LEMMA SetUnmoved ==
  ASSUME IInv, out' = out
  PROVE  CompleteSetIsOneBuild' /\ BundleHasLockedPackages'
BY DEF IInv, CompleteSetIsOneBuild, Verifies, BundleHasLockedPackages, BundleOf

(* It has them when there is no marker.                                     *)
LEMMA NoMarker ==
  ASSUME out'["sha256"] = NONE
  PROVE  CompleteSetIsOneBuild' /\ BundleHasLockedPackages'
BY DEF CompleteSetIsOneBuild, BundleHasLockedPackages

(* The part of the types that one builder's step can disturb.               *)
LEMMA TypeStep ==
  ASSUME TypeOK, NEW b \in Builders, NEW l \in BuilderPCs,
         Goto(b, l),
         DOMAIN build' = Builders, DOMAIN staged' = Builders, job' = job,
         \A c \in Builders \ {b} : build'[c] = build[c],
         IF l = "rest" THEN build'[b] = NONE
                       ELSE build'[b] \in [no : 1 .. MaxBuilds, project : Projects],
         pubLock' \in Builders \union {NONE},
         \A c \in Builders \ {b} : pubLock' = c <=> pubLock = c,
         pubLock' = b <=> l \in Publishing,
         dir' \in [Builders -> SUBSET (Packages \union {Download(p) : p \in Packages})],
         archive' \in [Builders -> (SUBSET Packages) \union {NONE, Partial}],
         DOMAIN out' = Kinds, package' = package,
         builds' \in 0 .. MaxBuilds, faults' \in 0 .. MaxFaults
  PROVE  TypeOK'
<1>1. pc' \in [Processes -> BuilderPCs \union PackagerPCs]
  BY DEF TypeOK, Goto, Processes
<1>2. \A q \in Packagers : pc'[q] = pc[q]
  BY PublicationAssumption DEF TypeOK, Goto, Processes
<1>3. \A c \in Builders : pc'[c] = IF c = b THEN l ELSE pc[c]
  BY DEF TypeOK, Goto, Processes
<1>4. \A c \in Builders :
        /\ pc'[c] \in BuilderPCs
        /\ IF pc'[c] = "rest"
             THEN build'[c] = NONE
             ELSE build'[c] \in [no : 1 .. MaxBuilds, project : Projects]
        /\ pubLock' = c <=> pc'[c] \in Publishing
  BY <1>3 DEF TypeOK
<1>5. \A q \in Packagers : pc'[q] \in PackagerPCs
  BY <1>2 DEF TypeOK
<1>6. DOMAIN job' = Packagers /\ DOMAIN package' = Versions
  BY DEF TypeOK
<1> QED
  BY <1>1, <1>4, <1>5, <1>6 DEF TypeOK

-----------------------------------------------------------------------------
(* One lemma for each step of a build *)

(* The pieces of the invariant put together after a step of b.              *)
LEMMA AfterStep ==
  ASSUME NEW b \in Builders, TypeOK',
         \A c \in Builders \ {b} :
           BundleCorrect(c)' /\ StagedCorrect(c)' /\ PublishedCorrect(c)',
         BundleCorrect(b)' /\ StagedCorrect(b)' /\ PublishedCorrect(b)',
         CompleteSetIsOneBuild' /\ BundleHasLockedPackages'
  PROVE  IInv'
BY DEF IInv

(* While a build makes its bundle, it is neither staged nor published.      *)
LEMMA NotYetStaged ==
  ASSUME NEW b \in Builders, pc'[b] \in {"rest", "empty", "download", "archive", "stage"}
  PROVE  StagedCorrect(b)' /\ PublishedCorrect(b)'
BY KindsAre DEF StagedCorrect, PublishedCorrect, Publishing

(* A step that ends the build leaves nothing of it to be correct about.     *)
LEMMA NothingAtRest ==
  ASSUME NEW b \in Builders, pc'[b] = "rest"
  PROVE  BundleCorrect(b)' /\ StagedCorrect(b)' /\ PublishedCorrect(b)'
BY KindsAre DEF BundleCorrect, StagedCorrect, PublishedCorrect, Publishing

(* A build that begins has neither a bundle nor staged files.               *)
LEMMA StartBuildPreserves ==
  ASSUME IInv, NEW b \in Builders, StartBuild(b) PROVE IInv'
<1> USE DEF IInv, StartBuild, rootVars, packageVars
<1>1. PICK j \in Projects :
        /\ build' = [build EXCEPT ![b] = [no |-> builds + 1, project |-> j]]
        /\ Goto(b, IF j.layout = "online" THEN "stage" ELSE "empty")
  OBVIOUS
<1>2. pc' = [pc EXCEPT ![b] = IF j.layout = "online" THEN "stage" ELSE "empty"]
  BY <1>1 DEF Goto
<1>3. pc'[b] = (IF j.layout = "online" THEN "stage" ELSE "empty")
      /\ build'[b] = [no |-> builds + 1, project |-> j]
  BY <1>1, <1>2 DEF TypeOK, Processes
<1>4. TypeOK'
  <2>1. build'[b] \in [no : 1 .. MaxBuilds, project : Projects] /\ builds + 1 \in 0 .. MaxBuilds
    BY <1>3, PublicationAssumption DEF TypeOK
  <2>2. pubLock # b
    BY KindsAre DEF TypeOK, Publishing
  <2> DEFINE l == IF j.layout = "online" THEN "stage" ELSE "empty"
  <2>3. l \in BuilderPCs /\ l \notin Publishing /\ l # "rest" /\ Goto(b, l)
    BY <1>1, KindsAre DEF BuilderPCs, Publishing
  <2> HIDE DEF l
  <2> QED
    BY <1>1, <2>1, <2>2, <2>3, TypeStep DEF TypeOK
<1>5. ASSUME NEW c \in Builders, c # b
      PROVE  BundleCorrect(c)' /\ StagedCorrect(c)' /\ PublishedCorrect(c)'
  BY <1>1, <1>2, <1>5, OthersUnmoved DEF TypeOK
<1>6. BundleCorrect(b)'
  BY <1>3 DEF BundleCorrect, Layout
<1>7. StagedCorrect(b)' /\ PublishedCorrect(b)'
  BY <1>3, NotYetStaged
<1>8. CompleteSetIsOneBuild' /\ BundleHasLockedPackages'
  BY SetUnmoved
<1> QED
  BY <1>4, <1>5, <1>6, <1>7, <1>8, AfterStep

(* The emptied directory has nothing but what the lock names. *)
LEMMA EmptyBundleDirPreserves ==
  ASSUME IInv, NEW b \in Builders, EmptyBundleDir(b) PROVE IInv'
<1> USE DEF IInv, EmptyBundleDir, rootVars, packageVars
<1>1. BundleCorrect(b) /\ build[b] \in [no : 1 .. MaxBuilds, project : Projects]
      /\ pubLock # b /\ dir[b] \subseteq Packages \union {Download(p) : p \in Packages}
  BY KindsAre DEF TypeOK, Publishing
<1>2. pc' = [pc EXCEPT ![b] = "download"] /\ pc'[b] = "download" /\ build' = build
  BY DEF Goto, TypeOK, Processes
<1>3. Lock(b) \subseteq Packages /\ Layout(b)' = Layout(b) /\ Lock(b)' = Lock(b)
  BY <1>1, <1>2 DEF Lock, Layout, Packages, Locks
<1>4. dir' \in [Builders -> SUBSET (Packages \union {Download(p) : p \in Packages})]
      /\ dir'[b] = {}
  BY <1>1, <1>3 DEF TypeOK, BundleCorrect
<1>5. TypeOK'
  <2>1. "download" \in BuilderPCs /\ "download" \notin Publishing /\ "download" # "rest"
        /\ Goto(b, "download")
    BY <1>2, KindsAre DEF BuilderPCs, Publishing, Goto
  <2> QED
    BY <1>1, <1>2, <1>4, <2>1, TypeStep DEF TypeOK
<1>6. ASSUME NEW c \in Builders, c # b
      PROVE  BundleCorrect(c)' /\ StagedCorrect(c)' /\ PublishedCorrect(c)'
  BY <1>2, <1>6, OthersUnmoved DEF TypeOK
<1>7. BundleCorrect(b)'
  BY <1>1, <1>2, <1>3, <1>4 DEF BundleCorrect, TypeOK
<1>8. StagedCorrect(b)' /\ PublishedCorrect(b)'
  BY <1>2, NotYetStaged
<1>9. CompleteSetIsOneBuild' /\ BundleHasLockedPackages'
  BY SetUnmoved
<1> QED
  BY <1>5, <1>6, <1>7, <1>8, <1>9, AfterStep

(* A download adds a package of the lock. *)
LEMMA DownloadPackagePreserves ==
  ASSUME IInv, NEW b \in Builders, DownloadPackage(b) PROVE IInv'
<1> USE DEF IInv, DownloadPackage, rootVars, packageVars
<1>1. BundleCorrect(b) /\ build[b] \in [no : 1 .. MaxBuilds, project : Projects]
      /\ pubLock # b /\ dir[b] \subseteq Packages \union {Download(p) : p \in Packages}
  BY KindsAre DEF TypeOK, Publishing
<1>2. pc' = [pc EXCEPT ![b] = "download"] /\ pc'[b] = "download" /\ build' = build
  BY DEF Goto, TypeOK, Processes
<1>3. Lock(b) \subseteq Packages /\ Layout(b)' = Layout(b) /\ Lock(b)' = Lock(b)
  BY <1>1, <1>2 DEF Lock, Layout, Packages, Locks
<1>4. dir' \in [Builders -> SUBSET (Packages \union {Download(p) : p \in Packages})]
      /\ dir'[b] \subseteq Lock(b)
  BY <1>1, <1>3 DEF TypeOK, BundleCorrect
<1>5. TypeOK'
  <2>1. "download" \in BuilderPCs /\ "download" \notin Publishing /\ "download" # "rest"
        /\ Goto(b, "download")
    BY <1>2, KindsAre DEF BuilderPCs, Publishing, Goto
  <2> QED
    BY <1>1, <1>2, <1>4, <2>1, TypeStep DEF TypeOK
<1>6. ASSUME NEW c \in Builders, c # b
      PROVE  BundleCorrect(c)' /\ StagedCorrect(c)' /\ PublishedCorrect(c)'
  BY <1>2, <1>6, OthersUnmoved DEF TypeOK
<1>7. BundleCorrect(b)'
  BY <1>1, <1>2, <1>3, <1>4 DEF BundleCorrect, TypeOK
<1>8. StagedCorrect(b)' /\ PublishedCorrect(b)'
  BY <1>2, NotYetStaged
<1>9. CompleteSetIsOneBuild' /\ BundleHasLockedPackages'
  BY SetUnmoved
<1> QED
  BY <1>5, <1>6, <1>7, <1>8, <1>9, AfterStep

(* The archive is begun when every package of the lock is there. *)
LEMMA CreateArchivePreserves ==
  ASSUME IInv, NEW b \in Builders, CreateArchive(b) PROVE IInv'
<1> USE DEF IInv, CreateArchive, rootVars, packageVars
<1>1. BundleCorrect(b) /\ build[b] \in [no : 1 .. MaxBuilds, project : Projects]
      /\ pubLock # b /\ dir[b] \subseteq Packages \union {Download(p) : p \in Packages}
  BY KindsAre DEF TypeOK, Publishing
<1>2. pc' = [pc EXCEPT ![b] = "archive"] /\ pc'[b] = "archive" /\ build' = build
  BY DEF Goto, TypeOK, Processes
<1>3. Lock(b) \subseteq Packages /\ Layout(b)' = Layout(b) /\ Lock(b)' = Lock(b)
  BY <1>1, <1>2 DEF Lock, Layout, Packages, Locks
<1>4. archive' \in [Builders -> (SUBSET Packages) \union {NONE, Partial}]
      /\ dir' = dir /\ dir[b] = Lock(b)
  BY <1>1, <1>3 DEF TypeOK, BundleCorrect
<1>5. TypeOK'
  <2>1. "archive" \in BuilderPCs /\ "archive" \notin Publishing /\ "archive" # "rest"
        /\ Goto(b, "archive")
    BY <1>2, KindsAre DEF BuilderPCs, Publishing, Goto
  <2> QED
    BY <1>1, <1>2, <1>4, <2>1, TypeStep DEF TypeOK
<1>6. ASSUME NEW c \in Builders, c # b
      PROVE  BundleCorrect(c)' /\ StagedCorrect(c)' /\ PublishedCorrect(c)'
  BY <1>2, <1>6, OthersUnmoved DEF TypeOK
<1>7. BundleCorrect(b)'
  BY <1>1, <1>2, <1>3, <1>4 DEF BundleCorrect, TypeOK
<1>8. StagedCorrect(b)' /\ PublishedCorrect(b)'
  BY <1>2, NotYetStaged
<1>9. CompleteSetIsOneBuild' /\ BundleHasLockedPackages'
  BY SetUnmoved
<1> QED
  BY <1>5, <1>6, <1>7, <1>8, <1>9, AfterStep

(* The finished archive has the packages of the lock. *)
LEMMA FinishArchivePreserves ==
  ASSUME IInv, NEW b \in Builders, FinishArchive(b) PROVE IInv'
<1> USE DEF IInv, FinishArchive, rootVars, packageVars
<1>1. BundleCorrect(b) /\ build[b] \in [no : 1 .. MaxBuilds, project : Projects]
      /\ pubLock # b /\ dir[b] \subseteq Packages \union {Download(p) : p \in Packages}
  BY KindsAre DEF TypeOK, Publishing
<1>2. pc' = [pc EXCEPT ![b] = "stage"] /\ pc'[b] = "stage" /\ build' = build
  BY DEF Goto, TypeOK, Processes
<1>3. Lock(b) \subseteq Packages /\ Layout(b)' = Layout(b) /\ Lock(b)' = Lock(b)
  BY <1>1, <1>2 DEF Lock, Layout, Packages, Locks
<1>4. archive' \in [Builders -> (SUBSET Packages) \union {NONE, Partial}]
      /\ archive'[b] = Lock(b)
  BY <1>1, <1>3 DEF TypeOK, BundleCorrect
<1>5. TypeOK'
  <2>1. "stage" \in BuilderPCs /\ "stage" \notin Publishing /\ "stage" # "rest"
        /\ Goto(b, "stage")
    BY <1>2, KindsAre DEF BuilderPCs, Publishing, Goto
  <2> QED
    BY <1>1, <1>2, <1>4, <2>1, TypeStep DEF TypeOK
<1>6. ASSUME NEW c \in Builders, c # b
      PROVE  BundleCorrect(c)' /\ StagedCorrect(c)' /\ PublishedCorrect(c)'
  BY <1>2, <1>6, OthersUnmoved DEF TypeOK
<1>7. BundleCorrect(b)'
  BY <1>1, <1>2, <1>3, <1>4 DEF BundleCorrect, TypeOK
<1>8. StagedCorrect(b)' /\ PublishedCorrect(b)'
  BY <1>2, NotYetStaged
<1>9. CompleteSetIsOneBuild' /\ BundleHasLockedPackages'
  BY SetUnmoved
<1> QED
  BY <1>5, <1>6, <1>7, <1>8, <1>9, AfterStep

(* A set is staged whose marker and info file name its own files.           *)
LEMMA StageArtifactsPreserves ==
  ASSUME IInv, NEW b \in Builders, StageArtifacts(b) PROVE IInv'
<1> USE DEF IInv, StageArtifacts, rootVars, packageVars
<1>1. BundleCorrect(b) /\ build[b] \in [no : 1 .. MaxBuilds, project : Projects]
      /\ pubLock # b
  BY KindsAre DEF TypeOK, Publishing
<1>2. pc' = [pc EXCEPT ![b] = "acquire"] /\ pc'[b] = "acquire" /\ build' = build
  BY DEF Goto, TypeOK, Processes
<1>3. TypeOK'
  <2>1. "acquire" \in BuilderPCs /\ "acquire" \notin Publishing /\ Goto(b, "acquire")
        /\ DOMAIN staged' = Builders
    BY KindsAre DEF BuilderPCs, Publishing, TypeOK
  <2> QED
    BY <1>1, <1>2, <2>1, TypeStep DEF TypeOK
<1>4. ASSUME NEW c \in Builders, c # b
      PROVE  BundleCorrect(c)' /\ StagedCorrect(c)' /\ PublishedCorrect(c)'
  BY <1>2, <1>4, OthersUnmoved DEF TypeOK
<1>5. BundleCorrect(b)' /\ PublishedCorrect(b)'
  BY <1>2, KindsAre DEF BundleCorrect, PublishedCorrect
<1>6. StagedCorrect(b)'
  <2> DEFINE payload == IF Layout(b) = "external"
                          THEN {"lock", "packages", "sbom", "binary", "bundle"}
                          ELSE {"lock", "packages", "sbom", "binary"}
  <2>1. /\ DOMAIN Payload(b) = payload
        /\ Payload(b)["binary"] = Binary(b) /\ Payload(b)["lock"] = Lock(b)
        /\ Layout(b) = "external" => Payload(b)["bundle"] = archive[b]
        /\ Payload(b) = [k \in payload |-> Payload(b)[k]]
    BY DEF Payload
  <2> DEFINE sums == Checksums(b)
  <2>2. /\ DOMAIN sums = payload \union {"info"} /\ sums["info"] = Info(b)
        /\ \A k \in payload : sums[k] = Payload(b)[k]
        /\ sums = [k \in payload \union {"info"} |-> sums[k]]
    BY <2>1 DEF Checksums
  <2> HIDE DEF sums
  <2> DEFINE set == [k \in DOMAIN sums \union {"sha256"} |->
                       IF k = "sha256" THEN sums ELSE sums[k]]
  <2>3. staged'[b] = set
    BY DEF TypeOK, sums
  <2>4. /\ DOMAIN set = payload \union {"info", "sha256"}
        /\ set["sha256"] = sums /\ set["info"] = Info(b)
        /\ \A k \in payload : set[k] = Payload(b)[k]
        /\ \A k \in payload \union {"info"} : set[k] = sums[k]
    BY <2>1, <2>2
  <2> HIDE DEF set
  <2>5. DOMAIN set = IF Layout(b) = "external" THEN Kinds ELSE Kinds \ {"bundle"}
    BY <2>4, KindsAre
  <2>6. set["sha256"] = [k \in DOMAIN set \ {"sha256"} |-> set[k]]
    <3>1. DOMAIN set \ {"sha256"} = payload \union {"info"}
      BY <2>4
    <3> QED
      BY <3>1, <2>2, <2>4
  <2>7. set["info"].checksums = [k \in DOMAIN set \ {"sha256", "info"} |-> set[k]]
    <3>1. DOMAIN set \ {"sha256", "info"} = payload
      BY <2>4
    <3>2. set["info"].checksums = Payload(b)
      BY <2>4 DEF Info
    <3> QED
      BY <3>1, <3>2, <2>1, <2>4
  <2>8. set["binary"].project = build[b].project
    BY <2>1, <2>4 DEF Binary
  <2>9. Layout(b) # "online" => BundleOf(set) = set["lock"]
    <3>1. Layout(b) \in Layouts
      BY <1>1, PublicationAssumption DEF Layout
    <3>2. Layout(b) # "online" => archive[b] = Lock(b)
      BY <1>1 DEF BundleCorrect
    <3>3. set["lock"] = Lock(b) /\ set["binary"] = Binary(b)
          /\ (Layout(b) = "external" => set["bundle"] = archive[b])
      BY <2>1, <2>4
    <3>4. set["binary"].project.layout = Layout(b)
          /\ (Layout(b) = "embedded" => set["binary"].embedded = archive[b])
      BY <3>3 DEF Binary, Layout
    <3> QED
      BY <3>1, <3>2, <3>3, <3>4 DEF BundleOf, Layouts
  <2>10. Layout(b)' = Layout(b) /\ build'[b] = build[b]
    BY <1>2 DEF Layout
  <2>11. DOMAIN staged'[b] = IF Layout(b)' = "external" THEN Kinds ELSE Kinds \ {"bundle"}
    BY <2>3, <2>5, <2>10
  <2>12. staged'[b]["sha256"] = [k \in DOMAIN staged'[b] \ {"sha256"} |-> staged'[b][k]]
    <3>1. DOMAIN staged'[b] = DOMAIN set /\ staged'[b]["sha256"] = set["sha256"]
          /\ \A k \in DOMAIN set : staged'[b][k] = set[k]
      BY <2>3
    <3> QED
      BY <3>1, <2>6
  <2>13. staged'[b]["info"].checksums =
           [k \in DOMAIN staged'[b] \ {"sha256", "info"} |-> staged'[b][k]]
    <3>1. /\ DOMAIN staged'[b] = DOMAIN set /\ staged'[b]["info"] = set["info"]
          /\ \A k \in DOMAIN set : staged'[b][k] = set[k]
      BY <2>3
    <3> QED
      BY <3>1, <2>7
  <2>14. staged'[b]["binary"].project = build'[b].project
    BY <2>3, <2>8, <2>10
  <2>15. Layout(b)' # "online" => BundleOf(staged[b])' = staged'[b]["lock"]
    BY <2>3, <2>9, <2>10 DEF BundleOf
  <2> QED
    BY <2>11, <2>12, <2>13, <2>14, <2>15 DEF StagedCorrect
<1>7. CompleteSetIsOneBuild' /\ BundleHasLockedPackages'
  BY SetUnmoved
<1> QED
  BY <1>3, <1>4, <1>5, <1>6, <1>7, AfterStep

(* The staged set does not change while it is published.                    *)
LEMMA StagedUnmoved ==
  ASSUME NEW b \in Builders, StagedCorrect(b), build'[b] = build[b],
         staged'[b] = staged[b], pc[b] \in Publishing \union {"acquire"}
  PROVE  StagedCorrect(b)'
BY DEF StagedCorrect, Layout, BundleOf

(* Whoever gets the lock is the only one that publishes.                    *)
LEMMA AcquireLockPreserves ==
  ASSUME IInv, NEW b \in Builders, AcquireLock(b) PROVE IInv'
<1> USE DEF IInv, AcquireLock, rootVars, packageVars
<1>1. StagedCorrect(b) /\ build[b] \in [no : 1 .. MaxBuilds, project : Projects]
  BY KindsAre DEF TypeOK, Publishing
<1>2. pc' = [pc EXCEPT ![b] = "retire-marker"] /\ pc'[b] = "retire-marker"
      /\ build' = build
  BY DEF Goto, TypeOK, Processes
<1>3. TypeOK'
  <2>1. "retire-marker" \in BuilderPCs /\ "retire-marker" \in Publishing
        /\ Goto(b, "retire-marker")
    BY KindsAre DEF BuilderPCs, Publishing
  <2>2. \A c \in Builders \ {b} : pubLock' = c <=> pubLock = c
    BY PublicationAssumption DEF Processes
  <2> QED
    BY <1>1, <1>2, <2>1, <2>2, TypeStep DEF TypeOK
<1>4. ASSUME NEW c \in Builders, c # b
      PROVE  BundleCorrect(c)' /\ StagedCorrect(c)' /\ PublishedCorrect(c)'
  BY <1>2, <1>4, OthersUnmoved DEF TypeOK
<1>5. BundleCorrect(b)' /\ PublishedCorrect(b)'
  BY <1>2, KindsAre DEF BundleCorrect, PublishedCorrect
<1>6. StagedCorrect(b)'
  BY <1>1, <1>2, StagedUnmoved
<1>7. CompleteSetIsOneBuild' /\ BundleHasLockedPackages'
  BY SetUnmoved
<1> QED
  BY <1>3, <1>4, <1>5, <1>6, <1>7, AfterStep

(* Without the marker the published set is nobody's, and the lock keeps     *)
(* other builders out until there is one again.                             *)
LEMMA RetireMarkerPreserves ==
  ASSUME IInv, NEW b \in Builders, RetireMarker(b) PROVE IInv'
<1> USE DEF IInv, RetireMarker, rootVars, packageVars
<1> DEFINE l == IF Layout(b) = "external" THEN "bundle" ELSE "retire-bundle"
<1>1. StagedCorrect(b) /\ build[b] \in [no : 1 .. MaxBuilds, project : Projects]
      /\ pc[b] \in Publishing
  BY KindsAre DEF TypeOK, Publishing
<1>2. pc' = [pc EXCEPT ![b] = l] /\ pc'[b] = l /\ build' = build
      /\ Layout(b)' = Layout(b)
  BY DEF Goto, TypeOK, Processes, Layout
<1>3. out'["sha256"] = NONE /\ DOMAIN out' = Kinds
  BY KindsAre DEF TypeOK
<1>4. TypeOK'
  <2>1. l \in BuilderPCs /\ l \in Publishing /\ Goto(b, l) /\ l # "rest"
    BY KindsAre DEF BuilderPCs, Publishing
  <2> HIDE DEF l
  <2> QED
    BY <1>1, <1>2, <1>3, <2>1, TypeStep DEF TypeOK
<1>5. ASSUME NEW c \in Builders, c # b
      PROVE  BundleCorrect(c)' /\ StagedCorrect(c)' /\ PublishedCorrect(c)'
  BY <1>1, <1>2, <1>5, OthersUnmoved DEF TypeOK
<1>6. BundleCorrect(b)'
  BY <1>2 DEF BundleCorrect
<1>7. StagedCorrect(b)'
  BY <1>1, <1>2, StagedUnmoved
<1>8. PublishedCorrect(b)'
  <2>1. Before["bundle"] = {}
    BY DEF Before
  <2>2. CASE Layout(b) = "external"
    BY <1>2, <1>3, <2>1, <2>2 DEF PublishedCorrect
  <2>3. CASE Layout(b) # "external"
    BY <1>2, <1>3, <2>3, KindsAre DEF PublishedCorrect
  <2> QED
    BY <2>2, <2>3
<1>9. CompleteSetIsOneBuild' /\ BundleHasLockedPackages'
  BY <1>3, NoMarker
<1> QED
  BY <1>4, <1>5, <1>6, <1>7, <1>8, <1>9, AfterStep

(* A set without a bundle has no obsolete one beside it.                    *)
LEMMA RetireBundlePreserves ==
  ASSUME IInv, NEW b \in Builders, RetireBundle(b) PROVE IInv'
<1> USE DEF IInv, RetireBundle, rootVars, packageVars
<1>1. StagedCorrect(b) /\ PublishedCorrect(b) /\ pc[b] \in Publishing
      /\ build[b] \in [no : 1 .. MaxBuilds, project : Projects]
  BY KindsAre DEF TypeOK, Publishing
<1>2. pc' = [pc EXCEPT ![b] = "lock"] /\ pc'[b] = "lock" /\ build' = build
      /\ Layout(b)' = Layout(b)
  BY DEF Goto, TypeOK, Processes, Layout
<1>3. out'["sha256"] = NONE /\ out'["bundle"] = NONE /\ DOMAIN out' = Kinds
  BY <1>1, KindsAre DEF TypeOK, PublishedCorrect
<1>4. TypeOK'
  <2>1. "lock" \in BuilderPCs /\ "lock" \in Publishing /\ Goto(b, "lock")
    BY KindsAre DEF BuilderPCs, Publishing
  <2> QED
    BY <1>1, <1>2, <1>3, <2>1, TypeStep DEF TypeOK
<1>5. ASSUME NEW c \in Builders, c # b
      PROVE  BundleCorrect(c)' /\ StagedCorrect(c)' /\ PublishedCorrect(c)'
  BY <1>1, <1>2, <1>5, OthersUnmoved DEF TypeOK
<1>6. BundleCorrect(b)'
  BY <1>2 DEF BundleCorrect
<1>7. StagedCorrect(b)'
  BY <1>1, <1>2, StagedUnmoved
<1>8. PublishedCorrect(b)'
  <2>1. Before["lock"] = {"bundle"} /\ "bundle" \notin DOMAIN staged[b]
    BY <1>1, KindsAre DEF Before, StagedCorrect, PublishedCorrect, Publishing
  <2> QED
    BY <1>2, <1>3, <2>1 DEF PublishedCorrect
<1>9. CompleteSetIsOneBuild' /\ BundleHasLockedPackages'
  BY <1>3, NoMarker
<1> QED
  BY <1>4, <1>5, <1>6, <1>7, <1>8, <1>9, AfterStep

(* A build that stops leaves no marker if it was publishing, and otherwise  *)
(* nothing in the output directory.                                         *)
LEMMA StopPreserves ==
  ASSUME IInv, NEW b \in Builders, Stop(b) PROVE IInv'
<1> USE DEF IInv, Stop, Ends, packageVars
<1>1. pc' = [pc EXCEPT ![b] = "rest"] /\ pc'[b] = "rest"
  BY DEF Goto, TypeOK, Processes
<1>2. dir' \in [Builders -> SUBSET (Packages \union {Download(p) : p \in Packages})]
      /\ \A c \in Builders \ {b} : dir'[c] = dir[c]
  <2>1. PICK left \in LeftBehind(b) : dir' = [dir EXCEPT ![b] = left]
    OBVIOUS
  <2>2. dir[b] \subseteq Packages \union {Download(p) : p \in Packages}
    BY DEF TypeOK
  <2>3. pc[b] # "rest" => Lock(b) \subseteq Packages
    BY DEF TypeOK, Lock, Packages, Locks
  <2>4. left \subseteq Packages \union {Download(p) : p \in Packages}
    <3>1. CASE pc[b] = "download"
      BY <2>2, <2>3, <3>1 DEF LeftBehind
    <3>2. CASE pc[b] # "download"
      BY <2>2, <3>2 DEF LeftBehind
    <3> QED
      BY <3>1, <3>2
  <2> QED
    BY <2>1, <2>4 DEF TypeOK
<1>3. TypeOK'
  <2>1. "rest" \in BuilderPCs /\ "rest" \notin Publishing
    BY KindsAre DEF BuilderPCs, Publishing
  <2>2. pubLock' \in Builders \union {NONE} /\ pubLock' # b
        /\ \A c \in Builders \ {b} : pubLock' = c <=> pubLock = c
    BY PublicationAssumption DEF TypeOK, Processes
  <2>3. DOMAIN build' = Builders /\ build'[b] = NONE /\ DOMAIN staged' = Builders
        /\ (\A c \in Builders \ {b} : build'[c] = build[c])
        /\ job' = job /\ package' = package /\ archive' = archive /\ out' = out
    BY DEF TypeOK
  <2>4. builds' \in 0 .. MaxBuilds /\ faults' \in 0 .. MaxFaults
    BY PublicationAssumption DEF TypeOK
  <2>5. Goto(b, "rest")
    OBVIOUS
  <2> QED
    BY <1>2, <2>1, <2>2, <2>3, <2>4, <2>5, TypeStep DEF TypeOK
<1>4. ASSUME NEW c \in Builders, c # b
      PROVE  BundleCorrect(c)' /\ StagedCorrect(c)' /\ PublishedCorrect(c)'
  <2>1. pc'[c] = pc[c] /\ build'[c] = build[c] /\ staged'[c] = staged[c]
        /\ archive'[c] = archive[c] /\ dir'[c] = dir[c] /\ out' = out
    BY <1>1, <1>2, <1>4 DEF TypeOK
  <2> QED
    BY <1>4, <2>1, OthersUnmoved
<1>5. BundleCorrect(b)' /\ StagedCorrect(b)' /\ PublishedCorrect(b)'
  BY <1>1, NothingAtRest
<1>6. CompleteSetIsOneBuild' /\ BundleHasLockedPackages'
  BY SetUnmoved
<1> QED
  BY <1>3, <1>4, <1>5, <1>6, AfterStep

(* Publishing one file adds it to what is published.                        *)
LEMMA BeforeAfter ==
  ASSUME NEW k \in Kinds, k # "sha256"
  PROVE  After[k] \in Kinds \ {"bundle"} /\ Before[After[k]] = Before[k] \union {k}
BY KindsAre DEF After, Before

LEMMA PublishFilePreserves ==
  ASSUME IInv, NEW b \in Builders, PublishFile(b), pc[b] # "sha256" PROVE IInv'
<1> USE DEF IInv, PublishFile, rootVars, packageVars
<1> DEFINE k == pc[b]
<1> DEFINE l == After[k]
<1>1. StagedCorrect(b) /\ PublishedCorrect(b) /\ k \in Publishing /\ k \in Kinds
      /\ build[b] \in [no : 1 .. MaxBuilds, project : Projects]
  BY KindsAre DEF TypeOK, Publishing
<1>2. l \in Kinds \ {"bundle"} /\ Before[l] = Before[k] \union {k}
  BY <1>1, BeforeAfter
<1>3. Goto(b, l) /\ build' = build /\ staged' = staged /\ Layout(b)' = Layout(b)
  BY DEF Layout
<1>4. out' = [out EXCEPT ![k] = staged[b][k]] /\ DOMAIN out' = Kinds
  BY <1>1 DEF TypeOK
<1> HIDE DEF l
<1>5. pc' = [pc EXCEPT ![b] = l] /\ pc'[b] = l
  BY <1>3 DEF Goto, TypeOK, Processes
<1>6. out'["sha256"] = NONE
  BY <1>1, <1>4, KindsAre DEF TypeOK, PublishedCorrect
<1>7. TypeOK'
  <2>1. l \in BuilderPCs /\ l \in Publishing /\ l # "rest"
    BY <1>2, KindsAre DEF BuilderPCs, Publishing
  <2> QED
    BY <1>1, <1>3, <1>4, <2>1, TypeStep DEF TypeOK
<1>8. ASSUME NEW c \in Builders, c # b
      PROVE  BundleCorrect(c)' /\ StagedCorrect(c)' /\ PublishedCorrect(c)'
  BY <1>1, <1>3, <1>5, <1>8, OthersUnmoved DEF TypeOK
<1>9. BundleCorrect(b)'
  BY <1>2, <1>5, KindsAre DEF BundleCorrect
<1>10. StagedCorrect(b)'
  BY <1>1, <1>3, StagedUnmoved
<1>11. PublishedCorrect(b)'
  <2>1. \A j \in Before[l] \intersect DOMAIN staged'[b] : out'[j] = staged'[b][j]
    BY <1>1, <1>2, <1>3, <1>4, KindsAre DEF PublishedCorrect, TypeOK, Before
  <2>2. Layout(b)' # "external" => out'["bundle"] = NONE
    BY <1>1, <1>3, <1>4, KindsAre DEF PublishedCorrect, TypeOK
  <2> QED
    BY <1>2, <1>5, <1>6, <2>1, <2>2, KindsAre DEF PublishedCorrect
<1>12. CompleteSetIsOneBuild' /\ BundleHasLockedPackages'
  BY <1>6, NoMarker
<1> QED
  BY <1>7, <1>8, <1>9, <1>10, <1>11, <1>12, AfterStep

(* The marker comes last: everything it names is there by then.             *)
LEMMA PublishMarkerPreserves ==
  ASSUME IInv, NEW b \in Builders, PublishFile(b), pc[b] = "sha256" PROVE IInv'
<1> USE DEF IInv, PublishFile, rootVars, packageVars, Ends
<1> DEFINE s == staged[b]
<1> DEFINE named == DOMAIN s \ {"sha256"}
<1>1. StagedCorrect(b) /\ PublishedCorrect(b) /\ pc[b] \in Publishing
      /\ build[b] \in [no : 1 .. MaxBuilds, project : Projects]
  BY KindsAre DEF TypeOK, Publishing
<1>2. pc' = [pc EXCEPT ![b] = "rest"] /\ pc'[b] = "rest"
  BY DEF Goto, TypeOK, Processes
<1>3. /\ DOMAIN s = IF Layout(b) = "external" THEN Kinds ELSE Kinds \ {"bundle"}
      /\ s["sha256"] = [k \in named |-> s[k]]
      /\ s["info"].checksums = [k \in named \ {"info"} |-> s[k]]
      /\ s["binary"].project = build[b].project
      /\ Layout(b) # "online" => BundleOf(s) = s["lock"]
  <2>1. DOMAIN s \ {"sha256", "info"} = named \ {"info"}
    OBVIOUS
  <2> QED
    BY <1>1, <2>1 DEF StagedCorrect
<1>4. out' = [out EXCEPT !["sha256"] = s["sha256"]] /\ DOMAIN out' = Kinds
  BY KindsAre DEF TypeOK
<1>5. \A k \in named : out'[k] = s[k]
  <2>1. \A k \in named : k \in Before["sha256"]
    BY <1>3, KindsAre DEF Before
  <2> QED
    BY <1>1, <1>3, <1>4, <2>1, KindsAre DEF PublishedCorrect, TypeOK
<1>6. out'["sha256"] = [k \in named |-> s[k]]
  BY <1>3, <1>4, KindsAre DEF TypeOK
<1>7. Layout(b) # "external" => out'["bundle"] = NONE
  BY <1>1, <1>4, KindsAre DEF PublishedCorrect, TypeOK
<1>8. {"lock", "binary", "info"} \subseteq named
      /\ (Layout(b) = "external" => "bundle" \in named)
  BY <1>3, KindsAre
<1> HIDE DEF named, s
<1>9. CompleteSetIsOneBuild'
  <2> DEFINE marker == out'["sha256"]
  <2>1. DOMAIN marker = named /\ \A k \in named : marker[k] = s[k]
    BY <1>6
  <2>2. marker["info"].checksums = [k \in DOMAIN marker \ {"info"} |-> marker[k]]
    BY <1>3, <1>8, <2>1
  <2>3. out'["bundle"] # NONE => "bundle" \in DOMAIN marker
    BY <1>7, <1>8, <2>1
  <2> QED
    BY <1>5, <2>1, <2>2, <2>3 DEF CompleteSetIsOneBuild, Verifies
<1>10. BundleHasLockedPackages'
  <2>1. out'["binary"] = s["binary"] /\ out'["lock"] = s["lock"]
        /\ (Layout(b) = "external" => out'["bundle"] = s["bundle"])
    BY <1>5, <1>8
  <2>2. s["binary"].project.layout = Layout(b) /\ Layout(b) \in Layouts
    BY <1>1, <1>3, PublicationAssumption DEF Layout
  <2>3. Layout(b) # "online" => BundleOf(out)' = BundleOf(s)
    BY <2>1, <2>2 DEF BundleOf, Layouts
  <2> QED
    BY <1>3, <2>1, <2>2, <2>3 DEF BundleHasLockedPackages
<1>11. TypeOK'
  <2>1. "rest" \in BuilderPCs /\ "rest" \notin Publishing /\ Goto(b, "rest")
    BY KindsAre DEF BuilderPCs, Publishing
  <2>2. pubLock' \in Builders \union {NONE} /\ pubLock' # b
        /\ \A c \in Builders \ {b} : pubLock' = c <=> pubLock = c
    BY <1>1, PublicationAssumption DEF TypeOK, Processes
  <2>3. DOMAIN build' = Builders /\ build'[b] = NONE /\ DOMAIN staged' = Builders
        /\ (\A c \in Builders \ {b} : build'[c] = build[c])
        /\ job' = job /\ package' = package /\ archive' = archive /\ dir' = dir
    BY DEF TypeOK
  <2> QED
    BY <1>4, <2>1, <2>2, <2>3, TypeStep DEF TypeOK
<1>12. ASSUME NEW c \in Builders, c # b
      PROVE  BundleCorrect(c)' /\ StagedCorrect(c)' /\ PublishedCorrect(c)'
  <2>1. pc'[c] = pc[c] /\ build'[c] = build[c] /\ staged'[c] = staged[c]
        /\ archive'[c] = archive[c] /\ dir'[c] = dir[c]
    BY <1>2, <1>12 DEF TypeOK
  <2> QED
    BY <1>1, <1>12, <2>1, OthersUnmoved
<1>13. BundleCorrect(b)' /\ StagedCorrect(b)' /\ PublishedCorrect(b)'
  BY <1>2, NothingAtRest
<1> QED
  BY <1>9, <1>10, <1>11, <1>12, <1>13, AfterStep

-----------------------------------------------------------------------------
(* The theorems *)

(* Packagers disturb nothing.                                               *)
LEMMA PackageStepPreserves ==
  ASSUME IInv, NEW q \in Packagers, PackageStep(q) PROVE IInv'
<1> USE DEF PackagerEnds, PackagerPCs, rootVars
<1>1. CASE ReadInfo(q)
  BY <1>1, ReadersPreserve DEF ReadInfo, IInv, TypeOK
<1>2. CASE TakeSnapshot(q)
  BY <1>2, ReadersPreserve DEF TakeSnapshot, IInv, TypeOK
<1>3. CASE CheckOutput(q)
  BY <1>3, ReadersPreserve DEF CheckOutput, IInv, TypeOK
<1>4. CASE PersistPackage(q)
  BY <1>4, ReadersPreserve DEF PersistPackage, IInv, TypeOK
<1>5. CASE Report(q)
  BY <1>5, ReadersPreserve DEF Report, IInv, TypeOK
<1> QED
  BY <1>1, <1>2, <1>3, <1>4, <1>5 DEF PackageStep

(* The invariant is inductive.                                              *)
LEMMA NextPreserves == IInv /\ [Next]_vars => IInv'
<1> SUFFICES ASSUME IInv, [Next]_vars PROVE IInv'
  OBVIOUS
<1>1. ASSUME NEW b \in Builders, StartBuild(b) \/ BuildStep(b) \/ AcquireLock(b) \/ Stop(b)
      PROVE  IInv'
  BY <1>1, StartBuildPreserves, EmptyBundleDirPreserves, DownloadPackagePreserves,
     CreateArchivePreserves, FinishArchivePreserves, StageArtifactsPreserves,
     AcquireLockPreserves, RetireMarkerPreserves, RetireBundlePreserves,
     PublishFilePreserves, PublishMarkerPreserves, StopPreserves
  DEF BuildStep
<1>2. ASSUME NEW q \in Packagers, PackageStep(q) PROVE IInv'
  BY <1>2, PackageStepPreserves
<1>3. CASE Sign
  BY <1>3, ReadersPreserve DEF Sign
<1>4. CASE UNCHANGED vars
  BY <1>4, ReadersPreserve DEF vars, packageVars
<1> QED
  BY <1>1, <1>2, <1>3, <1>4 DEF Next

(* The inductive invariant holds of every build, whatever is interrupted    *)
(* and whoever builds or packages at the same time.                         *)
THEOREM Inductive == Spec => []IInv
BY InitCorrect, NextPreserves, PTL DEF Spec

(* Every variable keeps its type, and whoever publishes holds the lock      *)
(* (ArtifactPublicationLock).                                               *)
THEOREM TypeCorrect == Spec => []TypeOK
<1>1. IInv => TypeOK
  BY DEF IInv
<1> QED
  BY <1>1, Inductive, PTL

(* A completion marker never lies beside a mixed set                        *)
(* (publish_staged_artifact_set).                                           *)
THEOREM MarkerMeansComplete == Spec => []CompleteSetIsOneBuild
<1>1. IInv => CompleteSetIsOneBuild
  BY DEF IInv
<1> QED
  BY <1>1, Inductive, PTL

(* A complete set has the bundle of its lock (download_and_bundle,          *)
(* write_bundle, stage_artifacts).                                          *)
THEOREM BundleMatchesLock == Spec => []BundleHasLockedPackages
<1>1. IInv => BundleHasLockedPackages
  BY DEF IInv
<1> QED
  BY <1>1, Inductive, PTL

-----------------------------------------------------------------------------
(* Packages *)

(* A step of a builder that publishes no executable.                        *)
LEMMA BuilderKeepsPackages ==
  ASSUME IInv, PackageInv, NEW b \in Builders, NEW l \in BuilderPCs, Goto(b, l),
         UNCHANGED packageVars,
         \A c \in Builders \ {b} : staged'[c] = staged[c],
         l \in Publishing \union {"acquire"} => IsStamped(staged'[b]["binary"]),
         out'["binary"] # NONE => IsStamped(out'["binary"])
  PROVE  PackageInv'
<1>1. /\ \A c \in Builders : pc'[c] = IF c = b THEN l ELSE pc[c]
      /\ \A q \in Packagers : pc'[q] = pc[q]
  BY PublicationAssumption DEF IInv, TypeOK, Goto, Processes
<1>2. \A c \in Builders :
        pc'[c] \in Publishing \union {"acquire"} => IsStamped(staged'[c]["binary"])
  BY <1>1 DEF PackageInv
<1>3. \A q \in Packagers : JobCorrect(q)'
  BY <1>1 DEF PackageInv, JobCorrect, packageVars, Version
<1>4. final' # NONE => IsStamped(final')
  BY DEF PackageInv, packageVars
<1> QED
  BY <1>2, <1>3, <1>4 DEF PackageInv, IsStamped

(* A step of one packager, whose package is its own.                        *)
LEMMA PackagerKeepsPackages ==
  ASSUME IInv, PackageInv, NEW q \in Packagers, NEW l \in PackagerPCs, Goto(q, l),
         UNCHANGED <<staged, out, final>>,
         \A p \in Packagers \ {q} : job'[p] = job[p],
         \A v \in Versions : package'[v] = package[v] \/ package[v] = NONE,
         JobCorrect(q)'
  PROVE  PackageInv'
<1>1. /\ \A c \in Builders : pc'[c] = pc[c]
      /\ \A p \in Packagers \ {q} : pc'[p] = pc[p]
  BY PublicationAssumption DEF IInv, TypeOK, Goto, Processes
<1>2. ASSUME NEW p \in Packagers, p # q PROVE JobCorrect(p)'
  <2>1. JobCorrect(p) /\ pc'[p] = pc[p] /\ job'[p] = job[p]
    BY <1>1, <1>2 DEF PackageInv
  <2>2. pc[p] = "report" => package'[Version(p)] = job[p].snapshot
    <3>1. SUFFICES ASSUME pc[p] = "report" PROVE package'[Version(p)] = job[p].snapshot
      OBVIOUS
    <3>2. /\ package[Version(p)] = job[p].snapshot /\ job[p].snapshot # NONE
          /\ job[p].snapshot.project \in Projects
      BY <2>1, <3>1 DEF JobCorrect, IsStamped
    <3>3. Version(p) \in Versions
      BY <3>2 DEF Version, Versions
    <3> QED
      BY <3>2, <3>3
  <2> QED
    BY <2>1, <2>2 DEF JobCorrect, Version
<1> QED
  BY <1>1, <1>2 DEF PackageInv

LEMMA InitPackages == Init => PackageInv
<1> SUFFICES ASSUME Init PROVE PackageInv
  OBVIOUS
<1>1. \A p \in Processes : pc[p] = "rest"
  BY DEF Init
<1>2. \A b \in Builders : pc[b] \notin Publishing \union {"acquire"}
  BY <1>1, KindsAre DEF Processes, Publishing
<1>3. \A q \in Packagers : JobCorrect(q)
  BY <1>1 DEF Processes, JobCorrect
<1>4. out["binary"] = NONE /\ final = NONE
  BY KindsAre DEF Init
<1> QED
  BY <1>2, <1>3, <1>4 DEF PackageInv

(* The executable that is staged has the bundle the build has made.         *)
LEMMA StagedIsStamped ==
  ASSUME IInv, NEW b \in Builders, StageArtifacts(b)
  PROVE  IsStamped(staged'[b]["binary"])
<1>1. /\ BundleCorrect(b) /\ pc[b] = "stage"
      /\ build[b] \in [no : 1 .. MaxBuilds, project : Projects]
  BY DEF IInv, TypeOK, StageArtifacts
<1>2. staged'[b]["binary"] = Binary(b)
  <2>1. "binary" \in DOMAIN Payload(b) /\ Payload(b)["binary"] = Binary(b)
    BY DEF Payload
  <2> DEFINE payload == Payload(b)
  <2> HIDE DEF payload
  <2>2. "binary" \in DOMAIN Checksums(b) /\ Checksums(b)["binary"] = payload["binary"]
    BY <2>1 DEF Checksums, payload
  <2> DEFINE sums == Checksums(b)
             set == [k \in DOMAIN sums \union {"sha256"} |->
                       IF k = "sha256" THEN sums ELSE sums[k]]
  <2>3. staged'[b] = set
    BY DEF StageArtifacts, IInv, TypeOK
  <2> HIDE DEF sums
  <2>4. set["binary"] = sums["binary"]
    BY <2>2 DEF sums
  <2> QED
    BY <2>1, <2>2, <2>3, <2>4 DEF sums, payload
<1>3. Lock(b) \subseteq Packages
  BY <1>1 DEF Lock, Packages, Locks
<1>4. Layout(b) = "embedded" => archive[b] = Lock(b)
  BY <1>1 DEF BundleCorrect
<1>5. IsStamped(Binary(b))
  BY <1>1, <1>3, <1>4 DEF IsStamped, Binary, Lock
<1> QED
  BY <1>2, <1>5

LEMMA BuildersKeepPackages ==
  ASSUME IInv, PackageInv, NEW b \in Builders,
         StartBuild(b) \/ BuildStep(b) \/ AcquireLock(b) \/ Stop(b)
  PROVE  PackageInv'
<1>1. pc[b] \in Publishing \union {"acquire"} => IsStamped(staged[b]["binary"])
  BY DEF PackageInv
<1>2. out["binary"] # NONE => IsStamped(out["binary"])
  BY DEF PackageInv
<1>3. DOMAIN staged = Builders /\ DOMAIN out = Kinds
  BY DEF IInv, TypeOK
<1>4. CASE \/ StartBuild(b) \/ EmptyBundleDir(b) \/ DownloadPackage(b) \/ CreateArchive(b)
           \/ FinishArchive(b)
  <2>1. PICK l \in {"stage", "empty", "download", "archive"} :
          Goto(b, l) \/ (pc' = pc /\ pc[b] = l)
    BY <1>4 DEF StartBuild, EmptyBundleDir, DownloadPackage, CreateArchive, FinishArchive
  <2>2. Goto(b, l)
    BY <2>1 DEF Goto, IInv, TypeOK, Processes
  <2>3. l \in BuilderPCs /\ l \notin Publishing \union {"acquire"}
    BY KindsAre DEF BuilderPCs, Publishing
  <2>4. UNCHANGED <<staged, out>> /\ UNCHANGED packageVars
    BY <1>4 DEF StartBuild, EmptyBundleDir, DownloadPackage, CreateArchive, FinishArchive
  <2> QED
    BY <1>2, <2>2, <2>3, <2>4, BuilderKeepsPackages
<1>5. CASE StageArtifacts(b)
  <2>1. /\ Goto(b, "acquire") /\ out' = out /\ UNCHANGED packageVars
        /\ \A c \in Builders \ {b} : staged'[c] = staged[c]
    BY <1>3, <1>5 DEF StageArtifacts
  <2>2. "acquire" \in BuilderPCs
    BY DEF BuilderPCs
  <2> QED
    BY <1>2, <1>5, <2>1, <2>2, StagedIsStamped, BuilderKeepsPackages
<1>6. CASE AcquireLock(b) \/ RetireMarker(b) \/ RetireBundle(b)
  <2>1. PICK l \in {"retire-marker", "bundle", "retire-bundle", "lock"} : Goto(b, l)
    BY <1>6 DEF AcquireLock, RetireMarker, RetireBundle
  <2>2. l \in BuilderPCs
    BY KindsAre DEF BuilderPCs
  <2>3. /\ staged' = staged /\ UNCHANGED packageVars
        /\ pc[b] \in {"acquire", "retire-marker", "retire-bundle"}
        /\ out'["binary"] = out["binary"]
    BY <1>3, <1>6, KindsAre DEF AcquireLock, RetireMarker, RetireBundle
  <2>4. IsStamped(staged[b]["binary"])
    BY <1>1, <2>3 DEF Publishing
  <2> QED
    BY <1>2, <2>1, <2>2, <2>3, <2>4, BuilderKeepsPackages
<1>7. CASE PublishFile(b)
  <2> DEFINE l == After[pc[b]]
  <2>1. pc[b] \in Kinds /\ l \in BuilderPCs /\ Goto(b, l) /\ UNCHANGED packageVars
    BY <1>7, KindsAre DEF PublishFile, Ends, After, BuilderPCs
  <2>2. IsStamped(staged[b]["binary"])
    BY <1>1, <2>1 DEF Publishing
  <2>3. out'["binary"] # NONE => IsStamped(out'["binary"])
    BY <1>2, <1>3, <1>7, <2>2, KindsAre DEF PublishFile
  <2>4. \A c \in Builders \ {b} : staged'[c] = staged[c]
    BY <1>3, <1>7 DEF PublishFile, Ends
  <2>5. l \in Publishing \union {"acquire"} => staged' = staged
    <3>1. pc[b] = "sha256" => l \notin Publishing \union {"acquire"}
      BY KindsAre DEF After, Publishing
    <3> QED
      BY <1>7, <3>1 DEF PublishFile
  <2> HIDE DEF l
  <2> QED
    BY <2>1, <2>2, <2>3, <2>4, <2>5, BuilderKeepsPackages
<1>8. CASE Stop(b)
  <2>1. Goto(b, "rest") /\ out' = out /\ UNCHANGED packageVars
        /\ \A c \in Builders \ {b} : staged'[c] = staged[c]
    BY <1>3, <1>8 DEF Stop, Ends
  <2>2. "rest" \in BuilderPCs /\ "rest" \notin Publishing \union {"acquire"}
    BY KindsAre DEF BuilderPCs, Publishing
  <2> QED
    BY <1>2, <2>1, <2>2, BuilderKeepsPackages
<1> QED
  BY <1>4, <1>5, <1>6, <1>7, <1>8 DEF BuildStep

LEMMA PackagersKeepPackages ==
  ASSUME IInv, PackageInv, NEW q \in Packagers, PackageStep(q)
  PROVE  PackageInv'
<1> USE DEF PackagerPCs
<1>1. /\ DOMAIN job = Packagers /\ DOMAIN package = Versions /\ DOMAIN pc = Processes
      /\ q \in Processes /\ JobCorrect(q)
  BY DEF IInv, TypeOK, PackageInv, Processes
<1>2. /\ UNCHANGED <<staged, out, final>>
      /\ \A p \in Packagers \ {q} : job'[p] = job[p]
  BY <1>1 DEF PackageStep, ReadInfo, TakeSnapshot, CheckOutput, PersistPackage, Report,
     PackagerEnds
<1>3. ASSUME PackagerEnds(q), package' = package PROVE PackageInv'
  <2>1. Goto(q, "rest") /\ pc'[q] = "rest"
    BY <1>1, <1>3 DEF PackagerEnds, Goto
  <2>2. JobCorrect(q)'
    BY <2>1 DEF JobCorrect
  <2> QED
    BY <1>2, <1>3, <2>1, <2>2, PackagerKeepsPackages
<1>4. CASE ReadInfo(q)
  <2>1. Goto(q, "snapshot") /\ pc'[q] = "snapshot" /\ package' = package
    BY <1>1, <1>4 DEF ReadInfo, Goto
  <2>2. PICK override \in BOOLEAN :
          job'[q] = [info |-> out["info"], override |-> override, snapshot |-> NONE]
    BY <1>1, <1>4 DEF ReadInfo
  <2>3. JobCorrect(q)'
    BY <2>1, <2>2 DEF JobCorrect
  <2> QED
    BY <1>2, <2>1, <2>3, PackagerKeepsPackages
<1>5. CASE TakeSnapshot(q)
  <2> DEFINE info == job[q].info
             override == job[q].override
             binary == IF override THEN final ELSE out["binary"]
  <2>1. package' = package /\ pc[q] = "snapshot"
    BY <1>5 DEF TakeSnapshot
  <2>2. CASE binary # NONE /\ Valid(info, override, binary)
    <3>1. /\ job' = [job EXCEPT ![q].snapshot = binary] /\ Goto(q, "check")
          /\ pc'[q] = "check"
      BY <1>1, <1>5, <2>2 DEF TakeSnapshot, Goto
    <3>2. IsStamped(binary)
      BY <2>2 DEF PackageInv
    <3>3. /\ DOMAIN job[q] = {"info", "override", "snapshot"} /\ override \in BOOLEAN
      BY <1>1, <2>1 DEF JobCorrect
    <3>4. /\ DOMAIN job'[q] = {"info", "override", "snapshot"}
          /\ job'[q].info = info /\ job'[q].override = override
          /\ job'[q].snapshot = binary
      BY <1>1, <3>1, <3>3
    <3> HIDE DEF binary, info, override
    <3>5. JobCorrect(q)'
      BY <2>2, <3>1, <3>2, <3>3, <3>4 DEF JobCorrect, Valid, IsStamped
    <3> QED
      BY <1>2, <2>1, <3>1, <3>5, PackagerKeepsPackages
  <2>3. CASE ~(binary # NONE /\ Valid(info, override, binary))
    BY <1>3, <1>5, <2>1, <2>3 DEF TakeSnapshot
  <2> QED
    BY <2>2, <2>3
<1>6. CASE CheckOutput(q)
  <2>1. package' = package /\ pc[q] = "check"
    BY <1>6 DEF CheckOutput
  <2>2. CASE Goto(q, "persist") /\ UNCHANGED job
    <3>1. pc'[q] = "persist"
      BY <1>1, <2>2 DEF Goto
    <3>2. JobCorrect(q)'
      BY <1>1, <2>1, <2>2, <3>1 DEF JobCorrect, Valid, IsStamped
    <3> QED
      BY <1>2, <2>1, <2>2, <3>2, PackagerKeepsPackages
  <2> QED
    BY <1>3, <1>6, <2>1, <2>2 DEF CheckOutput
<1>7. CASE PersistPackage(q)
  <2>1. CASE package[Version(q)] # NONE
    BY <1>3, <1>7, <2>1 DEF PersistPackage
  <2>2. CASE package[Version(q)] = NONE
    <3>1. /\ package' = [package EXCEPT ![Version(q)] = job[q].snapshot]
          /\ Goto(q, "report") /\ job' = job /\ pc[q] = "persist" /\ pc'[q] = "report"
      BY <1>1, <1>7, <2>2 DEF PersistPackage, Goto
    <3>2. job[q].snapshot.project \in Projects
      BY <1>1, <3>1 DEF JobCorrect, IsStamped
    <3>3. Version(q) \in Versions /\ Version(q)' = Version(q)
      BY <3>1, <3>2 DEF Version, Versions
    <3>4. package'[Version(q)] = job[q].snapshot
      BY <1>1, <3>1, <3>3
    <3>5. JobCorrect(q)'
      BY <1>1, <3>1, <3>3, <3>4 DEF JobCorrect, Valid, IsStamped
    <3>6. \A v \in Versions : package'[v] = package[v] \/ package[v] = NONE
      BY <1>1, <2>2, <3>1
    <3> QED
      BY <1>2, <3>1, <3>5, <3>6, PackagerKeepsPackages
  <2> QED
    BY <2>1, <2>2
<1>8. CASE Report(q)
  BY <1>3, <1>8 DEF Report
<1> QED
  BY <1>4, <1>5, <1>6, <1>7, <1>8 DEF PackageStep

LEMMA PackagesPreserved == IInv /\ PackageInv /\ [Next]_vars => PackageInv'
<1> SUFFICES ASSUME IInv, PackageInv, [Next]_vars PROVE PackageInv'
  OBVIOUS
<1>1. CASE Sign
  <2>1. UNCHANGED <<pc, staged, out, job, package>>
    BY <1>1 DEF Sign
  <2>2. IsStamped(out["binary"]) /\ final' = [out["binary"] EXCEPT !.signed = TRUE]
    BY <1>1 DEF Sign, PackageInv
  <2>3. IsStamped(final')
    BY <2>2 DEF IsStamped
  <2> QED
    BY <2>1, <2>3 DEF PackageInv, JobCorrect, Version, IsStamped
<1>2. CASE UNCHANGED vars
  BY <1>2 DEF vars, packageVars, PackageInv, JobCorrect, Version
<1> QED
  BY <1>1, <1>2, BuildersKeepPackages, PackagersKeepPackages DEF Next

LEMMA PackagesCorrect == Spec => []PackageInv
BY InitPackages, PackagesPreserved, Inductive, PTL DEF Spec

(* A package is the executable its info file describes, or one of the same  *)
(* version that was given by name, although both are read at different      *)
(* times while builds replace them (package_update).                        *)
THEOREM PackagesMatchInfo == Spec => []PackagedMatchesInfo
<1>1. PackageInv => PackagedMatchesInfo
  BY DEF PackageInv, JobCorrect, Valid, IsStamped, PackagedMatchesInfo
<1> QED
  BY <1>1, PackagesCorrect, PTL

(* The digests a packager reports are those of the package it has made,     *)
(* however many package the same version (persist_noclobber).               *)
THEOREM ReportsAreTrue == Spec => []ReportedIsThePackage
<1>1. PackageInv => ReportedIsThePackage
  BY DEF PackageInv, JobCorrect, ReportedIsThePackage
<1> QED
  BY <1>1, PackagesCorrect, PTL

-----------------------------------------------------------------------------
(* To a reader of the marker, a set is replaced as a whole *)

(* What a staged set is made of: all of it is of one build and its project. *)
StagedOf(files, b) ==
  /\ files["binary"] =
       [no |-> build[b].no, project |-> build[b].project, signed |-> FALSE,
        embedded |-> IF Layout(b) = "embedded" THEN Lock(b) ELSE NONE]
  /\ files["lock"] = Lock(b) /\ files["packages"] = Lock(b)
  /\ files["sbom"] = build[b].no
  /\ files["info"].project = build[b].project
  /\ Layout(b) = "external" => files["bundle"] = Lock(b)

StagedIsOfBuild ==
  \A b \in Builders : pc[b] \in Publishing \union {"acquire"} => StagedOf(staged[b], b)

LEMMA StagedInit == Init => StagedIsOfBuild
BY KindsAre DEF Init, StagedIsOfBuild, Processes, Publishing

(* stage_artifacts puts it together from the project and the archive.       *)
LEMMA StagesBuild ==
  ASSUME IInv, NEW b \in Builders, StageArtifacts(b)
  PROVE  StagedOf(staged'[b], b)
<1>1. BundleCorrect(b) /\ pc[b] = "stage"
  BY DEF IInv, StageArtifacts
<1>2. Layout(b) # "online" => archive[b] = Lock(b)
  BY <1>1 DEF BundleCorrect
<1> DEFINE payload == Payload(b)
           sums == Checksums(b)
           set == [k \in DOMAIN sums \union {"sha256"} |->
                     IF k = "sha256" THEN sums ELSE sums[k]]
           always == {"lock", "packages", "sbom", "binary"}
<1>3. /\ always \subseteq DOMAIN payload /\ "info" \notin DOMAIN payload
      /\ "sha256" \notin DOMAIN payload
      /\ payload["binary"] = Binary(b) /\ payload["lock"] = Lock(b)
      /\ payload["packages"] = Lock(b) /\ payload["sbom"] = build[b].no
      /\ Layout(b) = "external" => "bundle" \in DOMAIN payload /\ payload["bundle"] = archive[b]
  BY DEF Payload
<1> HIDE DEF payload
<1>4. /\ DOMAIN sums = DOMAIN payload \union {"info"}
      /\ sums["info"] = Info(b)
      /\ \A k \in DOMAIN payload : sums[k] = payload[k]
  BY <1>3 DEF Checksums, payload
<1>5. staged'[b] = set
  BY DEF StageArtifacts, IInv, TypeOK
<1> HIDE DEF sums
<1>6. /\ set["info"] = Info(b)
      /\ \A k \in DOMAIN payload : set[k] = payload[k]
  BY <1>3, <1>4
<1> HIDE DEF set
<1>7. set["binary"] =
        [no |-> build[b].no, project |-> build[b].project, signed |-> FALSE,
         embedded |-> IF Layout(b) = "embedded" THEN Lock(b) ELSE NONE]
  BY <1>2, <1>3, <1>6 DEF Binary
<1>8. set["info"].project = build[b].project
  BY <1>6 DEF Info
<1> QED
  BY <1>2, <1>3, <1>5, <1>6, <1>7, <1>8 DEF StagedOf

(* Nobody changes it before it is published.                                *)
LEMMA StagedStep ==
  ASSUME IInv, StagedIsOfBuild, NEW b \in Builders,
         StartBuild(b) \/ BuildStep(b) \/ AcquireLock(b) \/ Stop(b)
  PROVE  StagedIsOfBuild'
<1>1. /\ DOMAIN staged = Builders /\ DOMAIN build = Builders
      /\ DOMAIN pc = Processes /\ b \in Processes
  BY DEF IInv, TypeOK, Processes
<1> DEFINE Late(l) == l \in Publishing \union {"acquire"}
<1>2. ASSUME NEW c \in Builders, c # b
      PROVE  pc'[c] = pc[c] /\ staged'[c] = staged[c] /\ build'[c] = build[c]
  <2>1. pc'[c] = pc[c]
    <3>1. c \in Processes
      BY <1>2 DEF Processes
    <3>2. pc' = pc \/ \E l : Goto(b, l)
      BY DEF StartBuild, BuildStep, EmptyBundleDir, DownloadPackage, CreateArchive,
             FinishArchive, StageArtifacts, AcquireLock, RetireMarker, RetireBundle,
             PublishFile, Stop, Ends
    <3> QED
      BY <1>1, <1>2, <3>1, <3>2 DEF Goto
  <2>2. \/ UNCHANGED <<staged, build>> \/ StartBuild(b) \/ StageArtifacts(b) \/ Ends(b)
    BY DEF BuildStep, EmptyBundleDir, DownloadPackage, CreateArchive, FinishArchive,
           AcquireLock, RetireMarker, RetireBundle, PublishFile, Stop
  <2>3. staged'[c] = staged[c] /\ build'[c] = build[c]
    BY <1>1, <1>2, <2>2 DEF StartBuild, StageArtifacts, Ends
  <2> QED
    BY <2>1, <2>3
<1>3. CASE StageArtifacts(b)
  <2>1. StagedOf(staged'[b], b) /\ build' = build
    BY <1>3, StagesBuild DEF StageArtifacts
  <2>2. StagedOf(staged[b], b)'
    BY <2>1 DEF StagedOf, Layout, Lock
  <2>3. ASSUME NEW c \in Builders, c # b, pc'[c] \in Publishing \union {"acquire"}
        PROVE  StagedOf(staged[c], c)'
    <3>1. /\ StagedOf(staged[c], c)
          /\ staged'[c] = staged[c] /\ build'[c] = build[c]
      BY <1>2, <2>3 DEF StagedIsOfBuild
    <3> QED
      BY <3>1 DEF StagedOf, Layout, Lock
  <2> QED
    BY <2>2, <2>3 DEF StagedIsOfBuild
<1>4. ASSUME ~Late(pc'[b]) \/ (Late(pc[b]) /\ staged'[b] = staged[b] /\ build'[b] = build[b])
      PROVE  StagedIsOfBuild'
  BY <1>2, <1>4 DEF StagedIsOfBuild, StagedOf, Layout, Lock
<1>5. CASE \/ StartBuild(b) \/ EmptyBundleDir(b) \/ DownloadPackage(b) \/ CreateArchive(b)
           \/ FinishArchive(b)
  <2>1. pc'[b] \in {"stage", "empty", "download", "archive"}
    BY <1>1, <1>5
       DEF StartBuild, EmptyBundleDir, DownloadPackage, CreateArchive, FinishArchive, Goto
  <2>2. ~Late(pc'[b])
    BY <2>1, KindsAre DEF Publishing
  <2> QED
    BY <1>4, <2>2
<1>6. CASE AcquireLock(b) \/ RetireMarker(b) \/ RetireBundle(b)
  BY <1>4, <1>6 DEF AcquireLock, RetireMarker, RetireBundle, Publishing
<1>7. CASE PublishFile(b)
  <2>1. pc[b] \in Kinds
    BY <1>7 DEF PublishFile
  <2>2. pc'[b] = "rest" \/ (staged' = staged /\ build' = build)
    BY <1>1, <1>7 DEF PublishFile, Ends, Goto
  <2> QED
    BY <1>4, <2>1, <2>2, KindsAre DEF Publishing
<1>8. CASE Stop(b)
  <2>1. pc'[b] = "rest"
    BY <1>1, <1>8 DEF Stop, Ends, Goto
  <2> QED
    BY <1>4, <2>1, KindsAre DEF Publishing
<1> QED
  BY <1>3, <1>5, <1>6, <1>7, <1>8 DEF BuildStep

LEMMA StagedPreserved == IInv /\ StagedIsOfBuild /\ [Next]_vars => StagedIsOfBuild'
<1> SUFFICES ASSUME IInv, StagedIsOfBuild, [Next]_vars PROVE StagedIsOfBuild'
  OBVIOUS
<1>1. ASSUME UNCHANGED <<build, staged>>,
             pc' = pc \/ \E q \in Packagers, l \in PackagerPCs : Goto(q, l)
      PROVE  StagedIsOfBuild'
  <2>1. \A b \in Builders : pc'[b] = pc[b]
    BY <1>1, PublicationAssumption DEF IInv, TypeOK, Goto, Processes
  <2> QED
    BY <1>1, <2>1 DEF StagedIsOfBuild, StagedOf, Layout, Lock
<1>2. ASSUME NEW q \in Packagers, PackageStep(q) PROVE StagedIsOfBuild'
  BY <1>1, <1>2
     DEF PackageStep, ReadInfo, TakeSnapshot, CheckOutput, PersistPackage, Report, PackagerEnds,
         PackagerPCs
<1>3. CASE Sign \/ UNCHANGED vars
  BY <1>1, <1>3 DEF Sign, vars
<1> QED
  BY <1>2, <1>3, StagedStep DEF Next

(* Without the marker there is no set.                                      *)
LEMMA NoSet ==
  /\ out["sha256"] = NONE => CompleteSet = NONE
  /\ out'["sha256"] = NONE => CompleteSet' = NONE
BY DEF CompleteSet

(* The last rename publishes the whole set of the build.  (That NONE is no  *)
(* marker is not assumed: if it were one, nothing would be published.)      *)
LEMMA MarkerPublishes ==
  ASSUME IInv, StagedIsOfBuild, NEW b \in Builders, PublishFile(b), pc[b] = "sha256"
  PROVE  /\ CompleteSet = NONE
         /\ CompleteSet' \in {NONE, Atomic!ArtifactsOf(build[b])}
<1> DEFINE s == staged[b]
<1>1. /\ StagedCorrect(b) /\ PublishedCorrect(b) /\ StagedOf(s, b)
      /\ build[b] \in [no : 1 .. MaxBuilds, project : Projects]
      /\ DOMAIN out = Kinds
  BY KindsAre DEF IInv, TypeOK, StagedIsOfBuild, Publishing
<1>2. DOMAIN s = IF Layout(b) = "external" THEN Kinds ELSE Kinds \ {"bundle"}
  BY <1>1, KindsAre DEF StagedCorrect, Publishing
<1>3. out' = [out EXCEPT !["sha256"] = s["sha256"]]
  BY DEF PublishFile
<1>4. \A k \in DOMAIN s \ {"sha256"} : out'[k] = s[k]
  <2>1. \A k \in DOMAIN s \ {"sha256"} : k \in Before["sha256"] /\ k \in Kinds
    BY <1>2, KindsAre DEF Before
  <2> QED
    BY <1>1, <1>3, <2>1, KindsAre DEF PublishedCorrect
<1>5. {"lock", "packages", "sbom", "binary", "info"} \subseteq DOMAIN s \ {"sha256"}
      /\ (Layout(b) = "external" => "bundle" \in DOMAIN s \ {"sha256"})
  BY <1>2, KindsAre
<1>6. Layout(b) # "external" => out'["bundle"] = NONE
  BY <1>1, <1>3, KindsAre DEF PublishedCorrect
<1>7. out["sha256"] = NONE
  BY <1>1, KindsAre DEF PublishedCorrect
<1>8. SUFFICES ASSUME out'["sha256"] # NONE
               PROVE  CompleteSet' = Atomic!ArtifactsOf(build[b])
  BY <1>7, NoSet
<1>9. Verifies(out)' = TRUE
  <2>1. IInv'
    BY PublishMarkerPreserves
  <2>2. Verifies(out)'
    BY <1>8, <2>1 DEF IInv, CompleteSetIsOneBuild
  <2> QED
    BY <2>2 DEF Verifies
<1>10. /\ out'["binary"] =
            [no |-> build[b].no, project |-> build[b].project, signed |-> FALSE,
             embedded |-> IF Layout(b) = "embedded" THEN Lock(b) ELSE NONE]
       /\ out'["lock"] = Lock(b) /\ out'["packages"] = Lock(b)
       /\ out'["sbom"] = build[b].no
       /\ out'["info"].project = build[b].project
       /\ out'["bundle"] = IF Layout(b) = "external" THEN Lock(b) ELSE NONE
  BY <1>1, <1>4, <1>5, <1>6 DEF StagedOf
<1>11. build[b] = [no |-> build[b].no, project |-> build[b].project]
  BY <1>1
<1> HIDE DEF s
<1>12. CompleteSet' =
         [build |-> build[b], info |-> build[b].project, sbom |-> build[b].no,
          lock |-> Lock(b), packages |-> Lock(b),
          embedded |-> IF Layout(b) = "embedded" THEN Lock(b) ELSE NONE,
          bundle |-> IF Layout(b) = "external" THEN Lock(b) ELSE NONE,
          verifies |-> TRUE]
  <2>1. /\ out'["binary"].no = build[b].no /\ out'["binary"].project = build[b].project
        /\ out'["binary"].embedded = IF Layout(b) = "embedded" THEN Lock(b) ELSE NONE
    BY <1>10
  <2>2. [no |-> out'["binary"].no, project |-> out'["binary"].project] = build[b]
    BY <1>11, <2>1
  <2> QED
    BY <1>8, <1>9, <1>10, <2>1, <2>2 DEF CompleteSet
<1> QED
  BY <1>12 DEF Atomic!ArtifactsOf, Layout, Lock

LEMMA BuilderRefines ==
  ASSUME IInv, StagedIsOfBuild, NEW b \in Builders,
         StartBuild(b) \/ BuildStep(b) \/ AcquireLock(b) \/ Stop(b)
  PROVE  [Atomic!Next]_(Atomic!vars)
<1>1. /\ DOMAIN out = Kinds /\ (pubLock = b <=> pc[b] \in Publishing)
      /\ IF pc[b] = "rest" THEN build[b] = NONE
                           ELSE build[b] \in [no : 1 .. MaxBuilds, project : Projects]
      /\ PublishedCorrect(b)
  BY DEF IInv, TypeOK
<1>2. pc[b] # "rest" => build[b] # NONE
  BY <1>1, PublicationAssumption
<1>3. ASSUME UNCHANGED <<build, pubLock, builds>>, out' = out
      PROVE  UNCHANGED Atomic!vars
  BY <1>3 DEF Atomic!vars, CompleteSet, Verifies
<1>4. CASE StartBuild(b)
  <2>1. CompleteSet' = CompleteSet
    BY <1>4 DEF StartBuild, CompleteSet, Verifies
  <2>2. Atomic!Begin(b)
    BY <1>1, <1>4, <2>1 DEF StartBuild, Atomic!Begin
  <2> QED
    BY <2>2 DEF Atomic!Next
<1>5. CASE \/ EmptyBundleDir(b) \/ DownloadPackage(b) \/ CreateArchive(b) \/ FinishArchive(b)
           \/ StageArtifacts(b)
  BY <1>3, <1>5
     DEF EmptyBundleDir, DownloadPackage, CreateArchive, FinishArchive, StageArtifacts
<1>6. CASE AcquireLock(b)
  <2>1. CompleteSet' = CompleteSet
    BY <1>6 DEF AcquireLock, CompleteSet, Verifies
  <2>2. Atomic!Acquire(b)
    BY <1>2, <1>6, <2>1 DEF AcquireLock, Atomic!Acquire
  <2> QED
    BY <2>2 DEF Atomic!Next
<1>7. CASE RetireMarker(b)
  <2>1. CompleteSet' = NONE
    BY <1>1, <1>7, NoSet, KindsAre DEF RetireMarker
  <2>2. Atomic!Retire(b)
    BY <1>1, <1>7, <2>1 DEF RetireMarker, Publishing, Atomic!Retire
  <2> QED
    BY <2>2 DEF Atomic!Next
<1>8. CASE RetireBundle(b) \/ (PublishFile(b) /\ pc[b] # "sha256")
  <2>1. out["sha256"] = NONE /\ out'["sha256"] = NONE
    BY <1>1, <1>8, KindsAre DEF RetireBundle, PublishFile, PublishedCorrect
  <2>2. CompleteSet = NONE /\ CompleteSet' = NONE
    BY <2>1, NoSet
  <2>3. UNCHANGED <<build, pubLock, builds>>
    BY <1>8 DEF RetireBundle, PublishFile
  <2> QED
    BY <2>2, <2>3 DEF Atomic!vars
<1>9. CASE PublishFile(b) /\ pc[b] = "sha256"
  <2>1. CompleteSet = NONE /\ CompleteSet' \in {NONE, Atomic!ArtifactsOf(build[b])}
    BY <1>9, MarkerPublishes
  <2>2. Atomic!Ends(b)
    BY <1>2, <1>9 DEF PublishFile, Ends, Atomic!Ends
  <2>3. pubLock = b
    BY <1>1, <1>9, KindsAre DEF Publishing
  <2>4. Atomic!Publish(b) \/ Atomic!Fail(b)
    BY <2>1, <2>2, <2>3 DEF Atomic!Publish, Atomic!Fail
  <2> QED
    BY <2>4 DEF Atomic!Next
<1>10. CASE Stop(b)
  <2>1. CompleteSet' = CompleteSet
    BY <1>10 DEF Stop, CompleteSet, Verifies
  <2>2. Atomic!Fail(b)
    BY <1>2, <1>10, <2>1 DEF Stop, Ends, Atomic!Ends, Atomic!Fail
  <2> QED
    BY <2>2 DEF Atomic!Next
<1> QED
  BY <1>4, <1>5, <1>6, <1>7, <1>8, <1>9, <1>10 DEF BuildStep

LEMMA StepRefines ==
  IInv /\ StagedIsOfBuild /\ [Next]_vars => [Atomic!Next]_(Atomic!vars)
<1> SUFFICES ASSUME IInv, StagedIsOfBuild, [Next]_vars PROVE [Atomic!Next]_(Atomic!vars)
  OBVIOUS
<1>1. ASSUME UNCHANGED <<build, pubLock, builds>>, out' = out
      PROVE  UNCHANGED Atomic!vars
  BY <1>1 DEF Atomic!vars, CompleteSet, Verifies
<1>2. ASSUME NEW q \in Packagers, PackageStep(q) PROVE UNCHANGED Atomic!vars
  BY <1>1, <1>2 DEF PackageStep, ReadInfo, TakeSnapshot, CheckOutput, PersistPackage, Report
<1>3. CASE Sign \/ UNCHANGED vars
  BY <1>1, <1>3 DEF Sign, vars
<1> QED
  BY <1>2, <1>3, BuilderRefines DEF Next

(* To whoever waits for the completion marker, a build replaces the set of  *)
(* another one as a whole (publish_staged_artifact_set), and by exactly     *)
(* what its own project locks.                                              *)
THEOREM Refinement == Spec => ImplementsAtomicPublication
<1>1. Init => Atomic!Init
  BY KindsAre, NoSet DEF Init, Atomic!Init
<1>2. Init => StagedIsOfBuild
  BY StagedInit
<1> QED
  BY <1>1, <1>2, StagedPreserved, StepRefines, Inductive, PTL
     DEF Spec, ImplementsAtomicPublication, Atomic!Spec
=============================================================================
