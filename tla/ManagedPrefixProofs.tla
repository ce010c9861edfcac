-------------------------- MODULE ManagedPrefixProofs --------------------------
(***************************************************************************)
(* Proofs about ManagedPrefix, for any number of processes, packages and   *)
(* interruptions, and any locks.                                           *)
(***************************************************************************)
EXTENDS ManagedPrefix, TLAPS

(* What files hold is told apart.                                           *)
LEMMA Constants ==
  /\ NONE # Partial /\ NONE # Installing /\ NONE # Foreign
  /\ Partial # Installing /\ Partial # Foreign /\ Installing # Foreign
  /\ \A s \in Specs : s # NONE /\ s # Partial /\ s # Installing /\ s # Foreign
  /\ \A p \in Processes : p # NONE
  /\ \A s \in Specs : LockOf[s] \subseteq Packages
  /\ MaxFaults \in Nat /\ Delegate \in Packages
BY PrefixAssumption

(* The names of the files, and an empty directory.                          *)
LEMMA Names ==
  /\ {"marker", "marker.tmp", "metadata", "metadata.tmp", "output", "unrelated"} = Files
  /\ NoFiles \in [Files -> Contents] /\ \A name \in Files : NoFiles[name] = NONE
  /\ NoWork \in [unlink : SUBSET Packages, link : SUBSET Packages, scripts : SUBSET Packages]
BY DEF Files, NoFiles, Contents, NoWork

(* What it is to write one file.                                            *)
LEMMA WriteIs ==
  ASSUME file \in [Files -> Contents], NEW name \in Files, NEW content \in Contents,
         Write(name, content)
  PROVE  /\ file' \in [Files -> Contents] /\ file'[name] = content
         /\ \A other \in Files \ {name} : file'[other] = file[other]
BY DEF Write

(* To restore the metadata.                                                 *)
LEMMA RestoreIs ==
  ASSUME IInv, RestoreMetadata
  PROVE  /\ file' \in [Files -> Contents]
         /\ \A name \in Files \ {"metadata", "metadata.tmp"} : file'[name] = file[name]
         /\ \/ file' = file
            \/ /\ file["metadata"] = NONE /\ file["metadata.tmp"] \in Specs
               /\ file'["metadata"] = file["metadata.tmp"] /\ file'["metadata.tmp"] = NONE
               /\ MarkerRead = NONE
BY Names DEF RestoreMetadata, IInv, TypeOK, Contents

(* At first there is nothing of ours.                                       *)
LEMMA InitCorrect == Init => IInv
<1> SUFFICES ASSUME Init PROVE IInv
  OBVIOUS
<1> USE Constants, Names DEF Init
<1>1. PICK m \in {NONE, Foreign}, d \in {NONE, Foreign}, u \in {NONE, Foreign} :
        file = [NoFiles EXCEPT !["marker"] = m, !["metadata"] = d, !["unrelated"] = u]
  OBVIOUS
<1>2. /\ file \in [Files -> Contents] /\ file["marker"] = m /\ file["metadata"] = d
      /\ file["marker.tmp"] = NONE /\ file["metadata.tmp"] = NONE
  BY <1>1 DEF Contents
<1>3. TypeOK
  <2>1. /\ pc \in [Processes -> PCs] /\ op \in [Processes -> Ops]
        /\ spec \in [Processes -> Specs \union {NONE}] /\ reinstall \in [Processes -> BOOLEAN]
        /\ foreign \in BOOLEAN /\ faults \in 0 .. MaxFaults
    BY DEF PCs, Ops
  <2>2. fleet \in BOOLEAN /\ exists \in BOOLEAN /\ torn = FALSE /\ bootLock = NONE
    OBVIOUS
  <2>3. linked = {} /\ ran = {}
    OBVIOUS
  <2>4. work \in [Processes -> [unlink : SUBSET Packages, link : SUBSET Packages,
                               scripts : SUBSET Packages]]
    BY Zenon
  <2>5. \A p \in Processes : bootLock = p <=> pc[p] \in Locked
    BY DEF Locked
  <2> HIDE DEF Init
  <2> QED
    BY <1>2, <2>1, <2>2, <2>3, <2>4, <2>5 DEF TypeOK
<1>4. FilesInv
  <2>1. ~exists => Empty
    BY DEF Empty
  <2>2. foreign => exists /\ file # NoFiles
    OBVIOUS
  <2>3. ~foreign => m = NONE /\ d = NONE
    <3>1. NoFiles["marker"] = NONE /\ NoFiles["metadata"] = NONE
      BY Names
    <3> QED
      BY <1>2, <3>1
  <2> HIDE DEF Init
  <2>4. ~foreign => OurFiles
    BY <1>2, <2>3 DEF OurFiles
  <2> QED
    BY <1>2, <2>1, <2>2, <2>4 DEF FilesInv, Init
<1>5. MetadataInv
  BY <1>2 DEF MetadataInv
<1>6. RetryInv
  BY <1>2 DEF RetryInv, Retried, Empty
<1>7. \A p \in Processes : MarkerInv(p) /\ ReadyInv(p) /\ PackagesInv(p)
  BY DEF MarkerInv, ReadyInv, PackagesInv, Locked
<1> QED
  BY <1>3, <1>4, <1>5, <1>6, <1>7 DEF IInv

(* Who is inside is alone there, and in a directory of ours.                *)
LEMMA OneInside ==
  ASSUME IInv, NEW p \in Processes, pc[p] \in Locked
  PROVE  /\ bootLock = p /\ bootLock # NONE /\ ~foreign /\ OurFiles
         /\ \A q \in Processes \ {p} : pc[q] \in {"rest", "want"}
         /\ pc[p] # "delete" => ~Deleting
<1>1. bootLock = p /\ bootLock # NONE /\ ~foreign
  BY Constants DEF IInv, TypeOK, FilesInv
<1>2. \A q \in Processes \ {p} : pc[q] \in {"rest", "want"}
  BY <1>1 DEF IInv, TypeOK, Locked
<1> QED
  BY <1>1, <1>2 DEF IInv, FilesInv, Deleting

(* And nobody is inside while the lock is free.                             *)
LEMMA NobodyInside ==
  ASSUME IInv, bootLock = NONE
  PROVE  /\ \A q \in Processes : pc[q] \in {"rest", "want"}
         /\ ~Deleting
BY Constants DEF IInv, TypeOK, Locked, Deleting

(* A process outside asks for something, and that is all.                   *)
LEMMA OutsideKept ==
  ASSUME IInv, NEW q \in Processes, pc[q] \in {"rest", "want"}, pc'[q] = pc[q], spec'[q] = spec[q]
  PROVE  MarkerInv(q)' /\ ReadyInv(q)' /\ PackagesInv(q)'
<1>1. pc[q] # "rest" => spec[q] \in Specs
  BY DEF IInv, ReadyInv
<1>2. MarkerInv(q)'
  BY DEF MarkerInv, Locked
<1>3. ReadyInv(q)'
  BY <1>1 DEF ReadyInv
<1>4. PackagesInv(q)'
  BY DEF PackagesInv
<1> QED
  BY <1>2, <1>3, <1>4

(* A step of p inside, or into, the locked part of its operation.           *)
LEMMA InsideStep ==
  ASSUME IInv, NEW p \in Processes, pc[p] \in PCs \ {"rest"},
         bootLock \in {p, NONE}, bootLock' = p, pc[p] \in Locked \/ bootLock = NONE,
         NEW l \in Locked, Goto(p, l), ~foreign,
         UNCHANGED <<fleet, op, spec, faults, ghosts>>,
         exists' \in BOOLEAN, ~exists' => Empty',
         file' \in [Files -> Contents], OurFiles',
         linked' \subseteq Packages, ran' \subseteq linked',
         reinstall' \in [Processes -> BOOLEAN],
         work' \in [Processes -> [unlink : SUBSET Packages, link : SUBSET Packages,
                                  scripts : SUBSET Packages]],
         MetadataInv',
         faults = 0 /\ ~torn => /\ l # "delete" => Retried'
                                /\ l \notin {"fill-marker", "persist-marker"} =>
                                     file'["marker.tmp"] = NONE,
         MarkerInv(p)', ReadyInv(p)', PackagesInv(p)'
  PROVE  IInv'
<1>1. \A q \in Processes \ {p} : pc[q] \in {"rest", "want"}
  BY OneInside, NobodyInside
<1>2. pc' \in [Processes -> PCs] /\ pc'[p] = l
      /\ \A q \in Processes \ {p} : pc'[q] = pc[q]
  BY DEF IInv, TypeOK, Goto, Locked
<1>3. TypeOK'
  <2>1. \A q \in Processes : bootLock' = q <=> pc'[q] \in Locked
    BY <1>1, <1>2 DEF Locked
  <2> QED
    BY <1>2, <2>1 DEF IInv, TypeOK, ghosts
<1>4. FilesInv'
  BY DEF FilesInv, ghosts
<1>5. RetryInv'
  <2>1. bootLock' # NONE
    BY Constants
  <2>2. l = "delete" => Deleting'
    BY <1>2 DEF Deleting
  <2> QED
    BY <1>2, <2>1, <2>2 DEF RetryInv, ghosts
<1>6. \A q \in Processes \ {p} : MarkerInv(q)' /\ ReadyInv(q)' /\ PackagesInv(q)'
  BY <1>1, <1>2, OutsideKept
<1> QED
  BY <1>3, <1>4, <1>5, <1>6 DEF IInv

(* A step with which the operation of p ends.                               *)
LEMMA ReturnStep ==
  ASSUME IInv, NEW p \in Processes, pc[p] \in Locked \/ bootLock = NONE,
         Return(p), fleet' = fleet,
         exists' \in BOOLEAN, file' \in [Files -> Contents],
         linked' \subseteq Packages, ran' \subseteq linked',
         faults' \in 0 .. MaxFaults, foreign' \in BOOLEAN, torn' \in BOOLEAN,
         FilesInv', MetadataInv', RetryInv'
  PROVE  IInv'
<1>1. \A q \in Processes \ {p} : pc[q] \in {"rest", "want"}
  BY OneInside, NobodyInside
<1>2. pc' \in [Processes -> PCs] /\ pc'[p] = "rest" /\ spec'[p] = NONE
      /\ \A q \in Processes \ {p} : pc'[q] = pc[q] /\ spec'[q] = spec[q]
  BY DEF IInv, TypeOK, Return, Goto, PCs
<1>3. TypeOK'
  <2>1. \A q \in Processes : bootLock' = q <=> pc'[q] \in Locked
    BY <1>1, <1>2, Constants DEF Locked, Return
  <2>2. /\ op' \in [Processes -> Ops] /\ spec' \in [Processes -> Specs \union {NONE}]
        /\ reinstall' \in [Processes -> BOOLEAN]
        /\ work' \in [Processes -> [unlink : SUBSET Packages, link : SUBSET Packages,
                                    scripts : SUBSET Packages]]
    BY Names DEF IInv, TypeOK, Return, Ops
  <2> QED
    BY <1>2, <2>1, <2>2 DEF IInv, TypeOK, Return
<1>4. \A q \in Processes \ {p} : MarkerInv(q)' /\ ReadyInv(q)' /\ PackagesInv(q)'
  BY <1>1, <1>2, OutsideKept
<1>5. MarkerInv(p)' /\ ReadyInv(p)' /\ PackagesInv(p)'
  BY <1>2 DEF MarkerInv, ReadyInv, PackagesInv, Locked
<1> QED
  BY <1>3, <1>4, <1>5 DEF IInv

(* Ready metadata stays true while only the marker and the metadata change, *)
(* and is no promise when it is gone.                                       *)
LEMMA MetadataKept ==
  ASSUME IInv, ~Deleting, UNCHANGED <<fleet, linked, ran, torn>>,
         file'["output"] = file["output"],
         \A name \in {"metadata", "metadata.tmp"} :
           file'[name] \in {file["metadata"], file["metadata.tmp"], NONE, Partial}
  PROVE  MetadataInv'
<1>1. ~torn => \A name \in {"metadata", "metadata.tmp"} :
                 file[name] \in Specs => Complete(file[name])
  BY DEF IInv, MetadataInv
<1>2. \A s \in Specs : Complete(s) => Complete(s)'
  BY DEF Complete, OutputOf
<1> QED
  BY <1>1, <1>2, Constants DEF MetadataInv

LEMMA MetadataGone ==
  ASSUME file'["metadata"] \notin Specs, file'["metadata.tmp"] \notin Specs
  PROVE  MetadataInv'
BY DEF MetadataInv

-----------------------------------------------------------------------------
(* Taking and releasing the lock *)

(* A directory that is somebody else's is refused and cannot be removed.    *)
LEMMA ForeignRefused ==
  ASSUME IInv, foreign, NEW force \in BOOLEAN
  PROVE  Disposition(force) = "refuse" /\ ~Removable
<1>1. /\ exists /\ file # NoFiles
      /\ file["marker"] \in {NONE, Foreign} /\ file["metadata"] \in {NONE, Foreign}
      /\ file["marker.tmp"] = NONE /\ file["metadata.tmp"] = NONE
  BY DEF IInv, FilesInv
<1>2. MarkerRead \in {NONE, Foreign} /\ MetadataRead \notin Specs /\ ~Empty
  BY <1>1, Constants DEF MarkerRead, MetadataRead, Empty
<1> QED
  BY <1>1, <1>2, Constants DEF Disposition, Removable

(* What the marker of ours can be read as.                                  *)
LEMMA MarkerOfOurs ==
  ASSUME IInv, ~foreign
  PROVE  MarkerRead \in {NONE, Partial, Installing}
BY DEF IInv, FilesInv, OurFiles, MarkerRead

(* Restoring the metadata changes nothing that matters.                     *)
LEMMA RestoreKeeps ==
  ASSUME IInv, RestoreMetadata, bootLock = NONE, UNCHANGED <<fleet, exists, linked, ran, torn>>
  PROVE  /\ file' \in [Files -> Contents]
         /\ ~exists => Empty'
         /\ file'["marker.tmp"] = file["marker.tmp"] /\ MarkerRead' = MarkerRead
         /\ OurFiles => OurFiles'
         /\ MetadataInv'
         /\ Retried => Retried'
         /\ foreign \/ Empty \/ MarkerRead # NONE => file' = file
<1>1. /\ file' \in [Files -> Contents]
      /\ file'["marker"] = file["marker"] /\ file'["marker.tmp"] = file["marker.tmp"]
      /\ file'["output"] = file["output"]
  BY RestoreIs, Names
<1>2. foreign \/ Empty \/ MarkerRead # NONE => file' = file
  BY RestoreIs, Constants, Names DEF IInv, FilesInv, Empty
<1>3. MarkerRead' = MarkerRead
  BY <1>1 DEF MarkerRead
<1>4. ~exists => Empty'
  BY <1>2 DEF IInv, FilesInv, Empty
<1>5. CASE file' = file
  <2>1. (OurFiles => OurFiles') /\ (Retried => Retried')
    BY <1>5 DEF OurFiles, Retried, MarkerRead, MetadataRead, Empty
  <2>2. MetadataInv'
    BY <1>5, MetadataKept, NobodyInside
  <2> QED
    BY <1>1, <1>2, <1>3, <1>4, <2>1, <2>2
<1>6. CASE /\ file["metadata"] = NONE /\ file["metadata.tmp"] \in Specs
           /\ file'["metadata"] = file["metadata.tmp"] /\ file'["metadata.tmp"] = NONE
           /\ MarkerRead = NONE
  <2>1. OurFiles => OurFiles'
    BY <1>1, <1>6 DEF OurFiles
  <2>2. MetadataInv'
    BY <1>1, <1>6, MetadataKept, NobodyInside
  <2>3. ~Empty
    BY <1>6, Constants, Names DEF Empty
  <2>4. MetadataRead' = MetadataRead
    BY <1>6, Constants DEF MetadataRead
  <2>5. Retried => Retried'
    BY <1>3, <1>6, <2>3, <2>4, Constants DEF Retried
  <2> QED
    BY <1>1, <1>2, <1>3, <1>4, <2>1, <2>2, <2>5
<1> QED
  BY <1>5, <1>6, RestoreIs

LEMMA EnterInstallKept ==
  ASSUME IInv, NEW p \in Processes, EnterInstall(p)
  PROVE  IInv'
<1>1. /\ pc[p] = "want" /\ bootLock = NONE /\ RestoreMetadata
      /\ fleet' = fleet /\ exists' = exists /\ linked' = linked /\ ran' = ran
      /\ faults' = faults /\ torn' = torn /\ foreign' = foreign /\ ghosts' = ghosts
  BY DEF EnterInstall, ghosts
<1> DEFINE found == Disposition(Forced(p))
<1>2. Forced(p) \in BOOLEAN
  BY DEF Forced
<1>3. ~Deleting /\ \A q \in Processes : pc[q] \in {"rest", "want"}
  BY <1>1, NobodyInside
<1>4. faults <= 1 /\ ~foreign /\ ~torn => Retried
  BY <1>1 DEF IInv, RetryInv
<1>5. faults = 0 /\ ~foreign /\ ~torn => file["marker.tmp"] = NONE
  BY <1>3 DEF IInv, RetryInv
<1>6. /\ file' \in [Files -> Contents] /\ MetadataInv'
      /\ file'["marker.tmp"] = file["marker.tmp"]
      /\ ~exists => Empty'
      /\ OurFiles => OurFiles'
      /\ Retried => Retried'
      /\ foreign \/ Empty \/ MarkerRead # NONE => file' = file
  BY <1>1, RestoreKeeps
<1>7. /\ exists \in BOOLEAN /\ linked \subseteq Packages /\ ran \subseteq linked
      /\ faults \in 0 .. MaxFaults /\ foreign \in BOOLEAN /\ torn \in BOOLEAN
      /\ work \in [Processes -> [unlink : SUBSET Packages, link : SUBSET Packages,
                                 scripts : SUBSET Packages]]
  BY DEF IInv, TypeOK
<1>8. CASE Return(p)
  <2>1. FilesInv'
    BY <1>1, <1>6, <1>8 DEF IInv, FilesInv, Return
  <2>2. RetryInv'
    BY <1>1, <1>4, <1>5, <1>6 DEF RetryInv
  <2> QED
    BY <1>1, <1>6, <1>7, <1>8, <2>1, <2>2, ReturnStep
<1>9. CASE /\ found # "refuse" /\ Lock(p, IF found = "unmark" THEN "unmark-ready" ELSE "mark")
           /\ reinstall' = [reinstall EXCEPT ![p] = found # "bootstrap"]
  <2> DEFINE l == IF found = "unmark" THEN "unmark-ready" ELSE "mark"
  <2>1. ~foreign /\ OurFiles /\ MarkerRead \in {NONE, Partial, Installing}
    BY <1>2, <1>9, ForeignRefused, MarkerOfOurs DEF IInv, FilesInv
  <2>2. l \in Locked \ {"fill-marker", "persist-marker", "delete"} /\ pc'[p] = l /\ bootLock' = p
        /\ reinstall'[p] = (found # "bootstrap") /\ reinstall' \in [Processes -> BOOLEAN]
        /\ UNCHANGED <<op, spec, work>> /\ Goto(p, l)
    BY <1>9 DEF Lock, Goto, Locked, PCs, IInv, TypeOK
  <2>3. found = "unmark" => /\ exists /\ file' = file /\ file["metadata"] \in Specs
                            /\ DelegateOK(Forced(p))
    <3>1. found = "unmark" => /\ MarkerRead = Installing /\ file["metadata"] \in Specs
                              /\ DelegateOK(Forced(p))
      BY Constants DEF Disposition
    <3>2. found = "unmark" => ~Empty /\ file' = file
      BY <1>6, <3>1, Constants, Names DEF Empty, MarkerRead
    <3> QED
      BY <3>1, <3>2 DEF IInv, FilesInv
  <2>4. found = "bootstrap" => linked = {}
    BY <2>1, Constants DEF Disposition, IInv, FilesInv, Empty
  <2>5. MarkerInv(p)'
    BY <1>1, <2>2, <2>3 DEF MarkerInv, DelegateOK, Forced, Locked
  <2>6. ReadyInv(p)'
    BY <1>1, <2>2 DEF ReadyInv, IInv
  <2>7. PackagesInv(p)'
    BY <1>1, <2>2, <2>4 DEF PackagesInv
  <2> HIDE DEF found, l
  <2> QED
    BY <1>1, <1>4, <1>5, <1>6, <1>7, <2>1, <2>2, <2>5, <2>6, <2>7, InsideStep DEF PCs
<1> QED
  BY <1>8, <1>9 DEF EnterInstall

LEMMA EnterRemoveKept ==
  ASSUME IInv, NEW p \in Processes, EnterRemove(p)
  PROVE  IInv'
<1>1. /\ pc[p] = "want" /\ bootLock = NONE
      /\ fleet' = fleet /\ exists' = exists /\ linked' = linked /\ ran' = ran
      /\ faults' = faults /\ torn' = torn /\ foreign' = foreign /\ ghosts' = ghosts
  BY DEF EnterRemove, ghosts
<1>2. ~Deleting /\ \A q \in Processes : pc[q] \in {"rest", "want"}
  BY <1>1, NobodyInside
<1>3. /\ exists \in BOOLEAN /\ linked \subseteq Packages /\ ran \subseteq linked
      /\ faults \in 0 .. MaxFaults /\ foreign \in BOOLEAN /\ torn \in BOOLEAN
      /\ file \in [Files -> Contents] /\ reinstall \in [Processes -> BOOLEAN]
      /\ work \in [Processes -> [unlink : SUBSET Packages, link : SUBSET Packages,
                                 scripts : SUBSET Packages]]
  BY DEF IInv, TypeOK
<1>4. CASE Return(p) /\ UNCHANGED file
  <2>1. FilesInv'
    BY <1>1, <1>4 DEF IInv, FilesInv, Return, Empty, OurFiles
  <2>2. MetadataInv'
    BY <1>1, <1>2, <1>4, MetadataKept
  <2>3. RetryInv'
    BY <1>1, <1>2, <1>4 DEF IInv, RetryInv, Retried, Empty, MarkerRead, MetadataRead, TypeOK
  <2> QED
    BY <1>1, <1>4, <1>3, <2>1, <2>2, <2>3, ReturnStep
<1>5. CASE Removable /\ RestoreMetadata /\ Lock(p, "delete") /\ UNCHANGED reinstall
  <2>1. ~foreign /\ OurFiles
    BY <1>5, ForeignRefused DEF IInv, FilesInv
  <2>2. "delete" \in Locked /\ Goto(p, "delete") /\ pc'[p] = "delete" /\ bootLock' = p
        /\ UNCHANGED <<op, spec, work>>
    BY <1>5 DEF Lock, Goto, Locked, PCs, IInv, TypeOK
  <2>3. MarkerInv(p)' /\ ReadyInv(p)' /\ PackagesInv(p)'
    BY <1>1, <2>2 DEF MarkerInv, ReadyInv, PackagesInv, IInv, Locked
  <2>4. faults = 0 /\ ~torn => file["marker.tmp"] = NONE
    BY <1>2, <2>1 DEF IInv, RetryInv
  <2>5. /\ ~exists => Empty'
        /\ file' \in [Files -> Contents]
        /\ file'["marker.tmp"] = file["marker.tmp"] /\ OurFiles' /\ MetadataInv'
    BY <1>1, <1>5, <2>1, RestoreKeeps
  <2> QED
    BY <1>1, <1>5, <1>3, <2>1, <2>2, <2>3, <2>4, <2>5, InsideStep DEF PCs
<1> QED
  BY <1>4, <1>5 DEF EnterRemove

-----------------------------------------------------------------------------
(* The marker *)

(* A file of ours is written while the prefix is in the hands of p.         *)
LEMMA MarkerStep ==
  ASSUME IInv, NEW p \in Processes, pc[p] \in Locked \ {"delete"},
         NEW l \in Locked \ {"delete"}, Goto(p, l),
         UNCHANGED <<fleet, bootLock, op, spec, reinstall, work, faults, ghosts, linked, ran>>,
         exists' = TRUE, file' \in [Files -> Contents], OurFiles', file'["output"] = file["output"],
         UNCHANGED <<file["metadata"], file["metadata.tmp"]>>,
         faults = 0 /\ ~torn => /\ Retried'
                                /\ l \notin {"fill-marker", "persist-marker"} =>
                                     file'["marker.tmp"] = NONE,
         MarkerInv(p)', ReadyInv(p)', PackagesInv(p)'
  PROVE  IInv'
<1>1. ~Deleting /\ ~foreign /\ bootLock = p
  BY OneInside
<1>2. MetadataInv'
  BY <1>1, MetadataKept DEF ghosts
<1>3. /\ linked \subseteq Packages /\ ran \subseteq linked /\ reinstall \in [Processes -> BOOLEAN]
      /\ work \in [Processes -> [unlink : SUBSET Packages, link : SUBSET Packages,
                                 scripts : SUBSET Packages]]
  BY DEF IInv, TypeOK
<1>4. pc[p] \in PCs \ {"rest"} /\ pc[p] \in Locked
  BY DEF Locked
<1> QED
  BY <1>1, <1>2, <1>3, <1>4, InsideStep

(* What is known while p is in the locked part of an install.               *)
LEMMA Installed ==
  ASSUME IInv, NEW p \in Processes, pc[p] \in Locked \ {"delete"}
  PROVE  /\ file \in [Files -> Contents] /\ OurFiles /\ ~foreign /\ spec[p] \in Specs
         /\ pc[p] # "mark" => exists = TRUE
         /\ faults = 0 /\ ~torn => Retried
         /\ faults = 0 /\ ~torn /\ pc[p] \notin {"fill-marker", "persist-marker"} =>
              file["marker.tmp"] = NONE
<1>1. ~Deleting /\ ~foreign /\ OurFiles /\ \A q \in Processes \ {p} : pc[q] \in {"rest", "want"}
  BY OneInside
<1>2. /\ file \in [Files -> Contents] /\ spec[p] \in Specs
      /\ pc[p] # "mark" => exists = TRUE
  BY DEF IInv, TypeOK, ReadyInv, MarkerInv, Locked
<1>3. /\ faults = 0 /\ ~torn => Retried
      /\ faults = 0 /\ ~torn /\ pc[p] \notin {"fill-marker", "persist-marker"} =>
           file["marker.tmp"] = NONE
  <2>1. (\A q \in Processes : pc[q] \notin {"fill-marker", "persist-marker"})
          <=> pc[p] \notin {"fill-marker", "persist-marker"}
    BY <1>1
  <2> QED
    BY <1>1, <2>1 DEF IInv, RetryInv
<1> QED
  BY <1>1, <1>2, <1>3

LEMMA StartMarkerKept ==
  ASSUME IInv, NEW p \in Processes, StartMarker(p)
  PROVE  IInv'
<1>1. /\ pc[p] = "mark" /\ Goto(p, "create-marker") /\ Write("marker.tmp", NONE) /\ exists' = TRUE
      /\ UNCHANGED <<fleet, bootLock, op, spec, reinstall, work, faults, ghosts, linked, ran>>
  BY DEF StartMarker, Proceed
<1>2. pc[p] \in Locked \ {"delete"} /\ "create-marker" \in Locked \ {"delete"}
  BY <1>1 DEF Locked, PCs
<1>3. pc'[p] = "create-marker"
  BY <1>1 DEF Goto, IInv, TypeOK
<1>4. /\ file' \in [Files -> Contents] /\ file'["marker.tmp"] = NONE
      /\ \A name \in Files \ {"marker.tmp"} : file'[name] = file[name]
  BY <1>1, <1>2, Installed, WriteIs, Names DEF Contents
<1>5. OurFiles'
  BY <1>2, <1>4, Installed, Names DEF OurFiles
<1>6. faults = 0 /\ ~torn => Retried'
  <2>1. faults = 0 /\ ~torn => file' = file
    BY <1>1, <1>2, Installed DEF Write
  <2> QED
    BY <1>1, <1>2, <2>1, Installed DEF Retried, MarkerRead, MetadataRead, Empty
<1>7. MarkerInv(p)' /\ ReadyInv(p)' /\ PackagesInv(p)'
  BY <1>1, <1>2, <1>3, Installed DEF MarkerInv, ReadyInv, PackagesInv, IInv
<1> QED
  BY <1>1, <1>2, <1>4, <1>5, <1>6, <1>7, MarkerStep, Names

LEMMA CreateMarkerKept ==
  ASSUME IInv, NEW p \in Processes, CreateMarker(p)
  PROVE  IInv'
<1>1. /\ pc[p] = "create-marker" /\ Goto(p, "fill-marker") /\ Write("marker.tmp", Partial)
      /\ UNCHANGED <<fleet, bootLock, op, spec, reinstall, work, faults, ghosts, exists, linked, ran>>
  BY DEF CreateMarker, Proceed
<1>2. pc[p] \in Locked \ {"delete"} /\ "fill-marker" \in Locked \ {"delete"}
  BY <1>1 DEF Locked, PCs
<1>3. pc'[p] = "fill-marker" /\ exists' = TRUE
  BY <1>1, <1>2, Installed DEF Goto, IInv, TypeOK
<1>4. /\ file' \in [Files -> Contents] /\ file'["marker.tmp"] = Partial
      /\ \A name \in Files \ {"marker.tmp"} : file'[name] = file[name]
  BY <1>1, <1>2, Installed, WriteIs, Names DEF Contents
<1>5. OurFiles' /\ Retried'
  BY <1>2, <1>4, Installed, Names DEF OurFiles, Retried, MarkerRead
<1>6. MarkerInv(p)' /\ ReadyInv(p)' /\ PackagesInv(p)'
  BY <1>1, <1>2, <1>3, <1>4, Installed DEF MarkerInv, ReadyInv, PackagesInv, IInv
<1> QED
  BY <1>1, <1>2, <1>3, <1>4, <1>5, <1>6, MarkerStep, Names

LEMMA FillMarkerKept ==
  ASSUME IInv, NEW p \in Processes, FillMarker(p)
  PROVE  IInv'
<1>1. /\ pc[p] = "fill-marker" /\ Goto(p, "persist-marker") /\ Write("marker.tmp", Installing)
      /\ UNCHANGED <<fleet, bootLock, op, spec, reinstall, work, faults, ghosts, exists, linked, ran>>
  BY DEF FillMarker, Proceed
<1>2. pc[p] \in Locked \ {"delete"} /\ "persist-marker" \in Locked \ {"delete"}
  BY <1>1 DEF Locked, PCs
<1>3. pc'[p] = "persist-marker" /\ exists' = TRUE
  BY <1>1, <1>2, Installed DEF Goto, IInv, TypeOK
<1>4. /\ file' \in [Files -> Contents] /\ file'["marker.tmp"] = Installing
      /\ \A name \in Files \ {"marker.tmp"} : file'[name] = file[name]
  BY <1>1, <1>2, Installed, WriteIs, Names DEF Contents
<1>5. OurFiles' /\ Retried'
  BY <1>2, <1>4, Installed, Names DEF OurFiles, Retried, MarkerRead
<1>6. MarkerInv(p)' /\ ReadyInv(p)' /\ PackagesInv(p)'
  BY <1>1, <1>2, <1>3, <1>4, Installed DEF MarkerInv, ReadyInv, PackagesInv, IInv
<1> QED
  BY <1>1, <1>2, <1>3, <1>4, <1>5, <1>6, MarkerStep, Names

LEMMA PersistMarkerKept ==
  ASSUME IInv, NEW p \in Processes, PersistMarker(p)
  PROVE  IInv'
<1> DEFINE l == IF file["marker"] # NONE THEN "persist-marker" ELSE "invalidate"
<1>1. /\ pc[p] = "persist-marker" /\ Goto(p, l)
      /\ file' = IF file["marker"] # NONE
                   THEN [file EXCEPT !["marker"] = NONE]
                   ELSE [file EXCEPT !["marker"] = file["marker.tmp"], !["marker.tmp"] = NONE]
      /\ UNCHANGED <<fleet, bootLock, op, spec, reinstall, work, faults, ghosts, exists, linked, ran>>
  BY DEF PersistMarker, Proceed
<1>2. pc[p] \in Locked \ {"delete"} /\ l \in Locked \ {"delete"}
  BY <1>1 DEF Locked, PCs
<1>3. pc'[p] = l /\ exists' = TRUE
  BY <1>1, <1>2, Installed DEF Goto, IInv, TypeOK
<1>4. file["marker.tmp"] = Installing
  BY <1>1 DEF IInv, MarkerInv
<1>5. /\ file' \in [Files -> Contents]
      /\ \A name \in Files \ {"marker", "marker.tmp"} : file'[name] = file[name]
      /\ IF l = "persist-marker"
           THEN file'["marker"] = NONE /\ file'["marker.tmp"] = Installing
           ELSE file'["marker"] = Installing /\ file'["marker.tmp"] = NONE
  BY <1>1, <1>2, <1>4, Installed, Names DEF Contents
<1>6. OurFiles' /\ Retried'
  BY <1>2, <1>5, Installed, Names, Constants DEF OurFiles, Retried, MarkerRead
<1>7. MarkerInv(p)' /\ ReadyInv(p)' /\ PackagesInv(p)'
  BY <1>1, <1>2, <1>3, <1>5, Installed DEF MarkerInv, ReadyInv, PackagesInv, IInv
<1> HIDE DEF l
<1>8. l \notin {"fill-marker", "persist-marker"} => file'["marker.tmp"] = NONE
  BY <1>5
<1> QED
  BY <1>1, <1>2, <1>3, <1>5, <1>6, <1>7, <1>8, MarkerStep, Names

LEMMA UnmarkKept ==
  ASSUME IInv, NEW p \in Processes, Unmark(p)
  PROVE  IInv'
<1>1. /\ pc[p] \in {"unmark-ready", "unmark"}
      /\ UNCHANGED <<fleet, exists, linked, ran, faults, foreign>>
  BY DEF Unmark
<1>2. pc[p] \in Locked \ {"delete"} /\ pc[p] # "mark"
      /\ pc[p] \notin {"fill-marker", "persist-marker"}
  BY <1>1 DEF Locked, PCs
<1>3. ~Deleting /\ ~foreign /\ bootLock = p
  BY <1>2, OneInside
<1>4. exists = TRUE /\ file["metadata"] \in Specs /\ file["metadata"] # NONE
  BY <1>1, <1>2, Installed, Constants DEF IInv, MarkerInv, ReadyInv
<1>5. ~torn \/ pc[p] = "unmark" => Complete(file["metadata"])
  <2>1. CASE pc[p] = "unmark"
    BY <2>1 DEF IInv, ReadyInv, PackagesInv, Complete
  <2>2. CASE ~torn
    BY <1>3, <1>4, <2>2 DEF IInv, MetadataInv
  <2> QED
    BY <2>1, <2>2
<1>6. CASE file["marker"] # NONE /\ Write("marker", NONE) /\ UNCHANGED <<bootLock, procs, torn>>
  <2>1. /\ file' \in [Files -> Contents] /\ file'["marker"] = NONE
        /\ \A name \in Files \ {"marker"} : file'[name] = file[name]
    BY <1>2, <1>6, Installed, WriteIs, Names DEF Contents
  <2>2. OurFiles'
    BY <1>2, <2>1, Installed, Names DEF OurFiles
  <2>3. faults = 0 /\ ~torn => Retried' /\ file'["marker.tmp"] = NONE
    BY <1>1, <1>2, <1>4, <1>5, <2>1, Installed, Names
       DEF Retried, MarkerRead, MetadataRead, Complete
  <2>4. MarkerInv(p)' /\ ReadyInv(p)' /\ PackagesInv(p)'
    BY <1>1, <1>4, <1>6, <2>1, Names
       DEF MarkerInv, ReadyInv, PackagesInv, IInv, procs, OutputOf, DelegateOK, Forced
  <2>5. Goto(p, pc[p]) /\ UNCHANGED <<op, spec, reinstall, work, ghosts>>
    BY <1>1, <1>6 DEF Goto, procs, ghosts, IInv, TypeOK
  <2> QED
    BY <1>1, <1>2, <1>4, <1>6, <2>1, <2>2, <2>3, <2>4, <2>5, MarkerStep, Names
<1>7. ASSUME file["marker"] = NONE, Write("marker.tmp", NONE),
             torn' = (torn /\ pc[p] = "unmark-ready")
      PROVE  /\ file' \in [Files -> Contents] /\ file'["marker.tmp"] = NONE
             /\ \A name \in Files \ {"marker.tmp"} : file'[name] = file[name]
             /\ OurFiles'
             /\ torn' \in BOOLEAN
             /\ ~torn' => Complete(file["metadata"]) /\ Retried'
  <2>1. /\ file' \in [Files -> Contents] /\ file'["marker.tmp"] = NONE
        /\ \A name \in Files \ {"marker.tmp"} : file'[name] = file[name]
    BY <1>2, <1>7, Installed, WriteIs, Names DEF Contents
  <2>2. OurFiles'
    BY <1>2, <2>1, Installed, Names DEF OurFiles
  <2>3. ~torn' => ~torn \/ pc[p] = "unmark"
    BY <1>1, <1>7
  <2>4. ~torn' => Complete(file["metadata"])
    BY <1>5, <2>3
  <2>5. Complete(file["metadata"]) => Retried'
    BY <1>1, <1>4, <1>7, <2>1, Names DEF Retried, MarkerRead, MetadataRead, Complete
  <2> QED
    BY <1>7, <2>1, <2>2, <2>4, <2>5
<1>8. CASE /\ file["marker"] = NONE /\ Write("marker.tmp", NONE)
           /\ pc[p] = "unmark-ready" /\ Goto(p, "mark")
           /\ UNCHANGED <<bootLock, op, spec, reinstall, work>>
           /\ torn' = (torn /\ pc[p] = "unmark-ready")
  <2>1. "mark" \in Locked \ {"delete"} /\ pc'[p] = "mark" /\ torn' = torn
    BY <1>8 DEF Locked, PCs, Goto, IInv, TypeOK
  <2>2. MarkerInv(p)' /\ ReadyInv(p)' /\ PackagesInv(p)'
    BY <1>2, <1>8, <2>1, Installed DEF MarkerInv, ReadyInv, PackagesInv, IInv
  <2> QED
    BY <1>1, <1>2, <1>4, <1>7, <1>8, <2>1, <2>2, MarkerStep, Names DEF ghosts
<1>9. CASE /\ file["marker"] = NONE /\ Write("marker.tmp", NONE) /\ Return(p)
           /\ torn' = (torn /\ pc[p] = "unmark-ready")
  <2>1. MetadataInv'
    <3>1. Complete(file["metadata"]) => Complete(file["metadata"])'
      BY <1>1, <1>7, <1>9, Names DEF Complete, OutputOf
    <3>2. file["metadata.tmp"] \in Specs /\ ~torn' => Complete(file["metadata.tmp"])'
      <4>1. pc[p] = "unmark" => file["metadata.tmp"] = NONE
        BY DEF IInv, ReadyInv
      <4>2. ~torn' => ~torn \/ pc[p] = "unmark"
        BY <1>1, <1>9
      <4>3. file["metadata.tmp"] \in Specs /\ ~torn => Complete(file["metadata.tmp"])
        BY <1>3 DEF IInv, MetadataInv
      <4>4. Complete(file["metadata.tmp"]) => Complete(file["metadata.tmp"])'
        BY <1>1, <1>7, <1>9, Names DEF Complete, OutputOf
      <4> QED
        BY <4>1, <4>2, <4>3, <4>4, Constants
    <3> QED
      BY <1>7, <1>9, <3>1, <3>2, Names DEF MetadataInv, Complete, OutputOf
  <2>2. FilesInv'
    BY <1>1, <1>3, <1>4, <1>7, <1>9 DEF FilesInv
  <2>3. RetryInv'
    BY <1>7, <1>9 DEF RetryInv
  <2>4. /\ exists \in BOOLEAN /\ linked \subseteq Packages /\ ran \subseteq linked
        /\ faults \in 0 .. MaxFaults /\ foreign \in BOOLEAN
    BY DEF IInv, TypeOK
  <2> QED
    BY <1>1, <1>2, <1>7, <1>9, <2>1, <2>2, <2>3, <2>4, ReturnStep
<1> QED
  BY <1>6, <1>8, <1>9 DEF Unmark

-----------------------------------------------------------------------------
(* The packages and the metadata *)

Marked == {"invalidate", "reset", "begin", "transact", "reset-again", "configure", "validate",
           "create-metadata", "fill-metadata", "persist-metadata"}

(* Until the metadata is there the marker stays, and makes the next install *)
(* retry.                                                                   *)
LEMMA MarkedStep ==
  ASSUME IInv, NEW p \in Processes, pc[p] \in Marked, NEW l \in Marked \union {"unmark"},
         Goto(p, l),
         UNCHANGED <<fleet, exists, bootLock, op, spec, reinstall, faults, ghosts>>,
         file' \in [Files -> Contents],
         UNCHANGED <<file["marker"], file["marker.tmp"]>>,
         file'["metadata"] \in Specs \union {NONE},
         file'["metadata.tmp"] \in Specs \union {NONE, Partial},
         linked' \subseteq Packages, ran' \subseteq linked',
         work' \in [Processes -> [unlink : SUBSET Packages, link : SUBSET Packages,
                                  scripts : SUBSET Packages]],
         MetadataInv', ReadyInv(p)', PackagesInv(p)'
  PROVE  IInv'
<1>1. /\ pc[p] \in Locked \ {"delete"} /\ pc[p] \in PCs \ {"rest"} /\ pc[p] # "mark"
      /\ l \in Locked /\ l \notin {"fill-marker", "persist-marker", "delete", "unmark-ready"}
      /\ pc[p] \notin {"fill-marker", "persist-marker"}
  BY DEF Marked, Locked, PCs
<1>2. ~foreign /\ bootLock = p /\ OurFiles /\ exists = TRUE
  BY <1>1, OneInside, Installed
<1>3. file["marker"] = Installing
  BY DEF IInv, MarkerInv, Marked
<1>4. OurFiles' /\ Retried'
  BY <1>2, <1>3, Constants DEF OurFiles, Retried, MarkerRead
<1>5. pc'[p] = l
  BY DEF Goto, IInv, TypeOK
<1>6. MarkerInv(p)'
  BY <1>1, <1>2, <1>3, <1>5 DEF MarkerInv
<1>7. faults = 0 /\ ~torn => file'["marker.tmp"] = NONE
  BY <1>1, Installed
<1>8. reinstall \in [Processes -> BOOLEAN] /\ exists' = TRUE
  BY <1>2 DEF IInv, TypeOK
<1> QED
  BY <1>1, <1>2, <1>4, <1>6, <1>7, <1>8, InsideStep

LEMMA MarkedTypes ==
  ASSUME IInv, NEW p \in Processes, pc[p] \in Marked
  PROVE  /\ file \in [Files -> Contents] /\ OurFiles /\ ~Deleting /\ spec[p] \in Specs
         /\ linked \subseteq Packages /\ ran \subseteq linked /\ fleet \in BOOLEAN
         /\ work \in [Processes -> [unlink : SUBSET Packages, link : SUBSET Packages,
                                    scripts : SUBSET Packages]]
         /\ work[p] \in [unlink : SUBSET Packages, link : SUBSET Packages,
                         scripts : SUBSET Packages]
         /\ MarkerInv(p) /\ ReadyInv(p) /\ PackagesInv(p)
<1>1. pc[p] \in Locked \ {"delete"}
  BY DEF Marked, Locked, PCs
<1>2. ~Deleting
  BY <1>1, OneInside
<1> QED
  BY <1>1, <1>2, Installed DEF IInv, TypeOK

LEMMA InvalidateKept ==
  ASSUME IInv, NEW p \in Processes, Invalidate(p)
  PROVE  IInv'
<1> DEFINE l == IF file["metadata"] # NONE THEN "invalidate" ELSE IF fleet THEN "reset" ELSE "begin"
           name == IF file["metadata"] # NONE THEN "metadata" ELSE "metadata.tmp"
<1>1. /\ pc[p] = "invalidate" /\ Goto(p, l) /\ Write(name, NONE)
      /\ UNCHANGED <<fleet, bootLock, op, spec, reinstall, work, faults, ghosts, exists, linked, ran>>
  BY DEF Invalidate, Proceed
<1>2. pc[p] \in Marked /\ l \in Marked
  BY <1>1 DEF Marked
<1>3. pc'[p] = l
  BY <1>1 DEF Goto, IInv, TypeOK
<1>4. name \in {"metadata", "metadata.tmp"} /\ name \in Files /\ NONE \in Contents
  BY Names DEF Contents
<1>5. /\ file' \in [Files -> Contents] /\ file'[name] = NONE
      /\ \A other \in Files \ {name} : file'[other] = file[other]
  <2> HIDE DEF name
  <2> QED
    BY <1>1, <1>2, <1>4, MarkedTypes, WriteIs
<1>6. MetadataInv'
  BY <1>1, <1>2, <1>4, <1>5, MarkedTypes, MetadataKept, Names DEF ghosts
<1>7. ReadyInv(p)' /\ PackagesInv(p)'
  BY <1>1, <1>2, <1>3, <1>5, MarkedTypes, Names DEF ReadyInv, PackagesInv
<1>8. /\ file'["metadata"] \in Specs \union {NONE}
      /\ file'["metadata.tmp"] \in Specs \union {NONE, Partial}
      /\ UNCHANGED <<file["marker"], file["marker.tmp"]>>
  BY <1>2, <1>5, MarkedTypes, Names DEF OurFiles
<1> HIDE DEF l
<1> QED
  BY <1>1, <1>2, <1>5, <1>6, <1>7, <1>8, MarkedTypes, MarkedStep

(* A step on packages or outputs while there is no metadata.                *)
LEMMA PackageStep ==
  ASSUME IInv, NEW p \in Processes,
         pc[p] \in {"reset", "begin", "transact", "reset-again", "configure", "validate"},
         NEW l \in {"begin", "transact", "reset-again", "configure", "validate", "create-metadata"},
         Goto(p, l),
         UNCHANGED <<fleet, exists, bootLock, op, spec, reinstall, faults, ghosts>>,
         file' \in [Files -> Contents],
         \A name \in Files \ {"output"} : file'[name] = file[name],
         linked' \subseteq Packages, ran' \subseteq linked',
         work' \in [Processes -> [unlink : SUBSET Packages, link : SUBSET Packages,
                                  scripts : SUBSET Packages]],
         PackagesInv(p)'
  PROVE  IInv'
<1>1. pc[p] \in Marked /\ l \in Marked
  BY DEF Marked
<1>2. pc'[p] = l
  BY DEF Goto, IInv, TypeOK
<1>3. /\ file["metadata"] = NONE /\ file["metadata.tmp"] = NONE
      /\ file'["metadata"] = NONE /\ file'["metadata.tmp"] = NONE
      /\ UNCHANGED <<file["marker"], file["marker.tmp"]>>
  BY <1>1, MarkedTypes, Names DEF ReadyInv
<1>4. MetadataInv'
  BY <1>3, MetadataGone, Constants
<1>5. ReadyInv(p)'
  BY <1>1, <1>2, <1>3, MarkedTypes DEF ReadyInv
<1> QED
  BY <1>1, <1>3, <1>4, <1>5, MarkedStep

LEMMA ResetOutputsKept ==
  ASSUME IInv, NEW p \in Processes, ResetOutputs(p)
  PROVE  IInv'
<1>1. /\ Write("output", NONE)
      /\ UNCHANGED <<fleet, bootLock, op, spec, reinstall, work, faults, ghosts, exists, linked, ran>>
      /\ \/ pc[p] = "reset" /\ Goto(p, "begin")
         \/ pc[p] = "reset-again" /\ Goto(p, "configure")
  BY DEF ResetOutputs, Proceed
<1>2. pc[p] \in Marked
  BY <1>1 DEF Marked
<1>3. /\ file' \in [Files -> Contents] /\ file'["output"] = NONE
      /\ \A name \in Files \ {"output"} : file'[name] = file[name]
  BY <1>1, <1>2, MarkedTypes, WriteIs, Names DEF Contents
<1>4. pc'[p] = IF pc[p] = "reset" THEN "begin" ELSE "configure"
  BY <1>1 DEF Goto, IInv, TypeOK
<1>5. PackagesInv(p)'
  BY <1>1, <1>2, <1>3, <1>4, MarkedTypes DEF PackagesInv
<1> QED
  BY <1>1, <1>2, <1>3, <1>5, MarkedTypes, PackageStep

LEMMA BeginTransactionKept ==
  ASSUME IInv, NEW p \in Processes, BeginTransaction(p)
  PROVE  IInv'
<1> DEFINE lock == LockOf[spec[p]]
           new  == IF reinstall[p] THEN lock ELSE lock \ linked
           w    == [unlink |-> linked \ (lock \ new), link |-> new, scripts |-> new]
<1>1. /\ pc[p] = "begin" /\ Goto(p, "transact") /\ work' = [work EXCEPT ![p] = w]
      /\ UNCHANGED <<fleet, bootLock, op, spec, reinstall, faults, ghosts, exists, file, linked, ran>>
  BY DEF BeginTransaction, Proceed, disk
<1>2. pc[p] \in Marked
  BY <1>1 DEF Marked
<1>3. lock \subseteq Packages
  BY <1>2, MarkedTypes, Constants
<1>4. w \in [unlink : SUBSET Packages, link : SUBSET Packages, scripts : SUBSET Packages]
  BY <1>2, <1>3, MarkedTypes
<1>5. pc'[p] = "transact" /\ work'[p] = w
      /\ work' \in [Processes -> [unlink : SUBSET Packages, link : SUBSET Packages,
                                  scripts : SUBSET Packages]]
  BY <1>1, <1>2, <1>4, MarkedTypes DEF Goto, IInv, TypeOK
<1>6. reinstall[p] \/ linked = {}
  BY <1>1 DEF IInv, PackagesInv
<1>7. /\ (linked \ w.unlink) \union w.link = lock
      /\ w.link \subseteq w.scripts /\ w.scripts \subseteq lock
      /\ (linked \ w.unlink) \ w.scripts \subseteq ran
  BY <1>6
<1>8. PackagesInv(p)'
  <2> HIDE DEF w
  <2> QED
    BY <1>1, <1>5, <1>7 DEF PackagesInv
<1> QED
  BY <1>1, <1>2, <1>5, <1>8, MarkedTypes, PackageStep

(* Every package of the lock is kept or still to be linked, and those whose *)
(* script has not run are still to run it.                                  *)
LEMMA TransactKept ==
  ASSUME IInv, NEW p \in Processes, NEW pkg \in Packages, Transact(p, pkg)
  PROVE  IInv'
<1>1. /\ pc[p] = "transact" /\ Goto(p, "transact")
      /\ UNCHANGED <<fleet, bootLock, op, spec, reinstall, faults, ghosts, exists>>
      /\ Unlink(p, pkg) \/ Link(p, pkg) \/ RunLinkScript(p, pkg)
  BY DEF Transact, Proceed
<1>2. pc[p] \in Marked
  BY <1>1 DEF Marked
<1> DEFINE lock == LockOf[spec[p]]
           w    == work[p]
<1>3. /\ (linked \ w.unlink) \union w.link = lock
      /\ w.link \subseteq w.scripts /\ w.scripts \subseteq lock
      /\ (linked \ w.unlink) \ w.scripts \subseteq ran
  BY <1>1, <1>2, MarkedTypes DEF PackagesInv
<1>4. w \in [unlink : SUBSET Packages, link : SUBSET Packages, scripts : SUBSET Packages]
  BY <1>2, MarkedTypes
<1>5. pc'[p] = "transact" /\ spec' = spec
  BY <1>1 DEF Goto, IInv, TypeOK
<1>6. CASE Unlink(p, pkg)
  <2>1. /\ pkg \in w.unlink /\ linked' = linked \ {pkg} /\ ran' = ran \ {pkg}
        /\ work' = [work EXCEPT ![p].unlink = @ \ {pkg}]
    BY <1>6 DEF Unlink
  <2>2. /\ file' \in [Files -> Contents]
        /\ \A name \in Files \ {"output"} : file'[name] = file[name]
    BY <1>2, <1>6, MarkedTypes, WriteIs, Names DEF Unlink, Contents
  <2>3. /\ work'[p].unlink = w.unlink \ {pkg} /\ work'[p].link = w.link
        /\ work'[p].scripts = w.scripts
        /\ work' \in [Processes -> [unlink : SUBSET Packages, link : SUBSET Packages,
                                    scripts : SUBSET Packages]]
    BY <1>2, <1>4, <2>1, MarkedTypes
  <2>4. linked' \ work'[p].unlink = linked \ w.unlink
    BY <2>1, <2>3
  <2>5. PackagesInv(p)'
    BY <1>3, <1>5, <2>1, <2>3, <2>4 DEF PackagesInv
  <2>6. linked' \subseteq Packages /\ ran' \subseteq linked'
    BY <1>2, <2>1, MarkedTypes
  <2> QED
    BY <1>1, <2>2, <2>3, <2>5, <2>6, PackageStep
<1>7. CASE Link(p, pkg)
  <2>1. /\ pkg \in w.link \ w.unlink /\ linked' = linked \union {pkg} /\ ran' = ran
        /\ work' = [work EXCEPT ![p].link = @ \ {pkg}]
    BY <1>7 DEF Link
  <2>2. /\ file' \in [Files -> Contents]
        /\ \A name \in Files \ {"output"} : file'[name] = file[name]
    BY <1>2, <1>7, MarkedTypes, WriteIs, Names DEF Link, Contents
  <2>3. /\ work'[p].unlink = w.unlink /\ work'[p].link = w.link \ {pkg}
        /\ work'[p].scripts = w.scripts
        /\ work' \in [Processes -> [unlink : SUBSET Packages, link : SUBSET Packages,
                                    scripts : SUBSET Packages]]
    BY <1>2, <1>4, <2>1, MarkedTypes
  <2>4. linked' \ work'[p].unlink = (linked \ w.unlink) \union {pkg}
    BY <2>1, <2>3
  <2>5. PackagesInv(p)'
    BY <1>3, <1>5, <2>1, <2>3, <2>4 DEF PackagesInv
  <2>6. linked' \subseteq Packages /\ ran' \subseteq linked'
    BY <1>2, <2>1, MarkedTypes
  <2> QED
    BY <1>1, <2>2, <2>3, <2>5, <2>6, PackageStep
<1>8. CASE RunLinkScript(p, pkg)
  <2>1. /\ w.unlink = {} /\ w.link = {} /\ pkg \in w.scripts
        /\ linked' = linked /\ file' = file /\ ran' = ran \union {pkg}
        /\ work' = [work EXCEPT ![p].scripts = @ \ {pkg}]
    BY <1>8 DEF RunLinkScript
  <2>2. /\ work'[p].unlink = {} /\ work'[p].link = {} /\ work'[p].scripts = w.scripts \ {pkg}
        /\ work' \in [Processes -> [unlink : SUBSET Packages, link : SUBSET Packages,
                                    scripts : SUBSET Packages]]
    BY <1>2, <1>4, <2>1, MarkedTypes
  <2>3. linked = lock /\ linked \ w.scripts \subseteq ran
    BY <1>3, <2>1
  <2>4. linked' \ work'[p].scripts \subseteq ran'
    BY <2>1, <2>2, <2>3
  <2>5. PackagesInv(p)'
    BY <1>3, <1>5, <2>1, <2>2, <2>3, <2>4 DEF PackagesInv
  <2>6. linked' \subseteq Packages /\ ran' \subseteq linked'
    BY <1>2, <1>3, <2>1, <2>3, MarkedTypes
  <2> QED
    BY <1>1, <1>2, <2>1, <2>2, <2>5, <2>6, MarkedTypes, PackageStep
<1> QED
  BY <1>1, <1>6, <1>7, <1>8

LEMMA EndTransactionKept ==
  ASSUME IInv, NEW p \in Processes, EndTransaction(p)
  PROVE  IInv'
<1> DEFINE l == IF fleet THEN "reset-again" ELSE "configure"
<1>1. /\ pc[p] = "transact" /\ Goto(p, l) /\ work[p] = NoWork
      /\ UNCHANGED <<fleet, bootLock, op, spec, reinstall, faults, ghosts, exists, file, linked, ran, work>>
  BY DEF EndTransaction, Proceed, disk
<1>2. pc[p] \in Marked
  BY <1>1 DEF Marked
<1>3. work[p].unlink = {} /\ work[p].link = {} /\ work[p].scripts = {}
  BY <1>1 DEF NoWork
<1>4. linked = LockOf[spec[p]] /\ ran = LockOf[spec[p]]
  <2>1. /\ (linked \ work[p].unlink) \union work[p].link = LockOf[spec[p]]
        /\ (linked \ work[p].unlink) \ work[p].scripts \subseteq ran
    BY <1>1, <1>2, MarkedTypes DEF PackagesInv
  <2>2. linked = LockOf[spec[p]] /\ linked \subseteq ran
    BY <1>3, <2>1
  <2>3. ran \subseteq linked
    BY <1>2, MarkedTypes
  <2> QED
    BY <2>2, <2>3
<1>5. pc'[p] = l
  BY <1>1 DEF Goto, IInv, TypeOK
<1>6. PackagesInv(p)'
  BY <1>1, <1>4, <1>5 DEF PackagesInv
<1> QED
  BY <1>1, <1>2, <1>6, MarkedTypes, PackageStep

LEMMA ConfigureKept ==
  ASSUME IInv, NEW p \in Processes, Configure(p)
  PROVE  IInv'
<1>1. /\ pc[p] = "configure" /\ Goto(p, "validate")
      /\ IF spec[p] \in Configures THEN Write("output", spec[p]) ELSE UNCHANGED file
      /\ UNCHANGED <<fleet, bootLock, op, spec, reinstall, work, faults, ghosts, exists, linked, ran>>
  BY DEF Configure, Proceed
<1>2. pc[p] \in Marked
  BY <1>1 DEF Marked
<1>3. /\ file' \in [Files -> Contents]
      /\ file'["output"] = IF spec[p] \in Configures THEN spec[p] ELSE file["output"]
      /\ \A name \in Files \ {"output"} : file'[name] = file[name]
  BY <1>1, <1>2, MarkedTypes, WriteIs, Names DEF Contents
<1>4. pc'[p] = "validate"
  BY <1>1 DEF Goto, IInv, TypeOK
<1>5. PackagesInv(p)'
  BY <1>1, <1>2, <1>3, <1>4, MarkedTypes DEF PackagesInv, OutputOf
<1> QED
  BY <1>1, <1>2, <1>3, <1>5, MarkedTypes, PackageStep

LEMMA ValidateDelegateKept ==
  ASSUME IInv, NEW p \in Processes, ValidateDelegate(p)
  PROVE  IInv'
<1>1. /\ pc[p] = "validate"
      /\ UNCHANGED <<fleet, exists, file, linked, ran, faults, ghosts>>
  BY DEF ValidateDelegate, disk
<1>2. pc[p] \in Marked /\ pc[p] \in Locked \ {"delete"}
  BY <1>1 DEF Marked, Locked, PCs
<1>3. CASE /\ Delegate \in linked /\ Goto(p, "create-metadata")
           /\ UNCHANGED <<bootLock, op, spec, reinstall, work>>
  <2>1. pc'[p] = "create-metadata"
    BY <1>3 DEF Goto, IInv, TypeOK
  <2>2. PackagesInv(p)'
    BY <1>1, <1>2, <1>3, <2>1, MarkedTypes DEF PackagesInv, OutputOf
  <2> QED
    BY <1>1, <1>2, <1>3, <2>2, MarkedTypes, PackageStep
<1>4. CASE Return(p)
  <2>1. file["marker"] = Installing /\ file["metadata"] = NONE /\ file["metadata.tmp"] = NONE
    BY <1>1, <1>2, MarkedTypes DEF MarkerInv, ReadyInv, Marked
  <2>2. ~foreign /\ exists = TRUE /\ OurFiles /\ faults \in 0 .. MaxFaults
        /\ torn' \in BOOLEAN /\ foreign' \in BOOLEAN
    BY <1>1, <1>2, OneInside, Installed DEF IInv, TypeOK, ghosts
  <2>3. FilesInv'
    BY <1>1, <2>2 DEF FilesInv, OurFiles, ghosts
  <2>4. MetadataInv'
    BY <1>1, <2>1, MetadataGone, Constants
  <2>5. faults = 0 /\ ~torn => file["marker.tmp"] = NONE
    BY <1>1, <1>2, Installed
  <2>6. RetryInv'
    BY <1>1, <2>1, <2>5, Constants DEF RetryInv, Retried, MarkerRead, ghosts
  <2> QED
    BY <1>1, <1>2, <1>4, <2>2, <2>3, <2>4, <2>6, MarkedTypes, ReturnStep
<1> QED
  BY <1>3, <1>4 DEF ValidateDelegate

(* The metadata is written when the install is complete.                    *)
LEMMA CreateMetadataKept ==
  ASSUME IInv, NEW p \in Processes, CreateMetadata(p)
  PROVE  IInv'
<1>1. /\ pc[p] = "create-metadata" /\ Goto(p, "fill-metadata") /\ Write("metadata.tmp", Partial)
      /\ UNCHANGED <<fleet, bootLock, op, spec, reinstall, work, faults, ghosts, exists, linked, ran>>
  BY DEF CreateMetadata, Proceed
<1>2. pc[p] \in Marked /\ "fill-metadata" \in Marked
  BY <1>1 DEF Marked
<1>3. /\ file' \in [Files -> Contents] /\ file'["metadata.tmp"] = Partial
      /\ \A name \in Files \ {"metadata.tmp"} : file'[name] = file[name]
  BY <1>1, <1>2, MarkedTypes, WriteIs, Names DEF Contents
<1>4. pc'[p] = "fill-metadata"
  BY <1>1 DEF Goto, IInv, TypeOK
<1>5. file'["metadata"] = NONE
  BY <1>1, <1>2, <1>3, MarkedTypes, Names DEF ReadyInv
<1>6. MetadataInv'
  BY <1>3, <1>5, MetadataGone, Constants
<1>7. ReadyInv(p)' /\ PackagesInv(p)'
  BY <1>1, <1>2, <1>3, <1>4, <1>5, MarkedTypes, Names DEF ReadyInv, PackagesInv, OutputOf
<1> QED
  BY <1>1, <1>2, <1>3, <1>5, <1>6, <1>7, MarkedTypes, MarkedStep, Names

LEMMA FillMetadataKept ==
  ASSUME IInv, NEW p \in Processes, FillMetadata(p)
  PROVE  IInv'
<1>1. /\ pc[p] = "fill-metadata" /\ Goto(p, "persist-metadata") /\ Write("metadata.tmp", spec[p])
      /\ UNCHANGED <<fleet, bootLock, op, spec, reinstall, work, faults, ghosts, exists, linked, ran>>
  BY DEF FillMetadata, Proceed
<1>2. pc[p] \in Marked /\ "persist-metadata" \in Marked
  BY <1>1 DEF Marked
<1>3. /\ file' \in [Files -> Contents] /\ file'["metadata.tmp"] = spec[p]
      /\ \A name \in Files \ {"metadata.tmp"} : file'[name] = file[name]
  BY <1>1, <1>2, MarkedTypes, WriteIs, Names DEF Contents
<1>4. pc'[p] = "persist-metadata"
  BY <1>1 DEF Goto, IInv, TypeOK
<1>5. file'["metadata"] = NONE
  BY <1>1, <1>2, <1>3, MarkedTypes, Names DEF ReadyInv
<1>6. spec[p] \in Specs /\ Complete(spec[p])'
  BY <1>1, <1>2, <1>3, MarkedTypes, Names DEF PackagesInv, Complete, OutputOf
<1>7. MetadataInv'
  <2>1. \A s \in Specs : s = spec[p] => Complete(s)'
    BY <1>6, <1>1 DEF Complete, OutputOf
  <2> QED
    BY <1>3, <1>5, <2>1, Constants DEF MetadataInv, Complete, OutputOf
<1>8. ReadyInv(p)' /\ PackagesInv(p)'
  BY <1>1, <1>2, <1>3, <1>4, <1>5, MarkedTypes, Names DEF ReadyInv, PackagesInv, OutputOf
<1> QED
  BY <1>1, <1>2, <1>3, <1>5, <1>7, <1>8, MarkedTypes, MarkedStep, Names

LEMMA PersistMetadataKept ==
  ASSUME IInv, NEW p \in Processes, PersistMetadata(p)
  PROVE  IInv'
<1>1. /\ pc[p] = "persist-metadata" /\ Goto(p, "unmark")
      /\ file' = [file EXCEPT !["metadata"] = file["metadata.tmp"], !["metadata.tmp"] = NONE]
      /\ UNCHANGED <<fleet, bootLock, op, spec, reinstall, work, faults, ghosts, exists, linked, ran>>
  BY DEF PersistMetadata, Proceed
<1>2. pc[p] \in Marked
  BY <1>1 DEF Marked
<1>3. file["metadata.tmp"] = spec[p] /\ spec[p] \in Specs
  BY <1>1, <1>2, MarkedTypes DEF ReadyInv
<1>4. /\ file' \in [Files -> Contents] /\ file'["metadata"] = spec[p] /\ file'["metadata.tmp"] = NONE
      /\ \A name \in Files \ {"metadata", "metadata.tmp"} : file'[name] = file[name]
  BY <1>1, <1>2, <1>3, MarkedTypes, Names DEF Contents
<1>5. pc'[p] = "unmark"
  BY <1>1 DEF Goto, IInv, TypeOK
<1>6. MetadataInv'
  BY <1>1, <1>2, <1>3, <1>4, MarkedTypes, MetadataKept, Names DEF ghosts
<1>7. ReadyInv(p)' /\ PackagesInv(p)'
  BY <1>1, <1>2, <1>4, <1>5, MarkedTypes, Names DEF ReadyInv, PackagesInv, OutputOf
<1> QED
  BY <1>1, <1>2, <1>3, <1>4, <1>6, <1>7, MarkedTypes, MarkedStep, Names

-----------------------------------------------------------------------------
(* Removal, interruptions and what users do *)

LEMMA DeleteEntryKept ==
  ASSUME IInv, NEW p \in Processes, DeleteEntry(p)
  PROVE  IInv'
<1>1. /\ pc[p] = "delete" /\ Goto(p, "delete")
      /\ UNCHANGED <<fleet, bootLock, op, spec, reinstall, work, faults, ghosts, exists>>
  BY DEF DeleteEntry, Proceed
<1>2. /\ pc[p] \in Locked /\ pc[p] \in PCs \ {"rest"} /\ "delete" \in Locked
  BY <1>1 DEF Locked, PCs
<1>3. bootLock = p /\ ~foreign /\ OurFiles /\ \A q \in Processes \ {p} : pc[q] \in {"rest", "want"}
  BY <1>2, OneInside
<1>4. /\ file \in [Files -> Contents] /\ linked \subseteq Packages /\ ran \subseteq linked
      /\ exists \in BOOLEAN /\ reinstall \in [Processes -> BOOLEAN]
      /\ work \in [Processes -> [unlink : SUBSET Packages, link : SUBSET Packages,
                                 scripts : SUBSET Packages]]
  BY DEF IInv, TypeOK
<1>5. /\ file' \in [Files -> Contents] /\ \A name \in Files : file'[name] \in {file[name], NONE}
      /\ linked' \subseteq linked /\ ran' \subseteq linked'
  <2>1. CASE \E name \in Files :
               file[name] # NONE /\ Write(name, NONE) /\ UNCHANGED <<linked, ran>>
    <3>1. PICK name \in Files : Write(name, NONE) /\ UNCHANGED <<linked, ran>>
      BY <2>1
    <3>2. NONE \in Contents
      BY DEF Contents
    <3>3. /\ file' \in [Files -> Contents] /\ file'[name] = NONE
          /\ \A other \in Files \ {name} : file'[other] = file[other]
      BY <1>4, <3>1, <3>2, WriteIs
    <3> QED
      BY <1>4, <3>1, <3>3
  <2>2. CASE \E pkg \in linked :
               linked' = linked \ {pkg} /\ ran' = ran \ {pkg} /\ UNCHANGED file
    BY <1>4, <2>2
  <2> QED
    BY <2>1, <2>2 DEF DeleteEntry
<1>6. ~exists => Empty'
  <2>1. ~exists => Empty
    BY DEF IInv, FilesInv
  <2>2. Empty => \A name \in Files : file[name] = NONE
    BY Names DEF Empty
  <2>3. Empty => file' = NoFiles /\ linked' = {}
    BY <1>5, <2>2 DEF Empty, NoFiles
  <2> QED
    BY <2>1, <2>3 DEF Empty
<1>7. OurFiles'
  BY <1>3, <1>5, Names DEF OurFiles
<1>8. pc'[p] = "delete"
  BY <1>1 DEF Goto, IInv, TypeOK
<1>9. MetadataInv'
  BY <1>8 DEF MetadataInv, Deleting
<1>10. MarkerInv(p)' /\ ReadyInv(p)' /\ PackagesInv(p)'
  BY <1>1, <1>8 DEF MarkerInv, ReadyInv, PackagesInv, IInv, Locked
<1>11. faults = 0 /\ ~torn => file'["marker.tmp"] = NONE
  <2>1. faults = 0 /\ ~torn => file["marker.tmp"] = NONE
    BY <1>1, <1>3 DEF IInv, RetryInv
  <2> QED
    BY <1>5, <2>1, Names
<1>12. linked' \subseteq Packages
  BY <1>4, <1>5
<1> QED
  BY <1>1, <1>2, <1>3, <1>4, <1>5, <1>6, <1>7, <1>9, <1>10, <1>11, <1>12, InsideStep

LEMMA DeletePrefixKept ==
  ASSUME IInv, NEW p \in Processes, DeletePrefix(p)
  PROVE  IInv'
<1>1. /\ pc[p] = "delete" /\ Empty /\ exists' = FALSE /\ Return(p) /\ torn' = FALSE
      /\ UNCHANGED <<fleet, file, linked, ran, faults, foreign>>
  BY DEF DeletePrefix
<1>2. pc[p] \in Locked
  BY <1>1 DEF Locked, PCs
<1>3. ~foreign /\ OurFiles
  BY <1>2, OneInside
<1>4. \A name \in Files : file[name] = NONE
  BY <1>1, Names DEF Empty
<1>5. FilesInv'
  BY <1>1, <1>3 DEF FilesInv, OurFiles, Empty
<1>6. MetadataInv'
  BY <1>1, <1>4, MetadataGone, Names, Constants
<1>7. RetryInv'
  BY <1>1, <1>4, Names DEF RetryInv, Retried, Empty
<1>8. /\ file \in [Files -> Contents] /\ linked \subseteq Packages /\ ran \subseteq linked
      /\ faults \in 0 .. MaxFaults /\ foreign \in BOOLEAN
  BY DEF IInv, TypeOK
<1> QED
  BY <1>1, <1>2, <1>5, <1>6, <1>7, <1>8, ReturnStep

LEMMA InterruptKept ==
  ASSUME IInv, NEW p \in Processes, Interrupt(p)
  PROVE  IInv'
<1>1. /\ pc[p] \in Locked /\ faults < MaxFaults /\ faults' = faults + 1 /\ Return(p)
      /\ torn' = (torn \/ pc[p] = "delete")
      /\ UNCHANGED <<fleet, exists, file, linked, ran, foreign>>
  BY DEF Interrupt, disk
<1>2. ~foreign /\ (pc[p] # "delete" => ~Deleting)
  BY <1>1, OneInside
<1>3. /\ file \in [Files -> Contents] /\ linked \subseteq Packages /\ ran \subseteq linked
      /\ exists \in BOOLEAN /\ faults \in 0 .. MaxFaults /\ foreign \in BOOLEAN /\ torn \in BOOLEAN
  BY DEF IInv, TypeOK
<1>4. faults' \in 0 .. MaxFaults /\ faults' # 0 /\ (faults' <= 1 => faults = 0) /\ torn' \in BOOLEAN
  BY <1>1, <1>3, Constants
<1>5. FilesInv'
  BY <1>1, <1>2 DEF IInv, FilesInv, OurFiles, Empty
<1>6. MetadataInv'
  BY <1>1, <1>2 DEF IInv, MetadataInv, Complete, OutputOf
<1>7. ~torn' => ~torn /\ ~Deleting
  BY <1>1, <1>2
<1>8. faults' <= 1 /\ ~torn' => Retried'
  <2>1. faults' <= 1 /\ ~torn' => Retried
    BY <1>2, <1>4, <1>7 DEF IInv, RetryInv
  <2> QED
    BY <1>1, <2>1 DEF Retried, MarkerRead, MetadataRead, Empty
<1>9. RetryInv'
  BY <1>4, <1>8 DEF RetryInv
<1> QED
  BY <1>1, <1>3, <1>4, <1>5, <1>6, <1>9, ReturnStep

(* A step outside of every process.                                         *)
LEMMA UserStep ==
  ASSUME IInv, bootLock = NONE,
         UNCHANGED <<fleet, linked, ran, bootLock, pc, op, spec, reinstall, work, faults, torn>>,
         exists' \in BOOLEAN, file' \in [Files -> Contents], foreign' \in BOOLEAN,
         file'["output"] = file["output"],
         UNCHANGED <<file["metadata"], file["metadata.tmp"]>>,
         FilesInv', RetryInv'
  PROVE  IInv'
<1>1. ~Deleting /\ \A q \in Processes : pc[q] \in {"rest", "want"}
  BY NobodyInside
<1>2. TypeOK'
  BY DEF IInv, TypeOK
<1>3. MetadataInv'
  BY <1>1, MetadataKept
<1>4. \A q \in Processes : MarkerInv(q)' /\ ReadyInv(q)' /\ PackagesInv(q)'
  BY <1>1, OutsideKept
<1> QED
  BY <1>2, <1>3, <1>4 DEF IInv

LEMMA UsePrefixKept ==
  ASSUME IInv, UsePrefix
  PROVE  IInv'
<1>1. /\ bootLock = NONE /\ Disposition(FALSE) = "ready" /\ Write("unrelated", Foreign)
      /\ UNCHANGED <<fleet, exists, linked, ran, bootLock, pc, op, spec, reinstall, work, faults,
                     torn, foreign>>
  BY DEF UsePrefix, procs, ghosts
<1>2. ~foreign /\ OurFiles /\ MarkerRead \in {NONE, Partial, Installing}
  BY <1>1, ForeignRefused, MarkerOfOurs DEF IInv, FilesInv
<1>3. exists /\ MarkerRead = NONE /\ MetadataRead \in Specs /\ Delegate \in linked
  BY <1>1, <1>2, Constants DEF Disposition, DelegateOK
<1>4. /\ file \in [Files -> Contents] /\ exists \in BOOLEAN /\ foreign \in BOOLEAN
      /\ Foreign \in Contents
  BY DEF IInv, TypeOK, Contents
<1>5. /\ file' \in [Files -> Contents]
      /\ \A name \in Files \ {"unrelated"} : file'[name] = file[name]
  BY <1>1, <1>4, WriteIs, Names
<1>6. FilesInv'
  BY <1>1, <1>2, <1>3, <1>5, Names DEF FilesInv, OurFiles
<1>7. Retried'
  BY <1>1, <1>3, <1>5, Names DEF Retried, MarkerRead, MetadataRead
<1>8. RetryInv'
  BY <1>1, <1>2, <1>5, <1>7, Names DEF IInv, RetryInv
<1> QED
  BY <1>1, <1>4, <1>5, <1>6, <1>8, UserStep, Names

LEMMA OccupyPrefixKept ==
  ASSUME IInv, OccupyPrefix
  PROVE  IInv'
<1>1. /\ bootLock = NONE /\ ~exists /\ exists' = TRUE /\ Write("unrelated", Foreign)
      /\ foreign' = TRUE
      /\ UNCHANGED <<fleet, linked, ran, bootLock, pc, op, spec, reinstall, work, faults, torn>>
  BY DEF OccupyPrefix, procs
<1>2. file \in [Files -> Contents] /\ Foreign \in Contents /\ \A name \in Files : file[name] = NONE
  BY <1>1, Names DEF IInv, TypeOK, Contents, FilesInv, Empty
<1>3. /\ file' \in [Files -> Contents] /\ file'["unrelated"] = Foreign
      /\ \A name \in Files \ {"unrelated"} : file'[name] = NONE
  BY <1>1, <1>2, WriteIs, Names
<1>4. file' # NoFiles
  BY <1>3, Names, Constants
<1>5. FilesInv'
  BY <1>1, <1>3, <1>4, Names DEF FilesInv
<1>6. RetryInv'
  BY <1>1 DEF RetryInv
<1> QED
  BY <1>1, <1>2, <1>3, <1>5, <1>6, UserStep, Names

LEMMA CallKept ==
  ASSUME IInv, NEW p \in Processes, NEW function \in Ops, NEW s \in Specs, Call(p, function, s)
  PROVE  IInv'
<1>1. /\ pc[p] = "rest" /\ Goto(p, "want")
      /\ op' = [op EXCEPT ![p] = function] /\ spec' = [spec EXCEPT ![p] = s]
      /\ UNCHANGED <<fleet, exists, file, linked, ran, bootLock, reinstall, work, faults,
                     torn, foreign>>
  BY DEF Call, disk, ghosts
<1>2. /\ pc' \in [Processes -> PCs] /\ pc'[p] = "want" /\ spec'[p] = s
      /\ op' \in [Processes -> Ops] /\ spec' \in [Processes -> Specs \union {NONE}]
      /\ \A q \in Processes \ {p} : pc'[q] = pc[q] /\ spec'[q] = spec[q] /\ op'[q] = op[q]
  BY <1>1 DEF Goto, IInv, TypeOK, PCs
<1>3. TypeOK'
  <2>1. \A q \in Processes : bootLock' = q <=> pc'[q] \in Locked
    BY <1>1, <1>2 DEF IInv, TypeOK, Locked
  <2> QED
    BY <1>1, <1>2, <2>1 DEF IInv, TypeOK
<1>4. /\ Deleting' <=> Deleting
      /\ (\A q \in Processes : pc'[q] \notin {"fill-marker", "persist-marker"})
           <=> (\A q \in Processes : pc[q] \notin {"fill-marker", "persist-marker"})
  BY <1>1, <1>2 DEF Deleting
<1>5. FilesInv'
  BY <1>1 DEF IInv, FilesInv, OurFiles, Empty
<1>6. MetadataInv'
  BY <1>1, <1>4 DEF IInv, MetadataInv, Complete, OutputOf
<1>7. RetryInv'
  <2>1. Retried' <=> Retried
    BY <1>1 DEF Retried, MarkerRead, MetadataRead, Empty
  <2> QED
    BY <1>1, <1>4, <2>1 DEF IInv, RetryInv
<1>8. MarkerInv(p)' /\ ReadyInv(p)' /\ PackagesInv(p)'
  BY <1>2 DEF MarkerInv, ReadyInv, PackagesInv, Locked
<1>9. ASSUME NEW q \in Processes \ {p}
      PROVE  MarkerInv(q)' /\ ReadyInv(q)' /\ PackagesInv(q)'
  <2>1. MarkerInv(q) /\ ReadyInv(q) /\ PackagesInv(q)
    BY DEF IInv
  <2>2. MarkerInv(q)'
    BY <1>1, <1>2, <2>1 DEF MarkerInv, DelegateOK, Forced
  <2>3. ReadyInv(q)'
    BY <1>1, <1>2, <2>1 DEF ReadyInv
  <2>4. PackagesInv(q)'
    BY <1>1, <1>2, <2>1 DEF PackagesInv, OutputOf
  <2> QED
    BY <2>2, <2>3, <2>4
<1> QED
  BY <1>3, <1>5, <1>6, <1>7, <1>8, <1>9 DEF IInv

-----------------------------------------------------------------------------
(* The invariant and what follows from it *)

LEMMA StutterKept ==
  ASSUME IInv, UNCHANGED vars
  PROVE  IInv'
<1>1. UNCHANGED <<fleet, exists, file, linked, ran, bootLock, pc, op, spec, reinstall, work, faults,
                  foreign, torn>>
  BY DEF vars, disk, procs, ghosts
<1>2. TypeOK' /\ FilesInv'
  BY <1>1 DEF IInv, TypeOK, FilesInv, OurFiles, Empty
<1>3. MetadataInv'
  BY <1>1 DEF IInv, MetadataInv, Complete, OutputOf, Deleting
<1>4. RetryInv'
  BY <1>1 DEF IInv, RetryInv, Retried, MarkerRead, MetadataRead, Empty, Deleting
<1>5. \A p \in Processes : MarkerInv(p)' /\ ReadyInv(p)' /\ PackagesInv(p)'
  BY <1>1 DEF IInv, MarkerInv, ReadyInv, PackagesInv, OutputOf, DelegateOK, Forced
<1> QED
  BY <1>2, <1>3, <1>4, <1>5 DEF IInv

LEMMA NextPreserves ==
  ASSUME IInv, [Next]_vars
  PROVE  IInv'
<1>1. ASSUME NEW p \in Processes, InstallStep(p) PROVE IInv'
  BY <1>1, EnterInstallKept, UnmarkKept, StartMarkerKept, CreateMarkerKept, FillMarkerKept,
     PersistMarkerKept, InvalidateKept, ResetOutputsKept, BeginTransactionKept, TransactKept,
     EndTransactionKept, ConfigureKept, ValidateDelegateKept, CreateMetadataKept,
     FillMetadataKept, PersistMetadataKept DEF InstallStep
<1>2. ASSUME NEW p \in Processes, RemoveStep(p) PROVE IInv'
  BY <1>2, EnterRemoveKept, DeleteEntryKept, DeletePrefixKept DEF RemoveStep
<1> QED
  BY <1>1, <1>2, InterruptKept, CallKept, UsePrefixKept, OccupyPrefixKept, StutterKept DEF Next

LEMMA Invariance == Spec => []IInv
<1>1. IInv /\ [Next]_vars => IInv'
  BY NextPreserves
<1> QED
  BY InitCorrect, <1>1, PTL DEF Spec

(* Every variable has its type, and whoever is inside a locked section      *)
(* holds the BootstrapLock.                                                 *)
THEOREM TypeCorrect == Spec => []TypeOK
<1>1. IInv => TypeOK
  BY DEF IInv
<1> QED
  BY Invariance, <1>1, PTL

(* Ready metadata is only ever found over exactly the packages of its lock, *)
(* with every link script run, the delegate and the configured output,      *)
(* however often installs were interrupted (bootstrap, Fleet::install).     *)
THEOREM ReadyIsComplete == Spec => []ReadyMeansComplete
<1>1. IInv => ReadyMeansComplete
  BY DEF IInv, MetadataInv, ReadyMeansComplete
<1> QED
  BY Invariance, <1>1, PTL

(* After one interruption the next install never refuses the prefix, unless *)
(* the temporary marker is incomplete (prefix_disposition_for).             *)
THEOREM InterruptionIsRetried == Spec => []OneInterruptionIsRetried
<1>1. ASSUME IInv PROVE OneInterruptionIsRetried
  <2> SUFFICES ASSUME faults <= 1, bootLock = NONE, ~foreign, ~torn, MarkerRead # Partial
               PROVE  Disposition(FALSE) # "refuse"
    BY DEF OneInterruptionIsRetried
  <2>1. Retried
    BY <1>1 DEF IInv, RetryInv
  <2>2. MarkerRead \in {NONE, Installing}
    BY <1>1, MarkerOfOurs
  <2>3. file["metadata"] # Foreign
    BY <1>1, Constants DEF IInv, FilesInv, OurFiles
  <2>4. CASE MarkerRead = Installing
    BY <2>3, <2>4, Constants DEF Disposition
  <2>5. CASE MarkerRead = NONE
    BY <2>1, <2>5, Constants DEF Disposition, Retried, DelegateOK
  <2> QED
    BY <2>2, <2>4, <2>5
<1> QED
  BY Invariance, <1>1, PTL

(* No operation installs into or removes what is somebody else's, whenever  *)
(* it was put there (prefix_disposition_for, Fleet::remove).                *)
THEOREM ForeignIsLeftAlone == Spec => ForeignUntouched
<1>1. ASSUME IInv, [Next]_vars PROVE [foreign => foreign' /\ UNCHANGED disk]_<<disk, foreign>>
  <2> SUFFICES ASSUME foreign PROVE foreign' /\ UNCHANGED disk
    OBVIOUS
  <2>1. exists /\ bootLock = NONE
    BY <1>1 DEF IInv, FilesInv
  <2>2. \A p \in Processes : pc[p] \notin Locked
    BY <1>1, <2>1, NobodyInside DEF Locked
  <2>3. \A force \in BOOLEAN : Disposition(force) = "refuse"
    BY <1>1, ForeignRefused
  <2>4. ~Removable
    BY <1>1, ForeignRefused
  <2>5. ASSUME NEW p \in Processes, EnterInstall(p) PROVE foreign' /\ UNCHANGED disk
    <3>1. UNCHANGED <<exists, linked, ran, ghosts>> /\ RestoreMetadata
      BY <2>5 DEF EnterInstall
    <3>2. file' = file
      BY <1>1, <2>1, <2>5, <3>1, RestoreKeeps DEF EnterInstall, ghosts
    <3> QED
      BY <3>1, <3>2 DEF disk, ghosts
  <2>6. ASSUME NEW p \in Processes, EnterRemove(p) PROVE foreign' /\ UNCHANGED disk
    BY <2>4, <2>6 DEF EnterRemove, disk, ghosts
  <2>7. ASSUME NEW p \in Processes, InstallStep(p) PROVE foreign' /\ UNCHANGED disk
    <3>1. EnterInstall(p)
      BY <2>2, <2>7 DEF InstallStep, Unmark, StartMarker, CreateMarker, FillMarker, PersistMarker,
         Invalidate, ResetOutputs, BeginTransaction, Transact, EndTransaction, Configure,
         ValidateDelegate, CreateMetadata, FillMetadata, PersistMetadata, Proceed, Locked, PCs
    <3> QED
      BY <2>5, <3>1
  <2>8. ASSUME NEW p \in Processes, RemoveStep(p) PROVE foreign' /\ UNCHANGED disk
    <3>1. EnterRemove(p)
      BY <2>2, <2>8 DEF RemoveStep, DeleteEntry, DeletePrefix, Proceed, Locked, PCs
    <3> QED
      BY <2>6, <3>1
  <2>9. ASSUME NEW p \in Processes, Interrupt(p) PROVE FALSE
    BY <2>2, <2>9 DEF Interrupt
  <2>10. ASSUME NEW p \in Processes, NEW function \in Ops, NEW s \in Specs, Call(p, function, s)
         PROVE  foreign' /\ UNCHANGED disk
    BY <2>10 DEF Call, disk, ghosts
  <2>11. ~UsePrefix /\ ~OccupyPrefix
    BY <2>1, <2>3 DEF UsePrefix, OccupyPrefix
  <2>12. CASE UNCHANGED vars
    BY <2>12 DEF vars, disk, ghosts
  <2> QED
    BY <1>1, <2>7, <2>8, <2>9, <2>10, <2>11, <2>12 DEF Next
<1> QED
  BY Invariance, <1>1, PTL DEF Spec, ForeignUntouched
=============================================================================
