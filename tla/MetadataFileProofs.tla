-------------------------- MODULE MetadataFileProofs --------------------------
(***************************************************************************)
(* Proofs about MetadataFile, for any number of writers, readers, writes   *)
(* and faults, and whether or not a rename can fail.                       *)
(***************************************************************************)
EXTENDS MetadataFile, TLAPS

(* A file holds the number of a write, is incomplete, or is not there.      *)
Files == Contents \union {NONE, Partial}

(* What is constant about processes and contents.                           *)
LEMMA Constants ==
  /\ MaxWrites \in Nat /\ MaxFaults \in Nat
  /\ \A p \in Processes : p # NONE /\ (p \in Readers <=> p \notin Writers)
  /\ NONE \notin Contents /\ Partial \notin Contents /\ NONE # Partial
BY MetadataAssumption DEF Contents, Processes

(* The first write is 0 and was reported.                                   *)
LEMMA InitCorrect == Init => IInv
<1> SUFFICES ASSUME Init PROVE IInv
  OBVIOUS
<1> USE DEF Init
<1>1. \A p \in Processes : pc[p] = "rest"
  OBVIOUS
<1>2. TypeOK
  <2>1. 0 \in Contents /\ acked \in 0 .. writes /\ faults \in 0 .. MaxFaults
    BY Constants DEF Contents
  <2>2. /\ pc \in [Processes -> PCs] /\ \A r \in Readers : pc[r] \in ReaderPCs
        /\ \A w \in Writers : pc[w] = "rest" /\ lock # w /\ pc[w] \notin PersistPCs /\ got[w] = NONE
    BY Constants DEF PCs, ReaderPCs, PersistPCs, Processes
  <2>3. /\ got \in [Processes -> Contents \union {NONE}]
        /\ mine \in [Processes -> Contents \union {NONE}]
    OBVIOUS
  <2> QED
    BY <2>1, <2>2, <2>3 DEF TypeOK, PCs, Contents
<1>3. DiskInv
  BY <1>1 DEF DiskInv, Sound, Progress, Current, Processes
<1> QED
  BY <1>2, <1>3 DEF IInv

(* A writer at work is the only one.                                        *)
LEMMA OneWriter ==
  ASSUME TypeOK, NEW w \in Writers, pc[w] # "rest"
  PROVE  lock = w /\ \A v \in Writers \ {w} : pc[v] = "rest"
BY DEF TypeOK

(* A step of a writer that goes on.                                         *)
LEMMA WriterGoes ==
  ASSUME IInv, NEW w \in Writers, pc[w] # "rest",
         NEW l \in PCs \ {"rest"}, Goto(w, l), lock' = lock, meddled' = meddled,
         path' \in Files, tmp' \in Files, bak' \in Files,
         got' \in [Processes -> Contents \union {NONE}],
         mine' \in [Processes -> Contents \union {NONE}],
         \A v \in Writers \ {w} : got'[v] = got[v],
         l \in {"read", "read-tmp"} => got'[w] = NONE,
         l \notin PersistPCs => writes' < MaxWrites,
         l \in PersistPCs => mine'[w] = writes',
         writes' \in Contents, faults' \in 0 .. MaxFaults, acked' \in 0 .. writes',
         ~meddled => Sound' /\ Progress(w)'
  PROVE  IInv'
<1> USE DEF IInv
<1>1. pc' \in [Processes -> PCs] /\ pc'[w] = l
      /\ \A q \in Processes \ {w} : pc'[q] = pc[q]
  BY DEF TypeOK, Goto, Processes
<1>2. \A v \in Writers \ {w} : pc'[v] = "rest"
  BY <1>1, OneWriter DEF Processes
<1>3. TypeOK'
  <2>1. \A r \in Readers : pc'[r] \in ReaderPCs
    BY <1>1, Constants DEF TypeOK, Processes
  <2>2. \A v \in Writers : lock' = v <=> pc'[v] # "rest"
    BY <1>1, <1>2, OneWriter
  <2>3. \A v \in Writers : pc'[v] \in PCs \ (PersistPCs \union {"rest"}) => writes' < MaxWrites
    BY <1>1, <1>2
  <2>4. \A v \in Writers : pc'[v] \in PersistPCs => mine'[v] = writes'
    BY <1>1, <1>2 DEF PersistPCs
  <2>5. \A v \in Writers : pc'[v] \in {"rest", "read", "read-tmp"} => got'[v] = NONE
    BY <1>1, <1>2, OneWriter DEF TypeOK
  <2> QED
    BY <1>1, <2>1, <2>2, <2>3, <2>4, <2>5 DEF TypeOK, Files
<1>4. ASSUME ~meddled' PROVE DiskInv'
  <2>1. \A v \in Writers \ {w} : Progress(v)'
    BY <1>2 DEF Progress
  <2> QED
    BY <1>4, <2>1 DEF DiskInv
<1> QED
  BY <1>3, <1>4

(* A step of a writer that ends, or dies, and leaves the lock.              *)
LEMMA WriterEnds ==
  ASSUME IInv, NEW w \in Writers, pc[w] # "rest", Ends(w), meddled' = meddled,
         path' \in Files, tmp' \in Files, bak' \in Files,
         writes' = writes, faults' \in 0 .. MaxFaults, acked' \in 0 .. writes,
         ~meddled => Sound'
  PROVE  IInv'
<1> USE DEF IInv, Ends
<1>1. pc' \in [Processes -> PCs] /\ pc'[w] = "rest" /\ lock' = NONE
      /\ \A q \in Processes \ {w} : pc'[q] = pc[q]
  BY OneWriter DEF TypeOK, Goto, Processes, PCs, ReaderPCs
<1>2. \A v \in Writers : pc'[v] = "rest"
  BY <1>1, OneWriter DEF Processes
<1>3. TypeOK'
  <2>1. \A r \in Readers : pc'[r] \in ReaderPCs
    BY <1>1, Constants DEF TypeOK, Processes
  <2>2. \A v \in Writers : lock' = v <=> pc'[v] # "rest"
    BY <1>1, <1>2, Constants DEF Processes
  <2>3. got' \in [Processes -> Contents \union {NONE}]
        /\ mine' \in [Processes -> Contents \union {NONE}]
    BY DEF TypeOK
  <2>4. \A v \in Writers : got'[v] = NONE
    BY OneWriter DEF TypeOK, Processes
  <2> QED
    BY <1>1, <1>2, <2>1, <2>2, <2>3, <2>4 DEF TypeOK, Files, PersistPCs
<1>4. ASSUME ~meddled' PROVE DiskInv'
  BY <1>2, <1>4 DEF DiskInv, Progress
<1> QED
  BY <1>3, <1>4

(* A step of a reader.  What it moves on the disk makes it meddle.          *)
LEMMA ReaderMoves ==
  ASSUME IInv, NEW r \in Readers, NEW l \in ReaderPCs, Goto(r, l), lock' = lock,
         path' \in Files, tmp' \in Files, bak' \in Files,
         got' \in [Processes -> Contents \union {NONE}],
         mine' \in [Processes -> Contents \union {NONE}],
         \A w \in Writers : got'[w] = got[w] /\ mine'[w] = mine[w],
         writes' = writes, faults' \in 0 .. MaxFaults, acked' = acked,
         meddled' \in BOOLEAN, ~meddled' => ~meddled /\ UNCHANGED diskVars
  PROVE  IInv'
<1> USE DEF IInv
<1>1. pc' \in [Processes -> PCs] /\ pc'[r] = l
      /\ \A q \in Processes \ {r} : pc'[q] = pc[q]
  BY DEF TypeOK, Goto, Processes, PCs
<1>2. \A w \in Writers : pc'[w] = pc[w]
  BY <1>1, Constants DEF Processes
<1>3. TypeOK'
  <2>1. \A q \in Readers : pc'[q] \in ReaderPCs
    BY <1>1 DEF TypeOK, Processes
  <2> QED
    BY <1>1, <1>2, <2>1 DEF TypeOK, Files
<1>4. ASSUME ~meddled' PROVE DiskInv'
  <2>1. DiskInv /\ UNCHANGED diskVars
    BY <1>4
  <2>2. Sound' /\ \A w \in Writers : Progress(w)'
    BY <1>2, <2>1 DEF DiskInv, Sound, Progress, Current, diskVars
  <2> QED
    BY <2>2 DEF DiskInv
<1> QED
  BY <1>3, <1>4

(* What the types say of the files and the faults.                          *)
LEMMA FilesAre ==
  ASSUME IInv
  PROVE  /\ path \in Files /\ tmp \in Files /\ bak \in Files
         /\ got \in [Processes -> Contents \union {NONE}]
         /\ mine \in [Processes -> Contents \union {NONE}]
         /\ writes \in Contents /\ faults \in 0 .. MaxFaults /\ acked \in 0 .. writes
         /\ meddled \in BOOLEAN
BY DEF IInv, TypeOK, Files

(* A rename that fails is a fault, or none.                                 *)
LEMMA FaultsBounded ==
  ASSUME IInv, NEW source, RenameFails(source)
  PROVE  faults' \in 0 .. MaxFaults
BY Constants DEF IInv, TypeOK, RenameFails

(* A step with which the operation of any process ends.                     *)
LEMMA EndsPreserves ==
  ASSUME IInv, NEW p \in Processes, pc[p] # "rest", Ends(p),
         path' \in Files, tmp' \in Files, bak' \in Files,
         UNCHANGED <<writes, acked>>, faults' \in 0 .. MaxFaults,
         p \in Writers => meddled' = meddled /\ (~meddled => Sound'),
         p \in Readers => /\ meddled' \in BOOLEAN
                          /\ ~meddled' => ~meddled /\ UNCHANGED diskVars
  PROVE  IInv'
<1> USE FilesAre
<1>1. CASE p \in Writers
  BY <1>1, WriterEnds
<1>2. CASE p \in Readers
  <2>1. lock' = lock /\ Goto(p, "rest") /\ "rest" \in ReaderPCs
    BY <1>2, Constants DEF Ends, IInv, TypeOK, ReaderPCs
  <2>2. /\ got' \in [Processes -> Contents \union {NONE}]
        /\ mine' \in [Processes -> Contents \union {NONE}]
        /\ \A w \in Writers : got'[w] = got[w] /\ mine'[w] = mine[w]
    BY <1>2, Constants DEF Ends, Processes
  <2> QED
    BY <1>2, <2>1, <2>2, ReaderMoves
<1> QED
  BY <1>1, <1>2 DEF Processes

(* The operation ends, and no file was touched.                             *)
LEMMA QuietEndPreserves ==
  ASSUME IInv, NEW p \in Processes, pc[p] # "rest", Ends(p),
         UNCHANGED <<diskVars, writes, acked, meddled>>, faults' \in 0 .. MaxFaults
  PROVE  IInv'
<1>1. ~meddled => Sound'
  BY DEF IInv, DiskInv, Sound, Current, diskVars
<1> QED
  BY <1>1, FilesAre, EndsPreserves DEF diskVars

(* A read that goes on to another of its steps.                             *)
LEMMA ReadGoesOn ==
  ASSUME IInv, NEW p \in Processes, NEW l \in ReaderPCs \ {"rest"}, pc[p] \in ReaderPCs \ {"rest"},
         Goto(p, l), UNCHANGED <<lock, mine, writes, acked>>,
         \/ got' = got /\ pc[p] \in {"read", "read-tmp"}
         \/ /\ l \notin {"read", "read-tmp"}
            /\ \E value \in Contents \union {NONE} : got' = [got EXCEPT ![p] = value],
         path' \in Files, tmp' \in Files, bak' \in Files, faults' \in 0 .. MaxFaults,
         p \in Writers => meddled' = meddled /\ (~meddled => Sound' /\ Progress(p)'),
         p \in Readers => /\ meddled' \in BOOLEAN
                          /\ ~meddled' => ~meddled /\ UNCHANGED diskVars
  PROVE  IInv'
<1> USE FilesAre
<1>1. /\ got' \in [Processes -> Contents \union {NONE}]
      /\ \A q \in Processes \ {p} : got'[q] = got[q]
  OBVIOUS
<1>2. CASE p \in Writers
  <2>1. writes < MaxWrites /\ l \in PCs \ {"rest"} /\ l \notin PersistPCs
    BY <1>2 DEF IInv, TypeOK, PCs, ReaderPCs, PersistPCs
  <2>2. l \in {"read", "read-tmp"} => got'[p] = NONE
    BY <1>2 DEF IInv, TypeOK
  <2>3. \A v \in Writers \ {p} : got'[v] = got[v]
    BY <1>1 DEF Processes
  <2> QED
    BY <1>1, <1>2, <2>1, <2>2, <2>3, WriterGoes, Zenon DEF ReaderPCs
<1>3. CASE p \in Readers
  <2>1. \A w \in Writers : got'[w] = got[w] /\ mine'[w] = mine[w]
    BY <1>1, <1>3, Constants DEF Processes
  <2> QED
    BY <1>1, <1>3, <2>1, ReaderMoves
<1> QED
  BY <1>2, <1>3 DEF Processes

(* A read that returns what it found.                                       *)
LEMMA ReadReturnsPreserves ==
  ASSUME IInv, NEW p \in Processes, pc[p] \in ReaderPCs \ {"rest"},
         NEW value \in Contents \union {NONE}, ReadReturns(p, value),
         path' \in Files, tmp' \in Files, bak' \in Files,
         UNCHANGED <<writes, acked>>, faults' \in 0 .. MaxFaults,
         p \in Writers => meddled' = meddled /\ (~meddled => path' \in Current /\ path' = value),
         p \in Readers => /\ meddled' \in BOOLEAN
                          /\ ~meddled' => ~meddled /\ UNCHANGED diskVars
  PROVE  IInv'
<1> USE FilesAre
<1>1. CASE p \in Readers
  BY <1>1, Constants, EndsPreserves DEF ReadReturns
<1>2. CASE p \in Writers
  <2>1. /\ Goto(p, "clean") /\ got' = [got EXCEPT ![p] = value]
        /\ UNCHANGED <<lock, mine>>
    BY <1>2, Constants DEF ReadReturns
  <2>2. writes < MaxWrites /\ "clean" \in PCs \ {"rest"} /\ "clean" \notin PersistPCs
    BY <1>2 DEF IInv, TypeOK, PCs, ReaderPCs, PersistPCs
  <2>3. ASSUME ~meddled PROVE Sound' /\ Progress(p)'
    <3>1. pc'[p] = "clean" /\ got'[p] = value /\ path' \in Current' /\ path' = value
      BY <1>2, <2>1, <2>3 DEF Goto, IInv, TypeOK, Current
    <3> QED
      BY <3>1 DEF Sound, Progress
  <2>4. got' \in [Processes -> Contents \union {NONE}]
    BY <2>1
  <2> QED
    BY <1>2, <2>1, <2>2, <2>3, <2>4, WriterGoes
<1> QED
  BY <1>1, <1>2 DEF Processes

-----------------------------------------------------------------------------
(* The read *)

(* A read starts.                                                           *)
LEMMA StartPreserves ==
  ASSUME IInv, NEW p \in Processes, Start(p)
  PROVE  IInv'
<1> USE FilesAre DEF Start, diskVars
<1>1. CASE p \in Readers
  <2>1. Goto(p, "read") /\ UNCHANGED lock /\ "read" \in ReaderPCs
    BY <1>1, Constants DEF ReaderPCs
  <2> QED
    BY <1>1, <2>1, ReaderMoves
<1>2. CASE p \in Writers
  <2> USE <1>2 DEF IInv
  <2>1. lock = NONE /\ lock' = p /\ writes < MaxWrites /\ Goto(p, "read")
    OBVIOUS
  <2>2. pc' \in [Processes -> PCs] /\ pc'[p] = "read"
        /\ \A q \in Processes \ {p} : pc'[q] = pc[q]
    BY <2>1 DEF TypeOK, Goto, PCs, ReaderPCs
  <2>3. \A v \in Writers \ {p} : pc'[v] = "rest"
    BY <2>1, <2>2, Constants DEF TypeOK, Processes
  <2>4. TypeOK'
    <3>1. \A r \in Readers : pc'[r] \in ReaderPCs
      BY <2>2, Constants DEF TypeOK, Processes
    <3>2. \A v \in Writers : lock' = v <=> pc'[v] # "rest"
      BY <2>1, <2>2, <2>3
    <3>3. \A v \in Writers : got'[v] = NONE
      BY <2>1, Constants DEF TypeOK, Processes
    <3> QED
      BY <2>1, <2>2, <2>3, <3>1, <3>2, <3>3 DEF TypeOK, PersistPCs
  <2>5. ASSUME ~meddled' PROVE DiskInv'
    <3>1. \A v \in Writers : Progress(v)'
      BY <2>2, <2>3 DEF Progress
    <3> QED
      BY <2>5, <3>1 DEF DiskInv, Sound, Current
  <2> QED
    BY <2>4, <2>5
<1> QED
  BY <1>1, <1>2 DEF Processes

(* The metadata is there, cannot be parsed, or is looked for elsewhere.     *)
LEMMA ReadPathPreserves ==
  ASSUME IInv, NEW p \in Processes, ReadPath(p)
  PROVE  IInv'
<1> USE FilesAre DEF ReadPath, diskVars
<1>1. pc[p] = "read" /\ pc[p] \in ReaderPCs \ {"rest"}
  BY DEF ReaderPCs
<1>2. CASE path = NONE
  <2>1. Goto(p, "read-tmp") /\ UNCHANGED <<got, mine, lock>> /\ "read-tmp" \in ReaderPCs \ {"rest"}
    BY <1>2, Constants DEF ReaderPCs
  <2>2. pc'[p] = "read-tmp"
    BY <2>1 DEF Goto, IInv, TypeOK
  <2>3. ~meddled => Sound' /\ Progress(p)'
    BY <1>2, <2>2 DEF IInv, DiskInv, Sound, Current, Progress
  <2> QED
    BY <1>1, <2>1, <2>3, ReadGoesOn
<1>3. CASE path = Partial
  <2>1. Ends(p)
    BY <1>3, Constants
  <2> QED
    BY <1>1, <2>1, QuietEndPreserves
<1>4. CASE path # NONE /\ path # Partial
  <2>1. ReadReturns(p, path) /\ path \in Contents
    BY <1>4 DEF Files
  <2>2. ~meddled => path \in Current
    BY <1>4 DEF IInv, DiskInv, Sound
  <2> QED
    BY <1>1, <2>1, <2>2, ReadReturnsPreserves
<1> QED
  BY <1>2, <1>3, <1>4

(* The same for the temporary file.  A writer finds it when the metadata is *)
(* not there.                                                               *)
LEMMA ReadTmpPreserves ==
  ASSUME IInv, NEW p \in Processes, ReadTmp(p)
  PROVE  IInv'
<1> USE FilesAre DEF ReadTmp, diskVars
<1>1. pc[p] = "read-tmp" /\ pc[p] \in ReaderPCs \ {"rest"}
  BY DEF ReaderPCs
<1>2. p \in Writers /\ ~meddled => path = NONE /\ tmp \in Contents
  BY Constants DEF ReadTmp, IInv, TypeOK, DiskInv, Sound, Progress, Current, Contents
<1>3. CASE tmp = NONE
  <2>1. Goto(p, "read-bak") /\ UNCHANGED <<got, mine, lock>> /\ "read-bak" \in ReaderPCs \ {"rest"}
    BY <1>3, Constants DEF ReaderPCs
  <2>2. p \in Writers => meddled
    BY <1>2, <1>3, Constants
  <2> QED
    BY <1>1, <2>1, <2>2, ReadGoesOn
<1>4. CASE tmp = Partial
  <2>1. Ends(p)
    BY <1>4, Constants
  <2> QED
    BY <1>1, <2>1, QuietEndPreserves
<1>5. CASE tmp # NONE /\ tmp # Partial
  <2>1. /\ got' = [got EXCEPT ![p] = tmp] /\ tmp \in Contents
        /\ Goto(p, "restore-tmp") /\ UNCHANGED <<mine, lock>>
        /\ "restore-tmp" \in ReaderPCs \ {"rest"}
    BY <1>5 DEF Files, ReaderPCs
  <2>2. pc'[p] = "restore-tmp" /\ got'[p] = tmp
    BY <2>1 DEF Goto, IInv, TypeOK
  <2>3. p \in Writers /\ ~meddled => Sound' /\ Progress(p)'
    BY <1>2, <2>2 DEF IInv, DiskInv, Sound, Current, Progress
  <2> QED
    BY <1>1, <2>1, <2>3, ReadGoesOn
<1> QED
  BY <1>3, <1>4, <1>5

(* A writer never gets as far as the backup, unless a reader meddled.       *)
LEMMA ReadBakPreserves ==
  ASSUME IInv, NEW p \in Processes, ReadBak(p)
  PROVE  IInv'
<1> USE FilesAre DEF ReadBak, diskVars
<1>1. pc[p] = "read-bak" /\ pc[p] \in ReaderPCs \ {"rest"}
  BY DEF ReaderPCs
<1>2. p \in Writers => meddled
  BY <1>1 DEF IInv, DiskInv, Progress
<1>3. CASE ReadReturnsPath(p)
  <2>1. CASE path \in Contents
    BY <1>1, <1>2, <1>3, <2>1, ReadReturnsPreserves DEF ReadReturnsPath
  <2>2. CASE path \notin Contents
    BY <1>1, <1>3, <2>2, QuietEndPreserves DEF ReadReturnsPath
  <2> QED
    BY <2>1, <2>2
<1>4. CASE Ends(p)
  BY <1>1, <1>4, QuietEndPreserves
<1>5. CASE bak # NONE /\ bak # Partial
  <2>1. /\ got' = [got EXCEPT ![p] = bak] /\ bak \in Contents
        /\ Goto(p, "restore-bak") /\ UNCHANGED <<mine, lock>>
        /\ "restore-bak" \in ReaderPCs \ {"rest"}
    BY <1>5 DEF Files, ReaderPCs
  <2> QED
    BY <1>1, <1>2, <2>1, ReadGoesOn
<1> QED
  BY <1>3, <1>4, <1>5, Constants

(* What a process that moves a file does to the history.                    *)
LEMMA MeddlesIs ==
  ASSUME IInv, NEW p \in Processes, NEW moved \in BOOLEAN, Meddles(p, moved)
  PROVE  /\ p \in Writers => meddled' = meddled
         /\ meddled' \in BOOLEAN
         /\ p \in Readers /\ ~meddled' => ~meddled /\ ~moved
BY Constants DEF Meddles, IInv, TypeOK

(* The temporary file becomes the metadata, or stays.                       *)
LEMMA RestoreTmpPreserves ==
  ASSUME IInv, NEW p \in Processes, RestoreTmp(p)
  PROVE  IInv'
<1> USE FilesAre DEF RestoreTmp, diskVars
<1>1. pc[p] = "restore-tmp" /\ pc[p] \in ReaderPCs \ {"rest"} /\ "remove-bak" \in ReaderPCs \ {"rest"}
  BY DEF ReaderPCs
<1>2. /\ p \in Writers => meddled' = meddled
      /\ meddled' \in BOOLEAN
      /\ p \in Readers /\ ~meddled' => ~meddled /\ tmp' = tmp
  BY MeddlesIs
<1>3. p \in Writers /\ ~meddled => path = NONE /\ tmp \in Current /\ got[p] = tmp
  BY <1>1, Constants DEF IInv, TypeOK, DiskInv, Sound, Progress, Current, Contents
<1>4. CASE /\ tmp # NONE
           /\ path' = tmp /\ tmp' = NONE /\ UNCHANGED <<bak, faults>>
           /\ Goto(p, "remove-bak")
           /\ UNCHANGED <<got, mine, lock>>
  <2>1. path' \in Files /\ tmp' \in Files
    BY <1>4 DEF Files
  <2>2. p \in Writers /\ ~meddled => Sound' /\ Progress(p)'
    <3>1. pc'[p] = "remove-bak"
      BY <1>4 DEF Goto, IInv, TypeOK
    <3> QED
      BY <1>3, <1>4, <3>1 DEF Sound, Progress, Current
  <2> QED
    BY <1>1, <1>2, <1>4, <2>1, <2>2, ReadGoesOn
<1>5. CASE RenameFails(tmp) /\ UNCHANGED diskVars
  <2>1. faults' \in 0 .. MaxFaults /\ UNCHANGED <<path, tmp, bak>>
    BY <1>5, FaultsBounded
  <2>2. CASE path \in Contents
    <3>1. /\ got' = [got EXCEPT ![p] = path] /\ Goto(p, "remove-bak")
          /\ UNCHANGED <<mine, lock>>
      BY <1>2, <1>5, <2>2, <2>1, Constants DEF RenameFails
    <3>2. p \in Writers => meddled
      BY <1>3, <2>2, Constants
    <3> QED
      BY <1>1, <1>2, <2>1, <2>2, <3>1, <3>2, ReadGoesOn
  <2>3. CASE path \notin Contents
    <3>1. Ends(p)
      BY <1>5, <2>3, <2>1, Constants
    <3>2. ~meddled => Sound'
      BY <2>1 DEF IInv, DiskInv, Sound, Current
    <3> QED
      BY <1>1, <1>2, <2>1, <3>1, <3>2, EndsPreserves
  <2> QED
    BY <2>2, <2>3
<1> QED
  BY <1>4, <1>5

(* A backup beside the metadata is not needed.                              *)
LEMMA RemoveBakPreserves ==
  ASSUME IInv, NEW p \in Processes, RemoveBak(p)
  PROVE  IInv'
<1> USE FilesAre DEF RemoveBak, diskVars
<1>1. pc[p] = "remove-bak" /\ pc[p] \in ReaderPCs \ {"rest"} /\ NONE \in Files
  BY DEF ReaderPCs, Files
<1>2. /\ p \in Writers => meddled' = meddled
      /\ meddled' \in BOOLEAN
      /\ p \in Readers /\ ~meddled' => ~meddled /\ bak = NONE
  BY MeddlesIs
<1>3. p \in Writers /\ ~meddled => path \in Current /\ got[p] = path
  BY <1>1 DEF IInv, DiskInv, Progress
<1> QED
  BY <1>1, <1>2, <1>3, ReadReturnsPreserves

(* The backup becomes the metadata again, or stays.                         *)
LEMMA RestoreBakPreserves ==
  ASSUME IInv, NEW p \in Processes, RestoreBak(p)
  PROVE  IInv'
<1> USE FilesAre DEF RestoreBak, diskVars
<1>1. pc[p] = "restore-bak" /\ pc[p] \in ReaderPCs \ {"rest"} /\ NONE \in Files
  BY DEF ReaderPCs, Files
<1>2. /\ p \in Writers => meddled' = meddled
      /\ meddled' \in BOOLEAN
      /\ p \in Readers /\ ~meddled' => ~meddled /\ bak' = bak
  BY MeddlesIs
<1>3. p \in Writers => meddled
  BY <1>1 DEF IInv, DiskInv, Progress
<1>4. CASE /\ bak # NONE
           /\ path' = bak /\ bak' = NONE /\ UNCHANGED <<tmp, faults>>
           /\ ReadReturns(p, got[p])
  BY <1>1, <1>2, <1>3, <1>4, ReadReturnsPreserves
<1>5. CASE RenameFails(bak) /\ ReadReturnsPath(p) /\ UNCHANGED diskVars
  <2>1. faults' \in 0 .. MaxFaults
    BY <1>5, FaultsBounded
  <2>2. CASE path \in Contents
    BY <1>1, <1>2, <1>3, <1>5, <2>1, <2>2, ReadReturnsPreserves DEF ReadReturnsPath
  <2>3. CASE path \notin Contents
    BY <1>1, <1>2, <1>3, <1>5, <2>1, <2>3, EndsPreserves DEF ReadReturnsPath
  <2> QED
    BY <2>2, <2>3
<1> QED
  BY <1>4, <1>5

-----------------------------------------------------------------------------
(* The write *)

(* Only writers get as far as this, and they are not resting.               *)
LEMMA PersistsIsWriter ==
  ASSUME IInv, NEW p \in Processes, pc[p] \in {"clean", "create"} \union PersistPCs
  PROVE  /\ p \in Writers /\ pc[p] # "rest"
         /\ pc[p] \in {"clean", "create"} => writes < MaxWrites
         /\ pc[p] \in PersistPCs => mine[p] = writes
         /\ ~meddled => Sound /\ Progress(p)
<1>1. pc[p] \notin ReaderPCs /\ pc[p] # "rest" /\ "clean" \notin PersistPCs /\ "create" \notin PersistPCs
  BY DEF ReaderPCs, PersistPCs
<1>2. p \in Writers
  BY <1>1 DEF IInv, TypeOK, Processes
<1> QED
  BY <1>1, <1>2 DEF IInv, TypeOK, DiskInv, PCs

(* What the labels of the write are.                                        *)
LEMMA PersistLabels ==
  /\ PersistPCs \subseteq PCs \ {"rest"} /\ "create" \in PCs \ {"rest"} /\ "create" \notin PersistPCs
  /\ {"fill", "replace", "clear-bak", "preserve", "retry", "rollback", "finish"} \subseteq PersistPCs
BY DEF PCs, PersistPCs, ReaderPCs

(* An old temporary file is not needed beside the metadata.                 *)
LEMMA CleanPreserves ==
  ASSUME IInv, NEW p \in Processes, Clean(p)
  PROVE  IInv'
<1> USE FilesAre, PersistLabels DEF Clean
<1>1. p \in Writers /\ pc[p] # "rest" /\ writes < MaxWrites /\ (~meddled => Sound /\ Progress(p))
  BY PersistsIsWriter
<1>2. pc'[p] = "create"
  BY DEF Goto, IInv, TypeOK
<1>3. ~meddled => Sound' /\ Progress(p)'
  BY <1>1, <1>2 DEF Sound, Progress, Current
<1> QED
  BY <1>1, <1>3, WriterGoes DEF Files

(* A new write begins.                                                      *)
LEMMA CreatePreserves ==
  ASSUME IInv, NEW p \in Processes, Create(p)
  PROVE  IInv'
<1> USE FilesAre, PersistLabels DEF Create
<1>1. p \in Writers /\ pc[p] # "rest" /\ writes < MaxWrites /\ (~meddled => Sound /\ Progress(p))
  BY PersistsIsWriter
<1>2. pc'[p] = "fill"
  BY DEF Goto, IInv, TypeOK
<1>3. /\ writes' \in Contents /\ acked' \in 0 .. writes' /\ \A n \in Current : n \in Current'
      /\ mine' \in [Processes -> Contents \union {NONE}] /\ mine'[p] = writes'
  BY <1>1, Constants DEF Contents, Current
<1>4. ~meddled => Sound' /\ Progress(p)'
  BY <1>1, <1>2, <1>3 DEF Sound, Progress
<1> QED
  BY <1>1, <1>3, <1>4, WriterGoes DEF Files

(* The temporary file is complete.                                          *)
LEMMA FillPreserves ==
  ASSUME IInv, NEW p \in Processes, Fill(p)
  PROVE  IInv'
<1> USE FilesAre, PersistLabels DEF Fill
<1>1. p \in Writers /\ pc[p] # "rest" /\ mine[p] = writes /\ (~meddled => Sound /\ Progress(p))
  BY PersistsIsWriter
<1>2. pc'[p] = "replace"
  BY DEF Goto, IInv, TypeOK
<1>3. path' \in Files /\ tmp' \in Files
  BY <1>1 DEF Files
<1>4. ~meddled => Sound' /\ Progress(p)'
  <2>1. ~meddled => path' = path /\ tmp' = writes
    BY <1>1 DEF Progress
  <2> QED
    BY <1>1, <1>2, <2>1 DEF Sound, Progress, Current
<1> QED
  BY <1>1, <1>3, <1>4, WriterGoes

(* The metadata is replaced at once, or is still there.                     *)
LEMMA ReplacePreserves ==
  ASSUME IInv, NEW p \in Processes, Replace(p)
  PROVE  IInv'
<1> USE FilesAre, PersistLabels DEF Replace
<1>1. p \in Writers /\ pc[p] # "rest" /\ mine[p] = writes /\ (~meddled => Sound /\ Progress(p))
  BY PersistsIsWriter
<1>2. CASE /\ tmp # NONE
           /\ path' = tmp /\ tmp' = NONE
           /\ Goto(p, "finish")
           /\ UNCHANGED <<bak, got, mine, lock, faults>>
  <2>1. pc'[p] = "finish"
    BY <1>2 DEF Goto, IInv, TypeOK
  <2>2. ~meddled => Sound' /\ Progress(p)'
    <3>1. ~meddled => tmp = writes /\ got[p] \in Current
      BY <1>1 DEF Progress
    <3>2. writes \in Current
      BY DEF Current, Contents
    <3> QED
      BY <1>2, <2>1, <3>1, <3>2 DEF Sound, Progress, Current
  <2> QED
    BY <1>1, <1>2, <2>2, WriterGoes DEF Files
<1>3. CASE RenameFails(tmp) /\ UNCHANGED diskVars
  <2>1. faults' \in 0 .. MaxFaults /\ UNCHANGED <<path, tmp, bak>>
    BY <1>3, FaultsBounded DEF diskVars
  <2>2. CASE Ends(p)
    BY <1>1, <1>3, <2>1, <2>2, QuietEndPreserves
  <2>3. CASE Goto(p, "clear-bak") /\ UNCHANGED <<got, mine, lock>>
    <3>1. pc'[p] = "clear-bak"
      BY <2>3 DEF Goto, IInv, TypeOK
    <3>2. ~meddled => Sound' /\ Progress(p)'
      BY <1>1, <2>1, <2>3, <3>1 DEF Sound, Progress, Current
    <3> QED
      BY <1>1, <2>1, <2>3, <3>2, WriterGoes
  <2>4. Ends(p) \/ (Goto(p, "clear-bak") /\ UNCHANGED <<got, mine, lock>>)
    BY <1>3, <2>1 DEF Ends, Goto, IInv, TypeOK
  <2> QED
    BY <2>2, <2>3, <2>4
<1> QED
  BY <1>2, <1>3

(* There is room for a backup.                                              *)
LEMMA ClearBakPreserves ==
  ASSUME IInv, NEW p \in Processes, ClearBak(p)
  PROVE  IInv'
<1> USE FilesAre, PersistLabels DEF ClearBak
<1>1. p \in Writers /\ pc[p] # "rest" /\ mine[p] = writes /\ (~meddled => Sound /\ Progress(p))
  BY PersistsIsWriter
<1>2. pc'[p] = "preserve"
  BY DEF Goto, IInv, TypeOK
<1>3. ~meddled => Sound' /\ Progress(p)'
  BY <1>1, <1>2 DEF Sound, Progress, Current
<1> QED
  BY <1>1, <1>3, WriterGoes DEF Files

(* The old metadata goes to the backup; the new one is complete by now.     *)
LEMMA PreservePreserves ==
  ASSUME IInv, NEW p \in Processes, Preserve(p)
  PROVE  IInv'
<1> USE FilesAre, PersistLabels DEF Preserve
<1>1. p \in Writers /\ pc[p] # "rest" /\ mine[p] = writes /\ (~meddled => Sound /\ Progress(p))
  BY PersistsIsWriter
<1>2. CASE /\ path # NONE
           /\ bak' = path /\ path' = NONE
           /\ Goto(p, "retry")
           /\ UNCHANGED <<tmp, got, mine, lock, faults>>
  <2>1. pc'[p] = "retry"
    BY <1>2 DEF Goto, IInv, TypeOK
  <2>2. writes \in Current
    BY DEF Current, Contents
  <2>3. ~meddled => Sound' /\ Progress(p)'
    BY <1>1, <1>2, <2>1, <2>2 DEF Sound, Progress, Current
  <2> QED
    BY <1>1, <1>2, <2>3, WriterGoes DEF Files
<1>3. CASE RenameFails(path) /\ Ends(p) /\ UNCHANGED diskVars
  BY <1>1, <1>3, FaultsBounded, QuietEndPreserves
<1> QED
  BY <1>2, <1>3

(* The new metadata is in place, or still in the temporary file.            *)
LEMMA RetryPreserves ==
  ASSUME IInv, NEW p \in Processes, Retry(p)
  PROVE  IInv'
<1> USE FilesAre, PersistLabels DEF Retry
<1>1. p \in Writers /\ pc[p] # "rest" /\ mine[p] = writes /\ (~meddled => Sound /\ Progress(p))
  BY PersistsIsWriter
<1>2. writes \in Current
  BY DEF Current, Contents
<1>3. CASE /\ tmp # NONE
           /\ path' = tmp /\ tmp' = NONE
           /\ Goto(p, "finish")
           /\ UNCHANGED <<bak, faults>>
  <2>1. pc'[p] = "finish"
    BY <1>3 DEF Goto, IInv, TypeOK
  <2>2. ~meddled => Sound' /\ Progress(p)'
    BY <1>1, <1>2, <1>3, <2>1 DEF Sound, Progress, Current
  <2> QED
    BY <1>1, <1>3, <2>2, WriterGoes DEF Files
<1>4. CASE RenameFails(tmp) /\ Goto(p, "rollback") /\ UNCHANGED diskVars
  <2>1. faults' \in 0 .. MaxFaults /\ UNCHANGED <<path, tmp, bak>>
    BY <1>4, FaultsBounded DEF diskVars
  <2>2. pc'[p] = "rollback"
    BY <1>4 DEF Goto, IInv, TypeOK
  <2>3. ~meddled => Sound' /\ Progress(p)'
    BY <1>1, <2>1, <2>2 DEF Sound, Progress, Current
  <2> QED
    BY <1>1, <1>4, <2>1, <2>3, WriterGoes
<1> QED
  BY <1>3, <1>4

(* The old metadata is back, or the temporary file is what is left.         *)
LEMMA RollbackPreserves ==
  ASSUME IInv, NEW p \in Processes, Rollback(p)
  PROVE  IInv'
<1> USE FilesAre, PersistLabels DEF Rollback
<1>1. p \in Writers /\ pc[p] # "rest" /\ (~meddled => Sound /\ Progress(p))
  BY PersistsIsWriter
<1>2. CASE bak # NONE /\ path' = bak /\ bak' = NONE /\ UNCHANGED <<tmp, faults>>
  <2>1. ~meddled => Sound'
    BY <1>1, <1>2 DEF Sound, Progress, Current
  <2> QED
    BY <1>1, <1>2, <2>1, WriterEnds DEF Files
<1>3. CASE RenameFails(bak) /\ UNCHANGED diskVars
  BY <1>1, <1>3, FaultsBounded, QuietEndPreserves
<1> QED
  BY <1>2, <1>3

(* What is reported is the metadata.                                        *)
LEMMA FinishPersistPreserves ==
  ASSUME IInv, NEW p \in Processes, FinishPersist(p)
  PROVE  IInv'
<1> USE FilesAre, PersistLabels DEF FinishPersist
<1>1. p \in Writers /\ pc[p] # "rest" /\ mine[p] = writes /\ (~meddled => Sound /\ Progress(p))
  BY PersistsIsWriter
<1>2. acked' \in 0 .. writes /\ writes \in Current'
  BY <1>1 DEF Contents, Current
<1>3. ~meddled => Sound'
  BY <1>1, <1>2 DEF Sound, Progress
<1> QED
  BY <1>1, <1>2, <1>3, WriterEnds DEF Files

(* A killed process leaves the files as they are.                           *)
LEMMA CrashPreserves ==
  ASSUME IInv, NEW p \in Processes, Crash(p)
  PROVE  IInv'
<1>1. faults' \in 0 .. MaxFaults
  BY FilesAre, Constants DEF Crash
<1> QED
  BY <1>1, QuietEndPreserves DEF Crash

-----------------------------------------------------------------------------
(* All steps *)

(* Every step preserves the invariant.                                      *)
LEMMA NextPreserves == IInv /\ [Next]_vars => IInv'
<1> SUFFICES ASSUME IInv, [Next]_vars PROVE IInv'
  OBVIOUS
<1>1. CASE UNCHANGED vars
  BY <1>1 DEF vars, diskVars, IInv, TypeOK, DiskInv, Sound, Progress, Current
<1>2. ASSUME NEW p \in Processes, Step(p) PROVE IInv'
  BY <1>2, StartPreserves, ReadPathPreserves, ReadTmpPreserves, ReadBakPreserves,
     RestoreTmpPreserves, RemoveBakPreserves, RestoreBakPreserves, CleanPreserves,
     CreatePreserves, FillPreserves, ReplacePreserves, ClearBakPreserves, PreservePreserves,
     RetryPreserves, RollbackPreserves, FinishPersistPreserves DEF Step
<1> QED
  BY <1>1, <1>2, CrashPreserves DEF Next

(* The invariant holds in every state.                                      *)
LEMMA Invariance == Spec => []IInv
BY InitCorrect, NextPreserves, PTL DEF Spec

-----------------------------------------------------------------------------

(* The variables have their types, and a writer at work holds the lock.     *)
THEOREM TypeCorrect == Spec => []TypeOK
<1>1. IInv => TypeOK
  BY DEF IInv
<1> QED
  BY <1>1, Invariance, PTL

(* A sound disk has a write of at least any number below the current ones.  *)
LEMMA SoundIsEffective ==
  ASSUME IInv, Sound
  PROVE  Effective \in Current
BY Constants DEF IInv, TypeOK, Sound, Effective, Current, Contents

(* Whatever number of writers there is, and whichever renames fail or       *)
(* processes die, a reported write is there for whoever takes the lock      *)
(* next, as long as no reader without the lock has moved a file.            *)
THEOREM ReportedWritesAreDurable == Spec => []DurableUnlessMeddled
<1>1. IInv => DurableUnlessMeddled
  <2> SUFFICES ASSUME IInv, ~meddled PROVE Effective \in acked .. MaxWrites
    BY DEF DurableUnlessMeddled
  <2>1. Effective \in Current
    BY SoundIsEffective DEF IInv, DiskInv
  <2> QED
    BY <2>1, Constants DEF IInv, TypeOK, Current, Contents
<1> QED
  BY <1>1, Invariance, PTL

(* What the next reader gets while a writer that has read is at work.       *)
LEMMA ReadOrWritten ==
  ASSUME IInv, ~meddled, NEW w \in Writers, pc[w] # "rest", got[w] # NONE
  PROVE  /\ Effective \in {got[w], mine[w]} /\ got[w] \in Contents
         /\ \/ path \in Contents
            \/ path = NONE /\ tmp \in Contents
<1>1. /\ Sound /\ Progress(w) /\ w \in Processes /\ pc[w] \in PCs
      /\ pc[w] \notin {"rest", "read", "read-tmp", "read-bak", "restore-bak"}
      /\ pc[w] \in PersistPCs => mine[w] = writes
      /\ acked \in Nat /\ writes \in Nat /\ writes <= MaxWrites /\ got[w] \in Contents
  BY Constants DEF IInv, TypeOK, DiskInv, Progress, Processes, Contents
<1>2. CASE pc[w] \in {"remove-bak", "clean", "create", "fill", "replace", "clear-bak", "preserve"}
  BY <1>1, <1>2, Constants DEF Progress, Current, Effective, Contents
<1>3. CASE pc[w] = "restore-tmp"
  BY <1>1, <1>3, Constants DEF Progress, Sound, Current, Effective, Contents
<1>4. CASE pc[w] \in {"retry", "rollback"}
  BY <1>1, <1>4, Constants DEF Progress, Current, Effective, Contents, PersistPCs
<1>5. CASE pc[w] = "finish"
  BY <1>1, <1>5, Constants DEF Progress, Current, Effective, Contents, PersistPCs
<1> QED
  BY <1>1, <1>2, <1>3, <1>4, <1>5 DEF PCs, ReaderPCs, PersistPCs

(* The holder drops the lock itself.                                        *)
LEMMA HolderReleases ==
  ASSUME IInv, NEW w \in Writers, lock = w, lock' = NONE,
         NEW p \in Processes, Step(p) \/ Crash(p)
  PROVE  p = w
<1> SUFFICES ASSUME p # w PROVE FALSE
  OBVIOUS
<1>1. w # NONE /\ lock # p /\ (p \in Writers => pc[p] = "rest")
  BY Constants DEF IInv, TypeOK, Processes
<1>2. CASE Start(p)
  BY <1>1, <1>2 DEF Start
<1>3. CASE ~Start(p)
  <2>1. p \in Readers /\ p \notin Writers /\ pc[p] # "rest" /\ pc[p] \in ReaderPCs
    BY <1>1, <1>3, Constants DEF Processes, Step, Crash, ReadPath, ReadTmp, ReadBak, RestoreTmp,
       RemoveBak, RestoreBak, Clean, Create, Fill, Replace, ClearBak, Preserve, Retry, Rollback,
       FinishPersist, IInv, TypeOK
  <2>2. \A value : ReadReturns(p, value) => lock' = lock
    BY <1>1, <2>1 DEF ReadReturns, Ends
  <2>3. Ends(p) => lock' = lock
    BY <1>1 DEF Ends
  <2> QED
    BY <1>1, <1>3, <2>1, <2>2, <2>3 DEF Step, Crash, ReadPath, ReadTmp, ReadBak, RestoreTmp,
       RemoveBak, RestoreBak, Clean, Create, Fill, Replace, ClearBak, Preserve, Retry, Rollback,
       FinishPersist, ReadReturnsPath, ReaderPCs
<1> QED
  BY <1>2, <1>3

(* Unless it puts the old metadata back it leaves the files as they are,    *)
(* but for the backup.                                                      *)
LEMMA ReleaseMovesNothing ==
  ASSUME IInv, ~meddled, NEW w \in Writers, lock = w, lock' = NONE,
         Step(w) \/ Crash(w)
  PROVE  \/ UNCHANGED <<path, tmp>>
         \/ pc[w] = "rollback" /\ path' = got[w] /\ path' # NONE
<1>1. w # NONE /\ lock' # lock /\ w \notin Readers /\ Progress(w)
  BY Constants DEF IInv, TypeOK, DiskInv, Processes
<1>2. \A value : ~ReadReturns(w, value)
  BY <1>1 DEF ReadReturns
<1>3. CASE Rollback(w)
  BY <1>1, <1>3 DEF Rollback, Progress, diskVars
<1>4. CASE RestoreTmp(w)
  BY <1>1, <1>4 DEF RestoreTmp, diskVars
<1>5. CASE ~Rollback(w) /\ ~RestoreTmp(w)
  BY <1>1, <1>2, <1>5 DEF Step, Crash, Start, ReadPath, ReadTmp, ReadBak, RemoveBak, RestoreBak,
     Clean, Create, Fill, Replace, ClearBak, Preserve, Retry, FinishPersist, diskVars
<1> QED
  BY <1>3, <1>4, <1>5

(* A write is all or nothing, for any number of writers, failing renames    *)
(* and crashes.                                                             *)
THEOREM WritesAreAtomic == Spec => WritesAreAllOrNothing
<1>1. IInv /\ [Next]_vars =>
        [\A p \in Writers :
           lock = p /\ lock' = NONE /\ got[p] # NONE /\ ~meddled
             => Effective' \in {got[p], mine[p]} \ {NONE}]_lock
  <2> SUFFICES ASSUME IInv, [Next]_vars, lock' # lock, NEW w \in Writers,
                      lock = w, lock' = NONE, got[w] # NONE, ~meddled
               PROVE  Effective' \in {got[w], mine[w]} \ {NONE}
    OBVIOUS
  <2>1. Step(w) \/ Crash(w)
    BY HolderReleases DEF Next, vars
  <2>2. /\ Effective \in {got[w], mine[w]} /\ got[w] \in Contents
        /\ path \in Contents \/ (path = NONE /\ tmp \in Contents)
    BY ReadOrWritten, Constants DEF IInv, TypeOK
  <2>3. Effective # NONE
    BY <2>2, Constants DEF Effective, Contents
  <2>4. CASE UNCHANGED <<path, tmp>>
    BY <2>2, <2>3, <2>4, Constants DEF Effective, Contents
  <2>5. CASE path' = got[w] /\ path' # NONE
    BY <2>5 DEF Effective
  <2> QED
    BY <2>1, <2>4, <2>5, ReleaseMovesNothing
<1> QED
  BY <1>1, Invariance, PTL DEF Spec, WritesAreAllOrNothing

-----------------------------------------------------------------------------
(* Under the lock the three files are one value *)

(* What the functions of writers are.                                       *)
LEMMA OfWritersSame ==
  ASSUME NEW f, NEW g, \A w \in Writers : f[w] = g[w]
  PROVE  OfWriters(f) = OfWriters(g)
BY DEF OfWriters

LEMMA OfWritersChange ==
  ASSUME NEW f, NEW w \in Writers, NEW value, NEW g,
         \A v \in Writers : g[v] = IF v = w THEN value ELSE f[v]
  PROVE  [v \in Writers |-> g[v]] = [[v \in Writers |-> f[v]] EXCEPT ![w] = value]
OBVIOUS

(* A write has a number only from its beginning to its end.                 *)
NothingPending == \A w \in Writers : pc[w] \notin PersistPCs => mine[w] = NONE

LEMMA PendingInit == Init => NothingPending
BY DEF Init, NothingPending, Processes

LEMMA PendingStep ==
  ASSUME IInv, NothingPending, NEW p \in Processes, Step(p) \/ Crash(p)
  PROVE  NothingPending'
<1> SUFFICES ASSUME NEW w \in Writers, pc'[w] \notin PersistPCs PROVE mine'[w] = NONE
  BY DEF NothingPending
<1>1. w \in Processes /\ (pc[w] \notin PersistPCs => mine[w] = NONE)
      /\ pc \in [Processes -> PCs] /\ mine \in [Processes -> Contents \union {NONE}]
  BY DEF NothingPending, Processes, IInv, TypeOK
<1>2. CASE Ends(p)
  BY <1>1, <1>2 DEF Ends, Goto
<1>3. ASSUME \E l \in PCs : Goto(p, l) /\ (pc[p] \in PersistPCs => l \in PersistPCs), mine' = mine
      PROVE  mine'[w] = NONE
  BY <1>1, <1>3 DEF Goto
<1>4. ASSUME NEW value, ReadReturns(p, value), pc[p] \notin PersistPCs PROVE mine'[w] = NONE
  BY <1>1, <1>2, <1>3, <1>4 DEF ReadReturns, PCs
<1>5. CASE Create(p)
  BY <1>1, <1>5 DEF Create, Goto, PersistPCs
<1>6. ASSUME pc[p] \notin PersistPCs, ReadReturnsPath(p) PROVE mine'[w] = NONE
  BY <1>2, <1>4, <1>6 DEF ReadReturnsPath
<1>7. CASE Start(p) \/ ReadPath(p) \/ ReadTmp(p) \/ ReadBak(p)
  BY <1>2, <1>3, <1>4, <1>6, <1>7
     DEF Start, ReadPath, ReadTmp, ReadBak, PCs, ReaderPCs, PersistPCs
<1>8. CASE RestoreTmp(p) \/ RemoveBak(p) \/ RestoreBak(p)
  BY <1>2, <1>3, <1>4, <1>6, <1>8
     DEF RestoreTmp, RemoveBak, RestoreBak, PCs, ReaderPCs, PersistPCs
<1>9. CASE \/ Clean(p) \/ Fill(p) \/ Replace(p) \/ ClearBak(p) \/ Preserve(p)
           \/ Retry(p) \/ Rollback(p) \/ FinishPersist(p)
  BY <1>2, <1>3, <1>9
     DEF Clean, Fill, Replace, ClearBak, Preserve, Retry, Rollback, FinishPersist, PCs, ReaderPCs,
         PersistPCs
<1> QED
  BY <1>2, <1>5, <1>7, <1>8, <1>9 DEF Step, Crash

(* Nothing happened that another writer could tell.                         *)
LEMMA Unnoticed ==
  ASSUME Effective' = Effective, UNCHANGED <<lock, writes, acked, meddled>>,
         \A w \in Writers : got'[w] = got[w] /\ mine'[w] = mine[w]
  PROVE  UNCHANGED Atomic!vars
<1>1. OfWriters(got') = OfWriters(got) /\ OfWriters(mine') = OfWriters(mine)
  BY OfWritersSame
<1> QED
  BY <1>1 DEF Atomic!vars, OfWriters

(* A process without the lock does not matter until it moves a file.        *)
LEMMA ReaderUnnoticed ==
  ASSUME IInv, NEW r \in Readers, Step(r) \/ Crash(r), ~meddled'
  PROVE  UNCHANGED Atomic!vars
<1>1. /\ r \in Processes /\ r \notin Writers /\ pc[r] \in ReaderPCs /\ lock # r
      /\ got \in [Processes -> Contents \union {NONE}]
      /\ mine \in [Processes -> Contents \union {NONE}]
  BY Constants DEF IInv, TypeOK, Processes
<1> DEFINE Quiet == /\ UNCHANGED lock
                    /\ \A w \in Writers : got'[w] = got[w] /\ mine'[w] = mine[w]
<1>2. Ends(r) => Quiet
  BY <1>1 DEF Ends, Processes
<1>3. \A value : ReadReturns(r, value) => Quiet
  BY <1>2 DEF ReadReturns
<1>4. ReadReturnsPath(r) => Quiet
  BY <1>2, <1>3 DEF ReadReturnsPath
<1>5. \A value : got' = [got EXCEPT ![r] = value] => \A w \in Writers : got'[w] = got[w]
  BY <1>1 DEF Processes
<1> HIDE DEF Quiet
<1>6. /\ pc[r] \notin {"clean", "create"} \union PersistPCs
      /\ ReadReturns(r, path) => Quiet
      /\ ReadReturns(r, got[r]) => Quiet
  BY <1>1, <1>3 DEF ReaderPCs, PersistPCs
<1>7. Quiet /\ UNCHANGED <<diskVars, writes, acked, meddled>>
  <2>1. CASE Start(r)
    BY <1>1, <2>1 DEF Start, Quiet
  <2>2. CASE ReadPath(r) \/ ReadTmp(r) \/ ReadBak(r)
    <3>1. Quiet
      BY <1>2, <1>4, <1>5, <1>6, <2>2 DEF ReadPath, ReadTmp, ReadBak, Quiet
    <3> QED BY <2>2, <3>1 DEF ReadPath, ReadTmp, ReadBak
  <2>3. CASE RestoreTmp(r)
    <3>1. Quiet
      BY <1>2, <1>5, <2>3 DEF RestoreTmp, Quiet
    <3> QED BY <1>1, <2>3, <3>1 DEF RestoreTmp, Meddles, diskVars, IInv, TypeOK
  <2>4. CASE RemoveBak(r)
    BY <1>1, <1>6, <2>4 DEF RemoveBak, Meddles, diskVars, IInv, TypeOK
  <2>5. CASE RestoreBak(r)
    <3>1. Quiet
      BY <1>4, <1>6, <2>5 DEF RestoreBak
    <3> QED BY <1>1, <2>5, <3>1 DEF RestoreBak, Meddles, diskVars, IInv, TypeOK
  <2>6. CASE Crash(r)
    BY <1>2, <2>6 DEF Crash
  <2> QED
    BY <1>6, <2>1, <2>2, <2>3, <2>4, <2>5, <2>6 DEF Step, Clean, Create, Fill, Replace, ClearBak,
       Preserve, Retry, Rollback, FinishPersist, PersistPCs
<1> QED
  BY <1>7, Unnoticed DEF Quiet, Effective, diskVars

(* What it ends with.                                                       *)
LEMMA EndOfWriter ==
  ASSUME IInv, NEW w \in Writers, Ends(w)
  PROVE  /\ OfWriters(got)[w] = got[w] /\ OfWriters(mine)[w] = mine[w]
         /\ OfWriters(got)' = [OfWriters(got) EXCEPT ![w] = NONE]
         /\ OfWriters(mine)' = [OfWriters(mine) EXCEPT ![w] = NONE]
<1>1. /\ got \in [Processes -> Contents \union {NONE}]
      /\ mine \in [Processes -> Contents \union {NONE}]
  BY DEF IInv, TypeOK
<1>2. OfWriters(got)' = [OfWriters(got) EXCEPT ![w] = NONE]
  BY <1>1 DEF Ends, OfWriters, Processes
<1>3. OfWriters(mine)' = [OfWriters(mine) EXCEPT ![w] = NONE]
  BY <1>1 DEF Ends, OfWriters, Processes
<1> QED
  BY <1>2, <1>3 DEF OfWriters

(* An operation that ends without a report is a failure.                    *)
LEMMA EndIsFailure ==
  ASSUME IInv, NEW w \in Writers, lock = w, Ends(w), UNCHANGED <<writes, acked, meddled>>,
         Effective' = Effective \/ (got[w] # NONE /\ Effective' = got[w])
  PROVE  Atomic!Fail(w)
BY EndOfWriter DEF Ends, Atomic!Fail, Atomic!Release

(* A writer's read gets what the last writer left.                          *)
LEMMA FindingIsRead ==
  ASSUME IInv, NEW w \in Writers, lock = w, got[w] = NONE,
         got' = [got EXCEPT ![w] = Effective],
         UNCHANGED <<path, tmp, bak, lock, mine, writes, acked, meddled>>
  PROVE  Atomic!Read(w)
<1>1. got \in [Processes -> Contents \union {NONE}]
  BY DEF IInv, TypeOK
<1>2. /\ OfWriters(got)[w] = NONE
      /\ OfWriters(got)' = [OfWriters(got) EXCEPT ![w] = Effective]
      /\ OfWriters(mine)' = OfWriters(mine)
  <2>1. PICK value : value = Effective
    OBVIOUS
  <2>2. \A v \in Writers : got'[v] = IF v = w THEN value ELSE got[v]
    BY <1>1, <2>1 DEF Processes
  <2>3. OfWriters(got)' = [OfWriters(got) EXCEPT ![w] = value]
    BY <2>2, OfWritersChange DEF OfWriters
  <2> QED BY <2>1, <2>3 DEF OfWriters
<1>3. Effective' = Effective
  BY DEF Effective
<1> QED
  BY <1>2, <1>3 DEF Atomic!Read

(* The steps of a writer, and what they are under the lock.                 *)
LEMMA WriterStepRefines ==
  ASSUME IInv, NothingPending, ~meddled', NEW w \in Writers, Step(w) \/ Crash(w)
  PROVE  Atomic!Step(w) \/ UNCHANGED Atomic!vars
<1>1. /\ w \in Processes /\ w \notin Readers /\ w # NONE
      /\ pc[w] # "rest" => lock = w
      /\ got \in [Processes -> Contents \union {NONE}]
      /\ mine \in [Processes -> Contents \union {NONE}]
      /\ path \in Files /\ tmp \in Files /\ writes \in Contents /\ acked \in 0 .. writes
  BY Constants, FilesAre DEF IInv, TypeOK, Processes
<1>2. meddled' = meddled
  BY <1>1 DEF Step, Crash, Start, ReadPath, ReadTmp, ReadBak, RestoreTmp, RemoveBak, RestoreBak,
     Clean, Create, Fill, Replace, ClearBak, Preserve, Retry, Rollback, FinishPersist, Meddles,
     IInv, TypeOK
<1>3. Sound /\ Progress(w) /\ ~meddled
  BY <1>2 DEF IInv, DiskInv
<1>4. /\ path \in Contents \/ (path = NONE /\ tmp \in Contents)
      /\ Effective = IF path # NONE THEN path ELSE tmp
  BY <1>1, <1>3, Constants DEF Sound, Current, Contents, Effective
<1>c. \A content \in Current : content \in Contents /\ content # NONE
  BY <1>1, Constants DEF Current, Contents
<1>5. /\ pc[w] \in {"rest", "read", "read-tmp"} => got[w] = NONE
      /\ pc[w] \notin PersistPCs => mine[w] = NONE
      /\ pc[w] \in PersistPCs => mine[w] = writes
  BY DEF IInv, TypeOK, NothingPending
<1>6. ASSUME UNCHANGED <<path, tmp, lock, got, mine, writes, acked>>
      PROVE  UNCHANGED Atomic!vars
  <2>1. Effective' = Effective
    BY <1>4, <1>6, Constants DEF Effective, Contents
  <2> QED BY <1>2, <1>6, <2>1, Unnoticed
<1>7. ASSUME UNCHANGED <<path, tmp, writes, acked>>, Ends(w), pc[w] # "rest"
      PROVE  Atomic!Step(w)
  <2>1. Effective' = Effective
    BY <1>4, <1>7, Constants DEF Effective, Contents
  <2>2. Atomic!Fail(w)
    BY <1>1, <1>2, <1>7, <2>1, EndIsFailure
  <2> QED BY <2>2 DEF Atomic!Step
<1>8. CASE Start(w)
  <2>1. Effective' = Effective /\ OfWriters(got)' = OfWriters(got)
        /\ OfWriters(mine)' = OfWriters(mine)
    BY <1>8 DEF Start, diskVars, Effective, OfWriters
  <2>2. Atomic!Acquire(w)
    BY <1>8, <2>1 DEF Start, Atomic!Acquire
  <2> QED BY <2>2 DEF Atomic!Step
<1>9. CASE ReadPath(w)
  <2>1. CASE path = NONE
    BY <1>6, <1>9, <2>1, Constants DEF ReadPath, diskVars
  <2>2. CASE path # NONE
    <3>1. got' = [got EXCEPT ![w] = path] /\ UNCHANGED <<lock, mine>>
      BY <1>1, <1>4, <1>9, <2>2, Constants DEF ReadPath, ReadReturns
    <3>2. path = Effective
      BY <1>4, <2>2
    <3>3. Atomic!Read(w)
      BY <1>1, <1>2, <1>5, <1>9, <3>1, <3>2, FindingIsRead DEF ReadPath, diskVars
    <3> QED BY <3>3 DEF Atomic!Step
  <2> QED BY <2>1, <2>2
<1>10. CASE ReadTmp(w)
  <2>1. path = NONE /\ tmp = Effective /\ tmp \in Contents
    BY <1>3, <1>4, <1>10, Constants DEF ReadTmp, Progress
  <2>2. got' = [got EXCEPT ![w] = tmp] /\ UNCHANGED <<lock, mine>>
    BY <1>10, <2>1, Constants DEF ReadTmp
  <2>3. Atomic!Read(w)
    BY <1>1, <1>2, <1>5, <1>10, <2>1, <2>2, FindingIsRead DEF ReadTmp, diskVars
  <2> QED BY <2>3 DEF Atomic!Step
<1>11. ~ReadBak(w) /\ ~RestoreBak(w)
  BY <1>3 DEF ReadBak, RestoreBak, Progress
<1>12. CASE RestoreTmp(w)
  <2>1. path = NONE /\ tmp = Effective /\ tmp \in Contents
    BY <1>3, <1>4, <1>12, Constants DEF RestoreTmp, Progress
  <2>2. CASE path' = tmp /\ UNCHANGED <<got, mine, lock>>
    <3>1. Effective' = Effective
      BY <2>1, <2>2, Constants DEF Effective
    <3> QED BY <1>2, <1>12, <2>2, <3>1, Unnoticed DEF RestoreTmp
  <2>3. CASE Ends(w) /\ UNCHANGED diskVars
    BY <1>7, <1>12, <2>3 DEF RestoreTmp, diskVars
  <2> QED BY <1>12, <2>1, <2>2, <2>3, Constants DEF RestoreTmp
<1>13. CASE RemoveBak(w)
  <2>1. got' = got /\ UNCHANGED <<lock, mine>>
    BY <1>1, <1>13 DEF RemoveBak, ReadReturns
  <2> QED BY <1>6, <1>13, <2>1 DEF RemoveBak
<1>14. CASE Clean(w) \/ ClearBak(w)
  <2>1. CASE ClearBak(w)
    BY <1>6, <2>1 DEF ClearBak
  <2>2. CASE Clean(w)
    <3>1. path \in Contents
      BY <1>c, <1>3, <2>2 DEF Clean, Progress
    <3>2. Effective' = Effective
      BY <2>2, <3>1, Constants DEF Clean, Effective
    <3> QED BY <1>2, <2>2, <3>2, Unnoticed DEF Clean
  <2> QED BY <1>14, <2>1, <2>2
<1>15. CASE Create(w)
  <2>1. path \in Contents /\ got[w] = path /\ mine[w] = NONE
    BY <1>c, <1>3, <1>5, <1>15 DEF Create, Progress, PersistPCs
  <2>2. Effective' = Effective
    BY <1>15, <2>1, Constants DEF Create, Effective
  <2>3. /\ OfWriters(mine)' = [OfWriters(mine) EXCEPT ![w] = writes + 1]
        /\ OfWriters(got)' = OfWriters(got)
        /\ OfWriters(got)[w] # NONE /\ OfWriters(mine)[w] = NONE
    <3>1. mine' = [mine EXCEPT ![w] = writes + 1] /\ got' = got
      BY <1>15 DEF Create
    <3>2. OfWriters(mine)' = [OfWriters(mine) EXCEPT ![w] = writes + 1]
      <4>1. \A v \in Writers : mine'[v] = IF v = w THEN writes + 1 ELSE mine[v]
        BY <1>1, <3>1 DEF Processes
      <4> QED BY <4>1, OfWritersChange DEF OfWriters
    <3>3. got[w] # NONE
      BY <2>1, Constants
    <3> QED BY <2>1, <3>1, <3>2, <3>3 DEF OfWriters
  <2>4. Atomic!Begin(w)
    BY <1>1, <1>15, <2>2, <2>3 DEF Create, Atomic!Begin
  <2> QED BY <2>4 DEF Atomic!Step
<1>16. CASE Fill(w)
  <2>1. path \in Contents /\ tmp = Partial
    BY <1>c, <1>3, <1>16 DEF Fill, Progress
  <2>2. Effective' = Effective
    BY <1>16, <2>1, Constants DEF Fill, Effective
  <2> QED BY <1>2, <1>16, <2>2, Unnoticed DEF Fill
<1>17. ASSUME Effective' = mine[w], pc[w] \in PersistPCs,
              UNCHANGED <<lock, got, mine, writes, acked>>
       PROVE  Atomic!Step(w)
  <2>1. /\ OfWriters(mine)[w] = mine[w] /\ mine[w] # NONE /\ lock = w
        /\ OfWriters(got)' = OfWriters(got) /\ OfWriters(mine)' = OfWriters(mine)
    BY <1>1, <1>5, <1>17, Constants DEF OfWriters, PersistPCs
  <2>2. Atomic!Write(w)
    BY <1>17, <2>1 DEF Atomic!Write
  <2> QED BY <2>2 DEF Atomic!Step
<1>18. CASE Replace(w)
  <2>1. tmp = writes /\ path \in Contents /\ mine[w] = writes /\ pc[w] \in PersistPCs
    BY <1>c, <1>3, <1>5, <1>18 DEF Replace, Progress, PersistPCs
  <2>2. CASE path' = tmp /\ UNCHANGED <<got, mine, lock>>
    <3>1. Effective' = mine[w]
      BY <1>1, <2>1, <2>2, Constants DEF Effective
    <3> QED BY <1>17, <1>18, <2>1, <2>2, <3>1 DEF Replace
  <2>3. CASE UNCHANGED diskVars /\ UNCHANGED <<got, mine, lock>>
    BY <1>6, <1>18, <2>3 DEF Replace, diskVars
  <2> QED BY <1>18, <2>1, <2>2, <2>3, Constants DEF Replace
<1>19. CASE Preserve(w)
  <2>1. tmp = writes /\ mine[w] = writes /\ pc[w] \in PersistPCs
    BY <1>3, <1>5, <1>19 DEF Preserve, Progress, PersistPCs
  <2>2. CASE path' = NONE /\ UNCHANGED <<tmp, got, mine, lock>>
    <3>1. Effective' = mine[w]
      BY <1>1, <2>1, <2>2, Constants DEF Effective
    <3> QED BY <1>17, <1>19, <2>1, <2>2, <3>1 DEF Preserve
  <2>3. CASE Ends(w) /\ UNCHANGED diskVars
    BY <1>7, <1>19, <2>3 DEF Preserve, diskVars
  <2> QED BY <1>19, <2>2, <2>3 DEF Preserve
<1>20. CASE Retry(w)
  <2>1. path = NONE /\ tmp = writes
    BY <1>3, <1>20 DEF Retry, Progress
  <2>2. Effective' = Effective /\ UNCHANGED <<got, mine, lock, writes, acked>>
    BY <1>1, <1>20, <2>1, Constants DEF Retry, Effective, diskVars
  <2> QED BY <1>2, <2>2, Unnoticed
<1>21. CASE Rollback(w)
  <2>1. path = NONE /\ bak = got[w] /\ got[w] \in Contents
    BY <1>c, <1>3, <1>21 DEF Rollback, Progress
  <2>2. CASE path' = bak
    <3>1. Effective' = got[w] /\ got[w] # NONE
      BY <2>1, <2>2, Constants DEF Effective
    <3>2. Atomic!Fail(w)
      BY <1>1, <1>2, <1>21, <3>1, EndIsFailure DEF Rollback
    <3> QED BY <3>2 DEF Atomic!Step
  <2>3. CASE UNCHANGED diskVars
    BY <1>7, <1>21, <2>3 DEF Rollback, diskVars
  <2> QED BY <1>21, <2>2, <2>3 DEF Rollback
<1>22. CASE FinishPersist(w)
  <2>1. path = writes /\ mine[w] = writes /\ lock = w
    BY <1>1, <1>3, <1>5, <1>22 DEF FinishPersist, Progress, PersistPCs
  <2>2. Effective' = Effective /\ Effective = mine[w]
    BY <1>1, <1>22, <2>1, Constants DEF FinishPersist, Effective
  <2>3. /\ OfWriters(mine)[w] = mine[w]
        /\ OfWriters(got)' = [OfWriters(got) EXCEPT ![w] = NONE]
        /\ OfWriters(mine)' = [OfWriters(mine) EXCEPT ![w] = NONE]
    BY <1>22, EndOfWriter DEF FinishPersist
  <2>4. Atomic!Report(w)
    BY <1>22, <2>1, <2>2, <2>3 DEF FinishPersist, Ends, Atomic!Report, Atomic!Release
  <2> QED BY <2>4 DEF Atomic!Step
<1>23. CASE Crash(w)
  BY <1>7, <1>23 DEF Crash, diskVars
<1> QED
  BY <1>8, <1>9, <1>10, <1>11, <1>12, <1>13, <1>14, <1>15, <1>16, <1>18, <1>19, <1>20, <1>21,
     <1>22, <1>23 DEF Step

(* Every step is one of the single value, or none, until a reader without   *)
(* the lock has moved a file.                                               *)
LEMMA StepRefines ==
  ASSUME IInv, NothingPending, [Next]_vars
  PROVE  [Atomic!Next]_(Atomic!vars)
<1>1. CASE meddled'
  BY <1>1 DEF Atomic!Next
<1>2. ASSUME ~meddled', NEW p \in Processes, Step(p) \/ Crash(p)
      PROVE  [Atomic!Next]_(Atomic!vars)
  <2>1. CASE p \in Readers
    BY <1>2, <2>1, ReaderUnnoticed
  <2>2. CASE p \in Writers
    <3>1. Atomic!Step(p) \/ UNCHANGED Atomic!vars
      BY <1>2, <2>2, WriterStepRefines
    <3>2. meddled' = meddled
      BY <1>2, <2>2, Constants DEF Step, Crash, Start, ReadPath, ReadTmp, ReadBak, RestoreTmp,
         RemoveBak, RestoreBak, Clean, Create, Fill, Replace, ClearBak, Preserve, Retry, Rollback,
         FinishPersist, Meddles, IInv, TypeOK
    <3> QED BY <2>2, <3>1, <3>2 DEF Atomic!Next
  <2> QED BY <2>1, <2>2 DEF Processes
<1>3. CASE UNCHANGED vars
  <2>1. UNCHANGED Atomic!vars
    BY <1>3 DEF vars, diskVars, Atomic!vars, Effective, OfWriters
  <2> QED BY <2>1
<1> QED
  BY <1>1, <1>2, <1>3 DEF Next

(* Whatever a writer finds or leaves behind, reads and writes under the     *)
(* lock are those of one value that changes in one step.                    *)
THEOREM Refinement == Spec => ImplementsAtomicMetadata
<1>1. Init => Atomic!Init
  BY Constants DEF Init, Atomic!Init, Effective, OfWriters, Processes, Contents
<1>2. Init => NothingPending
  BY PendingInit
<1>3. IInv /\ NothingPending /\ [Next]_vars => NothingPending'
  <2>1. UNCHANGED vars /\ NothingPending => NothingPending'
    BY DEF vars, NothingPending
  <2> QED BY <2>1, PendingStep DEF Next
<1>4. IInv /\ NothingPending /\ [Next]_vars => [Atomic!Next]_(Atomic!vars)
  BY StepRefines
<1> QED
  BY <1>1, <1>2, <1>3, <1>4, Invariance, PTL DEF Spec, ImplementsAtomicMetadata, Atomic!Spec
=============================================================================
