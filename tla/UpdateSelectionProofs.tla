------------------------ MODULE UpdateSelectionProofs ------------------------
(***************************************************************************)
(* Proofs about UpdateSelection, for any prefixes, probes, packages and    *)
(* lists of the channel.                                                   *)
(***************************************************************************)
EXTENDS UpdateSelection, FiniteSetTheorems, WellFoundedInduction, TLAPS

LEMMA Constants ==
  /\ \A x \in Prefixes, q \in Probes : x # q
  /\ First \in Identities
  /\ \A p \in Packages : Identity(p) \in Identities
  /\ \A p, q \in Packages : p.sha = q.sha => p = q
  /\ \A c \in Channels : c \subseteq Packages
  /\ Unrelated \notin Channels /\ Garbage # Unrelated /\ Garbage \notin Channels
  /\ NONE \notin Processes /\ NONE \notin Packages /\ NONE \notin Channels /\ NONE # Unrelated
BY SelectionAssumption DEF Processes

(* A selected package is a listed one, and newer.                           *)
LEMMA NewestIs ==
  ASSUME NEW response \in Channels \union {Unrelated}, NEW exe, NEW p \in Newest(response, exe)
  PROVE  p = NONE \/ (p \in Packages /\ Newer(p, exe))
<1>1. Listed(response) \subseteq Packages
  BY Constants DEF Listed
<1>2. Newest(response, exe) \subseteq {NONE} \union Candidates(response, exe)
  BY DEF Newest
<1> QED
  BY <1>1, <1>2 DEF Candidates

LEMMA InitCorrect == Init => IInv
<1> SUFFICES ASSUME Init PROVE IInv
  OBVIOUS
<1> USE Constants DEF Init
<1>1. TypeOK
  BY DEF TypeOK, HelperPCs, ProbePCs, Locked
<1>2. CacheInv /\ StagedIsConfirmed
  BY DEF CacheInv, StagedIsConfirmed
<1>3. \A x \in Prefixes : HelperInv(x)
  BY DEF HelperInv, HelperPCs, Processes
<1>4. \A q \in Probes : ProbeInv(q)
  BY DEF ProbeInv, ProbePCs, Processes
<1> QED
  BY <1>1, <1>2, <1>3, <1>4 DEF IInv

-----------------------------------------------------------------------------
(* Steps in general *)

(* How the lock of the cache file changes when p goes to another place.     *)
LEMMA LockStep ==
  ASSUME IInv, NEW p \in Processes, NEW l, Goto(p, l),
         \/ lock' = lock /\ (l \in Locked <=> pc[p] \in Locked)
         \/ lock = NONE /\ lock' = p /\ l \in Locked
         \/ pc[p] \in Locked /\ lock' = NONE /\ l \notin Locked
         \/ l \notin Locked /\ lock' = IF lock = p THEN NONE ELSE lock
  PROVE  /\ lock' \in Processes \union {NONE}
         /\ \A q \in Processes : lock' = q <=> pc'[q] \in Locked
<1>1. /\ lock \in Processes \union {NONE} /\ pc'[p] = l
      /\ \A q \in Processes : lock = q <=> pc[q] \in Locked
      /\ \A q \in Processes \ {p} : pc'[q] = pc[q]
  BY DEF IInv, TypeOK, Goto
<1> QED
  BY <1>1, Constants

(* A step of, or on behalf of, prefix x.                                    *)
LEMMA PrefixStep ==
  ASSUME IInv, NEW x \in Prefixes, NEW l \in HelperPCs, Goto(x, l),
         channel' = channel, cache' \in Channels \union {Unrelated, NONE},
         lock' \in Processes \union {NONE},
         \A q \in Processes : lock' = q <=> pc'[q] \in Locked,
         packages' \subseteq [dir : {CacheDir(p) : p \in Packages}, content : Packages],
         CacheInv',
         installed' \in [Prefixes -> Identities], offer' \in [Prefixes -> Packages \union {NONE}],
         staged' \in [Prefixes -> [content : Packages, as : Identities] \union {NONE}],
         job' \in [Processes -> HelperJob \union StartedJob \union ProbeJob \union {NONE}],
         \A y \in Prefixes \ {x} :
           installed'[y] = installed[y] /\ offer'[y] = offer[y] /\ staged'[y] = staged[y],
         \A p \in Processes \ {x} : job'[p] = job[p],
         HelperInv(x)', staged'[x] # NONE => Confirmed(x)'
  PROVE  IInv'
<1>1. /\ pc' \in [Processes -> HelperPCs \union ProbePCs]
      /\ \A p \in Processes \ {x} : pc'[p] = pc[p]
  BY DEF IInv, TypeOK, Goto
<1>2. TypeOK'
  BY <1>1 DEF IInv, TypeOK
<1>3. \A y \in Prefixes \ {x} : y \in Processes \ {x} /\ HelperInv(y)'
  BY <1>1 DEF IInv, HelperInv, Processes
<1>4. \A q \in Probes : ProbeInv(q)'
  <2>1. \A q \in Probes : q \in Processes \ {x}
    BY Constants DEF Processes
  <2> QED
    BY <1>1, <2>1 DEF IInv, ProbeInv
<1>5. StagedIsConfirmed'
  BY DEF IInv, StagedIsConfirmed, Confirmed
<1> QED
  BY <1>2, <1>3, <1>4, <1>5 DEF IInv

(* A step of probe q.                                                       *)
LEMMA ProbeStepKept ==
  ASSUME IInv, NEW q \in Probes, NEW l \in ProbePCs, Goto(q, l),
         UNCHANGED <<channel, packages, installed, offer, staged>>,
         cache' \in Channels \union {Unrelated, NONE},
         lock' \in Processes \union {NONE},
         \A p \in Processes : lock' = p <=> pc'[p] \in Locked,
         job' \in [Processes -> HelperJob \union StartedJob \union ProbeJob \union {NONE}],
         \A p \in Processes \ {q} : job'[p] = job[p],
         ProbeInv(q)'
  PROVE  IInv'
<1>1. /\ pc' \in [Processes -> HelperPCs \union ProbePCs]
      /\ \A p \in Processes \ {q} : pc'[p] = pc[p]
  BY DEF IInv, TypeOK, Goto
<1>2. TypeOK'
  BY <1>1 DEF IInv, TypeOK
<1>3. \A r \in Probes \ {q} : ProbeInv(r)'
  BY <1>1 DEF IInv, ProbeInv, Processes
<1>4. \A x \in Prefixes : HelperInv(x)'
  <2>1. \A x \in Prefixes : x \in Processes \ {q}
    BY Constants DEF Processes
  <2> QED
    BY <1>1, <2>1 DEF IInv, HelperInv
<1>5. StagedIsConfirmed' /\ CacheInv'
  BY DEF IInv, StagedIsConfirmed, Confirmed, CacheInv
<1> QED
  BY <1>2, <1>3, <1>4, <1>5 DEF IInv

(* What is known of a helper at work, and of what nobody changes.           *)
LEMMA HelperFacts ==
  ASSUME IInv, NEW x \in Prefixes
  PROVE  /\ x \in Processes /\ pc[x] \in HelperPCs /\ channel \in Channels
         /\ cache \in Channels \union {Unrelated, NONE}
         /\ lock \in Processes \union {NONE}
         /\ packages \subseteq [dir : {CacheDir(p) : p \in Packages}, content : Packages]
         /\ CacheInv
         /\ installed \in [Prefixes -> Identities]
         /\ offer \in [Prefixes -> Packages \union {NONE}]
         /\ staged \in [Prefixes -> [content : Packages, as : Identities] \union {NONE}]
         /\ job \in [Processes -> HelperJob \union StartedJob \union ProbeJob \union {NONE}]
         /\ HelperInv(x)
         /\ staged[x] # NONE => Confirmed(x)
         /\ pc[x] # "rest" => /\ job[x] \in HelperJob /\ job[x].exe = installed[x]
                              /\ staged[x] = NONE
BY DEF IInv, TypeOK, HelperInv, StagedIsConfirmed, Processes

LEMMA ProbeFacts ==
  ASSUME IInv, NEW q \in Probes
  PROVE  /\ q \in Processes /\ pc[q] \in ProbePCs /\ channel \in Channels
         /\ cache \in Channels \union {Unrelated, NONE}
         /\ lock \in Processes \union {NONE}
         /\ installed \in [Prefixes -> Identities]
         /\ job \in [Processes -> HelperJob \union StartedJob \union ProbeJob \union {NONE}]
         /\ ProbeInv(q)
BY DEF IInv, TypeOK, ProbeInv, Processes

(* A helper ends, perhaps with a new offer, a new package in the cache, or  *)
(* a staged executable that is right.                                       *)
LEMMA HelperExits ==
  ASSUME IInv, NEW x \in Prefixes, pc[x] # "rest", Exits(x),
         UNCHANGED <<channel, packages, installed>>,
         cache' \in Channels \union {Unrelated, NONE},
         offer' \in [Prefixes -> Packages \union {NONE}],
         staged' \in [Prefixes -> [content : Packages, as : Identities] \union {NONE}],
         \A y \in Prefixes \ {x} : offer'[y] = offer[y] /\ staged'[y] = staged[y],
         staged'[x] # NONE => Confirmed(x)'
  PROVE  IInv'
<1>1. Goto(x, "rest") /\ job' = [job EXCEPT ![x] = NONE] /\ lock' = IF lock = x THEN NONE ELSE lock
  BY DEF Exits
<1>2. "rest" \in HelperPCs /\ "rest" \notin Locked
  BY DEF HelperPCs, Locked
<1>3. /\ lock' \in Processes \union {NONE}
      /\ \A q \in Processes : lock' = q <=> pc'[q] \in Locked
  BY <1>1, <1>2, LockStep, HelperFacts
<1>4. /\ job' \in [Processes -> HelperJob \union StartedJob \union ProbeJob \union {NONE}]
      /\ \A p \in Processes \ {x} : job'[p] = job[p]
  BY <1>1, HelperFacts
<1>5. pc'[x] = "rest"
  BY <1>1, HelperFacts DEF Goto, IInv, TypeOK
<1>6. HelperInv(x)'
  BY <1>2, <1>5 DEF HelperInv
<1>7. CacheInv'
  BY HelperFacts DEF CacheInv
<1> QED
  BY <1>1, <1>2, <1>3, <1>4, <1>6, <1>7, HelperFacts, PrefixStep

(* A helper goes on: what it works on and the lock change, perhaps the      *)
(* caches, but neither its offer nor what is staged.                        *)
LEMMA HelperGoesOn ==
  ASSUME IInv, NEW x \in Prefixes, pc[x] # "rest",
         NEW l \in HelperPCs \ {"rest"}, Goto(x, l),
         NEW j \in HelperJob, job' = [job EXCEPT ![x] = j], j.exe = job[x].exe,
         l \in {"lock", "remove", "persist", "select"} => j.response # NONE,
         l \in {"fetch", "validate"} => /\ j.candidate # NONE /\ j.candidate.sha = offer[x].sha
                                       /\ Newer(j.candidate, installed[x]),
         UNCHANGED <<channel, installed, offer, staged>>,
         cache' \in Channels \union {Unrelated, NONE},
         packages' \subseteq [dir : {CacheDir(p) : p \in Packages}, content : Packages],
         CacheInv',
         \/ lock' = lock /\ (l \in Locked <=> pc[x] \in Locked)
         \/ lock = NONE /\ lock' = x /\ l \in Locked
         \/ pc[x] \in Locked /\ lock' = NONE /\ l \notin Locked
  PROVE  IInv'
<1>1. /\ lock' \in Processes \union {NONE}
      /\ \A q \in Processes : lock' = q <=> pc'[q] \in Locked
  BY LockStep, HelperFacts
<1>2. /\ job' \in [Processes -> HelperJob \union StartedJob \union ProbeJob \union {NONE}]
      /\ \A p \in Processes \ {x} : job'[p] = job[p]
      /\ job'[x] = j
  BY HelperFacts
<1>3. pc'[x] = l
  BY HelperFacts DEF Goto, IInv, TypeOK
<1>4. HelperInv(x)'
  BY <1>2, <1>3, HelperFacts DEF HelperInv
<1>5. staged'[x] = NONE
  BY HelperFacts
<1> QED
  BY <1>1, <1>2, <1>4, <1>5, HelperFacts, PrefixStep

(* A field of the job of a helper or a probe is noted.                      *)
LEMMA NoteIs ==
  ASSUME IInv, NEW p \in Processes, NEW value
  PROVE  /\ Note(p, "response", value) => job' = [job EXCEPT ![p] = [@ EXCEPT !.response = value]]
         /\ Note(p, "answer", value) => job' = [job EXCEPT ![p] = [@ EXCEPT !.answer = value]]
BY DEF Note

-----------------------------------------------------------------------------
(* The check and stage helpers *)

LEMMA StartCheckKept ==
  ASSUME IInv, NEW x \in Prefixes, StartCheck(x)
  PROVE  IInv'
<1>1. /\ pc[x] = "rest"
      /\ offer' = [offer EXCEPT ![x] = NONE] /\ staged' = [staged EXCEPT ![x] = NONE]
      /\ UNCHANGED <<channel, cache, lock, packages, installed>>
  BY DEF StartCheck
<1>2. /\ offer' \in [Prefixes -> Packages \union {NONE}]
      /\ staged' \in [Prefixes -> [content : Packages, as : Identities] \union {NONE}]
      /\ \A y \in Prefixes \ {x} : offer'[y] = offer[y] /\ staged'[y] = staged[y]
      /\ staged'[x] = NONE
  BY <1>1, HelperFacts
<1>3. "rest" \notin Locked /\ "load" \notin Locked /\ "rest" \in HelperPCs /\ "load" \in HelperPCs
  BY DEF Locked, HelperPCs
<1>4. CacheInv'
  BY <1>1, HelperFacts DEF CacheInv
<1>5. CASE UNCHANGED <<pc, job>>
  <2>1. Goto(x, "rest") /\ pc'[x] = "rest"
    BY <1>1, <1>5 DEF Goto, IInv, TypeOK
  <2>2. HelperInv(x)'
    BY <1>3, <2>1 DEF HelperInv
  <2>3. /\ lock' \in Processes \union {NONE}
        /\ \A q \in Processes : lock' = q <=> pc'[q] \in Locked
    BY <1>1, <1>3, <2>1, LockStep, HelperFacts
  <2> QED
    BY <1>1, <1>2, <1>3, <1>4, <1>5, <2>1, <2>2, <2>3, HelperFacts, PrefixStep
<1>6. CASE /\ Goto(x, "load")
           /\ \E offline \in BOOLEAN :
                job' = [job EXCEPT ![x] = [action |-> "check", exe |-> installed[x],
                          offline |-> offline, response |-> NONE, candidate |-> NONE]]
  <2>1. PICK offline \in BOOLEAN :
          job' = [job EXCEPT ![x] = [action |-> "check", exe |-> installed[x],
                    offline |-> offline, response |-> NONE, candidate |-> NONE]]
    BY <1>6
  <2> DEFINE j == [action |-> "check", exe |-> installed[x],
                   offline |-> offline, response |-> NONE, candidate |-> NONE]
  <2>2. j \in HelperJob /\ j.exe = installed[x]
    BY HelperFacts DEF HelperJob
  <2> HIDE DEF j
  <2>3. /\ job' \in [Processes -> HelperJob \union StartedJob \union ProbeJob \union {NONE}]
        /\ \A p \in Processes \ {x} : job'[p] = job[p]
        /\ job'[x] = j
    BY <2>1, <2>2, HelperFacts DEF j
  <2>4. pc'[x] = "load"
    BY <1>6, HelperFacts DEF Goto, IInv, TypeOK
  <2>5. HelperInv(x)'
    BY <1>1, <1>2, <1>3, <2>2, <2>3, <2>4 DEF HelperInv
  <2>6. /\ lock' \in Processes \union {NONE}
        /\ \A q \in Processes : lock' = q <=> pc'[q] \in Locked
    BY <1>1, <1>3, <1>6, LockStep, HelperFacts
  <2> QED
    BY <1>1, <1>2, <1>3, <1>4, <1>6, <2>3, <2>5, <2>6, HelperFacts, PrefixStep
<1> QED
  BY <1>5, <1>6 DEF StartCheck

LEMMA StartStageKept ==
  ASSUME IInv, NEW x \in Prefixes, StartStage(x)
  PROVE  IInv'
<1>1. /\ pc[x] = "rest" /\ staged' = [staged EXCEPT ![x] = NONE] /\ Goto(x, "load")
      /\ UNCHANGED <<channel, cache, lock, packages, installed, offer>>
  BY DEF StartStage
<1>2. /\ staged' \in [Prefixes -> [content : Packages, as : Identities] \union {NONE}]
      /\ \A y \in Prefixes \ {x} : staged'[y] = staged[y]
      /\ staged'[x] = NONE
  BY <1>1, HelperFacts
<1>3. "rest" \notin Locked /\ "load" \notin Locked /\ "load" \in HelperPCs
  BY DEF Locked, HelperPCs
<1>4. CacheInv'
  BY <1>1, HelperFacts DEF CacheInv
<1>5. PICK offline \in BOOLEAN :
        job' = [job EXCEPT ![x] = [action |-> "stage", exe |-> installed[x],
                  offline |-> offline, response |-> NONE, candidate |-> NONE]]
  BY DEF StartStage
<1> DEFINE j == [action |-> "stage", exe |-> installed[x],
                 offline |-> offline, response |-> NONE, candidate |-> NONE]
<1>6. j \in HelperJob /\ j.exe = installed[x]
  BY HelperFacts DEF HelperJob
<1> HIDE DEF j
<1>7. /\ job' \in [Processes -> HelperJob \union StartedJob \union ProbeJob \union {NONE}]
      /\ \A p \in Processes \ {x} : job'[p] = job[p]
      /\ job'[x] = j
  BY <1>5, <1>6, HelperFacts DEF j
<1>8. pc'[x] = "load"
  BY <1>1, HelperFacts DEF Goto, IInv, TypeOK
<1>9. HelperInv(x)'
  BY <1>1, <1>2, <1>3, <1>6, <1>7, <1>8 DEF HelperInv
<1>10. /\ lock' \in Processes \union {NONE}
       /\ \A q \in Processes : lock' = q <=> pc'[q] \in Locked
  BY <1>1, <1>3, LockStep, HelperFacts
<1> QED
  BY <1>1, <1>2, <1>3, <1>4, <1>7, <1>9, <1>10, HelperFacts, PrefixStep

LEMMA ReadCacheKept ==
  ASSUME IInv, NEW x \in Prefixes, ReadCache(x)
  PROVE  IInv'
<1>1. pc[x] = "load" /\ UNCHANGED <<channel, cache, packages, installed, offer, staged>>
  BY DEF ReadCache
<1>2. CASE Exits(x)
  BY <1>1, <1>2, HelperFacts, HelperExits
<1>3. CASE cache # NONE /\ Note(x, "response", cache) /\ Goto(x, "select") /\ UNCHANGED lock
  <2> DEFINE j == [job[x] EXCEPT !.response = cache]
  <2>1. job' = [job EXCEPT ![x] = j]
    BY <1>3 DEF Note
  <2>2. j \in HelperJob /\ j.exe = job[x].exe /\ j.response # NONE
    BY <1>1, <1>3, HelperFacts DEF HelperJob
  <2>3. "select" \in HelperPCs \ {"rest"} /\ "select" \notin Locked /\ pc[x] \notin Locked
    BY <1>1 DEF HelperPCs, Locked
  <2>4. CacheInv'
    BY <1>1, HelperFacts DEF CacheInv
  <2> HIDE DEF j
  <2> QED
    BY <1>1, <1>3, <2>1, <2>2, <2>3, <2>4, HelperFacts, HelperGoesOn
<1> QED
  BY <1>2, <1>3 DEF ReadCache

LEMMA DownloadKept ==
  ASSUME IInv, NEW x \in Prefixes, Download(x)
  PROVE  IInv'
<1>1. pc[x] = "load" /\ UNCHANGED <<channel, cache, packages, installed, offer, staged>>
  BY DEF Download
<1>2. CASE Exits(x)
  BY <1>1, <1>2, HelperFacts, HelperExits
<1>3. ASSUME NEW response \in Responses, response # Garbage,
             Note(x, "response", response), Goto(x, "lock"), UNCHANGED lock
      PROVE  IInv'
  <2> DEFINE j == [job[x] EXCEPT !.response = response]
  <2>1. job' = [job EXCEPT ![x] = j]
    BY <1>3 DEF Note
  <2>2. response \in Channels \union {Unrelated} /\ response # NONE
    BY <1>3, HelperFacts, Constants DEF Responses
  <2>3. j \in HelperJob /\ j.exe = job[x].exe /\ j.response # NONE
    BY <1>1, <2>2, HelperFacts DEF HelperJob
  <2>4. "lock" \in HelperPCs \ {"rest"} /\ "lock" \notin Locked /\ pc[x] \notin Locked
    BY <1>1 DEF HelperPCs, Locked
  <2>5. CacheInv'
    BY <1>1, HelperFacts DEF CacheInv
  <2> HIDE DEF j
  <2> QED
    BY <1>1, <1>3, <2>1, <2>3, <2>4, <2>5, HelperFacts, HelperGoesOn
<1> QED
  BY <1>2, <1>3 DEF Download

(* The steps that write the cache file leave the job as it is.              *)
LEMMA CacheWriterGoesOn ==
  ASSUME IInv, NEW x \in Prefixes, pc[x] \in {"lock", "remove", "persist"},
         NEW l \in {"remove", "persist", "select"}, Goto(x, l),
         UNCHANGED <<channel, packages, installed, offer, staged, job>>,
         cache' \in Channels \union {Unrelated, NONE},
         \/ lock' = lock /\ (l \in Locked <=> pc[x] \in Locked)
         \/ lock = NONE /\ lock' = x /\ l \in Locked
         \/ pc[x] \in Locked /\ lock' = NONE /\ l \notin Locked
  PROVE  IInv'
<1>1. /\ job[x] \in HelperJob /\ job[x].response # NONE
      /\ l \in HelperPCs \ {"rest"} /\ l \notin {"fetch", "validate"}
  BY HelperFacts DEF HelperInv, HelperPCs
<1>2. job' = [job EXCEPT ![x] = job[x]]
  BY HelperFacts
<1>3. CacheInv'
  BY HelperFacts DEF CacheInv
<1>4. packages' \subseteq [dir : {CacheDir(p) : p \in Packages}, content : Packages]
  BY HelperFacts
<1>5. pc[x] # "rest" /\ (l \in {"lock", "remove", "persist", "select"} => job[x].response # NONE)
  BY <1>1
<1> QED
  BY <1>1, <1>2, <1>3, <1>4, <1>5, HelperGoesOn

LEMMA CacheWritersKept ==
  ASSUME IInv, NEW x \in Prefixes, LockCache(x) \/ RemoveCache(x) \/ PersistCache(x)
  PROVE  IInv'
<1>1. CASE LockCache(x)
  <2> DEFINE l == IF cache # NONE THEN "remove" ELSE "persist"
  <2>1. /\ pc[x] = "lock" /\ lock = NONE /\ lock' = x /\ Goto(x, l)
        /\ UNCHANGED <<channel, cache, packages, installed, offer, staged, job>>
    BY <1>1 DEF LockCache
  <2>2. l \in {"remove", "persist"} /\ l \in Locked
    BY DEF Locked
  <2> HIDE DEF l
  <2> QED
    BY <2>1, <2>2, HelperFacts, CacheWriterGoesOn
<1>2. CASE RemoveCache(x)
  <2>1. pc[x] = "remove" /\ UNCHANGED <<channel, packages, installed, offer, staged>>
    BY <1>2 DEF RemoveCache
  <2>2. CASE Exits(x) /\ UNCHANGED cache
    BY <2>1, <2>2, HelperFacts, HelperExits
  <2>3. CASE cache' = NONE /\ Goto(x, "persist") /\ UNCHANGED <<lock, job>>
    BY <2>1, <2>3, CacheWriterGoesOn DEF Locked
  <2> QED
    BY <1>2, <2>2, <2>3 DEF RemoveCache
<1>3. CASE PersistCache(x)
  <2>1. /\ pc[x] = "persist" /\ cache' = job[x].response /\ lock' = NONE /\ Goto(x, "select")
        /\ UNCHANGED <<channel, packages, installed, offer, staged, job>>
    BY <1>3 DEF PersistCache
  <2>2. job[x].response \in Channels \union {Unrelated, NONE}
    BY <2>1, HelperFacts DEF HelperJob
  <2> QED
    BY <2>1, <2>2, CacheWriterGoesOn DEF Locked
<1> QED
  BY <1>1, <1>2, <1>3

LEMMA SelectForCheckKept ==
  ASSUME IInv, NEW x \in Prefixes, SelectForCheck(x)
  PROVE  IInv'
<1>1. /\ pc[x] = "select" /\ Exits(x) /\ UNCHANGED <<channel, cache, packages, installed, staged>>
      /\ \/ \E p \in Newest(job[x].response, job[x].exe) : offer' = [offer EXCEPT ![x] = p]
         \/ UNCHANGED offer
  BY DEF SelectForCheck
<1>2. job[x].response \in Channels \union {Unrelated}
  BY <1>1, HelperFacts DEF HelperInv, HelperJob
<1>3. \A p \in Newest(job[x].response, job[x].exe) : p \in Packages \union {NONE}
  BY <1>2, NewestIs
<1>4. /\ offer' \in [Prefixes -> Packages \union {NONE}]
      /\ \A y \in Prefixes \ {x} : offer'[y] = offer[y]
  BY <1>1, <1>3, HelperFacts
<1>5. staged'[x] = NONE
  BY <1>1, HelperFacts
<1> QED
  BY <1>1, <1>4, <1>5, HelperFacts, HelperExits

(* What a stage helper goes on to fetch is newer and has the digest the     *)
(* user confirmed.                                                          *)
LEMMA SelectForStageKept ==
  ASSUME IInv, NEW x \in Prefixes, SelectForStage(x)
  PROVE  IInv'
<1>1. pc[x] = "select" /\ UNCHANGED <<channel, cache, packages, installed, offer, staged>>
  BY DEF SelectForStage
<1>2. CASE Exits(x)
  BY <1>1, <1>2, HelperFacts, HelperExits
<1>3. ASSUME NEW p \in Newest(job[x].response, job[x].exe), IsConfirmed(x, p),
             job' = [job EXCEPT ![x].response = NONE, ![x].candidate = p],
             Goto(x, "fetch"), UNCHANGED lock
      PROVE  IInv'
  <2> DEFINE j == [job[x] EXCEPT !.response = NONE, !.candidate = p]
  <2>1. job' = [job EXCEPT ![x] = j]
    BY <1>3, HelperFacts
  <2>2. job[x].response \in Channels \union {Unrelated} /\ job[x].exe = installed[x]
    BY <1>1, HelperFacts DEF HelperInv, HelperJob
  <2>3. p # NONE /\ p.sha = offer[x].sha
    BY <1>3 DEF IsConfirmed
  <2>4. p \in Packages /\ Newer(p, installed[x])
    BY <1>3, <2>2, <2>3, NewestIs
  <2>5. j \in HelperJob /\ j.exe = job[x].exe /\ j.candidate = p
    BY <1>1, <2>4, HelperFacts DEF HelperJob
  <2>6. "fetch" \in HelperPCs \ {"rest"} /\ "fetch" \notin Locked /\ pc[x] \notin Locked
    BY <1>1 DEF HelperPCs, Locked
  <2>7. CacheInv'
    BY <1>1, HelperFacts DEF CacheInv
  <2> HIDE DEF j
  <2>8. /\ j.candidate # NONE /\ j.candidate.sha = offer[x].sha
        /\ Newer(j.candidate, installed[x])
    BY <2>3, <2>4, <2>5
  <2>9. /\ cache' \in Channels \union {Unrelated, NONE}
        /\ packages' \subseteq [dir : {CacheDir(q) : q \in Packages}, content : Packages]
    BY <1>1, HelperFacts
  <2>10. Goto(x, "fetch") /\ lock' = lock
    BY <1>3
  <2>11. pc[x] # "rest" /\ "fetch" \notin {"lock", "remove", "persist", "select"}
    BY <1>1
  <2> QED
    BY <1>1, <2>1, <2>5, <2>6, <2>7, <2>8, <2>9, <2>10, <2>11, HelperGoesOn
<1> QED
  BY <1>2, <1>3 DEF SelectForStage

(* A package in the cache is the one its directory is named after.          *)
LEMMA CachedIsRight ==
  ASSUME IInv, NEW p \in Packages, NEW content \in Cached(p)
  PROVE  content = p
<1>1. PICK e \in packages : e.dir = CacheDir(p) /\ e.content = content
  BY DEF Cached
<1>2. content \in Packages /\ content.sha = p.sha
  BY <1>1 DEF IInv, TypeOK, CacheInv, CacheDir
<1> QED
  BY <1>2, Constants

LEMMA FetchPackageKept ==
  ASSUME IInv, NEW x \in Prefixes, FetchPackage(x)
  PROVE  IInv'
<1> DEFINE p == job[x].candidate
<1>1. pc[x] = "fetch" /\ UNCHANGED <<channel, cache, installed, offer, staged>>
  BY DEF FetchPackage
<1>2. /\ p \in Packages /\ p.sha = offer[x].sha /\ Newer(p, installed[x])
      /\ job[x] \in HelperJob /\ p # NONE
  BY <1>1, HelperFacts DEF HelperInv, HelperJob
<1>3. /\ "validate" \in HelperPCs \ {"rest"} /\ "validate" \notin Locked /\ pc[x] \notin Locked
  BY <1>1 DEF HelperPCs, Locked
<1>4. job = [job EXCEPT ![x] = job[x]]
  BY HelperFacts
<1>5. CASE Exits(x) /\ UNCHANGED packages
  BY <1>1, <1>5, HelperFacts, HelperExits
<1>6. CASE Goto(x, "validate") /\ UNCHANGED <<packages, lock, job>>
  <2>1. CacheInv'
    BY <1>6, HelperFacts DEF CacheInv
  <2>2. /\ cache' \in Channels \union {Unrelated, NONE}
        /\ packages' \subseteq [dir : {CacheDir(q) : q \in Packages}, content : Packages]
    BY <1>1, <1>6, HelperFacts
  <2> QED
    BY <1>1, <1>2, <1>3, <1>4, <1>6, <2>1, <2>2, HelperGoesOn
<1>7. ASSUME NEW q \in Served(p), q.sha = p.sha,
             packages' = packages \union {[dir |-> CacheDir(p), content |-> q]},
             Goto(x, "validate"), UNCHANGED <<lock, job>>
      PROVE  IInv'
  <2>1. q \in Packages
    BY DEF Served
  <2>2. [dir |-> CacheDir(p), content |-> q]
          \in [dir : {CacheDir(r) : r \in Packages}, content : Packages]
    BY <1>2, <2>1
  <2>3. /\ cache' \in Channels \union {Unrelated, NONE}
        /\ packages' \subseteq [dir : {CacheDir(r) : r \in Packages}, content : Packages]
    BY <1>1, <1>7, <2>2, HelperFacts
  <2>4. CacheInv'
    BY <1>7, HelperFacts DEF CacheInv, CacheDir
  <2> QED
    BY <1>1, <1>2, <1>3, <1>4, <1>7, <2>3, <2>4, HelperGoesOn
<1> QED
  BY <1>5, <1>6, <1>7 DEF FetchPackage

LEMMA StagePackageKept ==
  ASSUME IInv, NEW x \in Prefixes, StagePackage(x)
  PROVE  IInv'
<1> DEFINE p == job[x].candidate
<1>1. /\ pc[x] = "validate" /\ Exits(x)
      /\ UNCHANGED <<channel, cache, packages, installed, offer>>
  BY DEF StagePackage
<1>2. p \in Packages /\ p.sha = offer[x].sha /\ Newer(p, installed[x]) /\ staged[x] = NONE
  BY <1>1, HelperFacts DEF HelperInv, HelperJob
<1>3. PICK content \in Cached(p) :
        staged' = IF Validated(p, content)
                    THEN [staged EXCEPT ![x] = [content |-> content, as |-> Identity(p)]]
                    ELSE staged
  BY DEF StagePackage
<1>4. content = p
  BY <1>2, CachedIsRight
<1>5. [content |-> content, as |-> Identity(p)] \in [content : Packages, as : Identities]
  BY <1>2, <1>4, Constants
<1>6. CASE staged' = staged
  BY <1>1, <1>2, <1>6, HelperFacts, HelperExits
<1>7. CASE /\ Validated(p, content)
           /\ staged' = [staged EXCEPT ![x] = [content |-> content, as |-> Identity(p)]]
  <2>1. /\ staged' \in [Prefixes -> [content : Packages, as : Identities] \union {NONE}]
        /\ \A y \in Prefixes \ {x} : staged'[y] = staged[y]
        /\ staged'[x] = [content |-> content, as |-> Identity(p)]
    BY <1>5, <1>7, HelperFacts
  <2>2. content.sound
    BY <1>7 DEF Validated
  <2>3. Confirmed(x)'
    BY <1>1, <1>2, <1>4, <2>1, <2>2 DEF Confirmed
  <2> HIDE DEF p
  <2> QED
    BY <1>1, <2>1, <2>3, HelperFacts, HelperExits
<1> QED
  BY <1>3, <1>6, <1>7

-----------------------------------------------------------------------------
(* The probe *)

(* A probe ends.                                                            *)
LEMMA ProbeExits ==
  ASSUME IInv, NEW q \in Probes, Exits(q),
         UNCHANGED <<channel, cache, packages, installed, offer, staged>>
  PROVE  IInv'
<1>1. Goto(q, "rest") /\ job' = [job EXCEPT ![q] = NONE] /\ lock' = IF lock = q THEN NONE ELSE lock
  BY DEF Exits
<1>2. "rest" \in ProbePCs /\ "rest" \notin Locked
  BY DEF ProbePCs, Locked
<1>3. /\ lock' \in Processes \union {NONE}
      /\ \A p \in Processes : lock' = p <=> pc'[p] \in Locked
  BY <1>1, <1>2, LockStep, ProbeFacts
<1>4. /\ job' \in [Processes -> HelperJob \union StartedJob \union ProbeJob \union {NONE}]
      /\ \A p \in Processes \ {q} : job'[p] = job[p]
  BY <1>1, ProbeFacts
<1>5. pc'[q] = "rest"
  BY <1>1, ProbeFacts DEF Goto, IInv, TypeOK
<1>6. ProbeInv(q)'
  BY <1>2, <1>5 DEF ProbeInv
<1>7. cache' \in Channels \union {Unrelated, NONE}
  BY ProbeFacts
<1> QED
  BY <1>1, <1>2, <1>3, <1>4, <1>6, <1>7, ProbeStepKept

(* A probe goes on with job j.                                              *)
LEMMA ProbeGoesOn ==
  ASSUME IInv, NEW q \in Probes, NEW l \in ProbePCs, Goto(q, l),
         NEW j \in StartedJob \union ProbeJob, job' = [job EXCEPT ![q] = j],
         UNCHANGED <<channel, packages, installed, offer, staged>>,
         cache' \in Channels \union {Unrelated, NONE},
         \/ lock' = lock /\ (l \in Locked <=> pc[q] \in Locked)
         \/ lock = NONE /\ lock' = q /\ l \in Locked
         \/ pc[q] \in Locked /\ lock' = NONE /\ l \notin Locked,
         l = "metadata" => j \in StartedJob,
         l # "metadata" => j \in ProbeJob /\ j.exe = j.recorded,
         l \in {"try", "replace"} => j.response # NONE,
         l \in {"try", "replace", "report"} =>
           \E listed \in Channels : j.answer \in Newest(listed, j.recorded)
  PROVE  IInv'
<1>1. /\ lock' \in Processes \union {NONE}
      /\ \A p \in Processes : lock' = p <=> pc'[p] \in Locked
  BY LockStep, ProbeFacts
<1>2. /\ job' \in [Processes -> HelperJob \union StartedJob \union ProbeJob \union {NONE}]
      /\ \A p \in Processes \ {q} : job'[p] = job[p]
      /\ job'[q] = j
  BY ProbeFacts
<1>3. pc'[q] = l
  BY ProbeFacts DEF Goto, IInv, TypeOK
<1>4. ProbeInv(q)'
  BY <1>2, <1>3 DEF ProbeInv
<1> QED
  BY <1>1, <1>2, <1>4, ProbeStepKept

LEMMA StartProbeKept ==
  ASSUME IInv, NEW q \in Probes, StartProbe(q)
  PROVE  IInv'
<1>1. /\ pc[q] = "rest" /\ Goto(q, "metadata")
      /\ UNCHANGED <<channel, cache, lock, packages, installed, offer, staged>>
  BY DEF StartProbe
<1>2. PICK x \in Prefixes : job' = [job EXCEPT ![q] = [prefix |-> x, exe |-> installed[x]]]
  BY DEF StartProbe
<1>3. [prefix |-> x, exe |-> installed[x]] \in StartedJob
  BY ProbeFacts DEF StartedJob
<1>4. "metadata" \in ProbePCs /\ "metadata" \notin Locked /\ "rest" \notin Locked
  BY DEF ProbePCs, Locked
<1>5. cache' \in Channels \union {Unrelated, NONE}
  BY <1>1, ProbeFacts
<1> QED
  BY <1>1, <1>2, <1>3, <1>4, <1>5, ProbeGoesOn

LEMMA ReadMetadataKept ==
  ASSUME IInv, NEW q \in Probes, ReadMetadata(q)
  PROVE  IInv'
<1> DEFINE recorded == installed[job[q].prefix]
<1>1. pc[q] = "metadata" /\ UNCHANGED <<channel, cache, packages, installed, offer, staged>>
  BY DEF ReadMetadata
<1>2. CASE Exits(q)
  BY <1>1, <1>2, ProbeExits
<1>3. ASSUME Current(q, recorded), NEW offline \in BOOLEAN,
             job' = [job EXCEPT ![q] = [exe |-> @.exe, recorded |-> recorded,
                                        response |-> NONE, answer |-> NONE]],
             Goto(q, IF offline THEN "cache" ELSE "request"), UNCHANGED lock
      PROVE  IInv'
  <2> DEFINE j == [exe |-> job[q].exe, recorded |-> recorded, response |-> NONE, answer |-> NONE]
             l == IF offline THEN "cache" ELSE "request"
  <2>1. job' = [job EXCEPT ![q] = j]
    BY <1>3
  <2>2. job[q].exe \in Identities /\ recorded \in Identities /\ job[q].exe = recorded
    BY <1>1, <1>3, ProbeFacts DEF ProbeInv, StartedJob, Current
  <2>3. j \in ProbeJob /\ j.exe = j.recorded
    BY <2>2 DEF ProbeJob
  <2>4. /\ l \in ProbePCs /\ l \notin Locked /\ pc[q] \notin Locked
        /\ l \notin {"metadata", "try", "replace", "report"}
    BY <1>1 DEF ProbePCs, Locked
  <2>5. cache' \in Channels \union {Unrelated, NONE}
    BY <1>1, ProbeFacts
  <2>6. Goto(q, l) /\ lock' = lock
    BY <1>3
  <2> HIDE DEF j, l
  <2> QED
    BY <1>1, <2>1, <2>3, <2>4, <2>5, <2>6, ProbeGoesOn
<1> QED
  BY <1>2, <1>3 DEF ReadMetadata

(* What a probe selects, it selects from a list of the channel.             *)
LEMMA UsableIsListed ==
  ASSUME IInv, NEW response \in Channels \union {Unrelated, Garbage}, NEW exe \in Identities,
         Usable(response, exe), NEW p \in Newest(response, exe)
  PROVE  response \in Channels /\ p \in Packages \union {NONE}
<1>1. response \in Channels
  BY DEF Usable
<1> QED
  BY <1>1, NewestIs

LEMMA RequestKept ==
  ASSUME IInv, NEW q \in Probes, Request(q)
  PROVE  IInv'
<1>1. pc[q] = "request" /\ UNCHANGED <<channel, cache, lock, packages, installed, offer, staged>>
  BY DEF Request
<1>2. job[q] \in ProbeJob /\ job[q].exe = job[q].recorded
  BY <1>1, ProbeFacts DEF ProbeInv
<1>3. cache' \in Channels \union {Unrelated, NONE}
  BY <1>1, ProbeFacts
<1>4. CASE Goto(q, "cache") /\ UNCHANGED job
  <2>1. job' = [job EXCEPT ![q] = job[q]]
    BY <1>4, ProbeFacts
  <2>2. "cache" \in ProbePCs /\ "cache" \notin Locked /\ pc[q] \notin Locked
    BY <1>1 DEF ProbePCs, Locked
  <2> QED
    BY <1>1, <1>2, <1>3, <1>4, <2>1, <2>2, ProbeGoesOn
<1>5. ASSUME NEW response \in Responses, Usable(response, job[q].exe),
             NEW p \in Newest(response, job[q].exe),
             job' = [job EXCEPT ![q].response = response, ![q].answer = p], Goto(q, "try")
      PROVE  IInv'
  <2> DEFINE j == [job[q] EXCEPT !.response = response, !.answer = p]
  <2>1. job' = [job EXCEPT ![q] = j]
    BY <1>5, ProbeFacts
  <2>2. response \in Channels /\ p \in Packages \union {NONE} /\ response # NONE
    BY <1>2, <1>5, ProbeFacts, UsableIsListed, Constants DEF Responses, ProbeJob
  <2>3. /\ j \in ProbeJob /\ j.exe = job[q].exe /\ j.recorded = job[q].recorded
        /\ j.response = response /\ j.answer = p
    BY <1>2, <2>2 DEF ProbeJob
  <2>4. "try" \in ProbePCs /\ "try" \notin Locked /\ pc[q] \notin Locked
    BY <1>1 DEF ProbePCs, Locked
  <2> HIDE DEF j
  <2>5. Goto(q, "try") /\ j.answer \in Newest(response, j.recorded)
    BY <1>2, <1>5, <2>3
  <2> QED
    BY <1>1, <1>2, <1>3, <2>1, <2>2, <2>3, <2>4, <2>5, ProbeGoesOn
<1> QED
  BY <1>4, <1>5 DEF Request

LEMMA OpenCacheKept ==
  ASSUME IInv, NEW q \in Probes, OpenCache(q)
  PROVE  IInv'
<1>1. pc[q] = "cache" /\ UNCHANGED <<channel, cache, packages, installed, offer, staged>>
  BY DEF OpenCache
<1>2. job[q] \in ProbeJob /\ job[q].exe = job[q].recorded
  BY <1>1, ProbeFacts DEF ProbeInv
<1>3. cache' \in Channels \union {Unrelated, NONE}
  BY <1>1, ProbeFacts
<1>4. CASE Exits(q)
  BY <1>1, <1>4, ProbeExits
<1>5. ASSUME cache # NONE, Usable(cache, job[q].exe), NEW p \in Newest(cache, job[q].exe),
             Note(q, "answer", p), Goto(q, "report"), UNCHANGED lock
      PROVE  IInv'
  <2> DEFINE j == [job[q] EXCEPT !.answer = p]
  <2>1. job' = [job EXCEPT ![q] = j]
    BY <1>5, ProbeFacts DEF Note
  <2>2. cache \in Channels /\ p \in Packages \union {NONE}
    BY <1>2, <1>5, ProbeFacts, UsableIsListed DEF ProbeJob
  <2>3. /\ j \in ProbeJob /\ j.exe = job[q].exe /\ j.recorded = job[q].recorded
        /\ j.answer = p
    BY <1>2, <2>2 DEF ProbeJob
  <2>4. "report" \in ProbePCs /\ "report" \notin Locked /\ pc[q] \notin Locked
    BY <1>1 DEF ProbePCs, Locked
  <2> HIDE DEF j
  <2>5. Goto(q, "report") /\ lock' = lock /\ j.answer \in Newest(cache, j.recorded)
    BY <1>2, <1>5, <2>3
  <2> QED
    BY <1>1, <1>2, <1>3, <2>1, <2>2, <2>3, <2>4, <2>5, ProbeGoesOn
<1> QED
  BY <1>4, <1>5 DEF OpenCache

LEMMA TryLockKept ==
  ASSUME IInv, NEW q \in Probes, TryLock(q)
  PROVE  IInv'
<1>1. pc[q] = "try" /\ UNCHANGED <<channel, cache, packages, installed, offer, staged>>
  BY DEF TryLock
<1>2. /\ job[q] \in ProbeJob /\ job[q].exe = job[q].recorded /\ job[q].response # NONE
      /\ \E listed \in Channels : job[q].answer \in Newest(listed, job[q].recorded)
  BY <1>1, ProbeFacts DEF ProbeInv
<1>3. cache' \in Channels \union {Unrelated, NONE}
  BY <1>1, ProbeFacts
<1>4. /\ "replace" \in ProbePCs /\ "report" \in ProbePCs
      /\ "replace" \in Locked /\ "report" \notin Locked /\ pc[q] \notin Locked
  BY <1>1 DEF ProbePCs, Locked
<1>5. CASE lock = NONE /\ lock' = q /\ Goto(q, "replace") /\ UNCHANGED job
  <2>1. job' = [job EXCEPT ![q] = job[q]]
    BY <1>5, ProbeFacts
  <2> QED
    BY <1>1, <1>2, <1>3, <1>4, <1>5, <2>1, ProbeGoesOn
<1>6. CASE Note(q, "response", NONE) /\ Goto(q, "report") /\ UNCHANGED lock
  <2> DEFINE j == [job[q] EXCEPT !.response = NONE]
  <2>1. job' = [job EXCEPT ![q] = j]
    BY <1>6, ProbeFacts DEF Note
  <2>2. /\ j \in ProbeJob /\ j.exe = job[q].exe /\ j.recorded = job[q].recorded
        /\ j.answer = job[q].answer
    BY <1>2 DEF ProbeJob
  <2> HIDE DEF j
  <2> QED
    BY <1>1, <1>2, <1>3, <1>4, <1>6, <2>1, <2>2, ProbeGoesOn
<1> QED
  BY <1>5, <1>6 DEF TryLock

LEMMA ReplaceCacheKept ==
  ASSUME IInv, NEW q \in Probes, ReplaceCache(q)
  PROVE  IInv'
<1>1. /\ pc[q] = "replace" /\ cache' \in {cache, job[q].response} /\ lock' = NONE
      /\ Note(q, "response", NONE) /\ Goto(q, "report")
      /\ UNCHANGED <<channel, packages, installed, offer, staged>>
  BY DEF ReplaceCache
<1>2. /\ job[q] \in ProbeJob /\ job[q].exe = job[q].recorded
      /\ \E listed \in Channels : job[q].answer \in Newest(listed, job[q].recorded)
  BY <1>1, ProbeFacts DEF ProbeInv
<1>3. cache' \in Channels \union {Unrelated, NONE}
  BY <1>1, <1>2, ProbeFacts DEF ProbeJob
<1>4. "report" \in ProbePCs /\ "report" \notin Locked /\ pc[q] \in Locked
  BY <1>1 DEF ProbePCs, Locked
<1> DEFINE j == [job[q] EXCEPT !.response = NONE]
<1>5. job' = [job EXCEPT ![q] = j]
  BY <1>1, ProbeFacts DEF Note
<1>6. /\ j \in ProbeJob /\ j.exe = job[q].exe /\ j.recorded = job[q].recorded
      /\ j.answer = job[q].answer
  BY <1>2 DEF ProbeJob
<1> HIDE DEF j
<1> QED
  BY <1>1, <1>2, <1>3, <1>4, <1>5, <1>6, ProbeGoesOn

-----------------------------------------------------------------------------
(* Publishing, applying, dying *)

LEMMA PublishKept ==
  ASSUME IInv, Publish
  PROVE  IInv'
<1>1. /\ channel' \in Channels
      /\ UNCHANGED <<cache, lock, packages, installed, offer, staged, pc, job>>
  BY DEF Publish
<1>2. TypeOK' /\ CacheInv'
  BY <1>1 DEF IInv, TypeOK, CacheInv
<1>3. StagedIsConfirmed'
  BY <1>1 DEF IInv, StagedIsConfirmed, Confirmed
<1>4. \A x \in Prefixes : HelperInv(x)'
  BY <1>1 DEF IInv, HelperInv
<1>5. \A q \in Probes : ProbeInv(q)'
  BY <1>1 DEF IInv, ProbeInv
<1> QED
  BY <1>2, <1>3, <1>4, <1>5 DEF IInv

LEMMA ApplyKept ==
  ASSUME IInv, NEW x \in Prefixes, Apply(x)
  PROVE  IInv'
<1>1. /\ pc[x] = "rest" /\ staged[x] # NONE
      /\ installed' = [installed EXCEPT ![x] = staged[x].as]
      /\ staged' = [staged EXCEPT ![x] = NONE] /\ offer' = [offer EXCEPT ![x] = NONE]
      /\ UNCHANGED <<channel, cache, lock, packages, pc, job>>
  BY DEF Apply
<1>2. staged[x].as \in Identities
  BY <1>1, HelperFacts
<1>3. /\ installed' \in [Prefixes -> Identities] /\ offer' \in [Prefixes -> Packages \union {NONE}]
      /\ staged' \in [Prefixes -> [content : Packages, as : Identities] \union {NONE}]
      /\ \A y \in Prefixes \ {x} :
           installed'[y] = installed[y] /\ offer'[y] = offer[y] /\ staged'[y] = staged[y]
      /\ staged'[x] = NONE
  BY <1>1, <1>2, HelperFacts
<1>4. Goto(x, "rest") /\ "rest" \in HelperPCs /\ "rest" \notin Locked
  BY <1>1 DEF Goto, HelperPCs, Locked, IInv, TypeOK
<1>5. /\ lock' \in Processes \union {NONE}
      /\ \A q \in Processes : lock' = q <=> pc'[q] \in Locked
  BY <1>1, <1>4, LockStep, HelperFacts
<1>6. HelperInv(x)' /\ CacheInv'
  BY <1>1, <1>4, HelperFacts DEF HelperInv, CacheInv
<1> QED
  BY <1>1, <1>3, <1>4, <1>5, <1>6, HelperFacts, PrefixStep

LEMMA StopKept ==
  ASSUME IInv, NEW p \in Processes, Stop(p)
  PROVE  IInv'
<1>1. /\ pc[p] # "rest" /\ Exits(p)
      /\ UNCHANGED <<channel, cache, packages, installed, offer, staged>>
  BY DEF Stop
<1>2. CASE p \in Prefixes
  BY <1>1, <1>2, HelperFacts, HelperExits
<1>3. CASE p \in Probes
  BY <1>1, <1>3, ProbeExits
<1> QED
  BY <1>2, <1>3 DEF Processes

LEMMA StutterKept ==
  ASSUME IInv, UNCHANGED vars
  PROVE  IInv'
<1>1. UNCHANGED <<channel, cache, lock, packages, installed, offer, staged, pc, job>>
  BY DEF vars
<1>2. TypeOK' /\ CacheInv'
  BY <1>1 DEF IInv, TypeOK, CacheInv
<1>3. StagedIsConfirmed'
  BY <1>1 DEF IInv, StagedIsConfirmed, Confirmed
<1>4. \A x \in Prefixes : HelperInv(x)'
  BY <1>1 DEF IInv, HelperInv
<1>5. \A q \in Probes : ProbeInv(q)'
  BY <1>1 DEF IInv, ProbeInv
<1> QED
  BY <1>2, <1>3, <1>4, <1>5 DEF IInv

-----------------------------------------------------------------------------
(* The invariant and what follows from it *)

LEMMA NextPreserves ==
  ASSUME IInv, [Next]_vars
  PROVE  IInv'
<1>1. ASSUME NEW x \in Prefixes, HelperStep(x) PROVE IInv'
  BY <1>1, ReadCacheKept, DownloadKept, CacheWritersKept, SelectForCheckKept,
     SelectForStageKept, FetchPackageKept, StagePackageKept DEF HelperStep
<1>2. ASSUME NEW q \in Probes, ProbeStep(q) PROVE IInv'
  BY <1>2, ReadMetadataKept, RequestKept, TryLockKept, ReplaceCacheKept, OpenCacheKept, ProbeExits
     DEF ProbeStep, Report
<1> QED
  BY <1>1, <1>2, PublishKept, StartCheckKept, StartStageKept, ApplyKept, StartProbeKept, StopKept,
     StutterKept DEF Next

LEMMA Invariance == Spec => []IInv
<1>1. IInv /\ [Next]_vars => IInv'
  BY NextPreserves
<1> QED
  BY InitCorrect, <1>1, PTL DEF Spec

(* Every variable has its type, and exactly the process that writes the     *)
(* cache file holds its lock.                                               *)
THEOREM TypeCorrect == Spec => []TypeOK
<1>1. IInv => TypeOK
  BY DEF IInv
<1> QED
  BY Invariance, <1>1, PTL

(* What is staged is what the user confirmed, newer than the installed      *)
(* executable and stamped as it is recorded, whatever the channel, the      *)
(* server and the caches have changed to meanwhile                          *)
(* (require_selected_candidate, validate_extracted_candidate).              *)
THEOREM StagingIsConfirmed == Spec => []StagedIsConfirmed
<1>1. IInv => StagedIsConfirmed
  BY DEF IInv
<1> QED
  BY Invariance, <1>1, PTL

(* A probe reports only what some list of the channel says to the executable*)
(* the prefix records, never an error page or the absence of a list         *)
(* (parse_probe_repodata, probe).                                           *)
THEOREM AnswersAreReal == Spec => []ProbeAnswersAreReal
<1>1. IInv => ProbeAnswersAreReal
  BY DEF IInv, ProbeInv, ProbeAnswersAreReal
<1> QED
  BY Invariance, <1>1, PTL
-----------------------------------------------------------------------------
(* select_candidate decides *)

(* Of finitely many executables there is always a newest one: it is the one *)
(* that the fewest are newer than, and the natural numbers are well-founded.*)
LEMMA NewestExists ==
  ASSUME NEW all, IsFiniteSet(all), all # {},
         \A p \in all : p.version \in Nat /\ p.build \in Nat
  PROVE  \E p \in all : \A q \in all : ~Newer(q, p)
<1> DEFINE Above(p) == {q \in all : Newer(q, p)}
           ranks == {Cardinality(Above(p)) : p \in all}
           less  == {pair \in Nat \X Nat : pair[1] < pair[2]}
<1>1. \A p \in all : IsFiniteSet(Above(p)) /\ Cardinality(Above(p)) \in Nat
  BY FS_Subset, FS_CardinalityType
<1>2. PICK n \in ranks : \A m \in ranks : <<m, n>> \notin less
  <2>1. ranks \subseteq Nat /\ ranks # {}
    BY <1>1
  <2>2. IsWellFoundedOn(less, Nat)
    BY NatLessThanWellFounded DEF OpToRel
  <2> HIDE DEF ranks, less
  <2> QED
    BY <2>1, <2>2, WFMin
<1>3. PICK p \in all : n = Cardinality(Above(p))
  OBVIOUS
<1>4. ASSUME NEW q \in all, Newer(q, p) PROVE FALSE
  <2>1. Above(q) \subseteq Above(p)
    BY <1>4 DEF Newer
  <2>2. q \in Above(p) /\ q \notin Above(q)
    BY <1>4 DEF Newer
  <2>3. Above(q) # Above(p)
    BY <2>2
  <2> HIDE DEF Above
  <2>4. Cardinality(Above(q)) < n
    BY <1>1, <1>3, <2>1, <2>3, FS_Subset
  <2>5. Cardinality(Above(q)) \in Nat /\ n \in Nat /\ Cardinality(Above(q)) \in ranks
    BY <1>1, <1>3
  <2> QED
    BY <1>2, <2>4, <2>5
<1> QED
  BY <1>4

(* What a selection owes whoever waits for it.                              *)
Decides(response, exe) ==
  /\ Newest(response, exe) # {}
  /\ \A p, q \in Newest(response, exe) :
       (p = NONE /\ q = NONE) \/ (p # NONE /\ q # NONE /\ Identity(p) = Identity(q))
  /\ NONE \in Newest(response, exe) <=> Candidates(response, exe) = {}
  /\ \A p \in Newest(response, exe) \ {NONE} :
       Newer(p, exe) /\ \A q \in Listed(response) : ~Newer(q, p)

(* Any response that lists finitely many packages has an answer; all that   *)
(* answer it are of one version and build, which no listed package exceeds, *)
(* and "nothing newer" is answered only if nothing newer is listed.         *)
LEMMA NewestDecides ==
  ASSUME NEW response \in Channels \union {Unrelated}, NEW exe \in Identities,
         IsFiniteSet(Listed(response))
  PROVE  Decides(response, exe)
<1> DEFINE all == Candidates(response, exe)
<1>1. Listed(response) \subseteq Packages
  BY Constants DEF Listed
<1>2. \A p \in Packages : p.version \in Nat /\ p.build \in Nat
  BY SelectionAssumption DEF Identity
<1>3. all \subseteq Listed(response) /\ NONE \notin all /\ \A p \in all : Newer(p, exe)
  BY <1>1, Constants DEF Candidates
<1>4. CASE all = {}
  <2>1. Newest(response, exe) = {NONE}
    BY <1>4 DEF Newest
  <2> QED
    BY <1>4, <2>1 DEF Decides
<1>5. CASE all # {}
  <2>1. Newest(response, exe) = {p \in all : \A q \in all : ~Newer(q, p)}
    BY <1>5 DEF Newest
  <2>2. IsFiniteSet(all) /\ \A p \in all : p.version \in Nat /\ p.build \in Nat
    BY <1>1, <1>2, <1>3, FS_Subset
  <2>3. Newest(response, exe) # {}
    BY <1>5, <2>1, <2>2, NewestExists
  <2>4. \A p, q \in Newest(response, exe) : Identity(p) = Identity(q)
    BY <2>1, <2>2 DEF Newer, Identity
  <2>5. ASSUME NEW p \in Newest(response, exe), NEW q \in Listed(response), Newer(q, p)
        PROVE  FALSE
    <3>1. CASE Newer(q, exe)
      BY <2>1, <2>5, <3>1 DEF Candidates
    <3>2. CASE ~Newer(q, exe)
      <4>1. /\ exe.version \in Nat /\ exe.build \in Nat
            /\ p.version \in Nat /\ p.build \in Nat /\ q.version \in Nat /\ q.build \in Nat
            /\ Newer(p, exe)
        BY <1>1, <1>2, <1>3, <2>1, SelectionAssumption
      <4> QED
        BY <2>5, <3>2, <4>1 DEF Newer
    <3> QED
      BY <3>1, <3>2
  <2> QED
    BY <1>3, <1>5, <2>1, <2>3, <2>4, <2>5 DEF Decides
<1> QED
  BY <1>4, <1>5

(* Helpers and probes select only where the selection decides.              *)
SelectionsDecide ==
  /\ \A x \in Prefixes : pc[x] = "select" => Decides(job[x].response, job[x].exe)
  /\ \A q \in Probes : pc[q] \in {"request", "cache"} =>
       /\ Decides(channel, job[q].exe)
       /\ cache # NONE => Decides(cache, job[q].exe)

(* Wherever a helper or a probe selects a package, and whatever was         *)
(* downloaded or cached, the selection decides: there is an answer, the     *)
(* answer does not depend on the order of the list but for rebuilds of one  *)
(* version and build, no listed package is newer than it, and "nothing      *)
(* newer" is said only if nothing newer is listed (select_candidate).  A    *)
(* list of the channel is finite.                                           *)
THEOREM SelectionAnswers ==
  ASSUME \A c \in Channels : IsFiniteSet(c)
  PROVE  Spec => []SelectionsDecide
<1>1. ASSUME NEW response \in Channels \union {Unrelated}, NEW exe \in Identities
      PROVE  Decides(response, exe)
  <2>1. IsFiniteSet(Listed(response))
    BY FS_EmptySet DEF Listed
  <2> QED
    BY <2>1, NewestDecides
<1>2. IInv => SelectionsDecide
  <2> SUFFICES ASSUME IInv PROVE SelectionsDecide
    OBVIOUS
  <2>1. ASSUME NEW x \in Prefixes, pc[x] = "select"
        PROVE  Decides(job[x].response, job[x].exe)
    <3>1. job[x].response \in Channels \union {Unrelated} /\ job[x].exe \in Identities
      BY <2>1, HelperFacts DEF HelperInv, HelperJob
    <3> QED
      BY <1>1, <3>1
  <2>2. ASSUME NEW q \in Probes, pc[q] \in {"request", "cache"}
        PROVE  Decides(channel, job[q].exe) /\ (cache # NONE => Decides(cache, job[q].exe))
    <3>1. /\ job[q].exe \in Identities /\ channel \in Channels
          /\ cache \in Channels \union {Unrelated, NONE}
      BY <2>2 DEF IInv, TypeOK, ProbeInv, ProbeJob
    <3> QED
      BY <1>1, <3>1
  <2> QED
    BY <2>1, <2>2 DEF SelectionsDecide
<1> QED
  BY Invariance, <1>2, PTL

-----------------------------------------------------------------------------
(* What becomes of an offer *)

(* An offer is newer than the installed executable and has a size and a     *)
(* digest, and it stands from its confirmation until it is installed.       *)
OfferInv(x) ==
  /\ offer[x] # NONE => Newer(offer[x], installed[x]) /\ offer[x].complete
  /\ pc[x] # "rest" /\ job[x].action = "stage" => offer[x] # NONE
  /\ pc[x] \in {"fetch", "validate"} => job[x].action = "stage"
  /\ staged[x] # NONE => offer[x] # NONE

OffersStand == \A x \in Prefixes : OfferInv(x)

LEMMA OfferInit == Init => OffersStand
<1> SUFFICES ASSUME Init PROVE OffersStand
  OBVIOUS
<1>1. \A x \in Prefixes : offer[x] = NONE /\ staged[x] = NONE /\ pc[x] = "rest"
  BY DEF Init, Processes
<1> QED
  BY <1>1 DEF OffersStand, OfferInv

(* A helper starts, goes on or ends, and others do not touch what is its    *)
(* prefix's.                                                                *)
LEMMA OfferKept ==
  ASSUME IInv, OffersStand, NEW x \in Prefixes, NEW l \in HelperPCs, Goto(x, l),
         \A p \in Processes \ {x} : job'[p] = job[p],
         \A y \in Prefixes \ {x} :
           installed'[y] = installed[y] /\ offer'[y] = offer[y] /\ staged'[y] = staged[y],
         OfferInv(x)'
  PROVE  OffersStand'
<1>1. \A y \in Prefixes \ {x} : y \in Processes /\ pc'[y] = pc[y] /\ job'[y] = job[y]
  BY DEF IInv, TypeOK, Goto, Processes
<1>2. \A y \in Prefixes \ {x} : OfferInv(y)'
  BY <1>1 DEF OffersStand, OfferInv
<1> QED
  BY <1>2 DEF OffersStand

(* A helper that goes on, or exits, without a new offer.                    *)
LEMMA OfferOfHelper ==
  ASSUME IInv, OffersStand, NEW x \in Prefixes, pc[x] # "rest", UNCHANGED <<installed, offer>>,
         \/ staged' = staged
         \/ pc[x] = "validate" /\ \A y \in Prefixes \ {x} : staged'[y] = staged[y],
         \/ Exits(x)
         \/ /\ \E l \in HelperPCs \ {"rest"} :
                 Goto(x, l) /\ (l \in {"fetch", "validate"} => job[x].action = "stage")
            /\ \E j : job' = [job EXCEPT ![x] = j] /\ j.action = job[x].action
  PROVE  OffersStand'
<1>1. x \in Processes /\ pc[x] \in HelperPCs /\ OfferInv(x)
  BY HelperFacts DEF OffersStand
<1>2. PICK l \in HelperPCs : Goto(x, l)
  BY DEF Exits, HelperPCs
<1>3. \A p \in Processes \ {x} : job'[p] = job[p]
  BY HelperFacts DEF Exits
<1>4. \/ pc'[x] = "rest"
      \/ /\ pc'[x] # "rest" /\ job'[x].action = job[x].action
         /\ pc'[x] \in {"fetch", "validate"} => job[x].action = "stage"
  <2>1. \A m : Goto(x, m) => pc'[x] = m
    BY <1>1 DEF Goto, IInv, TypeOK
  <2>2. \A j : job' = [job EXCEPT ![x] = j] => job'[x] = j
    BY HelperFacts
  <2> QED
    BY <2>1, <2>2 DEF Exits
<1>5. OfferInv(x)'
  BY <1>1, <1>4 DEF OfferInv
<1> QED
  BY <1>2, <1>3, <1>5, OfferKept

(* The steps of a helper but the one that makes an offer.                   *)
LEMMA HelperStands ==
  ASSUME IInv, OffersStand, NEW x \in Prefixes, HelperStep(x), ~SelectForCheck(x)
  PROVE  OffersStand'
<1>1. /\ pc[x] # "rest" /\ job[x] \in HelperJob /\ OfferInv(x)
      /\ "select" \in HelperPCs \ {"rest"} /\ "lock" \in HelperPCs \ {"rest"}
      /\ "persist" \in HelperPCs \ {"rest"} /\ "remove" \in HelperPCs \ {"rest"}
      /\ "fetch" \in HelperPCs \ {"rest"} /\ "validate" \in HelperPCs \ {"rest"}
  <2>1. pc[x] # "rest"
    BY DEF HelperStep, ReadCache, Download, LockCache, RemoveCache, PersistCache, SelectForStage,
           FetchPackage, StagePackage
  <2> QED
    BY <2>1, HelperFacts DEF OffersStand, HelperPCs
<1>2. \A value : Note(x, "response", value) =>
        \E j : job' = [job EXCEPT ![x] = j] /\ j.action = job[x].action
  BY <1>1 DEF Note, HelperJob
<1>3. job' = job => \E j : job' = [job EXCEPT ![x] = j] /\ j.action = job[x].action
  BY HelperFacts
<1>4. CASE ReadCache(x)
  BY <1>1, <1>2, <1>4, OfferOfHelper DEF ReadCache
<1>5. CASE Download(x)
  BY <1>1, <1>2, <1>5, OfferOfHelper DEF Download
<1>6. CASE LockCache(x)
  <2>1. \E l \in {"remove", "persist"} : Goto(x, l)
    BY <1>6 DEF LockCache
  <2> QED
    BY <1>1, <1>3, <1>6, <2>1, OfferOfHelper DEF LockCache
<1>7. CASE RemoveCache(x)
  BY <1>1, <1>3, <1>7, OfferOfHelper DEF RemoveCache
<1>8. CASE PersistCache(x)
  BY <1>1, <1>3, <1>8, OfferOfHelper DEF PersistCache
<1>9. CASE SelectForStage(x)
  <2>1. ASSUME NEW p,
               job' = [job EXCEPT ![x].response = NONE, ![x].candidate = p], Goto(x, "fetch")
        PROVE  OffersStand'
    <3>1. \E j : job' = [job EXCEPT ![x] = j] /\ j.action = job[x].action
      <4> DEFINE j == [job[x] EXCEPT !.response = NONE, !.candidate = p]
      <4>1. job' = [job EXCEPT ![x] = j] /\ j.action = job[x].action
        BY <1>1, <2>1, HelperFacts DEF HelperJob
      <4> QED
        BY <4>1
    <3>2. job[x].action = "stage" /\ UNCHANGED <<installed, offer, staged>>
      BY <1>9 DEF SelectForStage
    <3> QED
      BY <1>1, <2>1, <3>1, <3>2, OfferOfHelper
  <2>2. CASE Exits(x)
    BY <1>1, <1>9, <2>2, OfferOfHelper DEF SelectForStage
  <2> QED
    BY <1>9, <2>1, <2>2 DEF SelectForStage
<1>10. CASE FetchPackage(x)
  <2>1. /\ pc[x] = "fetch" /\ UNCHANGED <<installed, offer, staged>>
        /\ Exits(x) \/ (Goto(x, "validate") /\ job' = job)
    BY <1>10 DEF FetchPackage
  <2>2. job[x].action = "stage"
    BY <1>1, <2>1 DEF OfferInv
  <2> QED
    BY <1>1, <1>3, <2>1, <2>2, OfferOfHelper
<1>11. CASE StagePackage(x)
  <2>1. /\ pc[x] = "validate" /\ UNCHANGED <<installed, offer>> /\ Exits(x)
        /\ \A y \in Prefixes \ {x} : staged'[y] = staged[y]
    BY <1>11, HelperFacts DEF StagePackage
  <2> QED
    BY <1>1, <2>1, OfferOfHelper
<1> QED
  BY <1>4, <1>5, <1>6, <1>7, <1>8, <1>9, <1>10, <1>11 DEF HelperStep

(* A check makes an offer only of a package it selected.                    *)
LEMMA CheckStands ==
  ASSUME IInv, OffersStand, NEW x \in Prefixes, SelectForCheck(x)
  PROVE  OffersStand'
<1>1. /\ pc[x] = "select" /\ job[x].action = "check" /\ Exits(x)
      /\ UNCHANGED <<installed, staged>>
      /\ job[x].exe = installed[x] /\ staged[x] = NONE
      /\ job[x].response \in Channels \union {Unrelated}
      /\ OfferInv(x)
  BY HelperFacts DEF SelectForCheck, HelperInv, HelperJob, OffersStand
<1>2. pc'[x] = "rest" /\ "rest" \in HelperPCs /\ Goto(x, "rest")
      /\ \A p \in Processes \ {x} : job'[p] = job[p]
  BY <1>1, HelperFacts DEF Exits, Goto, IInv, TypeOK, HelperPCs
<1>3. \A y \in Prefixes \ {x} : offer'[y] = offer[y]
  BY HelperFacts DEF SelectForCheck
<1>4. offer'[x] # NONE => Newer(offer'[x], installed[x]) /\ offer'[x].complete
  <2>1. CASE UNCHANGED offer
    BY <1>1, <2>1 DEF OfferInv
  <2>2. ASSUME NEW p \in Newest(job[x].response, job[x].exe), offer' = [offer EXCEPT ![x] = p],
               Selectable(job[x].response, job[x].exe)
        PROVE  offer'[x] # NONE => Newer(offer'[x], installed[x]) /\ offer'[x].complete
    <3>1. offer'[x] = p
      BY <2>2, HelperFacts
    <3>2. p # NONE => p \in Candidates(job[x].response, job[x].exe)
      BY <2>2 DEF Newest
    <3> QED
      BY <1>1, <2>2, <3>1, <3>2 DEF Candidates, Selectable
  <2> QED
    BY <2>1, <2>2 DEF SelectForCheck
<1>5. OfferInv(x)'
  BY <1>1, <1>2, <1>4 DEF OfferInv
<1> QED
  BY <1>1, <1>2, <1>3, <1>5, OfferKept

(* Steps that leave every prefix and every helper as it is.                 *)
LEMMA OthersStand ==
  ASSUME OffersStand, UNCHANGED <<installed, offer, staged>>,
         \A x \in Prefixes : pc'[x] = pc[x] /\ job'[x] = job[x]
  PROVE  OffersStand'
BY DEF OffersStand, OfferInv

(* A probe has nothing of a prefix.                                         *)
LEMMA ProbeStands ==
  ASSUME IInv, OffersStand, NEW q \in Probes, StartProbe(q) \/ ProbeStep(q) \/ Exits(q),
         UNCHANGED <<installed, offer, staged>>
  PROVE  OffersStand'
<1>1. \A x \in Prefixes : x \in Processes /\ x # q
  BY Constants DEF Processes
<1>2. q \in Processes /\ job \in [Processes -> HelperJob \union StartedJob \union ProbeJob \union {NONE}]
      /\ pc \in [Processes -> HelperPCs \union ProbePCs]
  BY ProbeFacts DEF IInv, TypeOK
<1>3. (\E l : Goto(q, l)) /\ (\E j : job' = [job EXCEPT ![q] = j])
  BY <1>2 DEF StartProbe, ProbeStep, ReadMetadata, Request, TryLock, ReplaceCache, OpenCache, Report,
     Exits, Note
<1>4. \A x \in Prefixes : pc'[x] = pc[x] /\ job'[x] = job[x]
  BY <1>1, <1>2, <1>3 DEF Goto
<1> QED
  BY <1>4, OthersStand

(* What a step installs is what was offered and confirmed, and is newer.    *)
InstallsConfirmed ==
  \A x \in Prefixes : installed'[x] # installed[x] =>
    /\ offer[x] # NONE /\ installed'[x] = Identity(offer[x])
    /\ Newer(installed'[x], installed[x])

(* The staged package is the offered one, as they have the same digest.     *)
LEMMA ApplyInstalls ==
  ASSUME IInv, OffersStand, NEW x \in Prefixes, Apply(x)
  PROVE  OffersStand' /\ InstallsConfirmed
<1>1. /\ pc[x] = "rest" /\ staged[x] # NONE
      /\ installed' = [installed EXCEPT ![x] = staged[x].as]
      /\ offer' = [offer EXCEPT ![x] = NONE]
      /\ staged' = [staged EXCEPT ![x] = NONE] /\ UNCHANGED <<pc, job>>
  BY DEF Apply
<1>2. /\ installed'[x] = staged[x].as /\ offer'[x] = NONE /\ staged'[x] = NONE /\ pc'[x] = "rest"
      /\ \A y \in Prefixes \ {x} :
           installed'[y] = installed[y] /\ offer'[y] = offer[y] /\ staged'[y] = staged[y]
  BY <1>1, HelperFacts
<1>3. OffersStand'
  BY <1>1, <1>2 DEF OffersStand, OfferInv
<1>4. offer[x] \in Packages /\ offer[x] # NONE /\ Newer(offer[x], installed[x])
  BY <1>1, HelperFacts DEF OffersStand, OfferInv
<1>5. staged[x].content = offer[x]
  <2>1. staged[x].content \in Packages /\ staged[x].content.sha = offer[x].sha
    BY <1>1, HelperFacts DEF Confirmed
  <2> QED
    BY <1>4, <2>1, Constants
<1>6. staged[x].as = Identity(offer[x])
  BY <1>1, <1>5, HelperFacts DEF Confirmed
<1>7. Newer(staged[x].as, installed[x])
  BY <1>4, <1>6 DEF Newer, Identity
<1> QED
  BY <1>2, <1>3, <1>4, <1>6, <1>7 DEF InstallsConfirmed

(* A helper starts without an offer of its own, or with the confirmed one.  *)
LEMMA StartsStand ==
  ASSUME IInv, OffersStand, NEW x \in Prefixes, StartCheck(x) \/ StartStage(x)
  PROVE  OffersStand'
<1>1. OfferInv(x) /\ x \in Processes
  BY HelperFacts DEF OffersStand
<1>2. CASE StartCheck(x)
  <2>1. /\ pc[x] = "rest" /\ installed' = installed
        /\ offer'[x] = NONE /\ staged'[x] = NONE
        /\ \A y \in Prefixes \ {x} : offer'[y] = offer[y] /\ staged'[y] = staged[y]
    BY <1>2, HelperFacts DEF StartCheck
  <2>2. /\ \E l \in {"rest", "load"} : Goto(x, l) /\ pc'[x] = l
        /\ pc'[x] = "rest" \/ job'[x].action = "check"
        /\ \A p \in Processes \ {x} : job'[p] = job[p]
    <3>1. CASE UNCHANGED <<pc, job>>
      BY <1>1, <2>1, <3>1 DEF Goto, IInv, TypeOK
    <3>2. ASSUME NEW offline \in BOOLEAN, Goto(x, "load"),
                 job' = [job EXCEPT ![x] = [action |-> "check", exe |-> installed[x],
                           offline |-> offline, response |-> NONE, candidate |-> NONE]]
          PROVE  pc'[x] = "load" /\ job'[x].action = "check"
                 /\ \A p \in Processes \ {x} : job'[p] = job[p]
      BY <1>1, <3>2, HelperFacts DEF Goto, IInv, TypeOK
    <3> QED
      BY <1>2, <3>1, <3>2 DEF StartCheck
  <2>3. OfferInv(x)'
    BY <2>1, <2>2 DEF OfferInv
  <2> QED
    BY <2>1, <2>2, <2>3, OfferKept DEF HelperPCs
<1>3. CASE StartStage(x)
  <2>1. /\ offer[x] # NONE /\ Goto(x, "load") /\ UNCHANGED <<installed, offer>>
        /\ staged'[x] = NONE /\ \A y \in Prefixes \ {x} : staged'[y] = staged[y]
        /\ \A p \in Processes \ {x} : job'[p] = job[p]
    BY <1>3, HelperFacts DEF StartStage
  <2>2. pc'[x] = "load"
    BY <1>1, <2>1 DEF Goto, IInv, TypeOK
  <2>3. OfferInv(x)'
    BY <1>1, <2>1, <2>2 DEF OfferInv
  <2> QED
    BY <2>1, <2>3, OfferKept DEF HelperPCs
<1> QED
  BY <1>2, <1>3

(* Every step keeps the offers and installs only what was confirmed.        *)
LEMMA OfferNext ==
  ASSUME IInv, OffersStand, [Next]_vars
  PROVE  OffersStand' /\ InstallsConfirmed
<1>1. ASSUME NEW x \in Prefixes, HelperStep(x) \/ StartCheck(x) \/ StartStage(x)
      PROVE  OffersStand' /\ InstallsConfirmed
  <2>1. UNCHANGED installed
    BY <1>1 DEF HelperStep, ReadCache, Download, LockCache, RemoveCache, PersistCache, SelectForCheck,
           SelectForStage, FetchPackage, StagePackage, StartCheck, StartStage
  <2> QED
    BY <1>1, <2>1, HelperStands, CheckStands, StartsStand DEF InstallsConfirmed
<1>2. ASSUME NEW x \in Prefixes, Apply(x) PROVE OffersStand' /\ InstallsConfirmed
  BY <1>2, ApplyInstalls
<1>3. ASSUME NEW q \in Probes, StartProbe(q) \/ ProbeStep(q)
      PROVE  OffersStand' /\ InstallsConfirmed
  <2>1. UNCHANGED <<installed, offer, staged>>
    BY <1>3 DEF StartProbe, ProbeStep, ReadMetadata, Request, TryLock, ReplaceCache, OpenCache, Report
  <2> QED
    BY <1>3, <2>1, ProbeStands DEF InstallsConfirmed
<1>4. ASSUME NEW p \in Processes, Stop(p) PROVE OffersStand' /\ InstallsConfirmed
  <2>1. Exits(p) /\ pc[p] # "rest" /\ UNCHANGED <<installed, offer, staged>>
    BY <1>4 DEF Stop
  <2> QED
    BY <2>1, ProbeStands, OfferOfHelper DEF Processes, InstallsConfirmed
<1>5. ASSUME Publish \/ UNCHANGED vars PROVE OffersStand' /\ InstallsConfirmed
  <2>1. UNCHANGED <<installed, offer, staged, pc, job>>
    BY <1>5 DEF Publish, vars
  <2> QED
    BY <2>1, OthersStand DEF InstallsConfirmed
<1> QED
  BY <1>1, <1>2, <1>3, <1>4, <1>5 DEF Next

(* What is offered is newer than the installed executable and has a size    *)
(* and a digest, for as long as it is offered; and a stage helper at work,  *)
(* and a staged executable, have their offer (check_update, stage_update).  *)
THEOREM OffersAreGood == Spec => []OffersStand
<1>1. IInv /\ OffersStand /\ [Next]_vars => OffersStand'
  BY OfferNext
<1> QED
  BY Invariance, OfferInit, <1>1, PTL DEF Spec

(* An update never goes back: what replaces the installed executable is     *)
(* newer, and it is the version and build that was offered and confirmed,   *)
(* whatever the channel, the server and the caches do between the check,    *)
(* the confirmation, the download and the installation                      *)
(* (select_candidate, require_selected_candidate).                          *)
THEOREM UpdatesGoForward == Spec => [][InstallsConfirmed]_vars
<1>1. IInv /\ OffersStand /\ [Next]_vars => [InstallsConfirmed]_vars
  BY OfferNext
<1> QED
  BY Invariance, OffersAreGood, <1>1, PTL DEF Spec

=============================================================================
