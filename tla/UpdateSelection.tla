-------------------------- MODULE UpdateSelection ---------------------------
(***************************************************************************)
(* How an update is found and fetched (runtime_update.rs): repodata of the *)
(* channel with its cache file, selection of a package, confirmation by    *)
(* its digest, the package cache, and the validation of what is staged.    *)
(*                                                                         *)
(* The caches belong to the user: the prefixes share them.  The check and  *)
(* stage helpers of one prefix run one at a time, their coordinator holds  *)
(* a lock; probes of a notification hook take no coordination lock.  The   *)
(* cache file has a lock of its own that check and stage wait for and a    *)
(* probe only tries.  Nobody reads the cache under a lock.                 *)
(*                                                                         *)
(* The channel is a remote one; a file:// channel has no cache.            *)
(***************************************************************************)
EXTENDS Naturals

CONSTANTS
  Prefixes,    \* managed prefixes, each with its coordinator
  External,    \* those whose executable somebody else manages
  Probes,      \* notification hooks
  Packages,    \* [version, build, sha, complete, sound]: what a channel may list
  Channels,    \* the sets of packages the channel may list at some time
  Identities,  \* [version, build] of executables
  First,       \* the executable that is installed initially
  Unrelated,   \* a JSON response without package maps
  Garbage,     \* a response that is not JSON
  NONE

Processes == Prefixes \union Probes
Identity(p) == [version |-> p.version, build |-> p.build]

ASSUME SelectionAssumption ==
  /\ Prefixes \intersect Probes = {}
  /\ External \subseteq Prefixes
  /\ Identities \subseteq [version : Nat, build : Nat]
  /\ First \in Identities
  /\ \A p \in Packages : Identity(p) \in Identities
  /\ \A p, q \in Packages : p.sha = q.sha => p = q
  /\ \A c \in Channels : c \subseteq Packages
  /\ Unrelated \notin Channels /\ Garbage \notin Channels \union {Unrelated}
  /\ NONE \notin Processes /\ NONE \notin Packages
  /\ NONE \notin Channels \union {Unrelated}

VARIABLES
  channel,    \* what the channel lists
  cache,      \* the cached repodata, or NONE
  lock,       \* holder of the lock of the cache file
  packages,   \* the package cache: [dir, content]
  installed,  \* of each prefix: the executable its metadata records
  offer,      \* of each prefix: the package the coordinator was offered
  staged,     \* of each prefix: the staged executable
  pc,         \* where each process is
  job         \* what each process works on

vars == <<channel, cache, lock, packages, installed, offer, staged, pc, job>>

Init ==
  /\ channel \in Channels
  /\ cache = NONE /\ lock = NONE
  /\ packages = {}
  /\ installed = [x \in Prefixes |-> First]
  /\ offer = [x \in Prefixes |-> NONE]
  /\ staged = [x \in Prefixes |-> NONE]
  /\ pc = [p \in Processes |-> "rest"]
  /\ job = [p \in Processes |-> NONE]

Goto(p, label) == pc' = [pc EXCEPT ![p] = label]
Note(p, field, value) == job' = [job EXCEPT ![p][field] = value]

(* The helper exits, and drops the lock if it has it.                       *)
Exits(p) ==
  /\ Goto(p, "rest")
  /\ job' = [job EXCEPT ![p] = NONE]
  /\ lock' = IF lock = p THEN NONE ELSE lock

-----------------------------------------------------------------------------
(* select_candidate *)

(* The pairs (version, build number) are ordered lexicographically.         *)
Newer(p, q) ==
  \/ p.version > q.version
  \/ p.version = q.version /\ p.build > q.build

(* RepoData defaults absent package maps to empty.                          *)
Listed(response) == IF response = Unrelated THEN {} ELSE response

Candidates(response, exe) == {p \in Listed(response) : Newer(p, exe)}

(* A newer package without size or SHA-256 is an error.                     *)
Selectable(response, exe) == \A p \in Candidates(response, exe) : p.complete

(* Of several of the same pair, repodata order decides.                     *)
Newest(response, exe) ==
  LET all == Candidates(response, exe)
  IN  IF all = {} THEN {NONE} ELSE {p \in all : \A q \in all : ~Newer(q, p)}

-----------------------------------------------------------------------------
(* The check and stage helpers *)

(* A check discards what is still staged and then wants to be retried.      *)
StartCheck(x) ==
  /\ pc[x] = "rest"
  /\ offer' = [offer EXCEPT ![x] = NONE]
  /\ staged' = [staged EXCEPT ![x] = NONE]
  /\ IF staged[x] # NONE
       THEN UNCHANGED <<pc, job>>
       ELSE /\ Goto(x, "load")
            /\ \E offline \in BOOLEAN :
                 job' = [job EXCEPT ![x] = [action |-> "check", exe |-> installed[x],
                           offline |-> offline, response |-> NONE, candidate |-> NONE]]
  /\ UNCHANGED <<channel, cache, lock, packages, installed>>

(* The user confirmed the offer, whose digest the stage helper is given.  A *)
(* stage helper discards an older candidate and goes on, unless the         *)
(* installation is an external one.                                         *)
StartStage(x) ==
  /\ pc[x] = "rest" /\ x \notin External
  /\ offer[x] # NONE
  /\ staged' = [staged EXCEPT ![x] = NONE]
  /\ Goto(x, "load")
  /\ \E offline \in BOOLEAN :
       job' = [job EXCEPT ![x] = [action |-> "stage", exe |-> installed[x],
                 offline |-> offline, response |-> NONE, candidate |-> NONE]]
  /\ UNCHANGED <<channel, cache, lock, packages, installed, offer>>

(* What a request gets: the channel's repodata, somebody else's JSON, or    *)
(* nothing that parses.                                                     *)
Responses == {channel, Unrelated, Garbage}

(* load_repodata: offline from the cache ...                                *)
ReadCache(x) ==
  /\ pc[x] = "load" /\ job[x].offline
  /\ IF cache = NONE
       THEN Exits(x)
       ELSE Note(x, "response", cache) /\ Goto(x, "select") /\ UNCHANGED lock
  /\ UNCHANGED <<channel, cache, packages, installed, offer, staged>>

(* ... and online from the channel; what parses is cached before a package  *)
(* is selected from it.                                                     *)
Download(x) ==
  /\ pc[x] = "load" /\ ~job[x].offline
  /\ \E response \in Responses :
       IF response = Garbage
         THEN Exits(x)
         ELSE Note(x, "response", response) /\ Goto(x, "lock") /\ UNCHANGED lock
  /\ UNCHANGED <<channel, cache, packages, installed, offer, staged>>

(* write_cache_file: take the lock, write the new file under a temporary    *)
(* name and look whether there is an old one, ...                           *)
LockCache(x) ==
  /\ pc[x] = "lock"
  /\ lock = NONE
  /\ lock' = x
  /\ Goto(x, IF cache # NONE THEN "remove" ELSE "persist")
  /\ UNCHANGED <<channel, cache, packages, installed, offer, staged, job>>

(* ... remove it, which fails if it is gone, ...                            *)
RemoveCache(x) ==
  /\ pc[x] = "remove"
  /\ IF cache = NONE
       THEN Exits(x) /\ UNCHANGED cache
       ELSE cache' = NONE /\ Goto(x, "persist") /\ UNCHANGED <<lock, job>>
  /\ UNCHANGED <<channel, packages, installed, offer, staged>>

(* ... rename the new one, and drop the lock.                               *)
PersistCache(x) ==
  /\ pc[x] = "persist"
  /\ cache' = job[x].response
  /\ lock' = NONE
  /\ Goto(x, "select")
  /\ UNCHANGED <<channel, packages, installed, offer, staged, job>>

(* resolve_candidate for a check.  The answer is the coordinator's offer,   *)
(* or just news for a package manager.                                      *)
SelectForCheck(x) ==
  /\ pc[x] = "select" /\ job[x].action = "check"
  /\ IF Selectable(job[x].response, job[x].exe) /\ x \notin External
       THEN \E p \in Newest(job[x].response, job[x].exe) :
              offer' = [offer EXCEPT ![x] = p]
       ELSE UNCHANGED offer
  /\ Exits(x)
  /\ UNCHANGED <<channel, cache, packages, installed, staged>>

(* Mutation of IsConfirmed: the newest package will do.                     *)
IsAvailable(x, p) == p # NONE

(* require_selected_candidate                                               *)
IsConfirmed(x, p) == p # NONE /\ p.sha = offer[x].sha

(* The same for a stage helper: it must still be the confirmed package.     *)
SelectForStage(x) ==
  /\ pc[x] = "select" /\ job[x].action = "stage"
  /\ \E p \in Newest(job[x].response, job[x].exe) :
       IF Selectable(job[x].response, job[x].exe) /\ IsConfirmed(x, p)
         THEN /\ job' = [job EXCEPT ![x].response = NONE, ![x].candidate = p]
              /\ Goto(x, "fetch")
              /\ UNCHANGED lock
         ELSE Exits(x)
  /\ UNCHANGED <<channel, cache, packages, installed, offer, staged>>

(* fetch_package_into names the directory by the digest and the size.       *)
CacheDir(p) == p.sha

Cached(p) == {e.content : e \in {d \in packages : d.dir = CacheDir(p)}}

(* What the server has under the file name of a package, which does not     *)
(* contain its digest.                                                      *)
Served(p) == {q \in Packages : Identity(q) = Identity(p)}

(* fetch_package: a cached package is used; a downloaded one is cached when *)
(* it has the size and the digest of repodata.                              *)
FetchPackage(x) ==
  LET p == job[x].candidate IN
  /\ pc[x] = "fetch"
  /\ \/ /\ Cached(p) # {}
        /\ Goto(x, "validate")
        /\ UNCHANGED <<packages, lock, job>>
     \/ /\ Cached(p) = {} /\ ~job[x].offline
        /\ \E q \in Served(p) :
             IF q.sha = p.sha
               THEN /\ packages' = packages \union {[dir |-> CacheDir(p), content |-> q]}
                    /\ Goto(x, "validate") /\ UNCHANGED <<lock, job>>
               ELSE Exits(x) /\ UNCHANGED packages
     \/ /\ Cached(p) = {} /\ job[x].offline
        /\ Exits(x) /\ UNCHANGED packages
  /\ UNCHANGED <<channel, cache, installed, offer, staged>>

(* validate_extracted_candidate: the index is that of the record, and the   *)
(* executable in the package is stamped accordingly.                        *)
Validated(p, content) == Identity(content) = Identity(p) /\ content.sound

(* stage_candidate gets the version and build number of the record.         *)
StagePackage(x) ==
  /\ pc[x] = "validate"
  /\ \E content \in Cached(job[x].candidate) :
       staged' = IF Validated(job[x].candidate, content)
                   THEN [staged EXCEPT ![x] =
                           [content |-> content, as |-> Identity(job[x].candidate)]]
                   ELSE staged
  /\ Exits(x)
  /\ UNCHANGED <<channel, cache, packages, installed, offer>>

-----------------------------------------------------------------------------
(* The probe *)

(* It was started from the executable that was installed then.              *)
StartProbe(q) ==
  /\ pc[q] = "rest"
  /\ \E x \in Prefixes : job' = [job EXCEPT ![q] = [prefix |-> x, exe |-> installed[x]]]
  /\ Goto(q, "metadata")
  /\ UNCHANGED <<channel, cache, lock, packages, installed, offer, staged>>

(* An older executable must not advertise updates for a newer prefix.       *)
Current(q, recorded) == job[q].exe = recorded

ReadMetadata(q) ==
  LET recorded == installed[job[q].prefix] IN
  /\ pc[q] = "metadata"
  /\ IF Current(q, recorded)
       THEN /\ job' = [job EXCEPT ![q] = [exe |-> @.exe, recorded |-> recorded,
                                          response |-> NONE, answer |-> NONE]]
            /\ \E offline \in BOOLEAN : Goto(q, IF offline THEN "cache" ELSE "request")
            /\ UNCHANGED lock
       ELSE Exits(q)
  /\ UNCHANGED <<channel, cache, packages, installed, offer, staged>>

(* Mutation of Usable: absent package maps are taken for empty ones.        *)
UsableJson(response, exe) == response # Garbage /\ Selectable(response, exe)

(* parse_probe_repodata insists on a package map; then select_candidate.    *)
Usable(response, exe) ==
  /\ response \notin {Garbage, Unrelated}
  /\ Selectable(response, exe)

(* probe_channel: what arrives in time and is usable is the answer, which   *)
(* is cached if nobody else holds the lock.                                 *)
Request(q) ==
  /\ pc[q] = "request"
  /\ \E response \in Responses :
       IF Usable(response, job[q].exe)
         THEN /\ \E p \in Newest(response, job[q].exe) :
                   job' = [job EXCEPT ![q].response = response, ![q].answer = p]
              /\ Goto(q, "try")
         ELSE Goto(q, "cache") /\ UNCHANGED job
  /\ UNCHANGED <<channel, cache, lock, packages, installed, offer, staged>>

(* Mutation of TryLock: the notification waits for a cache writer.          *)
WaitForLock(q) ==
  /\ pc[q] = "try"
  /\ lock = NONE
  /\ lock' = q /\ Goto(q, "replace") /\ UNCHANGED job
  /\ UNCHANGED <<channel, cache, packages, installed, offer, staged>>

(* try_write_cache_file                                                     *)
TryLock(q) ==
  /\ pc[q] = "try"
  /\ IF lock = NONE
       THEN lock' = q /\ Goto(q, "replace") /\ UNCHANGED job
       ELSE Note(q, "response", NONE) /\ Goto(q, "report") /\ UNCHANGED lock
  /\ UNCHANGED <<channel, cache, packages, installed, offer, staged>>

(* A failed write is ignored.                                               *)
ReplaceCache(q) ==
  /\ pc[q] = "replace"
  /\ cache' \in {cache, job[q].response}
  /\ lock' = NONE
  /\ Note(q, "response", NONE) /\ Goto(q, "report")
  /\ UNCHANGED <<channel, packages, installed, offer, staged>>

(* The request failed, or the probe is offline.  Without a usable answer it *)
(* reports that the state of updates is unknown.                            *)
OpenCache(q) ==
  /\ pc[q] = "cache"
  /\ IF cache # NONE /\ Usable(cache, job[q].exe)
       THEN /\ \E p \in Newest(cache, job[q].exe) : Note(q, "answer", p)
            /\ Goto(q, "report") /\ UNCHANGED lock
       ELSE Exits(q)
  /\ UNCHANGED <<channel, cache, packages, installed, offer, staged>>

Report(q) ==
  /\ pc[q] = "report"
  /\ Exits(q)
  /\ UNCHANGED <<channel, cache, packages, installed, offer, staged>>

-----------------------------------------------------------------------------
(* Outside of these helpers *)

(* The channel lists other packages.                                        *)
Publish ==
  /\ channel' \in Channels \ {channel}
  /\ UNCHANGED <<cache, lock, packages, installed, offer, staged, pc, job>>

(* The coordinator applies what is staged (ExecutableUpdate).               *)
Apply(x) ==
  /\ pc[x] = "rest" /\ staged[x] # NONE
  /\ installed' = [installed EXCEPT ![x] = staged[x].as]
  /\ staged' = [staged EXCEPT ![x] = NONE]
  /\ offer' = [offer EXCEPT ![x] = NONE]
  /\ UNCHANGED <<channel, cache, lock, packages, pc, job>>

(* A helper is killed, or a call of it fails.                               *)
Stop(p) ==
  /\ pc[p] # "rest"
  /\ Exits(p)
  /\ UNCHANGED <<channel, cache, packages, installed, offer, staged>>

HelperStep(x) ==
  \/ ReadCache(x) \/ Download(x) \/ LockCache(x) \/ RemoveCache(x) \/ PersistCache(x)
  \/ SelectForCheck(x) \/ SelectForStage(x) \/ FetchPackage(x)
  \/ StagePackage(x)

ProbeStep(q) ==
  \/ ReadMetadata(q) \/ Request(q) \/ TryLock(q) \/ ReplaceCache(q) \/ OpenCache(q)
  \/ Report(q)

Next ==
  \/ Publish
  \/ \E x \in Prefixes : StartCheck(x) \/ StartStage(x) \/ HelperStep(x) \/ Apply(x)
  \/ \E q \in Probes : StartProbe(q) \/ ProbeStep(q)
  \/ \E p \in Processes : Stop(p)

Spec == Init /\ [][Next]_vars

(* A probe runs; nothing is assumed of those that hold the lock.            *)
FairSpec == Spec /\ \A q \in Probes : WF_vars(ProbeStep(q))

-----------------------------------------------------------------------------
(* Properties *)

Confirmed(x) ==
  LET content == staged[x].content
  IN  /\ content.sha = offer[x].sha
      /\ Newer(content, installed[x])
      /\ content.sound /\ staged[x].as = Identity(content)

(* What is staged is the package the user confirmed, with its digest, it is *)
(* newer than the installed executable, and it is stamped with the version  *)
(* it is recorded as: whatever the channel and the server have changed      *)
(* between check, stage and download, and whatever the package cache has    *)
(* from earlier (require_selected_candidate, fetch_package_into,            *)
(* validate_extracted_candidate).                                           *)
StagedIsConfirmed == \A x \in Prefixes : staged[x] # NONE => Confirmed(x)

(* "An unrelated JSON error response must not be mistaken for a channel     *)
(* with no newer packages", also when a check has cached one, and "an older *)
(* executable must not advertise updates for a newer prefix" (comments of   *)
(* parse_probe_repodata and probe): every answer other than "unknown" is    *)
(* right for the prefix's metadata and for some repodata of the channel.    *)
ProbeAnswersAreReal ==
  \A q \in Probes : pc[q] = "report" =>
    \E listed \in Channels : job[q].answer \in Newest(listed, job[q].recorded)

(* "Cache writes are best effort and never wait for another writer"         *)
(* (runtime-cli.md): a probe ends even if the holder of the cache lock      *)
(* never goes on.                                                           *)
ProbeEnds == \A q \in Probes : pc[q] # "rest" ~> pc[q] = "rest"

-----------------------------------------------------------------------------
(* Why they hold: the inductive invariant *)

HelperPCs ==
  {"rest", "load", "lock", "remove", "persist", "select", "fetch", "validate"}
ProbePCs == {"rest", "metadata", "request", "try", "replace", "cache", "report"}
Locked == {"remove", "persist", "replace"}

HelperJob ==
  [action : {"check", "stage"}, exe : Identities, offline : BOOLEAN,
   response : Channels \union {Unrelated, NONE}, candidate : Packages \union {NONE}]
StartedJob == [prefix : Prefixes, exe : Identities]
ProbeJob ==
  [exe : Identities, recorded : Identities, response : Channels \union {NONE},
   answer : Packages \union {NONE}]

(* Types, and that exactly the process at a place under the lock holds it.  *)
TypeOK ==
  /\ channel \in Channels
  /\ cache \in Channels \union {Unrelated, NONE}
  /\ lock \in Processes \union {NONE}
  /\ packages \subseteq [dir : {CacheDir(p) : p \in Packages}, content : Packages]
  /\ installed \in [Prefixes -> Identities]
  /\ offer \in [Prefixes -> Packages \union {NONE}]
  /\ staged \in [Prefixes -> [content : Packages, as : Identities] \union {NONE}]
  /\ pc \in [Processes -> HelperPCs \union ProbePCs]
  /\ job \in [Processes -> HelperJob \union StartedJob \union ProbeJob \union {NONE}]
  /\ \A p \in Processes : lock = p <=> pc[p] \in Locked

(* A directory of the package cache holds what its name says.               *)
CacheInv == \A e \in packages : e.dir = CacheDir(e.content)

(* While a helper runs its prefix is not updated and has nothing staged; it *)
(* selects from a response, and only fetches what was confirmed.            *)
HelperInv(x) ==
  /\ pc[x] \in HelperPCs
  /\ pc[x] # "rest" => job[x] \in HelperJob /\ job[x].exe = installed[x] /\ staged[x] = NONE
  /\ pc[x] \in {"lock", "remove", "persist", "select"} => job[x].response # NONE
  /\ pc[x] \in {"fetch", "validate"} =>
       /\ job[x].candidate # NONE /\ job[x].candidate.sha = offer[x].sha
       /\ Newer(job[x].candidate, installed[x])

(* A probe asks for the executable the metadata recorded, and what it has   *)
(* got was selected from a list of the channel.                             *)
ProbeInv(q) ==
  /\ pc[q] \in ProbePCs
  /\ pc[q] = "metadata" => job[q] \in StartedJob
  /\ pc[q] \in {"request", "try", "replace", "cache", "report"} =>
       job[q] \in ProbeJob /\ job[q].exe = job[q].recorded
  /\ pc[q] \in {"try", "replace"} => job[q].response # NONE
  /\ pc[q] \in {"try", "replace", "report"} =>
       \E listed \in Channels : job[q].answer \in Newest(listed, job[q].recorded)

IInv ==
  /\ TypeOK /\ CacheInv /\ StagedIsConfirmed
  /\ \A x \in Prefixes : HelperInv(x)
  /\ \A q \in Probes : ProbeInv(q)
=============================================================================
