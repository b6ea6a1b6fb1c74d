----------------------------- MODULE Dispatcher -----------------------------
(***************************************************************************)
(* The compile pipeline of `sixpack serve`: the one-token request queue,   *)
(* the run loop, one compile cycle (fetch, then merge, serialize, validate *)
(* and reload every virtual gateway) and the per-gateway commit cache.     *)
(*                                                                         *)
(* The environment edits source files and posts /compile; the pipeline     *)
(* runs under the scheduler mutex it shares with the certificate upkeep    *)
(* loops; validation, serialization and reload may fail; the process may   *)
(* crash and restart at any point.                                         *)
(***************************************************************************)
EXTENDS Naturals, FiniteSets

CONSTANTS
    Source,         \* paths of the YAML fragments under the input directories
    Namespace,      \* the input directories
    Root,           \* Root[s] is the input directory that holds s
    Gateway,        \* virtual gateway names
    Hierarchy,      \* Hierarchy[s] are the gateways s contributes to
    Data,           \* decoded, non-nil fragment contents
    NoFile,         \* content of a path that does not exist
    EmptyDoc,       \* a file that decodes to a nil map
    Broken,         \* a file that is empty or is not YAML
    Unmergeable,    \* configurations compiler.Merge refuses
    Invalid,        \* configurations `apisix test` refuses
    Deep,           \* gateways deeper than --max-gateway-depth
    FileGateway,    \* --apisix-virtual-gateway, the one written to disk
    Hash(_),        \* the hash of a serialized configuration
    NoConfig,       \* no payload yet
    NoHash,         \* no hash yet
    AutoTrigger,    \* --auto-trigger
    MaxEdits,       \* bound: edits of source files
    MaxFaults,      \* bound: transient failures
    MaxCrashes      \* bound: crashes of the process

Content == Data \union {NoFile, EmptyDoc, Broken}

\* What one gateway is compiled from: its fragments, by source.
Config == [Source -> Data \union {NoFile}]

HashValue == {Hash(c) : c \in Config} \union {NoHash}

ASSUME ShapeAssumption ==
    /\ Root \in [Source -> Namespace]
    /\ Hierarchy \in [Source -> SUBSET Gateway]
    /\ {NoFile, EmptyDoc, Broken} \intersect Data = {}
    /\ NoFile # EmptyDoc /\ NoFile # Broken /\ EmptyDoc # Broken
    /\ Unmergeable \subseteq Config
    /\ Invalid \subseteq Config
    /\ Deep \subseteq Gateway
    /\ FileGateway \in Gateway
    /\ NoConfig \notin Config
    /\ AutoTrigger \in BOOLEAN
    /\ MaxEdits \in Nat /\ MaxFaults \in Nat /\ MaxCrashes \in Nat

\* FNV-64a is taken to have no collision among the payloads of one process.
ASSUME HashAssumption ==
    /\ \A c \in Config : Hash(c) # NoHash
    /\ \A c, d \in Config : Hash(c) = Hash(d) => c = d

VARIABLES
    files,          \* the source tree on disk
    unsent,         \* edited sources whose editor has not posted /compile yet
    queue,          \* Dispatcher.queue holds its token
    pc,             \* where the run loop stands
    lock,           \* holder of the scheduler mutex
    unlisted,       \* namespaces this fetch has not listed yet
    unread,         \* listed paths this fetch has not opened yet
    seen,           \* contents the last fetch read
    lastFetch,      \* how the last fetch ended
    todo,           \* gateways this cycle has still to handle
    cur,            \* gateway being handled
    wasSuccessful,  \* local of handleGateway
    candidate,      \* local `serialized` of handleGateway
    hash,           \* SerializerInstance.hash
    commitHash,     \* SerializerInstance.commitHash; NoHash while ~hasCommit
    lastCommit,     \* VirtualGateway.lastCommit
    commitSuccess,  \* VirtualGateway.commitSuccess
    file,           \* payload in the live configuration file
    record,         \* payload published for the SSE clients of each gateway
    ready,          \* gateways the ready manager has seen applied
    clean,          \* history: no transient failure since this cycle began
    edits, faults, crashes

envVars    == <<files, unsent, edits>>
fetchVars  == <<unlisted, unread, seen, lastFetch>>
stepVars   == <<todo, cur, wasSuccessful, candidate>>
cacheVars  == <<hash, commitHash, lastCommit, commitSuccess>>
outVars    == <<file, record, ready>>
faultVars  == <<faults, clean>>
vars == <<envVars, queue, pc, lock, fetchVars, stepVars, cacheVars, outVars,
          faultVars, crashes>>

-----------------------------------------------------------------------------
(***************************************************************************)
(* What a cycle computes.                                                  *)
(***************************************************************************)

\* Gateways that own at least one fragment of f: the keys of `snippets`.
Present(f) == UNION {Hierarchy[s] : s \in {t \in Source : f[t] \in Data}}

\* The fragments of gateway g in f, which merging turns into its payload.
ConfigOf(f, g) ==
    [s \in Source |-> IF g \in Hierarchy[s] /\ f[s] \in Data
                      THEN f[s] ELSE NoFile]

\* The depth-aware validator: gateways beyond the limit always pass.
Accepts(g, c) == g \in Deep \/ c \notin Invalid

\* Some transient failure hits this step: I/O, a time-out, a failed command.
Fault == /\ faults < MaxFaults
         /\ faults' = faults + 1
         /\ clean' = FALSE

-----------------------------------------------------------------------------
Init ==
    /\ files \in [Source -> Content]
    /\ unsent = {}
    /\ file = NoConfig
    /\ clean = TRUE
    /\ edits = 0 /\ faults = 0 /\ crashes = 0
    /\ queue = FALSE
    /\ pc = "down"
    /\ lock = "free"
    /\ unlisted = {}
    /\ unread = {}
    /\ seen = [s \in Source |-> NoFile]
    /\ lastFetch = "never"
    /\ todo = {}
    /\ cur = FileGateway
    /\ wasSuccessful = FALSE
    /\ candidate = NoConfig
    /\ hash = [g \in Gateway |-> NoHash]
    /\ commitHash = [g \in Gateway |-> NoHash]
    /\ lastCommit = [g \in Gateway |-> NoConfig]
    /\ commitSuccess = [g \in Gateway |-> FALSE]
    /\ record = [g \in Gateway |-> NoConfig]
    /\ ready = {}

-----------------------------------------------------------------------------
(***************************************************************************)
(* Environment: editors, sidecars, the upkeep loops.                       *)
(***************************************************************************)

\* Somebody writes, replaces or deletes a source file.
Edit(s, c) ==
    /\ edits < MaxEdits
    /\ c # files[s]
    /\ files' = [files EXCEPT ![s] = c]
    /\ unsent' = unsent \union {s}
    /\ edits' = edits + 1
    /\ UNCHANGED <<queue, pc, lock, fetchVars, stepVars, cacheVars, outVars,
                   faultVars, crashes>>

\* Mutant: requests are taken only while the loop is at rest.
NotifyWhenIdle(s) ==
    /\ pc # "down"
    /\ unsent' = unsent \ {s}
    /\ queue' = (queue \/ pc = "idle")
    /\ UNCHANGED <<files, edits, pc, lock, fetchVars, stepVars, cacheVars,
                   outVars, faultVars, crashes>>

\* POST /compile, after an edit of s or for no reason: the token is sent, or
\* dropped when the queue already holds one.
Notify(s) ==
    /\ pc # "down"
    /\ unsent' = unsent \ {s}
    /\ queue' = TRUE
    /\ UNCHANGED <<files, edits, pc, lock, fetchVars, stepVars, cacheVars,
                   outVars, faultVars, crashes>>

\* CommitLoop and ExpireLoop take the mutex only when it is free.
UpkeepBegin ==
    /\ pc \notin {"down", "starting"}
    /\ lock = "free"
    /\ lock' = "upkeep"
    /\ UNCHANGED <<envVars, queue, pc, fetchVars, stepVars, cacheVars, outVars,
                   faultVars, crashes>>

UpkeepEnd ==
    /\ lock = "upkeep"
    /\ lock' = "free"
    /\ UNCHANGED <<envVars, queue, pc, fetchVars, stepVars, cacheVars, outVars,
                   faultVars, crashes>>

-----------------------------------------------------------------------------
(***************************************************************************)
(* The run loop.                                                           *)
(***************************************************************************)

\* The process is up and answers POST /compile, but its run loop waits until
\* the schema is loaded.
Boot ==
    /\ pc = "down"
    /\ pc' = "starting"
    /\ UNCHANGED <<envVars, queue, lock, fetchVars, stepVars, cacheVars,
                   outVars, faultVars, crashes>>

\* Main starts the loop and, with --auto-trigger, enqueues a first request.
Serve ==
    /\ pc = "starting"
    /\ pc' = "idle"
    /\ queue' = (queue \/ AutoTrigger)
    /\ UNCHANGED <<envVars, lock, fetchVars, stepVars, cacheVars, outVars,
                   faultVars, crashes>>

Dequeue ==
    /\ pc = "idle"
    /\ queue
    /\ queue' = FALSE
    /\ pc' = "cooldown"
    /\ UNCHANGED <<envVars, lock, fetchVars, stepVars, cacheVars, outVars,
                   faultVars, crashes>>

CooldownOver ==
    /\ pc = "cooldown"
    /\ pc' = "acquire"
    /\ UNCHANGED <<envVars, queue, lock, fetchVars, stepVars, cacheVars,
                   outVars, faultVars, crashes>>

\* Scheduler.Must: blocks until the mutex is free, then handle begins.
Acquire ==
    /\ pc = "acquire"
    /\ lock = "free"
    /\ lock' = "dispatcher"
    /\ pc' = "fetch"
    /\ unlisted' = Namespace
    /\ unread' = {}
    /\ seen' = [s \in Source |-> NoFile]
    /\ lastFetch' = "running"
    /\ clean' = TRUE
    /\ UNCHANGED <<envVars, queue, stepVars, cacheVars, outVars, faults,
                   crashes>>

\* handle returns and Must unlocks.
Return ==
    /\ lock' = "free"
    /\ pc' = "idle"

Finish ==
    /\ pc = "gateways"
    /\ todo = {}
    /\ Return
    /\ UNCHANGED <<envVars, queue, fetchVars, stepVars, cacheVars, outVars,
                   faultVars, crashes>>

-----------------------------------------------------------------------------
(***************************************************************************)
(* Fetch: each namespace is listed when its turn comes, and its files are  *)
(* opened afterwards, one by one.                                          *)
(***************************************************************************)

List(n) ==
    /\ pc = "fetch"
    /\ unread = {}
    /\ n \in unlisted
    /\ unlisted' = unlisted \ {n}
    /\ unread' = {s \in Source : Root[s] = n /\ files[s] # NoFile}
    /\ UNCHANGED <<envVars, queue, pc, lock, seen, lastFetch, stepVars,
                   cacheVars, outVars, faultVars, crashes>>

\* Mutant: decoding errors are ignored.
ReadAnything(s) ==
    /\ pc = "fetch"
    /\ s \in unread
    /\ seen' = [seen EXCEPT ![s] = files[s]]
    /\ unread' = unread \ {s}
    /\ UNCHANGED <<envVars, queue, pc, lock, unlisted, lastFetch, stepVars,
                   cacheVars, outVars, faultVars, crashes>>

Read(s) ==
    /\ pc = "fetch"
    /\ s \in unread
    /\ files[s] \notin {NoFile, Broken}
    /\ seen' = [seen EXCEPT ![s] = files[s]]
    /\ unread' = unread \ {s}
    /\ UNCHANGED <<envVars, queue, pc, lock, unlisted, lastFetch, stepVars,
                   cacheVars, outVars, faultVars, crashes>>

\* Mutant: the early return leaves the mutex locked.
FetchFailsLocked ==
    /\ pc = "fetch"
    /\ \/ \E s \in unread : files[s] \in {NoFile, Broken} /\ UNCHANGED faultVars
       \/ unlisted \union unread # {} /\ Fault
    /\ lastFetch' = "failed"
    /\ unlisted' = {}
    /\ unread' = {}
    /\ pc' = "idle"
    /\ UNCHANGED <<envVars, queue, lock, seen, stepVars, cacheVars, outVars,
                   crashes>>

\* The whole cycle is abandoned: a file vanished after it was listed or cannot
\* be decoded, or a directory or a file cannot be read.
FetchFails ==
    /\ pc = "fetch"
    /\ \/ \E s \in unread : files[s] \in {NoFile, Broken} /\ UNCHANGED faultVars
       \/ unlisted \union unread # {} /\ Fault
    /\ lastFetch' = "failed"
    /\ unlisted' = {}
    /\ unread' = {}
    /\ Return
    /\ UNCHANGED <<envVars, queue, seen, stepVars, cacheVars, outVars, crashes>>

FetchDone ==
    /\ pc = "fetch"
    /\ unlisted = {} /\ unread = {}
    /\ lastFetch' = "ok"
    /\ todo' = Present(seen)
    /\ pc' = "gateways"
    /\ UNCHANGED <<envVars, queue, lock, unlisted, unread, seen, cur,
                   wasSuccessful, candidate, cacheVars, outVars, faultVars,
                   crashes>>

-----------------------------------------------------------------------------
(***************************************************************************)
(* handleGateway, for the gateways of the cycle in any order.              *)
(***************************************************************************)

\* A gateway's turn comes: it counts as failed until proved otherwise.
Begin(g) ==
    /\ pc = "gateways"
    /\ g \in todo
    /\ todo' = todo \ {g}
    /\ cur' = g
    /\ wasSuccessful' = commitSuccess[g]

CacheHit(g) == commitHash[g] = Hash(ConfigOf(seen, g))

\* Mutant: a gateway that does not merge ends the cycle.
MergeFailsAll(g) ==
    /\ pc = "gateways"
    /\ g \in todo
    /\ todo' = {}
    /\ cur' = g
    /\ wasSuccessful' = commitSuccess[g]
    /\ ConfigOf(seen, g) \in Unmergeable
    /\ commitSuccess' = [commitSuccess EXCEPT ![g] = FALSE]
    /\ UNCHANGED <<envVars, queue, pc, lock, fetchVars, candidate, hash,
                   commitHash, lastCommit, outVars, faultVars, crashes>>

\* Merge refuses the fragments.
MergeFails(g) ==
    /\ Begin(g)
    /\ ConfigOf(seen, g) \in Unmergeable
    /\ commitSuccess' = [commitSuccess EXCEPT ![g] = FALSE]
    /\ UNCHANGED <<envVars, queue, pc, lock, fetchVars, candidate, hash,
                   commitHash, lastCommit, outVars, faultVars, crashes>>

\* A plugin or the encoder fails after serializer.Reset cleared the hash.
SerializeFails(g) ==
    /\ Begin(g)
    /\ ConfigOf(seen, g) \notin Unmergeable
    /\ Fault
    /\ commitSuccess' = [commitSuccess EXCEPT ![g] = FALSE]
    /\ hash' = [hash EXCEPT ![g] = NoHash]
    /\ UNCHANGED <<envVars, queue, pc, lock, fetchVars, candidate, commitHash,
                   lastCommit, outVars, crashes>>

\* The payload is the committed one and the last attempt succeeded.
SkipUnchanged(g) ==
    /\ Begin(g)
    /\ ConfigOf(seen, g) \notin Unmergeable
    /\ CacheHit(g)
    /\ commitSuccess[g]
    /\ hash' = [hash EXCEPT ![g] = commitHash[g]]
    /\ UNCHANGED <<envVars, queue, pc, lock, fetchVars, candidate, commitHash,
                   lastCommit, commitSuccess, outVars, faultVars, crashes>>

\* Mutant: the hash is committed when it is computed, not after the reload.
RenderEager(g) ==
    /\ Begin(g)
    /\ ConfigOf(seen, g) \notin Unmergeable
    /\ ~ (CacheHit(g) /\ commitSuccess[g])
    /\ commitSuccess' = [commitSuccess EXCEPT ![g] = FALSE]
    /\ hash' = [hash EXCEPT ![g] = Hash(ConfigOf(seen, g))]
    /\ commitHash' = hash'
    /\ candidate' = IF CacheHit(g) THEN lastCommit[g] ELSE ConfigOf(seen, g)
    /\ pc' = "validate"
    /\ UNCHANGED <<envVars, queue, lock, fetchVars, lastCommit, outVars,
                   faultVars, crashes>>

\* The payload is new, or it is the committed one after a failed attempt.
Render(g) ==
    /\ Begin(g)
    /\ ConfigOf(seen, g) \notin Unmergeable
    /\ ~ (CacheHit(g) /\ commitSuccess[g])
    /\ commitSuccess' = [commitSuccess EXCEPT ![g] = FALSE]
    /\ hash' = [hash EXCEPT ![g] = Hash(ConfigOf(seen, g))]
    /\ candidate' = IF CacheHit(g) THEN lastCommit[g] ELSE ConfigOf(seen, g)
    /\ pc' = "validate"
    /\ UNCHANGED <<envVars, queue, lock, fetchVars, commitHash, lastCommit,
                   outVars, faultVars, crashes>>

\* Mutant: the verdict of the validator is not looked at.
ValidateAnything ==
    /\ pc = "validate"
    /\ pc' = "apply"
    /\ UNCHANGED <<envVars, queue, lock, fetchVars, stepVars, cacheVars,
                   outVars, faultVars, crashes>>

ValidatePasses ==
    /\ pc = "validate"
    /\ Accepts(cur, candidate)
    /\ pc' = "apply"
    /\ UNCHANGED <<envVars, queue, lock, fetchVars, stepVars, cacheVars,
                   outVars, faultVars, crashes>>

ValidateFails ==
    /\ pc = "validate"
    /\ cur \notin Deep
    /\ \/ candidate \in Invalid /\ UNCHANGED faultVars
       \/ Fault
    /\ pc' = "gateways"
    /\ UNCHANGED <<envVars, queue, lock, fetchVars, stepVars, cacheVars,
                   outVars, crashes>>

\* Mutant: the record is kept under the gateway of the file.
ApplyToFileGateway ==
    /\ pc = "apply"
    /\ file' = IF cur = FileGateway THEN candidate ELSE file
    /\ record' = [record EXCEPT ![FileGateway] = candidate]
    /\ ready' = ready \union {cur}
    /\ pc' = "commit"
    /\ UNCHANGED <<envVars, queue, lock, fetchVars, stepVars, cacheVars,
                   faultVars, crashes>>

\* The reloader chain: the file (only for FileGateway), the SSE record, the
\* readiness flag.
ApplySucceeds ==
    /\ pc = "apply"
    /\ file' = IF cur = FileGateway THEN candidate ELSE file
    /\ record' = [record EXCEPT ![cur] = candidate]
    /\ ready' = ready \union {cur}
    /\ pc' = "commit"
    /\ UNCHANGED <<envVars, queue, lock, fetchVars, stepVars, cacheVars,
                   faultVars, crashes>>

\* Only writing the file can fail, and then nothing is replaced.
ApplyFails ==
    /\ pc = "apply"
    /\ cur = FileGateway
    /\ Fault
    /\ pc' = "gateways"
    /\ UNCHANGED <<envVars, queue, lock, fetchVars, stepVars, cacheVars,
                   outVars, crashes>>

\* Mutant: the hash of the committed payload is not recorded.
CommitNoHash ==
    /\ pc = "commit"
    /\ lastCommit' = [lastCommit EXCEPT ![cur] = candidate]
    /\ commitSuccess' = [commitSuccess EXCEPT ![cur] = TRUE]
    /\ pc' = "gateways"
    /\ UNCHANGED <<envVars, queue, lock, fetchVars, stepVars, hash, commitHash,
                   outVars, faultVars, crashes>>

Commit ==
    /\ pc = "commit"
    /\ lastCommit' = [lastCommit EXCEPT ![cur] = candidate]
    /\ commitSuccess' = [commitSuccess EXCEPT ![cur] = TRUE]
    /\ commitHash' = [commitHash EXCEPT ![cur] = hash[cur]]
    /\ pc' = "gateways"
    /\ UNCHANGED <<envVars, queue, lock, fetchVars, stepVars, hash, outVars,
                   faultVars, crashes>>

-----------------------------------------------------------------------------
\* The process dies: only the source tree and the live file survive.
Crash ==
    /\ crashes < MaxCrashes
    /\ crashes' = crashes + 1
    /\ pc # "down"
    /\ queue' = FALSE
    /\ pc' = "down"
    /\ lock' = "free"
    /\ unlisted' = {}
    /\ unread' = {}
    /\ seen' = [s \in Source |-> NoFile]
    /\ lastFetch' = "never"
    /\ todo' = {}
    /\ cur' = FileGateway
    /\ wasSuccessful' = FALSE
    /\ candidate' = NoConfig
    /\ hash' = [g \in Gateway |-> NoHash]
    /\ commitHash' = [g \in Gateway |-> NoHash]
    /\ lastCommit' = [g \in Gateway |-> NoConfig]
    /\ commitSuccess' = [g \in Gateway |-> FALSE]
    /\ record' = [g \in Gateway |-> NoConfig]
    /\ ready' = {}
    /\ UNCHANGED <<envVars, file, faultVars>>

Gateways ==
    \/ \E g \in Gateway : \/ MergeFails(g)
                          \/ SerializeFails(g)
                          \/ SkipUnchanged(g)
                          \/ Render(g)
    \/ ValidatePasses \/ ValidateFails
    \/ ApplySucceeds \/ ApplyFails
    \/ Commit

Fetch ==
    \/ \E n \in Namespace : List(n)
    \/ \E s \in Source : Read(s)
    \/ FetchFails
    \/ FetchDone

Loop == Boot \/ Serve \/ Dequeue \/ CooldownOver \/ Acquire \/ Finish

Next ==
    \/ \E s \in Source : Notify(s) \/ (\E c \in Content : Edit(s, c))
    \/ UpkeepBegin \/ UpkeepEnd
    \/ Loop \/ Fetch \/ Gateways
    \/ Crash

Spec == Init /\ [][Next]_vars

(***************************************************************************)
(* Fairness.  The run loop is one goroutine that is always scheduled, and  *)
(* its steps end (commands run under a time-out).  An upkeep task ends.    *)
(* Upkeep may retake the mutex again and again, but sync.Mutex hands over  *)
(* to a waiter that starves, hence SF on Acquire.  A sidecar posts after   *)
(* its edit.                                                               *)
(***************************************************************************)
Fairness ==
    /\ WF_vars(Boot \/ Serve \/ Dequeue \/ CooldownOver \/ Finish \/ Fetch
                \/ Gateways)
    /\ SF_vars(Acquire)
    /\ WF_vars(UpkeepEnd)
    /\ \A s \in Source : WF_vars(s \in unsent /\ Notify(s))

FairSpec == Spec /\ Fairness

-----------------------------------------------------------------------------
(***************************************************************************)
(* Properties.                                                             *)
(***************************************************************************)

\* Type invariant of the run loop, the fetch, the commit cache and the outputs.
TypeOK ==
    /\ files \in [Source -> Content]
    /\ unsent \subseteq Source
    /\ queue \in BOOLEAN
    /\ pc \in {"down", "starting", "idle", "cooldown", "acquire", "fetch",
               "gateways", "validate", "apply", "commit"}
    /\ lock \in {"free", "dispatcher", "upkeep"}
    /\ unlisted \subseteq Namespace
    /\ unread \subseteq Source
    /\ seen \in [Source -> Content \ {Broken}]
    /\ lastFetch \in {"never", "running", "ok", "failed"}
    /\ todo \subseteq Gateway
    /\ cur \in Gateway
    /\ wasSuccessful \in BOOLEAN
    /\ candidate \in Config \union {NoConfig}
    /\ hash \in [Gateway -> HashValue]
    /\ commitHash \in [Gateway -> HashValue]
    /\ lastCommit \in [Gateway -> Config \union {NoConfig}]
    /\ commitSuccess \in [Gateway -> BOOLEAN]
    /\ file \in Config \union {NoConfig}
    /\ record \in [Gateway -> Config \union {NoConfig}]
    /\ ready \subseteq Gateway
    /\ clean \in BOOLEAN
    /\ edits \in Nat /\ faults \in Nat /\ crashes \in Nat

\* Some step still to come will read source s: its editor has yet to post, the
\* token is queued, or a cycle has started and has not passed s.
WillRead(s) ==
    \/ s \in unsent
    \/ queue
    \/ pc \in {"cooldown", "acquire"}
    \/ pc = "fetch" /\ (Root[s] \in unlisted \/ s \in unread)
    \/ pc \in {"down", "starting"} /\ AutoTrigger

\* No lost request: although Notify drops every token beyond the first, a source
\* whose content differs from what the last fetch saw is always going to be read
\* again, unless that fetch was abandoned (and, before the first fetch, unless
\* --auto-trigger is off).
NoLostRequest ==
    \/ lastFetch = "failed"
    \/ lastFetch = "never" /\ ~AutoTrigger
    \/ \A s \in Source : files[s] # seen[s] => WillRead(s)

\* The commit cache tells the truth: outside the reload of g, a gateway whose
\* last attempt succeeded has on offer exactly what the last complete fetch
\* compiles to, and the file agrees for the gateway kept on disk.
CacheTruth ==
    \A g \in Gateway :
        /\ lastFetch = "ok"
        /\ g \in Present(seen) \ todo
        /\ commitSuccess[g]
        => /\ record[g] = ConfigOf(seen, g)
           /\ g = FileGateway => file = record[g]

\* Nothing is pending: no request, no unposted edit, no cycle under way.
Settled == pc = "idle" /\ ~queue /\ unsent = {}

\* End to end: once settled after a cycle that read everything and met no
\* transient failure, every gateway whose fragments merge and pass validation is
\* published from the files as they are now, whatever the other gateways did.
SettledIsCurrent ==
    Settled /\ lastFetch = "ok" /\ clean =>
        \A g \in Present(files) :
            /\ ConfigOf(files, g) \notin Unmergeable
            /\ Accepts(g, ConfigOf(files, g))
            => record[g] = ConfigOf(files, g)

\* Nothing refused by the validator is ever published or written to disk, crash
\* or not; gateways beyond --max-gateway-depth are exempt, as documented.
PublishedValid ==
    /\ \A g \in Gateway : record[g] # NoConfig => Accepts(g, record[g])
    /\ file # NoConfig => Accepts(FileGateway, file)

\* A reload of the payload already on offer happens only to retry a failure:
\* APISIX is not reloaded for an unchanged configuration.
NoIdleReload ==
    pc = "apply" /\ candidate = record[cur] => ~wasSuccessful

\* What is on offer for a gateway changes only by validating this cycle's
\* fragments of that very gateway while the mutex is held (or by a crash).
PublishDiscipline ==
    [][\A g \in Gateway :
         record'[g] # record[g] =>
            \/ pc' = "down"
            \/ /\ lock = "dispatcher"
               /\ cur = g
               /\ record'[g] = ConfigOf(seen, g)]_vars

\* Every accepted request leads to a fetch that begins after it.
RequestServed == queue ~> (pc = "fetch")

\* The sources can be compiled: all of them decode.
Readable == \A s \in Source : files[s] # Broken

\* If compile requests keep coming, the published configurations end up being
\* those of the files (edits, failures and crashes being finitely many).
Converges ==
    (\A s \in Source : []<><<Notify(s)>>_vars) =>
        <>[](Readable =>
               \A g \in Present(files) :
                   /\ ConfigOf(files, g) \notin Unmergeable
                   /\ Accepts(g, ConfigOf(files, g))
                   => record[g] = ConfigOf(files, g))
=============================================================================
