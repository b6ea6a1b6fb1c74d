# A verification project for sixpack (cuesix)

`sixpack` compiles YAML fragments into configurations for APISIX gateways,
validates them, writes one of them to the local gateway's configuration file and
streams all of them to remote clients.  This directory holds TLA+ modules that
model that program, the configurations that model-check them with TLC, and
theorems about them that the TLA+ proof system checks.

Source paths are given as in `PROJECT.json` (`src/internal/...`); `map` there
gives, for every definition, the lines it models.

## 1. The system

| Component | State it keeps | Operations |
|---|---|---|
| Dispatcher (`internal/dispatcher`) | one-token `queue`, `lastDequeued`, a `VirtualGateway` per gateway (`lastCommit`, `commitSuccess`) | `Notify`, `Run`, `handle`, `handleGateway`, `waitForCooldown` |
| Serializer instances (`cmd/sixpack/factory/serializer_factory.go`) | `hash`, `commitHash`, `hasCommit`, `record`, `CommittedCerts` | `Reset`, `Serialize`, `Commit`; the upkeep loops `CommitLoop`, `ExpireLoop` |
| Scheduler (`factory/scheduler.go`) | a mutex | `Must` (blocks), `Might` (tries) |
| Fetcher, enumerator (`internal/compiler`) | none: reads the input directories | `Fetch`, `Enumerate`, `Open` |
| Compiler (`internal/compiler/compiler.go`) | none | `Merge` by rules, `AsTree`, tags |
| Input plugins (`internal/compiler/env.go`, `internal/plugin`) | the variables read per directory | `Enumerate`, `Open`; labels of a rendered document |
| Validator (`internal/validator`, `factory/validator_factory.go`) | a mirror of the APISIX home | `Validate` (runs `apisix test`) |
| File reloader (`internal/reloader`) | the live file, a temporary file | `Apply` |
| SSE server (`internal/sse/handlers.go`, `internal/cursor`) | `records`, `subs`, a channel per stream | `Apply`, `HandleFull`, `HandleSSE`; `Watch`, `NotifyAllLocked`, `Close` |
| SSE client (`internal/sse/client.go`) | `reply`; per stream `inflight`, `target` | `Loop`, `stream` |
| Readiness (`cmd/sixpack/control/ready.go`) | `ready` per gateway | `Apply`, `Ready`, `Must`, `Loop` |
| Certificate tracker and SSL plugin (`internal/plugin/ssl`) | `track`, watchers | `RequestCertificate`, `RemoveManaged`, `Commit`, `UpdateLoop`; targets of a document, `replaceTargets` |
| Certmagic providers (`internal/certmagicmgr`) | certmagic's cache, an event channel | `RequestCertificate`, `BestMatchFor`, `RemoveManaged` |
| Recorder (`internal/recorder`) | recorded sources and their time, an index per gateway | `Enumerate`, `Commit`, `GET /schema/sources`, `/schema/virtualgw` with their ETags |
| Schema (`internal/schema`, `factory/schema_fetcher.go`) | the cached schema | `GetSchema`, normalization, defaults, validation of fragments |
| Task queue (`internal/queue`) | a heap of tasks | `Batch`, `Retry`, `Cleanup`, `Pop` (not used by the program) |
| Buffering module (`src/buffering`) | an intent per nginx request | set early, applied in a later phase |

How they interact.  `POST /compile` and `--auto-trigger` call `Notify`.  `Run`
takes the token, waits for the cooldown, and calls `handle` through
`Scheduler.Must`, so that a cycle excludes the certificate upkeep, which uses
`Scheduler.Might`.  `handle` pulls all fragments from the fetcher, groups them
by every prefix of their gateway's name, and runs `handleGateway` per gateway:
merge, serialize (compared by hash with the last commit), validate, reload,
commit.  The reloader is a chain: readiness, around the SSE record, around the
file.  The SSE handlers are woken by a watcher channel of eight notifications
and read the record themselves.  A client applies what it receives through its
own chain of readiness and file.

What is hard here.  Requests are dropped when one is queued; files change while
they are listed and read; one gateway of a cycle may fail, and its cache has to
know; the process may die between file, publication and commit; streams lag,
come and go while payloads are published; the client reads, applies and is cut
off by three goroutines; documents share parts that plugins write into; handlers
read what a cycle is replacing; requests wait for a download that another makes.
Section 6 lists the hazards and what covers them.

## 2. What makes each component correct

- Dispatcher: an edit that was announced is read by a later cycle; at rest, what
  is published is what the files say, for every gateway that can be compiled,
  whatever happened to the others; the caches never claim more than what was
  done; nothing refused is published; APISIX is not reloaded for nothing.
- Cooldown: bounded rate, bounded delay.
- File reloader: all or nothing, durable or absent, never torn, mode kept, no
  rubbish left.
- SSE server: no send on a closed channel; no stream misses the last payload.
- SSE client: one reload at a time, in order, never backwards, ending with the
  last payload.
- Tracker: what is tracked and what the providers keep issued agree; a committed
  certificate stays managed; one used no more is eventually released; an old
  look never replaces a newer certificate; the fallback is replaced by the next
  cycle that can.
- Compile: the merge has no other result than its definition allows, however the
  entries are cut into fragments; what is published is what the cycle read, with
  one version of the variables of each directory; every certificate published is
  on record, for the upkeep to keep.
- Recorder: 304 is said only to a client that holds the sources there are, or an
  index a gateway had since the last enumeration; an object of a committed
  configuration can be explained by the index.
- Schema: downloaded and compiled once; its references resolve; defaults only
  add, and all at once; nobody waits for ever.

## 3. Modules

| Module | Models | Lines of correspondence |
|---|---|---|
| `Dispatcher` | `Notify`, `Run`, `handle`, `handleGateway`, `Serialize`/`Commit` of a serializer instance, the fetch, the scheduler mutex, the reloader chain as one step, start and crash of the process | `pc` is the place of the run loop; `queue` the token; `unlisted`, `unread`, `seen` the progress of a fetch; `todo`, `cur`, `candidate`, `wasSuccessful` the locals of `handle` and `handleGateway`; `hash`, `commitHash`, `lastCommit`, `commitSuccess` the caches; `file`, `record`, `ready` the outputs |
| `Cooldown` | the same loop with a clock, without the cycle | `dequeuedAt`, `lastDequeued`; `starts` is history |
| `ConfigFile` | abstract: a file that is replaced at once and whole | what `Apply` promises |
| `FileReloader` | `Apply` and `replaceWithPayload`, call by call, with failures, kills and power losses; implements `ConfigFile` | `pc` is the next call; `tmp*`, `live*` the two files; `durable` the disk |
| `EventStream` | abstract: one event stream, from its first look at the record to its end | what `handleSSE` promises its client: every publication is answered, or covered by a notification still to be answered |
| `SSEServer` | `Reloader.Apply`, `handleSSE`, `Watcher`; every stream of it implements `EventStream` | one action per critical section; `tokens` is a channel |
| `Follower` | abstract: a copy that follows a record | what the client promises |
| `SSEClient` | `Client.Loop`, `Client.stream` with reader, loop and apply goroutines; its server is `EventStream`; implements `Follower` | `wire`, `target`, `inflight`, `jobs` (apply goroutines), `waiting` (`waitingReload`) |
| `Tracker` | `Tracker`, `TrackedProvider`, `replaceTargets`, `UpdateLoop`, `CommitLoop`; of a certmagic provider the managed names, the cache and the event channel | `pc`, `key`, `ask`, `pending`, `certs`, `channel` are the live request of a cycle; `tracked`, `notAfter`, `stale` are `track`; `task`, `passes`, `polled`, `remains` the upkeep; `update` the update loop; `lock` the scheduler mutex |
| `Documents` | decoded documents, the merge rules (`DefaultMergingRules`), identifiers, `AsTree`, `RouteTags` | pure operators; a value is a record with a field for its kind |
| `Transforms` | what walks through a whole document: `ApplyMergeRules`, `Merge`, the variables put in (`SubstituteAPISIX`), the members of a document | recursive operators over `Documents` |
| `SSLPlugin` | which entries of `ssls` name a certificate, the tracking each asks for, the document with the certificates in place | pure operators over `Documents` |
| `Schema` | the schema of APISIX made into one JSON Schema (`schema.go`), its references and their escapes, the defaults (`applyDefaults`) | pure operators over `Documents` |
| `Compile` | a cycle with real documents: enumeration of the input directories, variables, decoding, gateways of a directory, merge, certificates, labels, commit | `roots`, `listed`, `snippets` the fetch; `envCache` the cache of variables; `instance` the serializer instances; `track` the tracker as far as a cycle sees it |
| `SchemaManager` | `Manager.GetSchema`: lock, download with retries and time-out, cache | `call` the place of each request; `holder` the lock |
| `Recorder` | `SourcesEnumerator`, `Recorder.Commit`, the handlers with their ETags, the validation handlers, clients that keep answers | `sources`, `timestamp`; `instance` the index; `request`, `tag`, `content` the handler of each client; `held` what the client kept; `shown` is history: what each gateway asked for was since `timestamp` was set |

`Compile` extends `SSLPlugin`, which extends `Documents`; `Recorder` extends
`SchemaManager`, which extends `Documents`.  What walks through documents of any
depth is in `Transforms` and `Schema`, by recursion, which the proof system
cannot use.  `Compile`, `SchemaManager` and `Recorder` therefore take it as
operator constants (`Merged`, `Substituted`, `WithDefaults`, `Normalized`,
`Compiled`, `Members`), which `MCCompile` and `MCRecorder` bind to the operators
of `Transforms` and `Schema`: the runs check the program with its real merge, the
theorems hold for every merge with the few properties that an `ASSUME` names.
`Dispatcher` and `Compile` look at the
same cycle from two sides: the first has its failures, retries, crashes and
caches with the contents abstracted, the second the contents with failures that
only refuse.  In the same way `Tracker` has the life of a certificate, and
`Compile` which certificates a configuration asks for and holds.  The two ends of
an event stream meet in `EventStream`: `SSEServer` implements it for each of its
streams (a stream is open from the handler's first look at the record until it
leaves the loop, and what was looked up counts as sent), and `SSEClient`
publishes, sends, connects and cuts with its actions.  On top, `SSEClient`
implements `Follower`.

`MCDispatcher`, `MCTracker`, `MCCompile` and `MCRecorder` instantiate the modules
that need definitions for their constants; the other modules have small
constants that a `.cfg` gives directly.  `*Proofs` modules hold the theorems.
`Compile` and `Recorder` have no type invariant: their documents are records built by the
operators, without a finite type worth stating.  The type invariants of
`Cooldown`, `FileReloader`, `SSEServer` and `SSEClient` are proved, and in no run.

Abstractions.  A fragment's content is a model value; merging is the function
`ConfigOf` of the fragments of a gateway, with an arbitrary set `Unmergeable` of
inputs that `Merge` refuses and an arbitrary set `Invalid` that `apisix test`
refuses.  A hash is injective (`HashAssumption`): FNV-64a collisions within one
process are left out.  Payloads of the SSE modules are versions, because the
record is replaced as a whole and the client compares times of one server.  A
certificate in `Tracker` is its expiry, and a stored key counts as `stale` when
it was not committed for the grace period; the grace period can pass at any
point, a time-out can strike at any point.  A payload is the set of keys it asks
for and the certificate each was given, 0 for the fallback.  `Tracker` has the
rest of a compile cycle in three outcomes only (`Skip`, `Commit`, `Abort`), which
`Dispatcher` models step by step.  In `Documents` a text is an atom, except
where the code looks into it: a reference to a secret is told from another text
and knows its provider or path, an id may be a string, an integer or a floating
point number and the three are converted as the code does, a pointer of a schema
is the sequence of its parts.  `MaxEdits` and its like bound every counter.  The
order in which `handle` visits gateways is the random order of a Go map, so any
order.  Within a directory files are opened in name order, as `Compile` has it; in
`Dispatcher` in any order.  A definition whose comment begins with "Mutant" is a
plausible defect of the definition that follows it; no run uses it: it serves to
show that a property can fail (`mutants` in `PROJECT.json`).

## 4. Runs

| Run | Shows | Bounds |
|---|---|---|
| `pipeline` | `TypeOK`, `NoLostRequest`, `CacheTruth`, `SettledIsCurrent`, `PublishedValid`, `NoIdleReload`, `PublishDiscipline`; `RequestServed`, `Converges` | two sources in two directories, of the top gateway and of a nested one, every initial tree; 1 edit, 1 transient failure, 1 crash |
| `cooldown` | `BurstOfTwo`, `BoundedWait` | cooldown of 4 ticks, 14 ticks of time |
| `reloader` | `NeverTorn`, `NoLitter`, `ModeKept`, `ReplacesAtomically` | 2 payloads, 3 modes, 3 failing calls, 2 deaths, 1 chmod |
| `sse_server` | `NoSendOnClosed`, `NeverStale`, `Serves` (refinement of `EventStream` for every stream), `CatchesUp` | 2 streams, 2 gateways; a buffer smaller than the number of versions, so that notifications are dropped |
| `sse_client` | `OneAtATime`, `TargetReached`, `Follows` (refinement of `Follower`), `Converges` | buffer 2, 3 lines in transit, 4 versions, 2 failed reloads, 2 cuts or restarts |
| `tracker` | `TypeOK`, `Agreement`, `CommittedStaysManaged`, `NeverOlder`, `FallbackReplaced`, `Released` | one provider; 2 names with a certificate each, or 1 name with 3 certificates; room for one event and two deliveries per target; 1 edit, 1 failure |
| `tracker_providers` | a counterexample to `CommittedStaysManaged` | 2 providers, one name |
| `compile` | `MergeReference`, `EnvCurrent`, `CertificatesCommitted`, `PublishedFromSources` | 2 input directories, 3 fragments of 2 or 3 versions each, gateways `d` and `d.e`; certificates of certmagic and from files; 1 edit, 1 failure |
| `compile_shared` | a counterexample to `CertificatesCommitted` | the same without labels |
| `compile_example` | a counterexample to `FileReferencesReplaced` | the fragment of the manual |
| `recorder` | `SourcesNotModified`, `IndexNotModified`, `ConfigShowsObject`, `FetchedOnce`, `RefsResolve`, `DefaultsOnlyAdd`, `Answered` | 2 fragments of 3 versions, 2 gateways; one client and 2 edits in 3 cycles for each resource, or 2 clients that need the schema; 1 retry |
| `recorder_deleted` | a counterexample to `SnippetsOfLastEnumeration` | the same |

Why the bounds are enough.  In the pipeline a fragment of the top gateway and one
shared with a nested gateway suffice for one gateway to fail while the other
succeeds, for a merge to be refused for one combination only, for the validator
to refuse the nested one, and for a gateway to vanish; the edit may change a file
before it is listed, between listing and reading, or after it was read; a failure
before a commit and a crash between write and commit both occur.  The safety
properties of this run are theorems for any number of edits (section 8); the
liveness ones are what bounds it.  The reloader needs two
deaths, to lose a rename that an earlier run made, and two failures in one call
(a call and its clean-up) plus one more.  The streams need more versions than
buffer places, and the client a payload waiting behind two others.  The tracker
needs two names for one to be committed while the other goes stale, and three
certificates of one name for two looks to cross while events are dropped.  The
fragments of `compile` hold each case the merge tells apart: one id as a number
and as a string, entries without an id, the same scalar list with and without
overlap, lists nested in an entry, equal and unequal scalars at one place; the
edit changes a fragment, a file of variables or a certificate file at any point
of a cycle, and the shared fragments belong to two gateways, so that what one
rendering writes is there for the other; one of its entries has a label of its
own, beside those the labels plugin adds.  The recorder needs three cycles: one
to record, one to change, one to leave what was changed.  Its schema has a
plugin whose name holds a slash and one that holds a tilde, a default that needs
defaults of its own, numbers as strings, and a download that is no schema.

`CHECK_DEADLOCK FALSE` is said only where the system rightly stops: an idle
event stream after the last payload of the bounded run carries keepalives only.

## 5. Fairness

- The run loop is one goroutine; the commands it runs have time-outs (or fail),
  so its steps are weakly fair.  `Boot` is in the same condition: a supervisor
  restarts the process.
- `Acquire` is strongly fair.  The upkeep loops may take the mutex whenever it is
  free, and `sync.Mutex` switches to a hand-over mode for a waiter that has
  starved for a millisecond; `TryLock` fails in that mode.
- `UpkeepEnd`: an upkeep task is bounded work over the tracked certificates.
- Whoever edits a source posts `/compile` after it: that is how sidecars use the
  program.
- Every SSE handler is a goroutine with a write deadline on each write.
- The client's goroutines are scheduled, `Apply` returns, `Loop` reconnects.
- `UpdateLoop`, the live request and its consumer are goroutines; `Expire` is the
  context's deadline; `Upkeep` is a ticker that tries the mutex, so it is only
  weakly fair: `Released` therefore assumes that cycles stop.  `Age` is the
  passing of time.  Compile requests (`Begin`), certificates (`Obtain`) and
  certmagic's loads are not fair.  `FallbackReplaced` assumes that cycles
  go on and, with `Patient`, that from some point a time-out strikes only when
  all has been asked and received; without that assumption no cycle
  need ever see a certificate.
- `Recorder`: a handler and a compilation are weakly fair (`Turn`, `Adopted`),
  and so is the time-out of a download.  `Acquire` is strongly fair: `Manager`
  has a `sync.Mutex`, whose hand-over mode serves a waiter that has starved.
  Cycles and requests are not fair.

Edits, failures, crashes, kills and cuts are never fair; they may happen or not.

## 6. Hazards

`PROJECT.json` lists the hazards at their lines with the properties that would
catch them.  Four have no property; each has a note that says why: the
configuration of a gateway whose last fragment was deleted, readiness, a server
clock that steps back, and the upkeep once the last certificate is gone.  Known and of less weight: two payloads with one 64-bit hash
would be taken for one; the very first file is made with the mode of a temporary
file; `If-Modified-Since` compares a time in nanoseconds with one in seconds
(`etags.go:42`), so it hardly ever says 304.

## 7. Where the code and its documentation disagree

Shown by a run:

1. *Two providers* (`tracker_providers`).  `Tracker.Commit` walks all tracked
   certificates once for every provider.  A stale certificate of another provider
   is untracked there, and its name is given to the `RemoveManaged` of the
   provider under way, which untracks and unmanages its own certificate of that
   name although it is committed.  The next cycle asks for it again; until then
   it is not renewed.  The stale one stays managed and is not tracked.
2. *Shared documents* (`compile_shared`).  Without `--plugin-labels` the merged
   document is not copied, and the entries of `ssls` in it are those of the
   fragments.  The SSL plugin puts the certificates into them; the gateways that
   come later in the cycle find certificates instead of references, ask for
   nothing and record nothing.
3. *The example of the manual* (`compile_example`).  An entry of `ssls` with a
   file for its certificate and no key, as the manual shows it, is published with
   the reference in it: `collectSinglePair` wants both.
4. *Deleted fragments* (`recorder_deleted`).  The recorded sources only grow, so
   the index of "the last enumeration" has fragments that no longer exist.

Met while reading, with no run of their own:

- The comment on `Config.Cooldown` (`dispatcher.go:72`) and the manual promise a
  minimum interval between runs.  `Run` remembers the time of the dequeue, before
  the wait, so after a run that waited the next may start at once; what holds is
  `BurstOfTwo`.
- The manual (`README.md:121`) says `/ready` answers 200 only after a
  configuration was written; the file reloader returns success for a gateway
  that is not the one on disk (`reloader.go:73`).
- A payload that waits while another is applied is not applied if that one fails,
  until a further event arrives (`client.go:386`).
- The manual (`README.md:217`) says that a certificate which arrives after the
  fallback was used starts a new cycle; `ReadyManager.Loop` (`ready.go:87`),
  written for that, is not called.
- The ETag of an index is the time of an enumeration, and the index is replaced
  later in the cycle (`handlers.go:28`, `:45`), so 304 may be said of an older one;
  `IndexNotModified` says how old it can be.
- `recorder.go:109` says the sources are recorded before variables are put in;
  they are recorded after.
- `POST /schema/validate` takes YAML, and the check of its input says it does not
  (`internal/schema/handlers.go:78`).
- `Recorder.instances` is a map that handlers read and `Commit` writes without a
  lock; the model takes each access as atomic.

## 8. Theorems

All are checked by `tlapm` for every value of the constants that satisfies the
named assumptions of the modules.

- `DispatcherProofs`: `TypeCorrect`; then `RequestsNotLost`, `CacheIsTrue`,
  `ReloadsAreNeeded`, `PublishedIsValid`, `PublishingIsDisciplined`,
  `AtRestAllIsCurrent`.  None of these is inductive alone.  `PhaseInv` says which
  locals are meaningful at each place of the loop and who holds the mutex;
  `UnvisitedInv` that a fetch has read nothing of what it has still to list;
  `CandidateInv` what the candidate is between render and commit;
  `CommittedInv` that the hash, the payload and the success flag of a gateway
  speak of one commit; `FreshInv` that a source unlike what was read is still
  ahead; `OutcomeInv` what a clean cycle has done to the gateways it has visited.
  The last theorem combines `FreshInv` (the tree equals what was read) with
  `OutcomeInv` (what was read is on offer).
- `CooldownProofs`: `TypeCorrect`; `AtMostTwoPerCooldown`, from `PastInv` (every
  remembered time is in the past) and `OrderInv` (the starts lie after the
  dequeues that ordered them, and consecutive dequeues are spaced by the wait);
  `WaitIsBounded`, from the same and from the deadline being due no later than a
  cooldown after the dequeue.
- `FileReloaderProofs`: `TypeCorrect`; `ConfigurationNeverTorn`, from
  `ContentInvariant` (what the temporary file holds at each call, and that a live
  file not yet synced cannot exist); `ReplacementIsAtomic`, the refinement of
  `ConfigFile`, by a lemma that maps every action to an abstract step or a
  stutter; `LitterIsAccountedFor` and `ModeIsKept`, from what each place of the
  call says about the temporary file and about the mode it was given.
- `SSEServerProofs`: `TypeCorrect`; `ChannelsOutliveSubscriptions`, from the place
  of a handler determining whether it is registered and whether its channel is
  closed; `StreamsAreNeverStale`: a registered stream that holds an old record has
  a token left or is about to read; `StreamsAreOrdered`, from `SendInv`: what was
  sent, what is about to be sent and the record are in this order; `StreamsServe`,
  the refinement of `EventStream` for every stream and gateway at once: `StepServes`
  maps each action to an abstract step or a stutter, with `RegisterInv` (a
  publication reaches a stream that is served) and `NotifiedInv` (a stream that
  starts without a record starts without notifications).
- `SSEClientProofs`: `ReloadsNeverOverlap` and `ClientFollows`, the refinement of
  `Follower`; the invariant orders live, the jobs, the target, the events on the
  wire and the server's record.  `TypeCorrect`; `TargetIsReached`, from
  `ResultInv`: a result that waits says which payload is in the file.
- `TrackerProofs`: `TrackedIsManaged`, for one provider (`OneProvider`), from
  `LockInv`, which keeps cycle and upkeep apart, and `KeptInv`, which says how far
  tracked and managed may differ at each place of both.  `CommittedIsManaged`, for
  any number of providers, as long as the sources keep to an `owner` of every
  name: the names of what the upkeep gives up are those of no other owned key
  (`NamesOfOwned`), so that, although it tells the wrong provider about them,
  nothing tracked or committed is among what that provider releases (`HeldInv`).
  Without the condition the run `tracker_providers` refutes the property; with one
  provider the condition always holds (`CommittedIsManagedByOne`).
  `TrackIsNeverOlder` and `TypeCorrect`, for any number of providers.  That the
  state is finite rests on the number of certificates ever issued being bounded:
  `CertsInvariant` says that every certificate anywhere was issued, and
  `RoomInvariant` that a live request never has more to deliver than its channel
  takes, as every key is asked for once.
- `RecorderProofs`: `DownloadedOnce`, with `SchemaIsKept` and `AdoptedIsWhole`,
  from the lock (`ManagerInv`: who is fetching or adopting holds it, and nothing
  is cached yet) and from the answer being adopted (`AdoptedInv`).
  `NotModifiedIsTrue` needs `TimeInv`: while an enumeration runs every tag in use
  is of an earlier one, so an answer made from sources half replaced has a tag
  that the end of the enumeration makes stale.  `IndexIsRecent`, although gateways
  commit between two enumerations: `ShownInv` and `HeldSteps` say that what a client
  is answered is one of the versions in `shown`, which only grows until the time is
  set anew, and by `TimeInv` no tag in use is current then.  `ObjectsAreShown`, from
  `BatchInv` (a cycle records what it read and commits nothing else) and
  `CommitInv` (the index of a gateway is that of all its recorded fragments, its
  configuration the merge of some of them).
- `CompileProofs`: `OneVersionOfVariables`, from three facts that hold together:
  no directory is listed twice in a cycle (`RootsInv`), what is remembered for a
  listed fragment is a version since the listing (`ListedInv`), and what was read
  is what the remembered version makes of its text (`ReadInv`).
  `PublishedAreCommitted` has the hypothesis `EnableLabels`: without labels the
  run `compile_shared` refutes it.  `CertsInv` says that fragments stay as they
  were read, that every gateway to be handled has some, and that each gateway's
  record covers what it publishes; `InlinePairs`, `InlineHolds` and `LabelsHold`
  are the lemmas about the plugins that it rests on: a pair of the new document is
  the replacement of a pair of the old one, what replaces a pair is a certificate
  that arrived or the fallback, and labels change no pair.
  `PublishedIsOfItsSources`, with labels on as well (without them the fragments
  are written to, and a published configuration has what an earlier gateway of
  the cycle put there).  A document is `Stripped` of the certificate texts in the
  entries of `ssls`, which the SSL plugin may replace, and of the labels that are
  the program's own.  `InlineStrips` says that certificates come off again, `LabelsStrip` that
  labels do and name the gateway, `RawInv` that fragments stay as they were read,
  and `RenderedIsPlain` puts the steps of a rendering together.

Assumptions on the operator constants, all evaluated by TLC on the real ones, for
every set of the run's fragments:

- `MergeAssumption` (`Recorder`): a merge that succeeds keeps the members of its
  fragments and adds none; an object it makes is an object of a fragment, of each
  one that has members of it.  That is `MergeReference` of `Compile` with the
  identifiers: `mergeKeyedItems` joins entries of one id only.
- `MergeAssumption` (`Compile`): a merge that succeeds keeps the members of its
  fragments, certificates and labels aside, and adds none.
- `DocumentsAssumption` (`Compile`): a merge of fragments as they are read is a
  map (`compiler.Merge` refuses what is none) and holds no certificate that a
  provider issued: only the plugin puts one in.

Nothing is assumed of `Substituted`, `WithDefaults`, `Normalized` or `Compiled`.

Model-checked only: everything under fairness (`RequestServed`, `Converges`,
`CatchesUp`, `FallbackReplaced`, `Released`, `Answered`), which is out of this
prover's reach, as enabledness is; and what speaks of the contents of documents
of any depth, which would take an induction over data: `MergeReference`,
`RefsResolve` and `DefaultsOnlyAdd`.

## 9. Plan

Done in the order of importance: pipeline, pacing, file, delivery, certificates,
then documents, the cycle over them, recorder and schema.  The safety properties
of all of them are theorems, but for what recursion computes from documents of
any depth.  What remains:

1. `Delivery`: `SSEServer` and several `SSEClient`s composed over one network
   with `Dispatcher`'s publications; so far one stream is composed, through
   `EventStream`.
2. `Mirror`: the directory in which `apisix test` runs, call by call.
3. The one-shot compile mode, and the start-up checks of the certificate
   plug-in.

## 10. Not modelled

- `internal/queue` and `internal/inputs/db`: no package of the program
  imports them.
- Generated code (`docs.go`), the web application's assets, test helpers, logging
  and metrics.
- Flags and their parsing (`cmd/sixpack/config`, most of `main.go`), the one-shot
  compile mode: straight-line code without state; the choices they make are
  constants of the modules.
- The buffering module: C and Lua inside nginx, apart from this program.
- `apisix test` and the copy of its home directory: an external program; its
  verdict is any.
- The ACME protocol and certmagic's storage, the JSON Schema library, YAML and
  PEM parsing and printing: libraries.  Certificate files that are no PEM, and
  file names with a plus sign, are left out with them.
- The kind set of the merge rules (`mergeSet`, `indexSet`): no rule uses it.
- A restart of the recorder, which forgets everything, and `If-Modified-Since`.
