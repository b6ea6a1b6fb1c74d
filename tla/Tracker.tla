------------------------------ MODULE Tracker -------------------------------
(***************************************************************************)
(* The certificates of `sixpack serve`: ssl.Tracker between the compile    *)
(* cycles that ask for certificates (LiveHandler), the events of certmagic *)
(* (UpdateLoop) and the upkeep that releases what is not used any more     *)
(* (CommitLoop).  Cycles and upkeep exclude each other by the scheduler    *)
(* mutex; the update loop runs beside both.                                *)
(*                                                                         *)
(* A certificate stands for its expiry, which orders those of one key; 0   *)
(* stands for none.  Sections under the tracker's lock are one action      *)
(* each, and so is every call of a provider.                               *)
(***************************************************************************)
EXTENDS Naturals, Sequences, FiniteSets

CONSTANTS
    Provider,       \* ACME providers
    Identity,       \* names certificates are issued for
    EventBuffer,    \* capacity of the event channel; 32 in NewSSLSetup
    Scenarios,      \* bounds: names the sources may ask for, and meanwhile the
                    \* certificates issued
    MaxEdits,       \* bound: changes of the sources
    MaxFaults       \* bound: failed requests, failed reloads

ASSUME TrackerAssumption ==
    /\ EventBuffer \in Nat \ {0}
    /\ IsFiniteSet(Provider)
    /\ \A s \in Scenarios :
        s.names \subseteq Identity /\ IsFiniteSet(s.names) /\ s.MaxCert \in Nat
    /\ MaxEdits \in Nat /\ MaxFaults \in Nat

Key == Provider \X Identity

NoUpdate == [key |-> <<>>, best |-> 0]

VARIABLES
    scenario,   \* one of Scenarios, for good
    wanted,     \* keys the sources ask for
    managed,    \* keys the providers keep issued
    stored,     \* last certificate issued, in certmagic's storage
    cache,      \* best match in a provider's cache
    events,     \* the event channel
    tracked, notAfter,  \* Tracker.track
    stale,      \* tracked keys not committed for the grace period
    lock,       \* scheduler mutex: "free", "cycle" or "upkeep"
    pc,         \* where the live request of the cycle stands
    targets,    \* keys of targetsById, of the cycle under way
    ask,        \* targets not asked for yet
    key, best,  \* target being asked for, certificate it was found to have
    pending,    \* pendingTargets
    certs,      \* certsByKey
    channel,    \* deliveries not received yet
    expired,    \* the live request has timed out
    record,     \* SerializerInstance.record
    asked, rendered,    \* last committed payload: its keys, their certificates
    success,    \* VirtualGateway.commitSuccess
    committed,  \* SerializerInstance.CommittedCerts
    update,     \* event the update loop has looked up
    task,       \* where the upkeep stands
    passes,     \* providers it has still to visit
    provider,   \* provider it is visiting
    polled,     \* local polledCerts
    remains,    \* local remains
    issued,     \* certificates issued so far
    edits, faults

magicVars  == <<managed, stored, cache>>
trackVars  == <<tracked, notAfter, stale>>
askVars    == <<targets, ask, key, best>>
replyVars  == <<pending, certs, channel, expired, record>>
outVars    == <<asked, rendered, success, committed>>
upkeepVars == <<task, passes, provider, polled, remains>>
testVars   == <<scenario, wanted, issued, edits, faults>>
vars == <<magicVars, events, trackVars, lock, pc, askVars, replyVars, outVars,
          update, upkeepVars, testVars>>

Nothing == [k \in Key |-> 0]

Cert == 0..scenario.MaxCert
Askable == Provider \X scenario.names

Init ==
    /\ scenario \in Scenarios /\ wanted \in SUBSET Askable
    /\ managed = {} /\ stored = Nothing /\ cache = Nothing
    /\ events = <<>>
    /\ tracked = {} /\ notAfter = Nothing /\ stale = {}
    /\ lock = "free"
    /\ pc = "idle"
    /\ targets = {} /\ ask = {} /\ key = <<>> /\ best = 0
    /\ pending = {} /\ certs = Nothing /\ channel = <<>> /\ expired = FALSE
    /\ record = {}
    /\ asked = {} /\ rendered = Nothing /\ success = FALSE /\ committed = {}
    /\ update = NoUpdate
    /\ task = "idle" /\ passes = {} /\ provider \in Provider
    /\ polled = Nothing /\ remains = {}
    /\ issued = 0 /\ edits = 0 /\ faults = 0

-----------------------------------------------------------------------------
(***************************************************************************)
(* Certmagic and the sources.                                              *)
(***************************************************************************)

Edit(w) ==
    /\ edits < MaxEdits
    /\ w # wanted
    /\ edits' = edits + 1
    /\ wanted' = w
    /\ UNCHANGED <<magicVars, events, trackVars, lock, pc, askVars, replyVars,
                   outVars, update, upkeepVars, scenario, issued, faults>>

\* A managed certificate is obtained or renewed; its event is dropped when the
\* channel is full.
Obtain(k) ==
    /\ k \in managed
    /\ issued < scenario.MaxCert
    /\ issued' = issued + 1
    /\ stored' = [stored EXCEPT ![k] = @ + 1]
    /\ cache' = [cache EXCEPT ![k] = stored[k] + 1]
    /\ events' = IF Len(events) < EventBuffer
                 THEN Append(events, k) ELSE events
    /\ UNCHANGED <<managed, trackVars, lock, pc, askVars, replyVars, outVars,
                   update, upkeepVars, scenario, wanted, edits, faults>>

\* A certificate managed again is loaded from the storage, without an event.
Load(k) ==
    /\ k \in managed
    /\ cache[k] = 0 /\ stored[k] > 0
    /\ cache' = [cache EXCEPT ![k] = stored[k]]
    /\ UNCHANGED <<managed, stored, events, trackVars, lock, pc, askVars,
                   replyVars, outVars, update, upkeepVars, testVars>>

-----------------------------------------------------------------------------
(***************************************************************************)
(* The tracker.                                                            *)
(***************************************************************************)

\* Mutant: deliveries wait for room without limit.
DeliverAll(k, c) == channel' = Append(channel, <<k, c>>)

\* NotifyAllLocked: only a live request watches, with room for two deliveries
\* per target; what does not fit is dropped.
Deliver(k, c) ==
    channel' = IF Len(channel) < 2 * Cardinality(targets)
               THEN Append(channel, <<k, c>>) ELSE channel

\* Mutant: whatever was read last is kept.
UpdateAlways(k, c, always) ==
    /\ notAfter' = IF k \in tracked THEN [notAfter EXCEPT ![k] = c]
                   ELSE notAfter
    /\ IF k \in tracked THEN Deliver(k, c) ELSE UNCHANGED channel

\* updateTrack: only a newer certificate is kept.
UpdateTrack(k, c, always) ==
    LET newer == notAfter[k] = 0 \/ c > notAfter[k]
    IN  /\ notAfter' = IF k \in tracked /\ newer
                       THEN [notAfter EXCEPT ![k] = c] ELSE notAfter
        /\ IF k \in tracked /\ (newer \/ always)
           THEN Deliver(k, c) ELSE UNCHANGED channel

\* The update loop takes an event and looks its certificate up ...
Lookup ==
    /\ update = NoUpdate
    /\ events # <<>>
    /\ events' = Tail(events)
    /\ update' = IF cache[Head(events)] = 0 THEN NoUpdate
                 ELSE [key |-> Head(events), best |-> cache[Head(events)]]
    /\ UNCHANGED <<magicVars, trackVars, lock, pc, askVars, replyVars, outVars,
                   upkeepVars, testVars>>

\* ... and then records and announces it.
Record ==
    /\ update # NoUpdate
    /\ update' = NoUpdate
    /\ UpdateTrack(update.key, update.best, TRUE)
    /\ UNCHANGED <<magicVars, events, tracked, stale, lock, pc, askVars,
                   pending, certs, expired, record, outVars, upkeepVars,
                   testVars>>

\* The grace period of a tracked key is over.
Age(k) ==
    /\ k \in tracked \ stale
    /\ stale' = stale \union {k}
    /\ UNCHANGED <<magicVars, events, tracked, notAfter, lock, pc, askVars,
                   replyVars, outVars, update, upkeepVars, testVars>>

-----------------------------------------------------------------------------
(***************************************************************************)
(* A compile cycle: replaceTargets and what becomes of its result.         *)
(***************************************************************************)

\* A compile request was taken and the cycle has the mutex; the live request
\* watches the tracker.  Nothing in the program but POST /compile and the start
\* makes such a request.
Begin ==
    /\ lock = "free" /\ pc = "idle"
    /\ lock' = "cycle"
    /\ pc' = "ask"
    /\ targets' = wanted /\ ask' = wanted
    /\ pending' = wanted
    /\ UNCHANGED <<magicVars, events, trackVars, key, best, certs, channel,
                   expired, record, outVars, update, upkeepVars, testVars>>

\* Mutant: a tracked certificate is not announced again.
AskQuiet(k) ==
    /\ pc = "ask"
    /\ k \in ask
    /\ ask' = ask \ {k}
    /\ key' = k
    /\ IF k \in tracked
       THEN /\ pc' = IF notAfter[k] > 0 THEN "asked" ELSE "peek"
            /\ UNCHANGED trackVars
       ELSE /\ tracked' = tracked \union {k}
            /\ stale' = stale \ {k}
            /\ pc' = "manage"
            /\ UNCHANGED notAfter
    /\ UNCHANGED <<magicVars, events, lock, targets, best, replyVars, outVars,
                   update, upkeepVars, testVars>>

\* RequestCertificate: a tracked certificate is announced again; a key that is
\* not tracked is, before its provider is asked.
Ask(k) ==
    /\ pc = "ask"
    /\ k \in ask
    /\ ask' = ask \ {k}
    /\ key' = k
    /\ IF k \in tracked
       THEN /\ IF notAfter[k] > 0 THEN Deliver(k, notAfter[k])
               ELSE UNCHANGED channel
            /\ pc' = IF notAfter[k] > 0 THEN "asked" ELSE "peek"
            /\ UNCHANGED trackVars
       ELSE /\ tracked' = tracked \union {k}
            /\ stale' = stale \ {k}
            /\ pc' = "manage"
            /\ UNCHANGED <<notAfter, channel>>
    /\ UNCHANGED <<magicVars, events, lock, targets, best, pending, certs,
                   expired, record, outVars, update, upkeepVars, testVars>>

Manage ==
    /\ pc = "manage"
    /\ managed' = managed \union {key}
    /\ pc' = "peek"
    /\ UNCHANGED <<stored, cache, events, trackVars, lock, askVars, replyVars,
                   outVars, update, upkeepVars, testVars>>

\* The provider refuses: the key is not tracked and not pending any more.
Refused ==
    /\ pc = "manage"
    /\ faults < MaxFaults
    /\ faults' = faults + 1
    /\ tracked' = tracked \ {key}
    /\ notAfter' = [notAfter EXCEPT ![key] = 0]
    /\ stale' = stale \ {key}
    /\ pending' = pending \ {key}
    /\ pc' = "ask"
    /\ UNCHANGED <<magicVars, events, lock, askVars, certs, channel, expired,
                   record, outVars, update, upkeepVars, scenario, wanted,
                   issued, edits>>

\* A first look at the provider's cache, outside the lock ...
Peek ==
    /\ pc = "peek"
    /\ best' = cache[key]
    /\ pc' = IF cache[key] = 0 THEN "asked" ELSE "found"
    /\ UNCHANGED <<magicVars, events, trackVars, lock, targets, ask, key,
                   replyVars, outVars, update, upkeepVars, testVars>>

\* ... and what it found is recorded and announced if it is news.
Found ==
    /\ pc = "found"
    /\ UpdateTrack(key, best, FALSE)
    /\ pc' = "asked"
    /\ UNCHANGED <<magicVars, events, tracked, stale, lock, askVars, pending,
                   certs, expired, record, outVars, update, upkeepVars,
                   testVars>>

Asked ==
    /\ pc = "asked"
    /\ record' = record \union {key}
    /\ pc' = "ask"
    /\ UNCHANGED <<magicVars, events, trackVars, lock, askVars, pending, certs,
                   channel, expired, outVars, update, upkeepVars, testVars>>

\* The consumer goroutine: the first delivery for a pending key counts.
Receive ==
    /\ lock = "cycle"
    /\ channel # <<>>
    /\ channel' = Tail(channel)
    /\ LET k == Head(channel)[1]
       IN  IF k \in pending
           THEN /\ certs' = [certs EXCEPT ![k] = Head(channel)[2]]
                /\ pending' = pending \ {k}
           ELSE UNCHANGED <<certs, pending>>
    /\ UNCHANGED <<magicVars, events, trackVars, lock, pc, askVars, expired,
                   record, outVars, update, upkeepVars, testVars>>

Expire ==
    /\ lock = "cycle"
    /\ ~expired /\ pending # {}
    /\ expired' = TRUE
    /\ UNCHANGED <<magicVars, events, trackVars, lock, pc, askVars, pending,
                   certs, channel, record, outVars, update, upkeepVars,
                   testVars>>

\* All was asked for, and the goroutine is done: the payload is rendered, with
\* the fallback for what is missing.
Rendered ==
    /\ pc = "ask"
    /\ ask = {}
    /\ pending = {} \/ expired
    /\ lock' = "free"
    /\ pc' = "idle"
    /\ targets' = {} /\ key' = <<>> /\ best' = 0
    /\ pending' = {} /\ certs' = Nothing /\ channel' = <<>>
    /\ expired' = FALSE /\ record' = {}
    /\ UNCHANGED <<magicVars, events, trackVars, ask, update, upkeepVars,
                   scenario, wanted, issued, edits>>

Unchanged == asked = targets /\ rendered = certs

\* Nothing changed since the last commit, which succeeded.
Skip ==
    /\ Rendered
    /\ Unchanged /\ success
    /\ UNCHANGED <<outVars, faults>>

\* The payload was validated and reloaded; its requests are kept.
Commit ==
    /\ Rendered
    /\ ~ (Unchanged /\ success)
    /\ asked' = targets /\ rendered' = certs
    /\ committed' = record
    /\ success' = TRUE
    /\ UNCHANGED faults

\* It was refused, or the reload failed.
Abort ==
    /\ Rendered
    /\ faults < MaxFaults
    /\ faults' = faults + 1
    /\ success' = FALSE
    /\ UNCHANGED <<asked, rendered, committed>>

-----------------------------------------------------------------------------
(***************************************************************************)
(* Upkeep: CommitLoop, Tracker.Commit, TrackedProvider.RemoveManaged.      *)
(***************************************************************************)

\* Mutant: upkeep does not look at the mutex.
UpkeepAnyTime ==
    /\ task = "idle"
    /\ committed # {}
    /\ passes' = {k[1] : k \in committed}
    /\ task' = "next"
    /\ UNCHANGED <<magicVars, events, trackVars, lock, pc, askVars, replyVars,
                   outVars, update, provider, polled, remains, testVars>>

\* A tick finds the mutex free and something committed.
Upkeep ==
    /\ lock = "free"
    /\ lock' = "upkeep"
    /\ committed # {}
    /\ passes' = {k[1] : k \in committed}
    /\ task' = "next"
    /\ UNCHANGED <<magicVars, events, trackVars, pc, askVars, replyVars,
                   outVars, update, provider, polled, remains, testVars>>

\* The committed certificates of the next provider are looked up.
Poll(p) ==
    /\ task = "next"
    /\ p \in passes
    /\ passes' = passes \ {p}
    /\ provider' = p
    /\ polled' = [k \in Key |-> IF k \in committed /\ k[1] = p
                                THEN cache[k] ELSE 0]
    /\ task' = "sort"
    /\ UNCHANGED <<magicVars, events, trackVars, lock, pc, askVars, replyVars,
                   outVars, update, remains, testVars>>

\* Mutant: whatever is tracked counts as committed.
SortAll ==
    /\ task = "sort"
    /\ remains' = {}
    /\ notAfter' = [k \in Key |->
                     IF k \in tracked /\ polled[k] > notAfter[k]
                     THEN polled[k] ELSE notAfter[k]]
    /\ stale' = {}
    /\ task' = "untrack"
    /\ UNCHANGED <<magicVars, events, tracked, lock, pc, askVars, replyVars,
                   outVars, update, passes, provider, polled, testVars>>

\* Tracked keys of whatever provider: those committed are confirmed, and
\* updated from the poll; those left over for long are not tracked any more.
Sort ==
    /\ task = "sort"
    /\ LET over == (tracked \ committed) \intersect stale
       IN  /\ tracked' = tracked \ over
           /\ remains' = {k[2] : k \in over}
           /\ notAfter' = [k \in Key |->
                            IF k \in over THEN 0
                            ELSE IF k \in tracked /\ polled[k] > notAfter[k]
                            THEN polled[k] ELSE notAfter[k]]
           /\ stale' = stale \ (over \union committed)
    /\ task' = "untrack"
    /\ UNCHANGED <<magicVars, events, lock, pc, askVars, replyVars, outVars,
                   update, passes, provider, polled, testVars>>

Remains == {<<provider, i>> : i \in remains}

\* RemoveManaged: the names are not tracked, then not managed any more; those
\* tracked again by then are requested again.
Untrack ==
    /\ task = "untrack"
    /\ tracked' = tracked \ Remains
    /\ notAfter' = [k \in Key |-> IF k \in Remains THEN 0 ELSE notAfter[k]]
    /\ stale' = stale \ Remains
    /\ task' = "unmanage"
    /\ UNCHANGED <<magicVars, events, lock, pc, askVars, replyVars, outVars,
                   update, passes, provider, polled, remains, testVars>>

\* Mutant: the provider is not told.
UnmanageNothing ==
    /\ task = "unmanage"
    /\ task' = "rollback"
    /\ UNCHANGED <<magicVars, events, trackVars, lock, pc, askVars, replyVars,
                   outVars, update, passes, provider, polled, remains,
                   testVars>>

Unmanage ==
    /\ task = "unmanage"
    /\ managed' = managed \ Remains
    /\ cache' = [k \in Key |-> IF k \in Remains THEN 0 ELSE cache[k]]
    /\ task' = "rollback"
    /\ UNCHANGED <<stored, events, trackVars, lock, pc, askVars, replyVars,
                   outVars, update, passes, provider, polled, remains,
                   testVars>>

Rollback ==
    /\ task = "rollback"
    /\ managed' = managed \union (Remains \intersect tracked)
    /\ remains' = {} /\ polled' = Nothing
    /\ task' = "next"
    /\ UNCHANGED <<stored, cache, events, trackVars, lock, pc, askVars,
                   replyVars, outVars, update, passes, provider, testVars>>

UpkeepEnd ==
    /\ task = "next"
    /\ passes = {}
    /\ task' = "idle"
    /\ lock' = "free"
    /\ UNCHANGED <<magicVars, events, trackVars, pc, askVars, replyVars,
                   outVars, update, passes, provider, polled, remains,
                   testVars>>

-----------------------------------------------------------------------------
UpdateLoop == Lookup \/ Record

LiveRequest ==
    \/ \E k \in Key : Ask(k)
    \/ Manage \/ Refused \/ Peek \/ Found \/ Asked
    \/ Skip \/ Commit \/ Abort

CommitLoop ==
    \/ \E p \in Provider : Poll(p)
    \/ Sort \/ Untrack \/ Unmanage \/ Rollback \/ UpkeepEnd

Next ==
    \/ \E w \in SUBSET Askable : Edit(w)
    \/ \E k \in Key : Obtain(k) \/ Load(k) \/ Age(k)
    \/ UpdateLoop
    \/ Begin \/ LiveRequest \/ Receive \/ Expire
    \/ Upkeep \/ CommitLoop

Spec == Init /\ [][Next]_vars

(***************************************************************************)
(* Fairness.  The update loop and the live request are goroutines, the     *)
(* calls of a provider return, the live request has a time-out, the upkeep *)
(* has a ticker, and the grace period passes.  Nothing forces a compile    *)
(* request or a certificate to arrive.                                     *)
(***************************************************************************)
Fairness ==
    /\ WF_vars(UpdateLoop)
    /\ WF_vars(LiveRequest)
    /\ WF_vars(Receive)
    /\ WF_vars(Expire)
    /\ WF_vars(Upkeep)
    /\ WF_vars(CommitLoop)
    /\ \A k \in Key : WF_vars(Age(k))

FairSpec == Spec /\ Fairness

-----------------------------------------------------------------------------
(***************************************************************************)
(* Properties.                                                             *)
(***************************************************************************)

\* Type invariant of the tracker, of the live request and of the upkeep.
TypeOK ==
    /\ wanted \subseteq Askable /\ managed \subseteq Key
    /\ {stored, cache, notAfter, certs, rendered, polled}
            \subseteq [Key -> Cert]
    /\ events \in Seq(Key) /\ Len(events) <= EventBuffer
    /\ stale \subseteq tracked /\ tracked \subseteq Key
    /\ lock \in {"free", "cycle", "upkeep"}
    /\ pc \in {"idle", "ask", "manage", "peek", "found", "asked"}
    /\ targets \subseteq Key /\ ask \subseteq targets
    /\ pending \subseteq targets /\ record \subseteq targets
    /\ key \in Key \union {<<>>} /\ best \in Cert
    /\ channel \in Seq(Key \X Cert)
    /\ Len(channel) <= 2 * Cardinality(targets)
    /\ expired \in BOOLEAN /\ success \in BOOLEAN
    /\ asked \subseteq Key /\ committed \subseteq asked
    /\ update \in [key : Key, best : Cert] \union {NoUpdate}
    /\ task \in {"idle", "next", "sort", "untrack", "unmanage", "rollback"}
    /\ passes \subseteq Provider /\ provider \in Provider
    /\ remains \subseteq Identity
    /\ edits \in Nat /\ faults \in Nat

\* While neither a cycle nor the upkeep is at work, the providers keep issued
\* exactly what the tracker tracks: none is renewed for nobody, none forgotten.
Agreement == lock = "free" => managed = tracked

\* What the comment on RemoveManaged says: certificates are unmanaged when they
\* have not been committed for long, so those of the configuration in force are
\* kept renewed.
CommittedStaysManaged == committed \subseteq managed

\* A tracked certificate is never replaced by an older one, although the update
\* loop, a live request and the upkeep look it up without the lock.
NeverOlder ==
    [][\A k \in tracked \intersect tracked' : notAfter'[k] >= notAfter[k]]_vars

\* A time-out strikes only when there is nothing to do but wait for it.
Patient == <>[][Expire => pc = "ask" /\ ask = {} /\ channel = <<>>]_vars

\* As long as cycles go on, no fallback stays in the configuration for a
\* certificate that its provider keeps issued and has, whatever notifications
\* were dropped.
FallbackReplaced ==
    Patient /\ []<><<Begin>>_vars =>
        <>[](\A k \in committed \intersect wanted : cache[k] > 0 => rendered[k] > 0)

\* Once the cycles stop, a managed certificate that the configuration does not
\* use is released (if the configuration uses any at all).
Released ==
    <>[](lock # "cycle") =>
        \A k \in Key :
            k \in managed \ committed
                ~> k \notin managed \/ k \in committed \/ committed = {}
=============================================================================
