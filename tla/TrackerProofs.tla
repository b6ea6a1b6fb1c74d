--------------------------- MODULE TrackerProofs ----------------------------
(***************************************************************************)
(* With one provider, what is tracked and what is managed agree between    *)
(* cycles.  With any number of providers, what is committed stays managed  *)
(* as long as no name is asked of two of them.  Whatever is asked for, a   *)
(* certificate is never replaced by an older one, and the types of the     *)
(* state bound it.                                                         *)
(***************************************************************************)
EXTENDS Tracker, FiniteSetTheorems, TLAPS

OneProvider == \E p : Provider = {p}

\* The cycle and the upkeep exclude each other, and nobody works without the
\* mutex.
LockInv ==
    /\ lock \in {"free", "cycle", "upkeep"}
    /\ lock = "cycle" <=> pc # "idle"
    /\ lock = "upkeep" <=> task # "idle"
    /\ provider \in Provider

\* The cycle is about to ask the provider for a key that is tracked already.
Asking == pc = "manage"

\* The upkeep has taken names off the track that the provider still manages.
Releasing == task \in {"untrack", "unmanage"}

\* How far tracked and managed may differ, and where.
KeptInv ==
    /\ tracked \subseteq Key
    /\ Asking => key \in tracked /\ managed = tracked \ {key}
    /\ Releasing => /\ managed = tracked \union Remains
                    /\ tracked \intersect Remains = {}
    /\ task = "rollback" => tracked \intersect Remains = {}
    /\ ~Asking /\ ~Releasing => managed = tracked

TrackInv == LockInv /\ KeptInv

-----------------------------------------------------------------------------
\* What the sources, certmagic, the update loop and the goroutine of the live
\* request do leaves alone what is asked for, tracked, managed and committed.
Beside ==
    \/ \E w \in SUBSET Askable : Edit(w)
    \/ \E k \in Key : Obtain(k) \/ Load(k) \/ Age(k)
    \/ UpdateLoop \/ Receive \/ Expire
    \/ UNCHANGED vars

LEMMA BesideKeeps ==
    ASSUME Beside
    PROVE  UNCHANGED <<managed, tracked, lock, pc, ask, key, record, committed,
                       task, provider, remains>>
<1> USE DEF magicVars, trackVars, askVars, replyVars, outVars, upkeepVars,
            testVars
<1>1. CASE \E w \in SUBSET Askable : Edit(w)
  BY <1>1 DEF Edit
<1>2. CASE \E k \in Key : Obtain(k) \/ Load(k) \/ Age(k)
  BY <1>2 DEF Obtain, Load, Age
<1>3. CASE Lookup
  BY <1>3 DEF Lookup
<1>4. CASE Record
  BY <1>4 DEF Record
<1>5. CASE Receive
  BY <1>5 DEF Receive
<1>6. CASE Expire
  BY <1>6 DEF Expire
<1>7. CASE UNCHANGED vars
  BY <1>7 DEF vars
<1>8. QED
  BY <1>1, <1>2, <1>3, <1>4, <1>5, <1>6, <1>7 DEF Beside, UpdateLoop

-----------------------------------------------------------------------------
\* The keys the upkeep takes off the track are those of the provider it
\* visits, when there is no other.
LEMMA OverIsRemains ==
    ASSUME OneProvider, NEW q \in Provider, NEW over, over \subseteq Key
    PROVE  {<<q, i>> : i \in {k[2] : k \in over}} = over
<1>1. PICK p : Provider = {p}
  BY DEF OneProvider
<1>2. \A k \in over : \E i \in Identity : k = <<q, i>>
  BY <1>1 DEF Key
<1>3. QED
  BY <1>2

LEMMA TrackInvariant ==
    ASSUME OneProvider
    PROVE  Spec => []TrackInv
<1>1. Init => TrackInv
  BY DEF Init, TrackInv, LockInv, KeptInv, Asking, Releasing
<1>2. TrackInv /\ [Next]_vars => TrackInv'
  <2> SUFFICES ASSUME TrackInv, [Next]_vars PROVE TrackInv'
    OBVIOUS
  <2> USE DEF TrackInv, LockInv, KeptInv, Asking, Releasing, Remains,
              magicVars, trackVars, askVars, replyVars, outVars, upkeepVars,
              testVars
  <2>1. CASE Beside
    BY <2>1, BesideKeeps
  <2>2. CASE Begin
    BY <2>2 DEF Begin
  <2>3. ASSUME NEW k \in Key, Ask(k) PROVE TrackInv'
    <3>1. CASE k \in tracked
      BY <2>3, <3>1 DEF Ask
    <3>2. CASE k \notin tracked
      BY <2>3, <3>2 DEF Ask
    <3>3. QED
      BY <3>1, <3>2
  <2>4. CASE Manage
    BY <2>4 DEF Manage
  <2>5. CASE Refused
    BY <2>5 DEF Refused
  <2>6. CASE Peek \/ Found \/ Asked
    BY <2>6 DEF Peek, Found, Asked, UpdateTrack
  <2>7. CASE Skip \/ Commit \/ Abort
    BY <2>7 DEF Skip, Commit, Abort, Rendered
  <2>8. CASE Upkeep
    BY <2>8 DEF Upkeep
  <2>9. ASSUME NEW p \in Provider, Poll(p) PROVE TrackInv'
    BY <2>9 DEF Poll
  <2>10. CASE Sort
    <3> DEFINE over == (tracked \ committed) \intersect stale
    <3>1. /\ tracked' = tracked \ over /\ remains' = {k[2] : k \in over}
          /\ task = "sort" /\ task' = "untrack"
          /\ UNCHANGED <<managed, lock, pc, key, record, committed, provider>>
      BY <2>10 DEF Sort
    <3>2. Remains' = over
      BY <3>1, OverIsRemains
    <3>3. QED
      BY <3>1, <3>2
  <2>11. CASE Untrack \/ Unmanage
    BY <2>11 DEF Untrack, Unmanage
  <2>12. CASE Rollback
    BY <2>12 DEF Rollback
  <2>13. CASE UpkeepEnd
    BY <2>13 DEF UpkeepEnd
  <2>14. QED
    BY <2>1, <2>2, <2>3, <2>4, <2>5, <2>6, <2>7, <2>8, <2>9, <2>10, <2>11,
       <2>12, <2>13 DEF Next, Beside, LiveRequest, CommitLoop
<1>3. QED
  BY <1>1, <1>2, PTL DEF Spec

\* With one provider, what is managed is what is tracked whenever neither a
\* cycle nor the upkeep is at work.
THEOREM TrackedIsManaged ==
    ASSUME OneProvider
    PROVE  Spec => []Agreement
<1>1. TrackInv => Agreement
  BY DEF TrackInv, LockInv, KeptInv, Asking, Releasing, Agreement
<1>2. QED
  BY <1>1, TrackInvariant, PTL

-----------------------------------------------------------------------------
\* The keys of a configuration in which every name has one provider.
Owned(owner) == {<<owner[i], i>> : i \in Identity}

\* The upkeep holds names to release.
Holding == task \in {"untrack", "unmanage", "rollback"}

\* Only owned keys are asked for, tracked and committed.
OwnedInv(owner) ==
    /\ ask \subseteq Owned(owner)
    /\ tracked \subseteq Owned(owner)
    /\ committed \subseteq Owned(owner)
    /\ record \subseteq Owned(owner)
    /\ pc \in {"manage", "peek", "found", "asked"} => key \in Owned(owner)

\* What is tracked is managed, but for the key the provider is being asked for;
\* so is what a cycle records and what is committed; and none of it is among the
\* names the upkeep holds, which are of another provider's keys if at all.
HeldInv ==
    /\ \A k \in tracked : k \in managed \/ (pc = "manage" /\ k = key)
    /\ pc \in {"peek", "found", "asked"} => key \in managed
    /\ pc = "idle" => record = {}
    /\ record \subseteq managed
    /\ committed \subseteq managed
    /\ Holding => tracked \intersect Remains = {}
    /\ Holding => committed \intersect Remains = {}

HomeInv(owner) == LockInv /\ OwnedInv(owner) /\ HeldInv

\* An owned key is the only owned one of its name.
LEMMA OneOwner ==
    ASSUME NEW owner, NEW j \in Owned(owner), NEW k \in Owned(owner), j[2] = k[2]
    PROVE  j = k
  BY DEF Owned

\* So the names of some owned keys are, at any provider, those keys or keys that
\* nobody owns.
LEMMA NamesOfOwned ==
    ASSUME NEW owner, NEW q, NEW over, over \subseteq Owned(owner),
           NEW j \in Owned(owner), j \in {<<q, i>> : i \in {k[2] : k \in over}}
    PROVE  j \in over
<1>1. PICK k \in over : j = <<q, k[2]>>
  OBVIOUS
<1>2. j[2] = k[2]
  BY <1>1
<1>3. QED
  BY <1>2, OneOwner

\* The invariant, for whichever owner the sources keep to.
LEMMA HomeStarts ==
    ASSUME NEW owner
    PROVE  Init => HomeInv(owner)
  BY DEF Init, HomeInv, LockInv, OwnedInv, HeldInv, Holding

LEMMA HomeInductive ==
    ASSUME NEW owner, HomeInv(owner), wanted \subseteq Owned(owner), [Next]_vars
    PROVE  HomeInv(owner)'
<1> USE DEF HomeInv, LockInv, OwnedInv, HeldInv, Holding, magicVars, trackVars,
            askVars, replyVars, outVars, upkeepVars, testVars
<1>1. CASE Beside
  BY <1>1, BesideKeeps DEF Remains
<1>2. CASE Begin
  BY <1>2 DEF Begin, Remains
<1>3. ASSUME NEW k \in Key, Ask(k) PROVE HomeInv(owner)'
  <2>1. CASE k \in tracked
    BY <1>3, <2>1 DEF Ask, Remains
  <2>2. CASE k \notin tracked
    BY <1>3, <2>2 DEF Ask
  <2>3. QED
    BY <2>1, <2>2
<1>4. CASE Manage
  BY <1>4 DEF Manage, Remains
<1>5. CASE Refused
  BY <1>5 DEF Refused, Remains
<1>6. CASE Peek \/ Found
  <2>1. /\ UNCHANGED <<managed, tracked, lock, ask, key, record, committed,
                       task, provider, remains>>
        /\ pc \in {"peek", "found"} /\ pc' \in {"found", "asked"}
    <3>1. CASE Peek
      BY <3>1 DEF Peek
    <3>2. CASE Found
      BY <3>2 DEF Found
    <3>3. QED
      BY <1>6, <3>1, <3>2
  <2>2. QED
    BY <2>1 DEF Remains
<1>7. CASE Asked
  BY <1>7 DEF Asked, Remains
<1>8. CASE Skip \/ Commit \/ Abort
  <2>1. Rendered /\ committed' \in {committed, record}
    BY <1>8 DEF Skip, Commit, Abort
  <2>2. /\ UNCHANGED <<managed, tracked, ask, task, provider, remains>>
        /\ pc = "ask" /\ pc' = "idle" /\ lock' = "free" /\ record' = {}
    BY <2>1 DEF Rendered
  <2>3. lock = "cycle" /\ task = "idle"
    BY <2>2
  <2>4. QED
    BY <2>1, <2>2, <2>3
<1>9. CASE Upkeep
  BY <1>9 DEF Upkeep
<1>10. ASSUME NEW p \in Provider, Poll(p) PROVE HomeInv(owner)'
  BY <1>10 DEF Poll
<1>11. CASE Sort
  <2> DEFINE over == (tracked \ committed) \intersect stale
  <2>1. /\ tracked' = tracked \ over /\ remains' = {k[2] : k \in over}
        /\ task = "sort" /\ task' = "untrack"
        /\ UNCHANGED <<managed, lock, pc, ask, key, record, committed, provider>>
    BY <1>11 DEF Sort
  <2>2. Remains' = {<<provider, i>> : i \in {k[2] : k \in over}}
    BY <2>1 DEF Remains
  <2>3. \A j \in Owned(owner) : j \in Remains' => j \in over
    <3>1. over \subseteq Owned(owner)
      OBVIOUS
    <3> HIDE DEF over
    <3>2. QED
      BY <2>2, <3>1, NamesOfOwned
  <2>4. tracked' \intersect Remains' = {} /\ committed' \intersect Remains' = {}
    BY <2>1, <2>3
  <2>5. QED
    BY <2>1, <2>4
<1>12. CASE Untrack
  BY <1>12 DEF Untrack, Remains
<1>13. CASE Unmanage
  <2>1. /\ UNCHANGED <<tracked, lock, pc, ask, key, record, committed,
                       provider, remains>>
        /\ managed' = managed \ Remains
        /\ task = "unmanage" /\ task' = "rollback"
    BY <1>13 DEF Unmanage
  <2>2. Remains' = Remains
    BY <2>1 DEF Remains
  <2>3. pc = "idle" /\ record = {}
    BY <2>1
  <2>4. QED
    BY <2>1, <2>2, <2>3
<1>14. CASE Rollback
  BY <1>14 DEF Rollback
<1>15. CASE UpkeepEnd
  BY <1>15 DEF UpkeepEnd
<1>16. QED
  BY <1>1, <1>2, <1>3, <1>4, <1>5, <1>6, <1>7, <1>8, <1>9, <1>10, <1>11,
     <1>12, <1>13, <1>14, <1>15 DEF Next, Beside, LiveRequest, CommitLoop

\* However many providers there are, as long as the sources never ask two of
\* them for one name the upkeep does not release a committed certificate: the
\* names it gives up at every provider are those of no committed key.
THEOREM CommittedIsManaged ==
    ASSUME NEW owner \in [Identity -> Provider]
    PROVE  Spec /\ [](wanted \subseteq Owned(owner)) => []CommittedStaysManaged
<1>1. Init => HomeInv(owner)
  BY HomeStarts
<1>2. HomeInv(owner) /\ wanted \subseteq Owned(owner) /\ [Next]_vars
      => HomeInv(owner)'
  BY HomeInductive
<1>3. HomeInv(owner) => CommittedStaysManaged
  BY DEF HomeInv, HeldInv, CommittedStaysManaged
<1>4. QED
  BY <1>1, <1>2, <1>3, PTL DEF Spec

-----------------------------------------------------------------------------
\* Certificates are numbers, wherever they are on their way.
CertInv ==
    /\ tracked \subseteq Key
    /\ {stored, cache, notAfter, polled} \subseteq [Key -> Nat]
    /\ best \in Nat /\ update.best \in Nat
    /\ pc \in {"manage", "peek", "found", "asked"} => key \in Key
    /\ events \in Seq(Key)

\* An event more in the channel.
LEMMA AppendKeeps ==
    ASSUME NEW S, NEW s \in Seq(S), NEW e \in S
    PROVE  Append(s, e) \in Seq(S)
  OBVIOUS

\* The rule of the tracker: what replaces a certificate is newer, or the first.
LEMMA UpdateKeepsOrder ==
    ASSUME CertInv, NEW j, NEW c \in Nat, NEW always, UpdateTrack(j, c, always),
           NEW k \in tracked
    PROVE  notAfter'[k] >= notAfter[k]
<1>1. notAfter \in [Key -> Nat] /\ k \in Key
  BY DEF CertInv
<1>2. CASE notAfter' = notAfter
  BY <1>1, <1>2
<1>3. CASE /\ notAfter' = [notAfter EXCEPT ![j] = c]
           /\ notAfter[j] = 0 \/ c > notAfter[j]
  BY <1>1, <1>3
<1>4. QED
  BY <1>2, <1>3 DEF UpdateTrack

\* Whoever looked a certificate up, and whenever, a tracked one is not replaced
\* by an older one, for any number of providers.
THEOREM TrackIsNeverOlder == Spec => NeverOlder
<1>1. Init => CertInv
  BY DEF Init, CertInv, Nothing, NoUpdate
<1>2. CertInv /\ [Next]_vars => CertInv'
  <2> SUFFICES ASSUME CertInv, [Next]_vars PROVE CertInv'
    OBVIOUS
  <2> USE DEF CertInv, magicVars, trackVars, askVars, replyVars, outVars,
              upkeepVars, testVars
  <2>1. CASE \/ \E w \in SUBSET Askable : Edit(w)
             \/ \E k \in Key : Age(k)
             \/ Begin \/ Manage \/ Asked \/ Receive \/ Expire
             \/ Upkeep \/ Rollback \/ UpkeepEnd \/ UNCHANGED vars
    <3>1. /\ UNCHANGED <<stored, cache, tracked, notAfter, best, update, key,
                          events>>
          /\ polled' \in {polled, Nothing}
          /\ pc' \in {"manage", "peek", "found", "asked"}
             => pc \in {"manage", "peek", "found", "asked"}
      BY <2>1 DEF Edit, Age, Begin, Manage, Asked, Receive, Expire, Upkeep,
         Rollback, UpkeepEnd, vars
    <3>2. QED
      BY <3>1 DEF Nothing
  <2>2. ASSUME NEW k \in Key, Obtain(k) \/ Load(k) PROVE CertInv'
    <3>1. /\ stored' = stored \/ stored' = [stored EXCEPT ![k] = @ + 1]
          /\ \/ cache' = [cache EXCEPT ![k] = stored[k] + 1]
             \/ cache' = [cache EXCEPT ![k] = stored[k]]
          /\ events' = events \/ events' = Append(events, k)
          /\ UNCHANGED <<tracked, notAfter, polled, best, update, pc, key>>
      BY <2>2 DEF Obtain, Load
    <3>2. stored[k] \in Nat /\ stored[k] + 1 \in Nat
      OBVIOUS
    <3>3. stored' \in [Key -> Nat] /\ cache' \in [Key -> Nat]
      BY <3>1, <3>2
    <3>4. events' \in Seq(Key)
      <4>1. /\ events \in Seq(Key)
            /\ events' = events \/ events' = Append(events, k)
        BY <3>1
      <4>2. QED
        BY <4>1, AppendKeeps
    <3>5. QED
      BY <3>1, <3>3, <3>4
  <2>3. ASSUME NEW k \in Key, Ask(k) PROVE CertInv'
    BY <2>3 DEF Ask
  <2>4. CASE Lookup
    <3>1. /\ UNCHANGED <<stored, cache, tracked, notAfter, polled, best, pc,
                          key>>
          /\ events # <<>> /\ events' = Tail(events)
          /\ \/ update' = NoUpdate
             \/ update' = [key |-> Head(events), best |-> cache[Head(events)]]
      BY <2>4 DEF Lookup
    <3>2. Head(events) \in Key /\ Tail(events) \in Seq(Key)
      BY <3>1
    <3>3. update'.best \in Nat
      BY <3>1, <3>2 DEF NoUpdate
    <3>4. events' \in Seq(Key)
      BY <3>1, <3>2
    <3>5. QED
      BY <3>1, <3>3, <3>4
  <2>5. CASE Record
    BY <2>5 DEF Record, UpdateTrack, NoUpdate
  <2>6. CASE Found
    BY <2>6 DEF Found, UpdateTrack
  <2>7. CASE Refused \/ Peek
    <3>1. CASE Refused
      BY <3>1 DEF Refused
    <3>2. CASE Peek
      BY <3>2 DEF Peek
    <3>3. QED
      BY <2>7, <3>1, <3>2
  <2>8. CASE Skip \/ Commit \/ Abort
    BY <2>8 DEF Skip, Commit, Abort, Rendered
  <2>9. ASSUME NEW p \in Provider, Poll(p) PROVE CertInv'
    BY <2>9 DEF Poll
  <2>10. CASE Sort \/ Untrack
    <3>1. /\ UNCHANGED <<stored, cache, polled, best, update, events, pc, key>>
          /\ tracked' \subseteq tracked
      BY <2>10 DEF Sort, Untrack
    <3>2. notAfter' \in [Key -> Nat]
      <4>1. CASE Sort
        BY <4>1 DEF Sort
      <4>2. CASE Untrack
        BY <4>2 DEF Untrack
      <4>3. QED
        BY <2>10, <4>1, <4>2
    <3>3. QED
      BY <3>1, <3>2
  <2>11. CASE Unmanage
    <3>1. UNCHANGED <<stored, notAfter, polled, best, update, events, pc, key,
                      tracked>>
      BY <2>11 DEF Unmanage
    <3>2. cache' \in [Key -> Nat]
      BY <2>11 DEF Unmanage
    <3>3. QED
      BY <3>1, <3>2
  <2>12. QED
    BY <2>1, <2>2, <2>3, <2>4, <2>5, <2>6, <2>7, <2>8, <2>9, <2>10, <2>11
       DEF Next, UpdateLoop, LiveRequest, CommitLoop
<1>3. CertInv /\ [Next]_vars
      => [\A k \in tracked \intersect tracked' :
            notAfter'[k] >= notAfter[k]]_vars
  <2> SUFFICES ASSUME CertInv, [Next]_vars, vars' # vars,
                      NEW k \in tracked \intersect tracked'
               PROVE  notAfter'[k] >= notAfter[k]
    OBVIOUS
  <2> USE DEF CertInv
  <2>1. CASE Record \/ Found
    BY <2>1, UpdateKeepsOrder DEF Record, Found
  <2>2. CASE Refused
    BY <2>2 DEF Refused
  <2>3. CASE Sort
    BY <2>3 DEF Sort
  <2>4. CASE Untrack
    BY <2>4 DEF Untrack
  <2>5. CASE notAfter' = notAfter
    BY <2>5
  <2>6. QED
    BY <2>1, <2>2, <2>3, <2>4, <2>5
       DEF Next, UpdateLoop, LiveRequest, CommitLoop, Edit, Obtain, Load, Age,
           Lookup, Begin, Ask, Manage, Peek, Asked, Receive, Expire, Skip,
           Commit, Abort, Rendered, Upkeep, Poll, Unmanage, Rollback, UpkeepEnd,
           trackVars, magicVars, vars
<1>4. QED
  BY <1>1, <1>2, <1>3, PTL DEF Spec, NeverOlder

-----------------------------------------------------------------------------
(***************************************************************************)
(* Types, in three parts: the sets and where everyone stands; certificates *)
(* and what carries them; and the room in the channels.                    *)
(***************************************************************************)

Busy == {"manage", "peek", "found", "asked"}

SetsInv ==
    /\ scenario \in Scenarios /\ wanted \subseteq Askable
    /\ managed \subseteq Key
    /\ stale \subseteq tracked /\ tracked \subseteq Key
    /\ lock \in {"free", "cycle", "upkeep"}
    /\ pc \in {"idle", "ask"} \union Busy
    /\ targets \subseteq Askable /\ (pc = "idle" => targets = {})
    /\ ask \subseteq targets
    /\ pending \subseteq targets /\ record \subseteq targets
    /\ key \in Key \union {<<>>} /\ (pc \in Busy => key \in targets)
    /\ expired \in BOOLEAN /\ success \in BOOLEAN
    /\ asked \subseteq Key /\ committed \subseteq asked
    /\ task \in {"idle", "next", "sort", "untrack", "unmanage", "rollback"}
    /\ passes \subseteq Provider /\ provider \in Provider
    /\ remains \subseteq Identity
    /\ issued \in Nat /\ edits \in Nat /\ faults \in Nat

\* The names of a scenario are names, and the keys to ask for are few.
LEMMA AskableIsFinite ==
    ASSUME scenario \in Scenarios
    PROVE  Askable \subseteq Key /\ IsFiniteSet(Askable)
<1>1. /\ scenario.names \subseteq Identity /\ IsFiniteSet(scenario.names)
      /\ IsFiniteSet(Provider)
  BY TrackerAssumption
<1>2. IsFiniteSet(Provider \X scenario.names)
  BY <1>1, FS_Product
<1>3. QED
  BY <1>1, <1>2 DEF Askable, Key

LEMMA SetsInvariant == Spec => []SetsInv
<1>1. Init => SetsInv
  <2> SUFFICES ASSUME Init PROVE SetsInv
    OBVIOUS
  <2>1. /\ wanted \subseteq Askable /\ managed = {} /\ stale = {} /\ tracked = {}
        /\ targets = {} /\ ask = {} /\ pending = {} /\ record = {}
        /\ asked = {} /\ committed = {} /\ passes = {} /\ remains = {}
    BY DEF Init
  <2>2. pc = "idle" /\ lock = "free" /\ task = "idle" /\ key = <<>>
    BY DEF Init
  <2>3. /\ scenario \in Scenarios /\ provider \in Provider
        /\ expired = FALSE /\ success = FALSE
        /\ issued = 0 /\ edits = 0 /\ faults = 0
    BY DEF Init
  <2>4. QED
    BY <2>1, <2>2, <2>3 DEF SetsInv, Busy
<1>2. SetsInv /\ [Next]_vars => SetsInv'
  <2> SUFFICES ASSUME SetsInv, [Next]_vars PROVE SetsInv'
    OBVIOUS
  <2> USE DEF SetsInv, Busy, Askable, magicVars, trackVars, askVars, replyVars,
              outVars, upkeepVars, testVars
  <2>0. Askable \subseteq Key
    BY AskableIsFinite
  <2>1. CASE \/ \E w \in SUBSET Askable : Edit(w)
             \/ \E k \in Key : Obtain(k) \/ Load(k) \/ Age(k)
    BY <2>1 DEF Edit, Obtain, Load, Age
  <2>2. CASE UpdateLoop \/ Receive \/ Expire \/ UNCHANGED vars
    <3>1. /\ UNCHANGED <<scenario, wanted, managed, stale, tracked, lock, pc,
                         targets, ask, record, key, success, asked, committed,
                         task, passes, provider, remains, issued, edits, faults>>
          /\ pending' \subseteq pending /\ expired' \in {expired, TRUE}
      BY <2>2 DEF UpdateLoop, Lookup, Record, Receive, Expire, vars
    <3>2. QED
      BY <3>1
  <2>3. CASE Begin
    <3>1. /\ targets' = wanted /\ ask' = wanted /\ pending' = wanted
          /\ lock' = "cycle" /\ pc = "idle" /\ pc' = "ask"
      BY <2>3 DEF Begin
    <3>2. UNCHANGED <<scenario, wanted, managed, stale, tracked, record, key,
                      expired, success, asked, committed, task, passes,
                      provider, remains, issued, edits, faults>>
      BY <2>3 DEF Begin
    <3>3. record = {}
      BY <3>1
    <3>4. QED
      BY <3>1, <3>2, <3>3
  <2>4. ASSUME NEW k \in Key, Ask(k) PROVE SetsInv'
    BY <2>0, <2>4 DEF Ask
  <2>5. CASE Manage \/ Refused
    BY <2>0, <2>5 DEF Manage, Refused
  <2>6. CASE Peek \/ Found \/ Asked
    BY <2>6 DEF Peek, Found, Asked
  <2>7. CASE Skip \/ Commit \/ Abort
    <3>1. /\ Rendered /\ faults' \in {faults, faults + 1}
          /\ success' \in {success, TRUE, FALSE}
          /\ \/ asked' = asked /\ committed' = committed
             \/ asked' = targets /\ committed' = record
      BY <2>7 DEF Skip, Commit, Abort
    <3>2. asked' \subseteq Key /\ committed' \subseteq asked'
      BY <2>0, <3>1
    <3>3. /\ targets' = {} /\ pending' = {} /\ record' = {} /\ ask' = {}
          /\ lock' = "free" /\ pc' = "idle" /\ key' = <<>> /\ expired' = FALSE
      BY <3>1 DEF Rendered
    <3>4. UNCHANGED <<scenario, wanted, managed, stale, tracked, task, passes,
                      provider, remains, issued, edits>>
      BY <3>1 DEF Rendered
    <3>5. faults' \in Nat
      BY <3>1
    <3>6. success' \in BOOLEAN
      <4>1. success \in BOOLEAN /\ success' \in {success, TRUE, FALSE}
        BY <3>1
      <4>2. QED
        BY <4>1, Zenon
    <3>7. QED
      BY <3>2, <3>3, <3>4, <3>5, <3>6
  <2>8. CASE Upkeep
    <3>1. {k[1] : k \in committed} \subseteq Provider
      BY DEF Key
    <3>2. QED
      BY <2>8, <3>1 DEF Upkeep
  <2>9. ASSUME NEW p \in Provider, Poll(p) PROVE SetsInv'
    BY <2>9 DEF Poll
  <2>10. CASE Sort
    <3>1. {k[2] : k \in (tracked \ committed) \intersect stale}
            \subseteq Identity
      BY DEF Key
    <3>2. QED
      BY <2>10, <3>1 DEF Sort
  <2>11. CASE Untrack \/ Unmanage \/ Rollback \/ UpkeepEnd
    BY <2>11 DEF Untrack, Unmanage, Rollback, UpkeepEnd
  <2>12. QED
    BY <2>1, <2>2, <2>3, <2>4, <2>5, <2>6, <2>7, <2>8, <2>9, <2>10, <2>11
       DEF Next, LiveRequest, CommitLoop
<1>3. QED
  BY <1>1, <1>2, PTL DEF Spec

\* With one provider it is the owner of every name, whatever the sources ask
\* for.
Sole == [i \in Identity |-> CHOOSE q : q \in Provider]

\* With one provider, the upkeep never releases a committed certificate.
COROLLARY CommittedIsManagedByOne ==
    ASSUME OneProvider
    PROVE  Spec => []CommittedStaysManaged
<1>1. Owned(Sole) = Key
  BY DEF OneProvider, Owned, Key, Sole
<1>2. SetsInv => wanted \subseteq Owned(Sole)
  BY <1>1, AskableIsFinite DEF SetsInv
<1>3. Init => HomeInv(Sole)
  BY HomeStarts
<1>4. SetsInv /\ HomeInv(Sole) /\ [Next]_vars => HomeInv(Sole)'
  BY <1>2, HomeInductive
<1>5. HomeInv(Sole) => CommittedStaysManaged
  BY DEF HomeInv, HeldInv, CommittedStaysManaged
<1>6. QED
  BY <1>3, <1>4, <1>5, SetsInvariant, PTL DEF Spec

-----------------------------------------------------------------------------
\* No more certificates than the bound, so none beyond it; and what travels is
\* a certificate of a key.
CertsInv ==
    /\ {stored, cache, notAfter, certs, rendered, polled} \subseteq [Key -> Cert]
    /\ issued <= scenario.MaxCert /\ \A k \in Key : stored[k] <= issued
    /\ best \in Cert
    /\ update \in [key : Key, best : Cert] \union {NoUpdate}
    /\ events \in Seq(Key)
    /\ channel \in Seq(Key \X Cert)

\* What travels on the two channels, and in the update loop.
Traffic == <<events, channel, update>>

\* A delivery keeps the channel one of deliveries.
LEMMA DeliverKeeps ==
    ASSUME channel \in Seq(Key \X Cert), NEW k \in Key, NEW c \in Cert,
           Deliver(k, c) \/ UNCHANGED channel
    PROVE  channel' \in Seq(Key \X Cert)
<1>1. <<k, c>> \in Key \X Cert
  OBVIOUS
<1>2. Append(channel, <<k, c>>) \in Seq(Key \X Cert)
  BY <1>1, AppendKeeps
<1>3. QED
  BY <1>2 DEF Deliver

\* What updateTrack records and announces is the certificate it was given.
LEMMA UpdateTrackKeeps ==
    ASSUME notAfter \in [Key -> Cert], channel \in Seq(Key \X Cert),
           NEW k \in Key, NEW c \in Cert, NEW always, UpdateTrack(k, c, always)
    PROVE  notAfter' \in [Key -> Cert] /\ channel' \in Seq(Key \X Cert)
<1>1. notAfter' \in [Key -> Cert]
  BY DEF UpdateTrack
<1>2. Deliver(k, c) \/ UNCHANGED channel
  BY DEF UpdateTrack
<1>3. QED
  BY <1>1, <1>2, DeliverKeeps

\* The first of a channel and what is left of it.
LEMMA HeadAndTail ==
    ASSUME NEW S, NEW s \in Seq(S), s # <<>>
    PROVE  Head(s) \in S /\ Tail(s) \in Seq(S)
  OBVIOUS

LEMMA CertsInvariant == Spec => []CertsInv
<1>1. Init => CertsInv
  <2> SUFFICES ASSUME Init PROVE CertsInv
    OBVIOUS
  <2>1. scenario.MaxCert \in Nat
    BY TrackerAssumption DEF Init
  <2>2. Nothing \in [Key -> Cert] /\ 0 \in Cert
    BY <2>1 DEF Nothing, Cert
  <2>3. /\ stored = Nothing /\ cache = Nothing /\ notAfter = Nothing
        /\ certs = Nothing /\ rendered = Nothing /\ polled = Nothing
        /\ best = 0 /\ update = NoUpdate /\ issued = 0
        /\ events = <<>> /\ channel = <<>>
    BY DEF Init
  <2>4. \A k \in Key : stored[k] <= issued
    BY <2>3 DEF Nothing
  <2>5. QED
    BY <2>1, <2>2, <2>3, <2>4 DEF CertsInv
<1>2. SetsInv /\ CertsInv /\ [Next]_vars => CertsInv'
  <2> SUFFICES ASSUME SetsInv, CertsInv, [Next]_vars PROVE CertsInv'
    OBVIOUS
  <2> USE DEF CertsInv, magicVars, trackVars, askVars, replyVars, outVars,
              upkeepVars, testVars
  <2>0. /\ scenario.MaxCert \in Nat /\ issued \in Nat
        /\ Nothing \in [Key -> Cert] /\ 0 \in Cert
        /\ targets \subseteq Key /\ (pc \in Busy => key \in Key)
    BY TrackerAssumption, AskableIsFinite DEF SetsInv, Nothing, Cert
  <2>1. CASE \/ \E w \in SUBSET Askable : Edit(w)
             \/ \E k \in Key : Age(k)
             \/ Begin \/ Manage \/ Expire \/ Asked
             \/ Upkeep \/ Rollback \/ UpkeepEnd \/ UNCHANGED vars
    <3>1. /\ UNCHANGED <<scenario, issued, stored, cache, notAfter, certs,
                          rendered, best, Traffic>>
          /\ polled' \in {polled, Nothing}
      BY <2>1 DEF Edit, Age, Begin, Manage, Expire, Asked, Upkeep, Rollback,
         UpkeepEnd, vars, Traffic
    <3>2. QED
      BY <2>0, <3>1 DEF Cert, Traffic
  <2>2. ASSUME NEW k \in Key, Obtain(k) PROVE CertsInv'
    <3>1. /\ issued < scenario.MaxCert /\ issued' = issued + 1
          /\ stored' = [stored EXCEPT ![k] = @ + 1]
          /\ cache' = [cache EXCEPT ![k] = stored[k] + 1]
          /\ events' = events \/ events' = Append(events, k)
          /\ UNCHANGED <<scenario, notAfter, certs, rendered, polled, best,
                         update, channel>>
      BY <2>2 DEF Obtain
    <3>2. stored[k] + 1 \in Cert /\ stored[k] + 1 <= issued'
      BY <2>0, <3>1 DEF Cert
    <3>3. /\ stored' \in [Key -> Cert] /\ cache' \in [Key -> Cert]
          /\ issued' <= scenario.MaxCert
      BY <2>0, <3>1, <3>2
    <3>4. \A j \in Key : stored'[j] <= issued'
      <4> SUFFICES ASSUME NEW j \in Key PROVE stored'[j] <= issued'
        OBVIOUS
      <4>1. stored[j] \in Nat /\ stored[j] <= issued
        BY <2>0 DEF Cert
      <4>2. CASE j = k
        BY <3>1, <3>2, <4>2
      <4>3. CASE j # k
        BY <2>0, <3>1, <4>1, <4>3
      <4>4. QED
        BY <4>2, <4>3
    <3>5. events' \in Seq(Key)
      <4>1. /\ events \in Seq(Key)
            /\ events' = events \/ events' = Append(events, k)
        BY <3>1
      <4>2. QED
        BY <4>1, AppendKeeps
    <3>6. QED
      <4>1. UNCHANGED Cert /\ best \in Cert
        BY <3>1 DEF Cert
      <4>2. QED
        BY <3>1, <3>3, <3>4, <3>5, <4>1
  <2>3. ASSUME NEW k \in Key, Load(k) PROVE CertsInv'
    <3>1. /\ cache' = [cache EXCEPT ![k] = stored[k]]
          /\ UNCHANGED <<scenario, issued, stored, notAfter, certs, rendered,
                         polled, best, Traffic>>
      BY <2>3 DEF Load, Traffic
    <3>2. cache' \in [Key -> Cert]
      BY <3>1
    <3>3. QED
      BY <3>1, <3>2 DEF Cert, Traffic
  <2>4. ASSUME NEW k \in Key, Ask(k) PROVE CertsInv'
    <3>1. /\ UNCHANGED <<scenario, issued, stored, cache, notAfter, certs,
                          rendered, polled, best, update, events>>
          /\ Deliver(k, notAfter[k]) \/ UNCHANGED channel
      BY <2>4 DEF Ask
    <3>2. channel' \in Seq(Key \X Cert)
      BY <3>1, DeliverKeeps
    <3>3. QED
      BY <3>1, <3>2 DEF Cert
  <2>5. CASE Lookup
    <3>1. /\ UNCHANGED <<scenario, issued, stored, cache, notAfter, certs,
                          rendered, polled, best, channel>>
          /\ events # <<>> /\ events' = Tail(events)
          /\ \/ update' = NoUpdate
             \/ update' = [key |-> Head(events), best |-> cache[Head(events)]]
      BY <2>5 DEF Lookup
    <3>2. Head(events) \in Key /\ events' \in Seq(Key)
      BY <3>1, HeadAndTail
    <3>3. update' \in [key : Key, best : Cert] \union {NoUpdate}
      BY <3>1, <3>2
    <3>4. QED
      BY <3>1, <3>2, <3>3 DEF Cert, NoUpdate
  <2>6. CASE Record \/ Found
    <3>1. /\ UNCHANGED <<scenario, issued, stored, cache, certs, rendered,
                          polled, best, events>>
          /\ update' \in {update, NoUpdate}
          /\ \E k \in Key, c \in Cert, always \in BOOLEAN :
                UpdateTrack(k, c, always)
      <4>1. CASE Record
        BY <4>1 DEF Record
      <4>2. CASE Found
        BY <2>0, <4>2 DEF Found, Busy
      <4>3. QED
        BY <2>6, <4>1, <4>2
    <3>2. notAfter' \in [Key -> Cert] /\ channel' \in Seq(Key \X Cert)
      BY <3>1, UpdateTrackKeeps
    <3>3. QED
      BY <3>1, <3>2 DEF Cert, NoUpdate
  <2>7. CASE Refused \/ Peek
    <3>1. /\ UNCHANGED <<scenario, issued, stored, cache, certs, rendered,
                          polled, Traffic>>
          /\ notAfter' \in {notAfter, [notAfter EXCEPT ![key] = 0]}
          /\ best' \in {best, cache[key]} /\ key \in Key
      BY <2>0, <2>7 DEF Refused, Peek, Traffic, Busy
    <3>2. notAfter' \in [Key -> Cert] /\ best' \in Cert
      BY <2>0, <3>1
    <3>3. QED
      BY <3>1, <3>2 DEF Cert, Traffic
  <2>8. CASE Skip \/ Commit \/ Abort
    <3>1. Rendered /\ rendered' \in {rendered, certs}
      BY <2>8 DEF Skip, Commit, Abort
    <3>2. /\ UNCHANGED <<scenario, issued, stored, cache, notAfter, polled,
                          events, update>>
          /\ certs' = Nothing /\ best' = 0 /\ channel' = <<>>
      BY <3>1 DEF Rendered
    <3>3. rendered' \in [Key -> Cert]
      BY <3>1
    <3>4. QED
      BY <2>0, <3>2, <3>3 DEF Cert
  <2>9. CASE Receive
    <3>1. /\ UNCHANGED <<scenario, issued, stored, cache, notAfter, rendered,
                          polled, best, update, events>>
          /\ channel # <<>> /\ channel' = Tail(channel)
          /\ certs' \in {certs,
                [certs EXCEPT ![Head(channel)[1]] = Head(channel)[2]]}
      BY <2>9 DEF Receive
    <3>2. Head(channel) \in Key \X Cert /\ channel' \in Seq(Key \X Cert)
      BY <3>1, HeadAndTail
    <3>3. certs' \in [Key -> Cert]
      BY <3>1, <3>2
    <3>4. UNCHANGED Cert
      BY <3>1 DEF Cert
    <3>5. QED
      BY <3>1, <3>2, <3>3, <3>4 DEF NoUpdate
  <2>10. CASE \/ \E p \in Provider : Poll(p)
              \/ Sort \/ Untrack \/ Unmanage
    <3>1. UNCHANGED <<scenario, issued, stored, certs, rendered, best, Traffic>>
      BY <2>10 DEF Poll, Sort, Untrack, Unmanage, Traffic
    <3>2. notAfter' \in [Key -> Cert]
      <4>1. CASE Sort
        BY <2>0, <4>1 DEF Sort
      <4>2. CASE Untrack
        BY <2>0, <4>2 DEF Untrack
      <4>3. CASE notAfter' = notAfter
        BY <4>3
      <4>4. QED
        BY <2>10, <4>1, <4>2, <4>3 DEF Poll, Unmanage
    <3>3. cache' \in [Key -> Cert] /\ polled' \in [Key -> Cert]
      <4>1. CASE Unmanage
        BY <2>0, <4>1 DEF Unmanage
      <4>2. CASE \E p \in Provider : Poll(p)
        BY <2>0, <4>2 DEF Poll
      <4>3. QED
        BY <2>10, <4>1, <4>2 DEF Sort, Untrack
    <3>4. QED
      BY <3>1, <3>2, <3>3 DEF Cert, Traffic
  <2>11. QED
    BY <2>1, <2>2, <2>3, <2>4, <2>5, <2>6, <2>7, <2>8, <2>9, <2>10
       DEF Next, UpdateLoop, LiveRequest, CommitLoop
<1>3. QED
  BY <1>1, <1>2, SetsInvariant, PTL DEF Spec

-----------------------------------------------------------------------------
\* No more in a channel than there is room for; the room for deliveries is that
\* of the live request, which leaves none behind.
RoomInv ==
    Len(events) <= EventBuffer /\ Len(channel) <= 2 * Cardinality(targets)

LEMMA DeliverFits ==
    ASSUME NEW n \in Nat, n = Cardinality(targets), NEW S, channel \in Seq(S),
           Len(channel) <= 2 * n,
           NEW k, NEW c, Deliver(k, c) \/ UNCHANGED channel
    PROVE  Len(channel') <= 2 * n
<1>1. CASE UNCHANGED channel
  BY <1>1
<1>2. CASE channel' = Append(channel, <<k, c>>) /\ Len(channel) < 2 * n
  <2>1. Len(channel') = Len(channel) + 1
    BY <1>2
  <2>2. QED
    BY <1>2, <2>1
<1>3. QED
  BY <1>1, <1>2 DEF Deliver

LEMMA RoomInvariant == Spec => []RoomInv
<1>1. Init => RoomInv
  BY TrackerAssumption, FS_EmptySet DEF Init, RoomInv
<1>2. SetsInv /\ CertsInv /\ RoomInv /\ [Next]_vars => RoomInv'
  <2> SUFFICES ASSUME SetsInv, CertsInv, RoomInv, [Next]_vars PROVE RoomInv'
    OBVIOUS
  <2> USE DEF RoomInv, magicVars, trackVars, askVars, replyVars, outVars,
              upkeepVars, testVars
  <2>0. Cardinality(targets) \in Nat /\ channel \in Seq(Key \X Cert)
    BY AskableIsFinite, FS_Subset, FS_CardinalityType DEF SetsInv, CertsInv
  <2>1. CASE \/ \E w \in SUBSET Askable : Edit(w)
             \/ \E k \in Key : Load(k) \/ Age(k)
             \/ Manage \/ Refused \/ Peek \/ Asked \/ Expire \/ Upkeep
             \/ CommitLoop \/ UNCHANGED vars
    <3>1. UNCHANGED <<events, channel, targets>>
      BY <2>1 DEF Edit, Load, Age, Manage, Refused, Peek, Asked, Expire, Upkeep,
         CommitLoop, Poll, Sort, Untrack, Unmanage, Rollback, UpkeepEnd, vars
    <3>2. QED
      BY <3>1
  <2>2. ASSUME NEW k \in Key, Obtain(k) PROVE RoomInv'
    <3>1. /\ \/ events' = events
             \/ events' = Append(events, k) /\ Len(events) < EventBuffer
          /\ UNCHANGED <<channel, targets>>
      BY <2>2 DEF Obtain
    <3>2. Len(events') <= EventBuffer
      <4>1. events \in Seq(Key) /\ EventBuffer \in Nat
        BY TrackerAssumption DEF CertsInv
      <4>2. QED
        BY <3>1, <4>1
    <3>3. QED
      BY <3>1, <3>2
  <2>3. CASE Lookup
    <3>1. /\ events # <<>> /\ events' = Tail(events)
          /\ UNCHANGED <<channel, targets>>
      BY <2>3 DEF Lookup
    <3>2. Len(events') <= EventBuffer
      <4>1. events \in Seq(Key) /\ EventBuffer \in Nat
        BY TrackerAssumption DEF CertsInv
      <4>2. QED
        BY <3>1, <4>1
    <3>3. QED
      BY <3>1, <3>2
  <2>4. CASE Record \/ Found \/ \E k \in Key : Ask(k)
    <3>1. /\ UNCHANGED <<events, targets>>
          /\ (\E k, c : Deliver(k, c)) \/ UNCHANGED channel
      BY <2>4 DEF Record, Found, Ask, UpdateTrack
    <3>2. Len(channel') <= 2 * Cardinality(targets)
      BY <2>0, <3>1, DeliverFits
    <3>3. QED
      BY <3>1, <3>2
  <2>5. CASE Receive
    <3>1. /\ UNCHANGED <<events, targets>>
          /\ channel # <<>> /\ channel' = Tail(channel)
      BY <2>5 DEF Receive
    <3>2. Len(channel') <= Len(channel) /\ Len(channel') \in Nat
          /\ Len(channel) \in Nat
      <4>1. channel \in Seq(Key \X Cert) /\ channel # <<>>
        BY <2>0, <3>1
      <4>2. QED
        BY <3>1, <4>1
    <3>3. QED
      BY <2>0, <3>1, <3>2
  <2>6. CASE Begin
    <3>1. targets = {} /\ IsFiniteSet(targets') /\ UNCHANGED <<events, channel>>
      BY <2>6, AskableIsFinite, FS_Subset DEF Begin, SetsInv
    <3>2. Cardinality(targets') \in Nat /\ Cardinality(targets) = 0
      BY <3>1, FS_CardinalityType, FS_EmptySet
    <3>3. Len(channel) \in Nat
      BY <2>0
    <3>4. Len(channel') <= 2 * Cardinality(targets')
      BY <3>1, <3>2, <3>3
    <3>5. QED
      BY <3>1, <3>4
  <2>7. CASE Skip \/ Commit \/ Abort
    <3>1. channel' = <<>> /\ targets' = {} /\ UNCHANGED events
      BY <2>7 DEF Skip, Commit, Abort, Rendered
    <3>2. Len(channel') = 0 /\ Cardinality(targets') = 0
      BY <3>1, FS_EmptySet
    <3>3. QED
      BY <3>1, <3>2
  <2>8. QED
    BY <2>1, <2>2, <2>3, <2>4, <2>5, <2>6, <2>7 DEF Next, UpdateLoop, LiveRequest
<1>3. QED
  BY <1>1, <1>2, SetsInvariant, CertsInvariant, PTL DEF Spec

\* Whatever the providers, names and faults: every key in use is one a source
\* may ask for, everything that passes for a certificate is one that was
\* issued, and the two channels hold no more than their capacity, the one of a
\* live request nothing once it is over.
THEOREM TypeCorrect == Spec => []TypeOK
<1>1. SetsInv /\ CertsInv /\ RoomInv => TypeOK
  <2> SUFFICES ASSUME SetsInv, CertsInv, RoomInv PROVE TypeOK
    OBVIOUS
  <2>1. Askable \subseteq Key
    BY AskableIsFinite DEF SetsInv
  <2>2. QED
    BY <2>1 DEF SetsInv, CertsInv, RoomInv, TypeOK, Busy
<1>2. QED
  BY <1>1, SetsInvariant, CertsInvariant, RoomInvariant, PTL
=============================================================================
