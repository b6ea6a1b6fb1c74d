-------------------------- MODULE DispatcherProofs --------------------------
(***************************************************************************)
(* Machine-checked proofs about the compile pipeline, for every set of     *)
(* sources, gateways and contents and every bound.                         *)
(***************************************************************************)
EXTENDS Dispatcher, TLAPS

Processing == pc \in {"validate", "apply", "commit"}

\* How the phase of the run loop and the state of the fetch go together.
PhaseInv ==
    /\ pc \in {"down", "starting"} => lastFetch = "never"
    /\ lastFetch = "never" => pc \in {"down", "starting", "idle", "cooldown",
                                    "acquire"}
    /\ pc = "fetch" <=> lastFetch = "running"
    /\ pc \in {"gateways", "validate", "apply", "commit"} => lastFetch = "ok"
    /\ lastFetch = "ok" /\ pc \in {"idle", "cooldown", "acquire"} => todo = {}
    /\ pc \in {"fetch", "gateways", "validate", "apply", "commit"}
         <=> lock = "dispatcher"

\* A source the fetch has still to visit has not been seen in this cycle.
UnvisitedInv ==
    pc = "fetch" =>
        \A s \in Source :
            /\ Root[s] \in unlisted \/ s \in unread => seen[s] = NoFile
            /\ s \in unread => Root[s] \notin unlisted

\* The payload under way is this cycle's, and its outcome is still open.
CandidateInv ==
    /\ Processing => /\ candidate = ConfigOf(seen, cur)
                     /\ hash[cur] = Hash(candidate)
                     /\ ~commitSuccess[cur]
    /\ Processing /\ wasSuccessful => /\ commitHash[cur] # NoHash
                                      /\ commitHash[cur] # Hash(candidate)
    /\ pc = "commit" => record[cur] = candidate
    /\ pc \in {"apply", "commit"} => Accepts(cur, candidate)

\* What the cache remembers of g is what is on offer for g, except between the
\* reload and the commit of g.
CommittedInv ==
    /\ \A g \in Gateway :
         /\ commitSuccess[g] => commitHash[g] # NoHash
         /\ commitHash[g] # NoHash =>
              /\ lastCommit[g] \in Config
              /\ commitHash[g] = Hash(lastCommit[g])
              /\ (pc = "commit" /\ cur = g) \/ record[g] = lastCommit[g]
    /\ record[FileGateway] # NoConfig => file = record[FileGateway]

\* A successful attempt of the current cycle committed this cycle's payload.
FreshInv ==
    lastFetch = "ok" =>
        \A g \in Present(seen) \ todo :
            commitSuccess[g] => lastCommit[g] = ConfigOf(seen, g)

\* Without transient failures, a handled gateway failed only on its own merits.
OutcomeInv ==
    lastFetch = "ok" /\ clean =>
        \A g \in Present(seen) \ todo :
            \/ Processing /\ g = cur
            \/ ConfigOf(seen, g) \in Unmergeable
            \/ ~Accepts(g, ConfigOf(seen, g))
            \/ commitSuccess[g]

CacheInv == CandidateInv /\ CommittedInv /\ FreshInv

-----------------------------------------------------------------------------
(***************************************************************************)
(* Facts about the operators of a cycle.                                   *)
(***************************************************************************)

LEMMA ConfigOfType ==
    ASSUME NEW f \in [Source -> Content], NEW g
    PROVE  ConfigOf(f, g) \in Config
  BY ShapeAssumption DEF ConfigOf, Config, Content

LEMMA HashType ==
    /\ NoHash \in HashValue
    /\ \A c \in Config : Hash(c) \in HashValue
  BY DEF HashValue

LEMMA PresentType ==
    ASSUME NEW f
    PROVE  Present(f) \subseteq Gateway
  BY ShapeAssumption DEF Present

LEMMA FaultType == TypeOK /\ Fault => faults' \in Nat /\ clean' \in BOOLEAN
<1>1. TypeOK /\ Fault => faults' \in Nat
  BY DEF TypeOK, Fault
<1>2. Fault => clean' \in BOOLEAN
  BY DEF Fault
<1>3. QED
  BY <1>1, <1>2

-----------------------------------------------------------------------------
\* Every variable keeps its type.
THEOREM TypeCorrect == Spec => []TypeOK
<1>1. Init => TypeOK
  <2>1. Init => edits \in Nat /\ faults \in Nat /\ crashes \in Nat
    BY DEF Init
  <2>2. Init => seen \in [Source -> Content \ {Broken}]
    BY ShapeAssumption DEF Init, Content
  <2>3. Init => /\ clean \in BOOLEAN /\ queue \in BOOLEAN
                /\ commitSuccess \in [Gateway -> BOOLEAN]
                /\ wasSuccessful \in BOOLEAN
    BY DEF Init
  <2>4. QED
    BY <2>1, <2>2, <2>3, ShapeAssumption, HashType DEF Init, TypeOK
<1>2. TypeOK /\ [Next]_vars => TypeOK'
  <2> SUFFICES ASSUME TypeOK, [Next]_vars
               PROVE  TypeOK'
    OBVIOUS
  <2> USE DEF TypeOK, envVars, fetchVars, stepVars, cacheVars, outVars,
              faultVars
  <2>1. ASSUME NEW s \in Source, Notify(s) PROVE TypeOK'
    BY <2>1 DEF Notify
  <2>2. ASSUME NEW s \in Source, NEW c \in Content, Edit(s, c) PROVE TypeOK'
    BY <2>2 DEF Edit
  <2>3. CASE UpkeepBegin \/ UpkeepEnd
    BY <2>3 DEF UpkeepBegin, UpkeepEnd
  <2>4. CASE Boot \/ Serve
    BY <2>4, ShapeAssumption DEF Boot, Serve
  <2>5. CASE Dequeue \/ CooldownOver \/ Finish
    BY <2>5 DEF Dequeue, CooldownOver, Finish, Return
  <2>6. CASE Acquire
    BY <2>6, ShapeAssumption DEF Acquire, Content
  <2>7. ASSUME NEW n \in Namespace, List(n) PROVE TypeOK'
    BY <2>7 DEF List
  <2>8. ASSUME NEW s \in Source, Read(s) PROVE TypeOK'
    BY <2>8 DEF Read, Content
  <2>9. ASSUME FetchFails PROVE TypeOK'
    BY <2>9, FaultType DEF FetchFails, Return
  <2>10. CASE FetchDone
    BY <2>10, PresentType DEF FetchDone
  <2>11. ASSUME NEW g \in Gateway, MergeFails(g) PROVE TypeOK'
    BY <2>11 DEF MergeFails, Begin
  <2>12. ASSUME NEW g \in Gateway, SerializeFails(g) PROVE TypeOK'
    <3>1. faults' \in Nat /\ clean' \in BOOLEAN
      BY <2>12, FaultType DEF SerializeFails
    <3>2. QED
      BY <2>12, <3>1, HashType DEF SerializeFails, Begin
  <2>13. ASSUME NEW g \in Gateway, SkipUnchanged(g) PROVE TypeOK'
    BY <2>13 DEF SkipUnchanged, Begin
  <2>14. ASSUME NEW g \in Gateway, Render(g) PROVE TypeOK'
    <3>1. ConfigOf(seen, g) \in Config
      BY ConfigOfType
    <3>2. QED
      BY <2>14, <3>1, HashType DEF Render, Begin
  <2>15. CASE ValidatePasses \/ ValidateFails
    BY <2>15, FaultType DEF ValidatePasses, ValidateFails
  <2>16. CASE ApplySucceeds \/ ApplyFails
    BY <2>16, FaultType DEF ApplySucceeds, ApplyFails
  <2>17. CASE Commit
    BY <2>17 DEF Commit
  <2>18. CASE Crash
    <3>1. crashes' \in Nat
      BY <2>18 DEF Crash
    <3>2. seen' \in [Source -> Content \ {Broken}]
      BY <2>18, ShapeAssumption DEF Crash, Content
    <3>3. QED
      BY <2>18, <3>1, <3>2, ShapeAssumption, HashType DEF Crash
  <2>19. CASE UNCHANGED vars
    BY <2>19 DEF vars
  <2>20. QED
    BY <2>1, <2>2, <2>3, <2>4, <2>5, <2>6, <2>7, <2>8, <2>9, <2>10, <2>11,
       <2>12, <2>13, <2>14, <2>15, <2>16, <2>17, <2>18, <2>19
    DEF Next, Loop, Fetch, Gateways
<1>3. QED
  BY <1>1, <1>2, PTL DEF Spec

-----------------------------------------------------------------------------
(***************************************************************************)
(* Phases, and the requests the one-token queue must not lose.             *)
(***************************************************************************)

LEMMA PhaseInvariant == Spec => []PhaseInv
<1>1. Init => PhaseInv
  BY DEF Init, PhaseInv
<1>2. TypeOK /\ PhaseInv /\ [Next]_vars => PhaseInv'
  <2> SUFFICES ASSUME TypeOK, PhaseInv, [Next]_vars
               PROVE  PhaseInv'
    OBVIOUS
  <2> USE DEF PhaseInv, envVars, fetchVars, stepVars, cacheVars, outVars
  <2>1. CASE \E s \in Source : Notify(s) \/ (\E c \in Content : Edit(s, c))
    BY <2>1 DEF Notify, Edit
  <2>2. CASE UpkeepBegin \/ UpkeepEnd
    BY <2>2 DEF UpkeepBegin, UpkeepEnd, TypeOK
  <2>3. CASE Loop
    BY <2>3 DEF Loop, Boot, Serve, Dequeue, CooldownOver, Acquire, Finish, Return
  <2>4. CASE Fetch
    BY <2>4 DEF Fetch, List, Read, FetchFails, FetchDone, Return
  <2>5. ASSUME NEW g \in Gateway,
               MergeFails(g) \/ SerializeFails(g) \/ SkipUnchanged(g) \/ Render(g)
        PROVE  PhaseInv'
    BY <2>5 DEF MergeFails, SerializeFails, SkipUnchanged, Render, Begin
  <2>6. CASE ValidatePasses \/ ValidateFails \/ ApplySucceeds \/ ApplyFails
               \/ Commit
    BY <2>6 DEF ValidatePasses, ValidateFails, ApplySucceeds, ApplyFails, Commit
  <2>7. CASE Crash
    BY <2>7 DEF Crash
  <2>8. CASE UNCHANGED vars
    BY <2>8 DEF vars
  <2>9. QED
    BY <2>1, <2>2, <2>3, <2>4, <2>5, <2>6, <2>7, <2>8 DEF Next, Gateways
<1>3. QED
  BY <1>1, <1>2, TypeCorrect, PTL DEF Spec

\* A source that has changed since it was last seen is going to be read again:
\* dropping every request beyond the queued one loses no change.
THEOREM RequestsNotLost == Spec => []NoLostRequest
<1>1. Init => UnvisitedInv /\ NoLostRequest
  BY DEF Init, UnvisitedInv, NoLostRequest, WillRead
<1>2. /\ TypeOK /\ TypeOK' /\ PhaseInv /\ PhaseInv'
      /\ UnvisitedInv /\ NoLostRequest /\ [Next]_vars
      => UnvisitedInv' /\ NoLostRequest'
  <2> SUFFICES ASSUME TypeOK, TypeOK', PhaseInv, PhaseInv',
                      UnvisitedInv, NoLostRequest, [Next]_vars
               PROVE  UnvisitedInv' /\ NoLostRequest'
    OBVIOUS
  <2> USE DEF UnvisitedInv, NoLostRequest, WillRead,
              envVars, fetchVars, stepVars, cacheVars, outVars
  <2>1. ASSUME NEW s \in Source, Notify(s)
        PROVE  UnvisitedInv' /\ NoLostRequest'
    BY <2>1 DEF Notify
  <2>2. ASSUME NEW s \in Source, NEW c \in Content, Edit(s, c)
        PROVE  UnvisitedInv' /\ NoLostRequest'
    BY <2>2 DEF Edit, TypeOK
  <2>3. CASE UpkeepBegin \/ UpkeepEnd
    BY <2>3 DEF UpkeepBegin, UpkeepEnd
  <2>4. CASE Boot \/ Serve
    <3>1. CASE Boot
      BY <3>1 DEF Boot, PhaseInv
    <3>2. CASE Serve
      BY <3>2 DEF Serve, PhaseInv
    <3>3. QED
      BY <2>4, <3>1, <3>2
  <2>5. CASE Dequeue \/ CooldownOver \/ Finish
    BY <2>5 DEF Dequeue, CooldownOver, Finish, Return, PhaseInv
  <2>6. CASE Acquire
    BY <2>6, ShapeAssumption DEF Acquire
  <2>7. ASSUME NEW n \in Namespace, List(n)
        PROVE  UnvisitedInv' /\ NoLostRequest'
    BY <2>7 DEF List
  <2>8. ASSUME NEW s \in Source, Read(s)
        PROVE  UnvisitedInv' /\ NoLostRequest'
    BY <2>8 DEF Read, TypeOK
  <2>9. ASSUME FetchFails
        PROVE  UnvisitedInv' /\ NoLostRequest'
    BY <2>9 DEF FetchFails, Return
  <2>10. CASE FetchDone
    BY <2>10 DEF FetchDone, PhaseInv
  <2>11. CASE Gateways
    <3>1. /\ pc \notin {"down", "starting", "idle", "cooldown", "acquire", "fetch"}
          /\ pc' # "fetch"
          /\ UNCHANGED <<envVars, queue, fetchVars>>
      BY <2>11 DEF Gateways, MergeFails, SerializeFails, SkipUnchanged, Render,
         Begin, ValidatePasses, ValidateFails, ApplySucceeds, ApplyFails, Commit
    <3>2. QED
      BY <3>1
  <2>12. CASE Crash
    BY <2>12 DEF Crash, PhaseInv
  <2>13. CASE UNCHANGED vars
    BY <2>13 DEF vars
  <2>14. QED
    BY <2>1, <2>2, <2>3, <2>4, <2>5, <2>6, <2>7, <2>8, <2>9, <2>10, <2>11,
       <2>12, <2>13
    DEF Next, Loop, Fetch
<1>3. QED
  BY <1>1, <1>2, TypeCorrect, PhaseInvariant, PTL DEF Spec

-----------------------------------------------------------------------------
(***************************************************************************)
(* The commit cache.                                                       *)
(***************************************************************************)

LEMMA CacheInvariant == Spec => []CacheInv
<1>1. Init => CacheInv
  BY ShapeAssumption
  DEF Init, CacheInv, CandidateInv, CommittedInv, FreshInv, Processing
<1>2. /\ TypeOK /\ TypeOK' /\ PhaseInv /\ PhaseInv'
      /\ CacheInv /\ [Next]_vars
      => CacheInv'
  <2> SUFFICES ASSUME TypeOK, TypeOK', PhaseInv, PhaseInv', CacheInv, [Next]_vars
               PROVE  CacheInv'
    OBVIOUS
  <2> USE DEF CacheInv, CandidateInv, CommittedInv, FreshInv, Processing,
              envVars, fetchVars, stepVars, cacheVars, outVars
  \* Steps that touch neither the cache, nor the outputs, nor the payload.
  <2>1. ASSUME UNCHANGED <<stepVars, cacheVars, outVars, seen, lastFetch>>,
               pc' = pc \/ (pc # "commit" /\ ~Processing')
        PROVE  CacheInv'
    BY <2>1 DEF Present, ConfigOf, Accepts
  <2>2. CASE \E s \in Source : Notify(s) \/ (\E c \in Content : Edit(s, c))
    BY <2>1, <2>2 DEF Notify, Edit
  <2>3. CASE UpkeepBegin \/ UpkeepEnd
    BY <2>1, <2>3 DEF UpkeepBegin, UpkeepEnd
  <2>4. CASE Boot \/ Serve \/ Dequeue \/ CooldownOver \/ Finish
    BY <2>1, <2>4 DEF Boot, Serve, Dequeue, CooldownOver, Finish, Return
  <2>5. CASE Acquire
    BY <2>5 DEF Acquire
  <2>6. ASSUME NEW n \in Namespace, List(n)
        PROVE  CacheInv'
    BY <2>1, <2>6 DEF List
  <2>7. ASSUME (\E s \in Source : Read(s)) \/ FetchFails
        PROVE  CacheInv'
    BY <2>7 DEF Read, FetchFails, Return, PhaseInv
  <2>8. CASE FetchDone
    BY <2>8 DEF FetchDone
  <2>9. ASSUME NEW g \in Gateway, MergeFails(g) \/ SerializeFails(g)
        PROVE  CacheInv'
    <3>1. /\ UNCHANGED <<pc, seen, commitHash, lastCommit, record, file>>
          /\ commitSuccess' = [commitSuccess EXCEPT ![g] = FALSE]
          /\ todo' = todo \ {g}
          /\ pc = "gateways"
      BY <2>9 DEF MergeFails, SerializeFails, Begin
    <3>2. CandidateInv' /\ CommittedInv'
      BY <3>1 DEF TypeOK
    <3>3. FreshInv'
      BY <3>1 DEF TypeOK, PhaseInv
    <3>4. QED
      BY <3>2, <3>3
  <2>10. ASSUME NEW g \in Gateway, SkipUnchanged(g)
         PROVE  CacheInv'
    <3>1. lastCommit[g] = ConfigOf(seen, g)
      BY <2>10, HashAssumption, ConfigOfType
      DEF SkipUnchanged, CacheHit, TypeOK
    <3>2. QED
      BY <2>10, <3>1 DEF SkipUnchanged, Begin, TypeOK
  <2>11. ASSUME NEW g \in Gateway, Render(g)
         PROVE  CacheInv'
    <3>1. /\ ConfigOf(seen, g) \in Config
          /\ Hash(ConfigOf(seen, g)) # NoHash
      BY ConfigOfType, HashAssumption DEF TypeOK
    <3>2. candidate' = ConfigOf(seen, g)
      BY <2>11, <3>1, HashAssumption DEF Render, CacheHit
    <3>3. CandidateInv'
      <4>1. /\ pc' = "validate" /\ cur' = g /\ seen' = seen
            /\ commitHash' = commitHash
            /\ hash'[g] = Hash(ConfigOf(seen, g))
            /\ ~commitSuccess'[g]
        BY <2>11 DEF Render, Begin, TypeOK, FreshInv, PhaseInv
      <4>2. wasSuccessful' => commitHash[g] # Hash(ConfigOf(seen, g))
        BY <2>11 DEF Render, Begin, CacheHit, TypeOK
      <4>3. wasSuccessful' => commitHash[g] # NoHash
        BY <2>11 DEF Render, Begin, TypeOK
      <4>4. QED
        BY <4>1, <4>2, <4>3, <3>2
    <3>4. CommittedInv' /\ FreshInv'
      BY <2>11 DEF Render, Begin, TypeOK
    <3>5. QED
      BY <3>3, <3>4
  <2>12. CASE ValidatePasses
    BY <2>12 DEF ValidatePasses, Accepts
  <2>13. CASE ValidateFails \/ ApplyFails
    BY <2>1, <2>13 DEF ValidateFails, ApplyFails
  <2>14. CASE ApplySucceeds
    BY <2>14 DEF ApplySucceeds, Accepts, TypeOK
  <2>15. CASE Commit
    <3>1. /\ pc = "commit"
          /\ candidate \in Config
          /\ hash[cur] = Hash(candidate) /\ hash[cur] # NoHash
          /\ record[cur] = candidate
          /\ candidate = ConfigOf(seen, cur)
      BY <2>15, ConfigOfType, HashAssumption DEF Commit, TypeOK
    <3>2. CandidateInv'
      BY <2>15 DEF Commit
    <3>3. CommittedInv'
      BY <2>15, <3>1 DEF Commit, TypeOK
    <3>4. FreshInv'
      BY <2>15, <3>1 DEF Commit, TypeOK
    <3>5. QED
      BY <3>2, <3>3, <3>4
  <2>16. CASE Crash
    BY <2>16, ShapeAssumption DEF Crash
  <2>17. CASE UNCHANGED vars
    BY <2>1, <2>17 DEF vars
  <2>18. QED
    BY <2>2, <2>3, <2>4, <2>5, <2>6, <2>7, <2>8, <2>9, <2>10, <2>11, <2>12,
       <2>13, <2>14, <2>15, <2>16, <2>17
    DEF Next, Loop, Fetch, Gateways
<1>3. QED
  BY <1>1, <1>2, TypeCorrect, PhaseInvariant, PTL DEF Spec

\* A gateway whose last attempt succeeded has on offer what the last fetch
\* compiles to, in memory and on disk.
THEOREM CacheIsTrue == Spec => []CacheTruth
<1>1. TypeOK /\ CacheInv => CacheTruth
  BY ShapeAssumption
  DEF CacheInv, CandidateInv, CommittedInv, FreshInv, Processing, CacheTruth,
      TypeOK
<1>2. QED
  BY <1>1, TypeCorrect, CacheInvariant, PTL

\* APISIX is never reloaded with the payload it already has after a success.
THEOREM ReloadsAreNeeded == Spec => []NoIdleReload
<1>1. TypeOK /\ CacheInv => NoIdleReload
  BY DEF CacheInv, CandidateInv, CommittedInv, Processing, NoIdleReload, TypeOK
<1>2. QED
  BY <1>1, TypeCorrect, CacheInvariant, PTL

\* Nothing the validator refuses is ever on offer or on disk, crash or not.
THEOREM PublishedIsValid == Spec => []PublishedValid
<1>1. Init => PublishedValid
  BY DEF Init, PublishedValid
<1>2. /\ TypeOK /\ CacheInv /\ PublishedValid /\ [Next]_vars
      => PublishedValid'
  <2> SUFFICES ASSUME TypeOK, CacheInv, PublishedValid, [Next]_vars
               PROVE  PublishedValid'
    OBVIOUS
  <2> USE DEF PublishedValid
  <2>1. CASE UNCHANGED outVars
    BY <2>1 DEF outVars, Accepts
  <2>2. CASE ApplySucceeds
    <3>1. Accepts(cur, candidate)
      BY <2>2 DEF ApplySucceeds, CacheInv, CandidateInv
    <3>2. QED
      BY <2>2, <3>1 DEF ApplySucceeds, Accepts, TypeOK
  <2>3. CASE Crash
    BY <2>3 DEF Crash, Accepts
  <2>4. ~ (UNCHANGED outVars) => ApplySucceeds \/ Crash
    BY DEF Next, vars, Notify, Edit, UpkeepBegin, UpkeepEnd, Loop, Boot, Serve,
       Dequeue, CooldownOver, Acquire, Finish, Fetch, List, Read, FetchFails,
       FetchDone, Gateways, MergeFails, SerializeFails, SkipUnchanged, Render,
       ValidatePasses, ValidateFails, ApplyFails, Commit
  <2>5. QED
    BY <2>1, <2>2, <2>3, <2>4
<1>3. QED
  BY <1>1, <1>2, TypeCorrect, CacheInvariant, PTL DEF Spec

\* What is on offer changes only by reloading this cycle's fragments of that
\* gateway under the mutex.
THEOREM PublishingIsDisciplined == Spec => PublishDiscipline
<1>1. /\ TypeOK /\ PhaseInv /\ CacheInv /\ [Next]_vars
      => [\A g \in Gateway :
             record'[g] # record[g] =>
                \/ pc' = "down"
                \/ /\ lock = "dispatcher"
                   /\ cur = g
                   /\ record'[g] = ConfigOf(seen, g)]_vars
  <2> SUFFICES ASSUME TypeOK, PhaseInv, CacheInv, [Next]_vars,
                      NEW g \in Gateway, record'[g] # record[g]
               PROVE  \/ pc' = "down"
                      \/ /\ lock = "dispatcher"
                         /\ cur = g
                         /\ record'[g] = ConfigOf(seen, g)
    OBVIOUS
  <2>1. ApplySucceeds \/ Crash
    BY DEF Next, vars, outVars, Notify, Edit, UpkeepBegin, UpkeepEnd, Loop,
       Boot, Serve, Dequeue, CooldownOver, Acquire, Finish, Fetch, List, Read,
       FetchFails, FetchDone, Gateways, MergeFails, SerializeFails,
       SkipUnchanged, Render, ValidatePasses, ValidateFails, ApplyFails, Commit
  <2>2. CASE ApplySucceeds
    BY <2>2 DEF ApplySucceeds, PhaseInv, CacheInv, CandidateInv, Processing,
       TypeOK
  <2>3. CASE Crash
    BY <2>3 DEF Crash
  <2>4. QED
    BY <2>1, <2>2, <2>3
<1>2. QED
  BY <1>1, TypeCorrect, PhaseInvariant, CacheInvariant, PTL
  DEF Spec, PublishDiscipline

LEMMA OutcomeInvariant == Spec => []OutcomeInv
<1>1. Init => OutcomeInv
  BY DEF Init, OutcomeInv
<1>2. /\ TypeOK /\ PhaseInv /\ CacheInv /\ OutcomeInv /\ [Next]_vars
      => OutcomeInv'
  <2> SUFFICES ASSUME TypeOK, PhaseInv, CacheInv, OutcomeInv, [Next]_vars
               PROVE  OutcomeInv'
    OBVIOUS
  <2> USE DEF OutcomeInv, Processing, Accepts, envVars, fetchVars, stepVars,
              cacheVars, outVars, faultVars
  <2>1. ASSUME UNCHANGED <<pc, cur, todo, seen, lastFetch, commitSuccess, clean>>
        PROVE  OutcomeInv'
    BY <2>1
  <2>2. CASE \E s \in Source : Notify(s) \/ (\E c \in Content : Edit(s, c))
    BY <2>1, <2>2 DEF Notify, Edit
  <2>3. CASE UpkeepBegin \/ UpkeepEnd
    BY <2>1, <2>3 DEF UpkeepBegin, UpkeepEnd
  <2>4. CASE Boot \/ Serve \/ Dequeue \/ CooldownOver \/ Finish
    <3>1. /\ UNCHANGED <<cur, todo, seen, lastFetch, commitSuccess>>
          /\ ~Processing /\ ~Processing'
      BY <2>4 DEF Boot, Serve, Dequeue, CooldownOver, Finish, Return
    <3>2. clean' = clean
      BY <2>4 DEF Boot, Serve, Dequeue, CooldownOver, Finish
    <3>3. QED
      BY <3>1, <3>2
  <2>5. CASE Acquire \/ FetchDone
    BY <2>5 DEF Acquire, FetchDone
  <2>6. ASSUME NEW n \in Namespace, List(n)
        PROVE  OutcomeInv'
    BY <2>1, <2>6 DEF List
  <2>7. ASSUME (\E s \in Source : Read(s)) \/ FetchFails
        PROVE  OutcomeInv'
    <3>1. CASE \E s \in Source : Read(s)
      BY <3>1 DEF Read, PhaseInv
    <3>2. CASE FetchFails
      BY <3>2 DEF FetchFails
    <3>3. QED
      BY <2>7, <3>1, <3>2
  <2>8. ASSUME NEW g \in Gateway, SerializeFails(g)
        PROVE  OutcomeInv'
    BY <2>8 DEF SerializeFails, Fault
  <2>9. ASSUME NEW g \in Gateway,
               MergeFails(g) \/ SkipUnchanged(g) \/ Render(g)
        PROVE  OutcomeInv'
    <3>1. /\ pc = "gateways"
          /\ UNCHANGED <<seen, lastFetch, clean>>
          /\ todo' = todo \ {g}
          /\ \A h \in Gateway \ {g} : commitSuccess'[h] = commitSuccess[h]
      BY <2>9 DEF MergeFails, SkipUnchanged, Render, Begin, TypeOK
    <3>2. \/ ConfigOf(seen, g) \in Unmergeable
          \/ commitSuccess'[g]
          \/ Processing' /\ cur' = g
      BY <2>9 DEF MergeFails, SkipUnchanged, Render, Begin
    <3>3. Present(seen) \subseteq Gateway
      BY PresentType
    <3>4. QED
      BY <3>1, <3>2, <3>3
  <2>10. CASE ValidatePasses \/ ApplySucceeds
    <3>1. /\ UNCHANGED <<cur, todo, seen, lastFetch, commitSuccess, clean>>
          /\ Processing'
      BY <2>10 DEF ValidatePasses, ApplySucceeds
    <3>2. QED
      BY <3>1
  <2>11. CASE ValidateFails \/ ApplyFails
    <3>1. CASE Fault
      BY <3>1 DEF Fault
    <3>2. CASE ValidateFails /\ candidate \in Invalid
      <4>1. /\ UNCHANGED <<cur, todo, seen, lastFetch, commitSuccess>>
            /\ pc = "validate" /\ cur \notin Deep
        BY <3>2 DEF ValidateFails
      <4>2. ~Accepts(cur, ConfigOf(seen, cur))
        BY <3>2, <4>1 DEF CacheInv, CandidateInv
      <4>3. clean' => clean
        BY <3>2 DEF ValidateFails, Fault
      <4>4. QED
        BY <4>1, <4>2, <4>3
    <3>3. QED
      BY <2>11, <3>1, <3>2 DEF ValidateFails, ApplyFails
  <2>12. CASE Commit
    BY <2>12 DEF Commit, TypeOK
  <2>13. CASE Crash
    BY <2>13 DEF Crash
  <2>14. CASE UNCHANGED vars
    BY <2>1, <2>14 DEF vars
  <2>15. QED
    BY <2>2, <2>3, <2>4, <2>5, <2>6, <2>7, <2>8, <2>9, <2>10, <2>11, <2>12,
       <2>13, <2>14
    DEF Next, Loop, Fetch, Gateways
<1>3. QED
  BY <1>1, <1>2, TypeCorrect, PhaseInvariant, CacheInvariant, PTL DEF Spec

\* End to end: at rest after a cycle free of transient failures, every gateway
\* that compiles and validates is published from the files as they are now.
THEOREM AtRestAllIsCurrent == Spec => []SettledIsCurrent
<1>1. /\ TypeOK /\ PhaseInv /\ NoLostRequest /\ CacheTruth /\ OutcomeInv
      => SettledIsCurrent
  <2> SUFFICES ASSUME TypeOK, PhaseInv, NoLostRequest, CacheTruth, OutcomeInv,
                      Settled, lastFetch = "ok", clean,
                      NEW g \in Present(files),
                      ConfigOf(files, g) \notin Unmergeable,
                      Accepts(g, ConfigOf(files, g))
               PROVE  record[g] = ConfigOf(files, g)
    BY DEF SettledIsCurrent
  <2>1. \A s \in Source : files[s] = seen[s]
    BY DEF NoLostRequest, WillRead, Settled
  <2>2. files = seen
    BY <2>1 DEF TypeOK
  <2>3. g \in Present(seen) \ todo
    BY <2>2 DEF PhaseInv, Settled
  <2>4. commitSuccess[g]
    BY <2>2, <2>3 DEF OutcomeInv, Processing, Settled
  <2>5. g \in Gateway
    BY PresentType
  <2>6. QED
    BY <2>2, <2>3, <2>4, <2>5 DEF CacheTruth
<1>2. QED
  BY <1>1, TypeCorrect, PhaseInvariant, RequestsNotLost, CacheIsTrue,
     OutcomeInvariant, PTL
=============================================================================
