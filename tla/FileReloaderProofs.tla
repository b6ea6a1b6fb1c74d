------------------------- MODULE FileReloaderProofs -------------------------
(***************************************************************************)
(* The replacement of the live configuration file is atomic, whatever      *)
(* fails and wherever the process dies.                                    *)
(***************************************************************************)
EXTENDS FileReloader, TLAPS

\* Where the call under way stands, and what the live file is made of.
ContentInv ==
    /\ request \in Payload \union {NoRequest}
    /\ request = NoRequest <=> pc = "idle"
    /\ pc \in {"sync", "close", "stat", "chmod", "rename"} => tmp = request
    /\ pc \in {"close", "stat", "chmod", "rename"} => tmpSynced = TRUE
    /\ liveSynced = TRUE
    /\ live \in Payload \union {NoFile}
    /\ durable \in Payload \union {NoFile}

\* One step keeps the contents whole and implements a step of ConfigFile.
LEMMA StepImplements ==
    ASSUME ContentInv, [Next]_vars
    PROVE  ContentInv' /\ [File!Next]_(File!vars)
<1> USE ReloaderAssumption DEF ContentInv, File!vars
<1>1. ASSUME NEW p \in Payload \union {Empty}, NEW own \in BOOLEAN, Turn(own, p)
      PROVE  ContentInv' /\ [File!Next]_(File!vars)
  <2>1. /\ result' \in {"ok", "error"}
        /\ UNCHANGED <<pc, request, tmp, tmpSynced, live, liveSynced, durable>>
        /\ pc = "idle"
    BY <1>1 DEF Turn, tmpVars, liveVars
  <2>2. File!Decline(result')
    BY <2>1 DEF File!Decline
  <2>3. QED
    BY <2>1, <2>2 DEF File!Next
<1>2. ASSUME NEW p \in Payload, Begin(p)
      PROVE  ContentInv' /\ [File!Next]_(File!vars)
  <2>1. File!Ask(p) /\ ContentInv'
    BY <1>2 DEF Begin, File!Ask, tmpVars, liveVars
  <2>2. QED
    BY <2>1 DEF File!Next
<1>3. CASE Create \/ Write \/ Sync \/ Close \/ Stat \/ Chmod
  <2>1. UNCHANGED <<request, result, live, liveSynced, durable>>
    BY <1>3 DEF Create, Write, Sync, Close, Stat, Chmod, Advance, tmpVars,
       liveVars
  <2>2. CASE Create
    BY <2>1, <2>2 DEF Create, Advance
  <2>3. CASE Write
    BY <2>1, <2>3 DEF Write, Advance
  <2>4. CASE Sync
    BY <2>1, <2>4 DEF Sync, Advance
  <2>5. CASE Close
    BY <2>1, <2>5 DEF Close, Advance, tmpVars
  <2>6. CASE Stat
    BY <2>1, <2>6 DEF Stat, Advance, tmpVars
  <2>7. CASE Chmod
    BY <2>1, <2>7 DEF Chmod, Advance
  <2>8. QED
    BY <1>3, <2>2, <2>3, <2>4, <2>5, <2>6, <2>7
<1>4. CASE Rename
  <2>1. File!Install /\ ContentInv'
    BY <1>4 DEF Rename, File!Install
  <2>2. QED
    BY <2>1 DEF File!Next
<1>5. CASE Fail
  <2>1. File!Refuse /\ ContentInv'
    BY <1>5 DEF Fail, File!Refuse, liveVars
  <2>2. QED
    BY <2>1 DEF File!Next
<1>6. CASE Persist
  <2>1. File!Persist /\ ContentInv'
    BY <1>6 DEF Persist, File!Persist, tmpVars, liveVars
  <2>2. QED
    BY <2>1 DEF File!Next
<1>7. CASE Kill \/ PowerLoss
  <2>1. File!Die
    BY <1>7 DEF Kill, PowerLoss, Die, File!Die, liveVars
  <2>2. CASE Kill
    BY <2>1, <2>2 DEF Kill, Die, File!Next, liveVars
  <2>3. CASE PowerLoss
    BY <2>1, <2>3 DEF PowerLoss, Die, File!Next
  <2>4. QED
    BY <1>7, <2>2, <2>3
<1>8. ASSUME NEW m \in Mode, AdminChmod(m)
      PROVE  ContentInv' /\ [File!Next]_(File!vars)
  BY <1>8 DEF AdminChmod, tmpVars
<1>9. CASE UNCHANGED vars
  BY <1>9 DEF vars, tmpVars, liveVars
<1>10. QED
  BY <1>1, <1>2, <1>3, <1>4, <1>5, <1>6, <1>7, <1>8, <1>9 DEF Next, Apply

LEMMA ContentInvariant == Spec => []ContentInv
<1>1. Init => ContentInv
  BY ReloaderAssumption DEF Init, ContentInv
<1>2. ContentInv /\ [Next]_vars => ContentInv'
  BY StepImplements
<1>3. QED
  BY <1>1, <1>2, PTL DEF Spec

\* What APISIX reads, now or after a power loss, is always a whole payload.
THEOREM ConfigurationNeverTorn == Spec => []NeverTorn
<1>1. ContentInv => NeverTorn
  BY ReloaderAssumption DEF ContentInv, NeverTorn
<1>2. QED
  BY <1>1, ContentInvariant, PTL

\* replaceWithPayload refines the atomic replacement of ConfigFile.
THEOREM ReplacementIsAtomic == Spec => ReplacesAtomically
<1>1. Init => File!Init
  BY DEF Init, File!Init
<1>2. ContentInv /\ [Next]_vars => [File!Next]_(File!vars)
  BY StepImplements
<1>3. QED
  BY <1>1, <1>2, ContentInvariant, PTL DEF Spec, ReplacesAtomically, File!Spec
-----------------------------------------------------------------------------
\* Every variable keeps its type, for any payloads, modes and numbers of faults.
THEOREM TypeCorrect == Spec => []TypeOK
<1>1. Init => TypeOK
  <2> SUFFICES ASSUME Init PROVE TypeOK
    OBVIOUS
  <2>1. {tmpMode, liveMode, statMode} \subseteq Mode /\ modes \subseteq Mode
    BY ReloaderAssumption DEF Init
  <2>2. tmpSynced \in BOOLEAN /\ liveSynced \in BOOLEAN
    BY DEF Init
  <2>3. {litter, failedRemoves, faults, crashes, chmods} \subseteq Nat
    BY DEF Init
  <2>4. QED
    BY <2>1, <2>2, <2>3 DEF Init, TypeOK
<1>2. TypeOK /\ ContentInv /\ [Next]_vars => TypeOK'
  <2> SUFFICES ASSUME TypeOK, ContentInv, [Next]_vars PROVE TypeOK'
    OBVIOUS
  <2> USE ReloaderAssumption DEF TypeOK, tmpVars, liveVars, statVars
  <2>1. ASSUME NEW p \in Payload \union {Empty}, NEW own \in BOOLEAN, Turn(own, p)
        PROVE  TypeOK'
    BY <2>1 DEF Turn
  <2>2. ASSUME NEW p \in Payload, Begin(p) PROVE TypeOK'
    BY <2>2 DEF Begin
  <2>3. CASE Create \/ Close
    BY <2>3 DEF Create, Close, Advance
  <2>4. CASE Write
    BY <2>4 DEF Write, Advance, ContentInv
  <2>5. CASE Sync \/ Stat \/ Chmod
    BY <2>5 DEF Sync, Stat, Chmod, Advance
  <2>6. CASE Rename
    BY <2>6 DEF Rename
  <2>7. CASE Fail
    BY <2>7 DEF Fail
  <2>8. CASE Persist
    BY <2>8 DEF Persist
  <2>9. CASE Kill
    BY <2>9 DEF Kill, Die
  <2>10. CASE PowerLoss
    <3>1. {tmpMode, liveMode, statMode}' \subseteq Mode
      BY <2>10 DEF PowerLoss, Die
    <3>2. {litter, failedRemoves, faults, crashes, chmods}' \subseteq Nat
      BY <2>10 DEF PowerLoss, Die
    <3>3. tmpSynced' \in BOOLEAN /\ liveSynced' \in BOOLEAN
      BY <2>10 DEF PowerLoss, Die
    <3>4. QED
      BY <2>10, <3>1, <3>2, <3>3 DEF PowerLoss, Die
  <2>11. ASSUME NEW m \in Mode, AdminChmod(m) PROVE TypeOK'
    BY <2>11 DEF AdminChmod
  <2>12. CASE UNCHANGED vars
    BY <2>12 DEF vars
  <2>13. QED
    BY <2>1, <2>2, <2>3, <2>4, <2>5, <2>6, <2>7, <2>8, <2>9, <2>10, <2>11,
       <2>12 DEF Next, Apply
<1>3. QED
  BY <1>1, <1>2, ContentInvariant, PTL DEF Spec

\* The temporary files left behind are not more than the deaths of the process
\* and the failed clean-ups (replaceWithPayload removes its own on every path).
THEOREM LitterIsAccountedFor == Spec => []NoLitter
<1>1. Init => NoLitter
  BY DEF Init, NoLitter
<1>2. TypeOK /\ NoLitter /\ [Next]_vars => NoLitter'
  <2> SUFFICES ASSUME TypeOK, NoLitter, [Next]_vars PROVE NoLitter'
    OBVIOUS
  <2>1. litter \in Nat /\ failedRemoves \in Nat /\ crashes \in Nat
    BY DEF TypeOK
  <2> USE <2>1 DEF NoLitter, tmpVars, liveVars, statVars
  <2>2. ASSUME NEW p \in Payload \union {Empty}, NEW own \in BOOLEAN, Turn(own, p)
        PROVE  NoLitter'
    BY <2>2 DEF Turn
  <2>3. ASSUME NEW p \in Payload, Begin(p) PROVE NoLitter'
    BY <2>3 DEF Begin
  <2>4. CASE Create \/ Write \/ Sync \/ Close \/ Stat \/ Chmod
    BY <2>4 DEF Create, Write, Sync, Close, Stat, Chmod, Advance
  <2>5. CASE Rename
    BY <2>5 DEF Rename
  <2>6. CASE Fail
    BY <2>6 DEF Fail
  <2>7. CASE Persist \/ UNCHANGED vars
    BY <2>7 DEF Persist, vars
  <2>8. CASE Kill \/ PowerLoss
    <3>1. Die
      BY <2>8 DEF Kill, PowerLoss
    <3>2. QED
      BY <3>1 DEF Die
  <2>9. ASSUME NEW m \in Mode, AdminChmod(m) PROVE NoLitter'
    BY <2>9 DEF AdminChmod
  <2>10. QED
    BY <2>2, <2>3, <2>4, <2>5, <2>6, <2>7, <2>8, <2>9 DEF Next, Apply
<1>3. QED
  BY <1>1, <1>2, TypeCorrect, PTL DEF Spec

\* From Stat on, the mode that is handed on is one the live file has had since.
ModeInv ==
    /\ pc = "chmod" => statMode \in modes
    /\ pc = "rename" /\ live # NoFile => tmpMode \in modes

\* A file is only replaced by one with a mode it had since Stat, even when an
\* administrator changes the mode in between (replaceWithPayload, Stat to Rename).
THEOREM ModeIsKept == Spec => ModeKept
<1>1. Init => ModeInv
  BY DEF Init, ModeInv
<1>2. ModeInv /\ [Next]_vars => ModeInv'
  <2> SUFFICES ASSUME ModeInv, [Next]_vars PROVE ModeInv'
    OBVIOUS
  <2> USE DEF ModeInv, tmpVars, liveVars, statVars
  <2>1. ASSUME NEW p \in Payload \union {Empty}, NEW own \in BOOLEAN, Turn(own, p)
        PROVE  ModeInv'
    BY <2>1 DEF Turn
  <2>2. ASSUME NEW p \in Payload, Begin(p) PROVE ModeInv'
    BY <2>2 DEF Begin
  <2>3. CASE Create \/ Write \/ Sync \/ Close \/ Stat \/ Chmod
    BY <2>3 DEF Create, Write, Sync, Close, Stat, Chmod, Advance
  <2>4. CASE Rename \/ Fail
    BY <2>4 DEF Rename, Fail
  <2>5. CASE Kill \/ PowerLoss
    BY <2>5 DEF Kill, PowerLoss, Die
  <2>6. CASE Persist \/ UNCHANGED vars
    BY <2>6 DEF Persist, vars
  <2>7. ASSUME NEW m \in Mode, AdminChmod(m) PROVE ModeInv'
    BY <2>7 DEF AdminChmod
  <2>8. QED
    BY <2>1, <2>2, <2>3, <2>4, <2>5, <2>6, <2>7 DEF Next, Apply
<1>3. ModeInv /\ [Next]_vars
        => [pc = "rename" /\ pc' = "idle" /\ result' = "ok" /\ live # NoFile
              => liveMode' \in modes]_vars
  <2> SUFFICES ASSUME ModeInv, Next, pc = "rename", pc' = "idle", result' = "ok",
                      live # NoFile
               PROVE  liveMode' \in modes
    OBVIOUS
  <2>1. CASE Rename
    BY <2>1 DEF Rename, ModeInv
  <2>2. CASE ~Rename
    BY <2>2 DEF Next, Apply, Turn, Begin, Create, Write, Sync, Close, Stat,
                Chmod, Advance, Fail, Persist, Kill, PowerLoss, Die, AdminChmod
  <2>3. QED
    BY <2>1, <2>2
<1>4. QED
  BY <1>1, <1>2, <1>3, PTL DEF Spec, ModeKept
=============================================================================
