---------------------------- MODULE FileReloader ----------------------------
(***************************************************************************)
(* FileReloader.Apply: the live configuration is replaced through a        *)
(* temporary file in the same directory, which is written, synced, closed, *)
(* given the mode of the file it replaces and renamed over it.             *)
(*                                                                         *)
(* Any call to the file system may fail and the process may be killed      *)
(* between any two of them.  A power loss brings back what had reached the *)
(* disk: the rename may be lost, and data that was not synced is torn.     *)
(***************************************************************************)
EXTENDS Naturals

CONSTANTS
    Payload,        \* payloads the dispatcher or the SSE client hands over
    Empty,          \* the payload of length zero
    Torn,           \* contents cut short
    NoFile,         \* no such file
    NoRequest,      \* no call is under way
    Mode,           \* file modes
    TempMode,       \* the mode CreateTemp gives
    MaxFaults,      \* bound: file system errors
    MaxCrashes,     \* bound: kills and power losses
    MaxChmods       \* bound: changes of mode by an administrator

ASSUME ReloaderAssumption ==
    /\ Empty \notin Payload /\ Torn \notin Payload /\ NoFile \notin Payload
    /\ NoRequest \notin Payload
    /\ Torn # NoFile
    /\ TempMode \in Mode
    /\ MaxFaults \in Nat /\ MaxCrashes \in Nat /\ MaxChmods \in Nat

VARIABLES
    pc,             \* next call of replaceWithPayload, or "idle"
    request,        \* argument of Apply while it runs
    result,         \* what the last Apply returned
    tmp, tmpMode,   \* this call's temporary file
    tmpSynced,      \* its contents have reached the disk
    live, liveMode, \* the configuration file
    liveSynced,     \* its contents have reached the disk
    durable,        \* contents a power loss would leave
    statMode,       \* local `info`: the mode Stat returned
    modes,          \* history: modes the live file had since Stat
    litter,         \* temporary files nobody will remove
    failedRemoves,  \* history: clean-ups that failed
    faults, crashes, chmods

tmpVars  == <<tmp, tmpMode, tmpSynced>>
liveVars == <<live, liveMode, liveSynced>>
statVars == <<statMode, modes>>
vars == <<pc, request, result, tmpVars, liveVars, statVars, durable, litter,
          failedRemoves, faults, crashes, chmods>>

Init ==
    /\ pc = "idle"
    /\ request = NoRequest
    /\ result = "none"
    /\ tmp = NoFile /\ tmpMode = TempMode /\ tmpSynced = FALSE
    /\ live \in Payload \union {NoFile}
    /\ liveMode \in Mode
    /\ liveSynced = TRUE
    /\ durable = live
    /\ statMode = TempMode /\ modes = {}
    /\ litter = 0 /\ failedRemoves = 0
    /\ faults = 0 /\ crashes = 0 /\ chmods = 0

-----------------------------------------------------------------------------
\* Apply for another gateway returns nil, for an empty payload an error.
Turn(own, p) ==
    /\ pc = "idle"
    /\ ~own \/ p = Empty
    /\ result' = IF own THEN "error" ELSE "ok"
    /\ UNCHANGED <<pc, request, tmpVars, liveVars, statVars, durable, litter,
                   failedRemoves, faults, crashes, chmods>>

Begin(p) ==
    /\ pc = "idle"
    /\ request' = p
    /\ result' = "none"
    /\ pc' = "create"
    /\ UNCHANGED <<tmpVars, liveVars, statVars, durable, litter, failedRemoves,
                   faults, crashes, chmods>>

\* One call of the file system succeeds and the next one is due.
Advance(from, to) ==
    /\ pc = from
    /\ pc' = to
    /\ UNCHANGED <<request, result, litter, failedRemoves, faults, crashes,
                   chmods, durable, liveVars>>

Create ==
    /\ Advance("create", "write")
    /\ tmp' = Torn /\ tmpMode' = TempMode /\ tmpSynced' = FALSE
    /\ UNCHANGED statVars

Write ==
    /\ Advance("write", "sync")
    /\ tmp' = request
    /\ UNCHANGED <<tmpMode, tmpSynced, statVars>>

\* Mutant: the data is left in the page cache.
NoSync ==
    /\ Advance("sync", "close")
    /\ UNCHANGED <<tmpVars, statVars>>

Sync ==
    /\ Advance("sync", "close")
    /\ tmpSynced' = TRUE
    /\ UNCHANGED <<tmp, tmpMode, statVars>>

Close ==
    /\ Advance("close", "stat")
    /\ UNCHANGED <<tmpVars, statVars>>

\* Mutant: the mode of the file that is replaced is not looked at.
StatNothing ==
    /\ Advance("stat", "rename")
    /\ statMode' = liveMode /\ modes' = {liveMode}
    /\ UNCHANGED tmpVars

\* Only an existing file has a mode to hand on.
Stat ==
    /\ Advance("stat", IF live = NoFile THEN "rename" ELSE "chmod")
    /\ statMode' = liveMode /\ modes' = {liveMode}
    /\ UNCHANGED tmpVars

\* The mode is the one Stat returned, whatever the file's mode is by now.
Chmod ==
    /\ Advance("chmod", "rename")
    /\ tmpMode' = statMode
    /\ UNCHANGED <<tmp, tmpSynced, statVars>>

Rename ==
    /\ pc = "rename"
    /\ live' = tmp /\ liveMode' = tmpMode /\ liveSynced' = tmpSynced
    /\ tmp' = NoFile
    /\ pc' = "idle"
    /\ request' = NoRequest
    /\ result' = "ok"
    /\ UNCHANGED <<tmpMode, tmpSynced, statVars, durable, litter, failedRemoves,
                   faults, crashes, chmods>>

\* Mutant: the temporary file is left behind when a call fails.
FailLeaving ==
    /\ pc # "idle"
    /\ faults < MaxFaults
    /\ faults' = faults + 1
    /\ pc' = "idle"
    /\ request' = NoRequest
    /\ result' = "error"
    /\ tmp' = NoFile
    /\ litter' = IF tmp = NoFile THEN litter ELSE litter + 1
    /\ UNCHANGED <<tmpMode, tmpSynced, liveVars, statVars, durable,
                   failedRemoves, crashes, chmods>>

\* Mutant: the error of the failed call is not returned.
FailSilently ==
    /\ pc # "idle"
    /\ faults < MaxFaults
    /\ faults' = faults + 1
    /\ pc' = "idle"
    /\ request' = NoRequest
    /\ result' = "ok"
    /\ tmp' = NoFile
    /\ UNCHANGED <<tmpMode, tmpSynced, liveVars, statVars, durable, litter,
                   failedRemoves, crashes, chmods>>

\* A call fails: the temporary file is removed, unless that fails as well.
Fail ==
    /\ pc # "idle"
    /\ pc' = "idle"
    /\ request' = NoRequest
    /\ result' = "error"
    /\ tmp' = NoFile
    /\ \/ /\ faults + 1 <= MaxFaults
          /\ faults' = faults + 1
          /\ UNCHANGED <<litter, failedRemoves>>
       \/ /\ tmp # NoFile
          /\ faults + 2 <= MaxFaults
          /\ faults' = faults + 2
          /\ litter' = litter + 1
          /\ failedRemoves' = failedRemoves + 1
    /\ UNCHANGED <<tmpMode, tmpSynced, liveVars, statVars, durable, crashes,
                   chmods>>

-----------------------------------------------------------------------------
\* The operating system writes back the directory, and with it the contents
\* of the live file, whole only if they were synced.
Persist ==
    /\ durable' \in IF liveSynced THEN {live} ELSE {live, Torn}
    /\ UNCHANGED <<pc, request, result, tmpVars, liveVars, statVars, litter,
                   failedRemoves, faults, crashes, chmods>>

Die ==
    /\ crashes < MaxCrashes
    /\ crashes' = crashes + 1
    /\ pc' = "idle"
    /\ request' = NoRequest
    /\ result' = "none"
    /\ tmp' = NoFile
    /\ litter' = IF tmp = NoFile THEN litter ELSE litter + 1
    /\ UNCHANGED <<tmpMode, tmpSynced, statVars, durable, failedRemoves, faults,
                   chmods>>

\* The process is killed; the files stay as they are.
Kill ==
    /\ Die
    /\ UNCHANGED liveVars

PowerLoss ==
    /\ Die
    /\ live' = durable
    /\ liveMode' \in Mode
    /\ liveSynced' = TRUE

AdminChmod(m) ==
    /\ live # NoFile
    /\ chmods < MaxChmods
    /\ chmods' = chmods + 1
    /\ liveMode' = m
    /\ modes' = modes \union {m}
    /\ UNCHANGED <<pc, request, result, tmpVars, live, liveSynced, statMode,
                   durable, litter, failedRemoves, faults, crashes>>

Apply ==
    \/ \E p \in Payload \union {Empty}, own \in BOOLEAN : Turn(own, p)
    \/ \E p \in Payload : Begin(p)
    \/ Create \/ Write \/ Sync \/ Close \/ Stat \/ Chmod \/ Rename
    \/ Fail

Next ==
    \/ Apply
    \/ Persist \/ Kill \/ PowerLoss
    \/ \E m \in Mode : AdminChmod(m)

Spec == Init /\ [][Next]_vars

-----------------------------------------------------------------------------
\* Type invariant of one replacement and of the file it replaces.
TypeOK ==
    /\ pc \in {"idle", "create", "write", "sync", "close", "stat", "chmod",
               "rename"}
    /\ request \in Payload \union {NoRequest}
    /\ result \in {"none", "ok", "error"}
    /\ tmp \in Payload \union {Torn, NoFile}
    /\ live \in Payload \union {Torn, NoFile}
    /\ durable \in Payload \union {Torn, NoFile}
    /\ {tmpMode, liveMode, statMode} \subseteq Mode
    /\ modes \subseteq Mode
    /\ tmpSynced \in BOOLEAN /\ liveSynced \in BOOLEAN
    /\ {litter, failedRemoves, faults, crashes, chmods} \subseteq Nat

\* APISIX never reads a torn configuration, not even after a power loss.
NeverTorn == live # Torn /\ durable # Torn

\* A temporary file outlives its call only by a death of the process or a
\* clean-up that failed, one for each.
NoLitter ==
    /\ pc = "idle" => tmp = NoFile
    /\ litter <= crashes + failedRemoves

\* Replacing an existing file gives it a mode it already had since the call
\* looked at it, so APISIX does not lose access to it.
ModeKept ==
    [][pc = "rename" /\ pc' = "idle" /\ result' = "ok" /\ live # NoFile
         => liveMode' \in modes]_vars

File == INSTANCE ConfigFile WITH
    Payload <- Payload, NoFile <- NoFile, NoRequest <- NoRequest,
    live <- live, durable <- durable, request <- request, result <- result

\* The seven file system calls implement one atomic, all-or-nothing step.
ReplacesAtomically == File!Spec
=============================================================================
