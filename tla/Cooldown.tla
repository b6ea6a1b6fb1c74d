------------------------------ MODULE Cooldown ------------------------------
(***************************************************************************)
(* The pacing of compile cycles by Dispatcher.Run: a request is dequeued,  *)
(* its time is taken, the loop sleeps until the cooldown counted from the  *)
(* previous dequeue is over, and then waits for the scheduler mutex before *)
(* the cycle begins.                                                       *)
(*                                                                         *)
(* Time is discrete; a due sleep ends before time goes on.  Only the last  *)
(* three cycle starts are remembered.                                      *)
(***************************************************************************)
EXTENDS Integers

CONSTANTS Cooldown,     \* --cooldown, in ticks; 0 disables it
          MaxTime,      \* bound on the clock
          Never         \* the zero time.Time

ASSUME CooldownAssumption ==
    /\ Cooldown \in Nat
    /\ MaxTime \in Nat
    /\ Never \notin Int

VARIABLES now,
          queue,            \* the token is queued
          pc,               \* "idle", "waiting", "acquire" or "running"
          dequeuedAt,       \* local of Run
          lastDequeued,     \* Dispatcher.lastDequeued
          starts            \* history: when the last three cycles began

vars == <<now, queue, pc, dequeuedAt, lastDequeued, starts>>

Time == 0..MaxTime

Init ==
    /\ now = 0
    /\ queue = FALSE
    /\ pc = "idle"
    /\ dequeuedAt = Never
    /\ lastDequeued = Never
    /\ starts = <<Never, Never, Never>>

\* Mutant: the comparison is strict.
CooldownOverdue ==
    Cooldown > 0 /\ lastDequeued # Never => now - lastDequeued > Cooldown

\* waitForCooldown returns once the cooldown since lastDequeued has elapsed.
CooldownElapsed ==
    Cooldown > 0 /\ lastDequeued # Never => now - lastDequeued >= Cooldown

\* A request is taken, or merged with the one already queued.
Notify ==
    /\ queue' = TRUE
    /\ UNCHANGED <<now, pc, dequeuedAt, lastDequeued, starts>>

\* The token is received and the time is taken.
Dequeue ==
    /\ pc = "idle"
    /\ queue
    /\ queue' = FALSE
    /\ dequeuedAt' = now
    /\ pc' = "waiting"
    /\ UNCHANGED <<now, lastDequeued, starts>>

\* Mutant: only the first dequeue is remembered.
WakeForgetful ==
    /\ pc = "waiting"
    /\ CooldownElapsed
    /\ lastDequeued' = IF lastDequeued = Never THEN dequeuedAt ELSE lastDequeued
    /\ pc' = "acquire"
    /\ UNCHANGED <<now, queue, dequeuedAt, starts>>

\* The sleep is over: the time of the dequeue, not of this start, is kept.
Wake ==
    /\ pc = "waiting"
    /\ CooldownElapsed
    /\ lastDequeued' = dequeuedAt
    /\ pc' = "acquire"
    /\ UNCHANGED <<now, queue, dequeuedAt, starts>>

\* The mutex is ours, possibly after an upkeep task kept it for a while.
Start ==
    /\ pc = "acquire"
    /\ starts' = <<starts[2], starts[3], now>>
    /\ pc' = "running"
    /\ UNCHANGED <<now, queue, dequeuedAt, lastDequeued>>

Finish ==
    /\ pc = "running"
    /\ pc' = "idle"
    /\ UNCHANGED <<now, queue, dequeuedAt, lastDequeued, starts>>

\* Time passes, but not past a sleep that is due or a queued token at rest.
Tick ==
    /\ now < MaxTime
    /\ ~ (pc = "waiting" /\ CooldownElapsed)
    /\ ~ (pc = "idle" /\ queue)
    /\ now' = now + 1
    /\ UNCHANGED <<queue, pc, dequeuedAt, lastDequeued, starts>>

Next == Notify \/ Dequeue \/ Wake \/ Start \/ Finish \/ Tick

Spec == Init /\ [][Next]_vars

-----------------------------------------------------------------------------
\* Type invariant of the loop's clock readings.
TypeOK ==
    /\ now \in Time
    /\ queue \in BOOLEAN
    /\ pc \in {"idle", "waiting", "acquire", "running"}
    /\ dequeuedAt \in Time \union {Never}
    /\ lastDequeued \in Time \union {Never}
    /\ starts \in [1..3 -> Time \union {Never}]

\* What the code guarantees: of any three cycles in a row, the last starts at
\* least a cooldown after the first, so bursts never exceed two per cooldown.
BurstOfTwo ==
    starts[1] # Never => starts[3] - starts[1] >= Cooldown

\* No request waits longer than one cooldown once dequeued.
BoundedWait ==
    pc = "waiting" => now - dequeuedAt <= Cooldown
=============================================================================
