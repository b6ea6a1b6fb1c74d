--------------------------- MODULE CooldownProofs ---------------------------
(***************************************************************************)
(* The rate the run loop really guarantees, for every cooldown.            *)
(***************************************************************************)
EXTENDS Cooldown, TLAPS

\* Every recorded time is in the past.
PastInv ==
    /\ dequeuedAt # Never => dequeuedAt <= now
    /\ lastDequeued # Never => lastDequeued <= now
    /\ \A i \in 1..3 : starts[i] # Never => starts[i] <= now

\* The dequeue the next cooldown counts from came after the start before last,
\* and the request being paced was dequeued after the last start.
OrderInv ==
    /\ pc \in {"waiting", "acquire"} =>
         /\ dequeuedAt # Never
         /\ starts[3] # Never => dequeuedAt >= starts[3]
    /\ pc = "acquire" =>
         /\ lastDequeued = dequeuedAt
         /\ starts[2] # Never => now - starts[2] >= Cooldown
    /\ pc # "acquire" /\ starts[3] # Never => lastDequeued # Never
    /\ pc # "acquire" /\ starts[2] # Never => lastDequeued >= starts[2]
    /\ starts[2] # Never => starts[3] # Never

\* The times are readings of the clock, and the queue holds a token or none.
THEOREM TypeCorrect == Spec => []TypeOK
<1>1. Init => TypeOK
  <2> SUFFICES ASSUME Init PROVE TypeOK
    OBVIOUS
  <2>1. queue \in BOOLEAN
    BY DEF Init
  <2>2. starts \in [1..3 -> Time \union {Never}]
    BY DEF Init
  <2>3. now \in Time
    BY CooldownAssumption DEF Init, Time
  <2>4. QED
    BY <2>1, <2>2, <2>3 DEF Init, TypeOK
<1>2. TypeOK /\ [Next]_vars => TypeOK'
  <2> SUFFICES ASSUME TypeOK, [Next]_vars PROVE TypeOK'
    OBVIOUS
  <2>1. (queue \in BOOLEAN)'
    BY Zenon DEF TypeOK, Next, vars, Notify, Dequeue, Wake, Start, Finish, Tick
  <2>2. now' \in Time
    BY CooldownAssumption
       DEF TypeOK, Time, Next, vars, Notify, Dequeue, Wake, Start, Finish, Tick
  <2>3. starts' \in [1..3 -> Time \union {Never}]
    BY DEF TypeOK, Next, vars, Notify, Dequeue, Wake, Start, Finish, Tick
  <2>4. /\ pc' \in {"idle", "waiting", "acquire", "running"}
        /\ dequeuedAt' \in Time \union {Never}
        /\ lastDequeued' \in Time \union {Never}
    BY DEF TypeOK, Next, vars, Notify, Dequeue, Wake, Start, Finish, Tick
  <2>5. QED
    BY <2>1, <2>2, <2>3, <2>4 DEF TypeOK
<1>3. QED
  BY <1>1, <1>2, PTL DEF Spec

\* Bursts: the last of three cycles in a row starts at least a cooldown after
\* the first, whatever the mutex and the requests do.
THEOREM AtMostTwoPerCooldown == Spec => []BurstOfTwo
<1>1. Init => PastInv /\ OrderInv /\ BurstOfTwo
  BY DEF Init, PastInv, OrderInv, BurstOfTwo
<1>2. /\ TypeOK /\ TypeOK' /\ PastInv /\ OrderInv /\ BurstOfTwo /\ [Next]_vars
      => PastInv' /\ OrderInv' /\ BurstOfTwo'
  <2> SUFFICES ASSUME TypeOK, TypeOK', PastInv, OrderInv, BurstOfTwo, [Next]_vars
               PROVE  PastInv' /\ OrderInv' /\ BurstOfTwo'
    OBVIOUS
  <2> USE CooldownAssumption DEF TypeOK, Time, PastInv, OrderInv, BurstOfTwo
  <2>1. CASE Notify
    BY <2>1 DEF Notify
  <2>2. CASE Dequeue
    BY <2>2 DEF Dequeue
  <2>3. CASE Wake
    BY <2>3 DEF Wake, CooldownElapsed
  <2>4. CASE Start
    BY <2>4 DEF Start
  <2>5. CASE Finish
    BY <2>5 DEF Finish
  <2>6. CASE Tick
    BY <2>6 DEF Tick
  <2>7. CASE UNCHANGED vars
    BY <2>7 DEF vars
  <2>8. QED
    BY <2>1, <2>2, <2>3, <2>4, <2>5, <2>6, <2>7 DEF Next
<1>3. QED
  BY <1>1, <1>2, TypeCorrect, PTL DEF Spec
\* A request is dequeued after the one the cooldown is counted from.
SinceInv ==
    pc = "waiting" /\ lastDequeued # Never => lastDequeued <= dequeuedAt

\* A dequeued request waits for at most one cooldown before its cycle asks for
\* the mutex (waitForCooldown): it sleeps only while the cooldown counted from
\* an earlier dequeue is not over.
THEOREM WaitIsBounded == Spec => []BoundedWait
<1>1. Init => PastInv /\ OrderInv /\ BurstOfTwo /\ SinceInv /\ BoundedWait
  BY DEF Init, PastInv, OrderInv, BurstOfTwo, SinceInv, BoundedWait
<1>2. /\ TypeOK /\ TypeOK' /\ PastInv /\ SinceInv /\ BoundedWait /\ [Next]_vars
      => PastInv' /\ SinceInv' /\ BoundedWait'
  <2> SUFFICES ASSUME TypeOK, TypeOK', PastInv, SinceInv, BoundedWait, [Next]_vars
               PROVE  PastInv' /\ SinceInv' /\ BoundedWait'
    OBVIOUS
  <2> USE CooldownAssumption DEF TypeOK, Time, PastInv, SinceInv, BoundedWait
  <2>1. CASE Notify \/ Finish \/ UNCHANGED vars
    BY <2>1 DEF Notify, Finish, vars
  <2>2. CASE Dequeue
    BY <2>2 DEF Dequeue
  <2>3. CASE Wake
    BY <2>3 DEF Wake
  <2>4. CASE Start
    BY <2>4 DEF Start
  <2>5. CASE Tick
    BY <2>5 DEF Tick, CooldownElapsed
  <2>6. QED
    BY <2>1, <2>2, <2>3, <2>4, <2>5 DEF Next
<1>3. QED
  BY <1>1, <1>2, TypeCorrect, PTL DEF Spec
=============================================================================
