-------------------------- MODULE SSEClientProofs ---------------------------
(***************************************************************************)
(* The local configuration of an SSE client never goes back, for any       *)
(* number of payloads, failures, cuts and restarts.                        *)
(***************************************************************************)
EXTENDS SSEClient, TLAPS

NumberInv ==
    /\ published \in Nat /\ target \in Nat /\ inflight \in Nat /\ live \in Nat
    /\ wire \in Seq(Nat)

\* At most the payload in flight is being applied.
JobInv ==
    /\ jobs \subseteq {inflight} \ {0}
    /\ waiting # "none" => jobs = {} /\ inflight # 0
    /\ conn = "off" => jobs = {} /\ wire = <<>>

\* Older than what is in place comes nothing, neither in flight nor in transit.
OrderInv ==
    /\ live <= published
    /\ target <= published
    /\ target # 0 => live <= target
    /\ inflight # 0 => live <= inflight /\ inflight <= target
    /\ \A i \in 1..Len(wire) :
         live <= wire[i] /\ target <= wire[i] /\ wire[i] <= published
    /\ \A i, j \in 1..Len(wire) : i <= j => wire[i] <= wire[j]

ClientInv == NumberInv /\ JobInv /\ OrderInv

-----------------------------------------------------------------------------
\* What taking the first event off the wire leaves.
LEMMA TailFacts ==
    ASSUME NEW w \in Seq(Nat), w # <<>>
    PROVE  /\ Head(w) = w[1] /\ Head(w) \in Nat
           /\ Tail(w) \in Seq(Nat)
           /\ Len(Tail(w)) = Len(w) - 1
           /\ \A i \in 1..Len(Tail(w)) : Tail(w)[i] = w[i + 1]
           /\ 1 \in 1..Len(w)
           /\ \A i \in 1..Len(Tail(w)) : i + 1 \in 1..Len(w)
  OBVIOUS

\* What adding an event at the end of the wire makes.
LEMMA AppendFacts ==
    ASSUME NEW w \in Seq(Nat), NEW v \in Nat
    PROVE  /\ Append(w, v) \in Seq(Nat)
           /\ Len(Append(w, v)) = Len(w) + 1
           /\ Append(w, v)[Len(w) + 1] = v
           /\ \A i \in 1..Len(w) : Append(w, v)[i] = w[i]
           /\ \A i \in 1..Len(w) + 1 : i \in 1..Len(w) \/ i = Len(w) + 1
  OBVIOUS

\* An empty wire holds events of any kind.
LEMMA EmptyWire == ASSUME NEW S PROVE <<>> \in Seq(S) /\ Len(<<>>) = 0
  OBVIOUS

\* The wire of a stream that starts with an event.
LEMMA OneEvent ==
    ASSUME NEW S, NEW v \in S
    PROVE  <<v>> \in Seq(S) /\ Len(<<v>>) = 1 /\ <<v>>[1] = v
  OBVIOUS

LEMMA ReceiveKeeps ==
    ASSUME ClientInv, Receive
    PROVE  ClientInv'
<1> USE DEF ClientInv, NumberInv, JobInv, OrderInv
<1>1. /\ wire' = Tail(wire)
      /\ UNCHANGED <<published, conn, waiting, live>>
      /\ conn = "on"
  BY DEF Receive, fileVars
<1>2. /\ Head(wire) = wire[1] /\ Head(wire) \in Nat
      /\ wire' \in Seq(Nat)
      /\ \A i \in 1..Len(wire') : /\ wire'[i] = wire[i + 1]
                                  /\ i + 1 \in 1..Len(wire)
      /\ Len(wire') = Len(wire) - 1
      /\ 1 \in 1..Len(wire) /\ Len(wire) \in Nat
  BY <1>1, TailFacts DEF Receive
<1>3. \A i, j \in 1..Len(wire') : i <= j => wire'[i] <= wire'[j]
  <2>1. SUFFICES ASSUME NEW i \in 1..Len(wire'), NEW j \in 1..Len(wire'), i <= j
                 PROVE  wire'[i] <= wire'[j]
    OBVIOUS
  <2>2. i + 1 \in 1..Len(wire) /\ j + 1 \in 1..Len(wire) /\ i + 1 <= j + 1
    BY <1>2, <2>1
  <2>3. wire[i + 1] <= wire[j + 1]
    BY <2>2
  <2>4. QED
    BY <1>2, <2>3
<1>4. ASSUME NEW i \in 1..Len(wire')
      PROVE  /\ live <= wire'[i] /\ wire'[i] <= published
             /\ Head(wire) <= wire'[i]
  <2>1. i + 1 \in 1..Len(wire) /\ 1 <= i + 1 /\ wire'[i] = wire[i + 1]
    BY <1>2
  <2>2. wire[1] <= wire[i + 1] /\ live <= wire[i + 1] /\ wire[i + 1] <= published
    BY <1>2, <2>1
  <2>3. QED
    BY <1>2, <2>1, <2>2
<1>5. CASE Head(wire) <= target
  <2>1. UNCHANGED <<target, inflight, jobs>>
    BY <1>5 DEF Receive
  <2>2. \A i \in 1..Len(wire') : target <= wire'[i]
    BY <1>2
  <2>3. QED
    BY <1>1, <1>2, <1>3, <1>4, <2>1, <2>2
<1>6. CASE ~(Head(wire) <= target)
  <2>1. target' = Head(wire) /\ Forward(Head(wire))
    BY <1>6 DEF Receive
  <2>2. /\ live <= Head(wire) /\ Head(wire) <= published
        /\ target < Head(wire)
    BY <1>2, <1>6
  <2>3. CASE inflight = 0
    <3>1. inflight' = Head(wire) /\ jobs' = jobs \union {Head(wire)} /\ jobs = {}
      BY <2>1, <2>3 DEF Forward
    <3>2. waiting = "none"
      BY <2>3
    <3>3. QED
      BY <1>1, <1>2, <1>3, <1>4, <2>1, <2>2, <3>1, <3>2
  <2>4. CASE inflight # 0
    <3>1. UNCHANGED <<inflight, jobs>>
      BY <2>1, <2>4 DEF Forward
    <3>2. QED
      BY <1>1, <1>2, <1>3, <1>4, <2>1, <2>2, <3>1
  <2>5. QED
    BY <2>3, <2>4
<1>7. QED
  BY <1>5, <1>6

LEMMA ClientInvariant == Spec => []ClientInv
<1> USE DEF ClientInv, NumberInv, JobInv, OrderInv
<1>1. Init => ClientInv
  BY DEF Init
<1>2. ClientInv /\ [Next]_vars => ClientInv'
  <2> SUFFICES ASSUME ClientInv, [Next]_vars PROVE ClientInv'
    OBVIOUS
  <2> USE ClientAssumption DEF clientVars, streamVars, fileVars, testVars
  <2>1. CASE Publish
    BY <2>1 DEF Publish, Server!Publish
  <2>2. CASE Send
    <3>1. /\ wire' = Append(wire, published)
          /\ UNCHANGED <<published, conn, target, inflight, waiting, jobs, live>>
          /\ conn = "on"
      BY <2>2 DEF Send, Server!Send
    <3>2. \A i \in 1..Len(wire') :
            live <= wire'[i] /\ target <= wire'[i] /\ wire'[i] <= published
      BY <3>1, AppendFacts
    <3>3. \A i, j \in 1..Len(wire') : i <= j => wire'[i] <= wire'[j]
      BY <3>1, AppendFacts
    <3>4. QED
      BY <3>1, <3>2, <3>3, AppendFacts
  <2>3. CASE Connect
    <3>1. /\ conn = "off" /\ conn' = "on"
          /\ UNCHANGED <<published, target, inflight, waiting, jobs, live>>
          /\ wire' \in {<<>>, <<published>>}
      BY <2>3 DEF Connect, Server!Open
    <3>2. CASE wire' = <<>>
      BY <3>1, <3>2, EmptyWire
    <3>3. CASE wire' = <<published>>
      <4>1. wire' \in Seq(Nat) /\ Len(wire') = 1 /\ wire'[1] = published
        BY <3>3, OneEvent
      <4>2. \A i \in 1..Len(wire') : wire'[i] = published
        BY <4>1
      <4>3. QED
        BY <3>1, <4>1, <4>2
    <3>4. QED
      BY <3>1, <3>2, <3>3
  <2>4. CASE Receive
    BY <2>4, ReceiveKeeps
  <2>5. ASSUME NEW v \in jobs, ApplyOk(v) PROVE ClientInv'
    BY <2>5 DEF ApplyOk
  <2>6. ASSUME NEW v \in jobs, ApplyError(v) PROVE ClientInv'
    BY <2>6 DEF ApplyError
  <2>7. CASE Result
    <3>1. /\ UNCHANGED <<published, wire, conn, target, live>>
          /\ waiting' = "none" /\ conn = "on"
          /\ jobs = {} /\ inflight # 0
      BY <2>7 DEF Result
    <3>2. CASE waiting = "ok" /\ target > inflight
      <4>1. inflight' = target /\ jobs' = {target} /\ target # 0
        BY <2>7, <3>1, <3>2 DEF Result
      <4>2. NumberInv' /\ JobInv'
        BY <3>1, <4>1
      <4>3. OrderInv'
        BY <3>1, <4>1
      <4>4. QED
        BY <4>2, <4>3
    <3>3. CASE ~(waiting = "ok" /\ target > inflight)
      BY <2>7, <3>1, <3>3 DEF Result
    <3>4. QED
      BY <3>2, <3>3
  <2>8. CASE Drained \/ Restart
    <3>1. /\ wire' = <<>> /\ target' = 0 /\ inflight' = 0 /\ jobs' = {}
          /\ waiting' = "none"
          /\ UNCHANGED <<published, live>>
      BY <2>8 DEF Drained, Restart, Forget, Server!Close
    <3>2. wire' \in Seq(Nat) /\ 1..Len(wire') = {}
      BY <3>1
    <3>3. NumberInv' /\ JobInv'
      BY <3>1, <3>2
    <3>4. OrderInv'
      BY <3>1, <3>2
    <3>5. QED
      BY <3>3, <3>4
  <2>9. CASE Cut
    BY <2>9 DEF Cut, Server!Close
  <2>10. CASE UNCHANGED vars
    BY <2>10 DEF vars
  <2>11. QED
    BY <2>1, <2>2, <2>3, <2>4, <2>5, <2>6, <2>7, <2>8, <2>9, <2>10
       DEF Next, Apply
<1>3. QED
  BY <1>1, <1>2, PTL DEF Spec

\* Two reloads of the client never run at the same time.
THEOREM ReloadsNeverOverlap == Spec => []OneAtATime
<1>1. ClientInv => OneAtATime
  BY DEF ClientInv, JobInv, OneAtATime
<1>2. QED
  BY <1>1, ClientInvariant, PTL

\* The stream loop implements the abstract follower: the local configuration is
\* only ever replaced by a newer one that the server published.
THEOREM ClientFollows == Spec => Follows
<1> USE DEF Follows
<1>1. Init => Remote!Init
  BY DEF Init, Remote!Init
<1>2. ClientInv /\ [Next]_vars
      => [Remote!Publish \/ Remote!Follow]_<<published, live>>
  <2> SUFFICES ASSUME ClientInv, [Next]_vars
               PROVE  \/ Remote!Publish \/ Remote!Follow
                      \/ UNCHANGED <<published, live>>
    OBVIOUS
  <2>1. CASE Publish
    BY <2>1 DEF Publish, Server!Publish, fileVars, Remote!Publish
  <2>2. ASSUME NEW v \in jobs, ApplyOk(v)
        PROVE  Remote!Follow \/ UNCHANGED <<published, live>>
    <3>1. live' = v /\ v = inflight /\ UNCHANGED published
      BY <2>2 DEF ApplyOk, ClientInv, JobInv
    <3>2. /\ live \in Nat /\ inflight \in Nat /\ published \in Nat
          /\ live <= inflight /\ inflight <= published
      BY <2>2 DEF ClientInv, NumberInv, JobInv, OrderInv
    <3>3. QED
      BY <3>1, <3>2 DEF Remote!Follow
  <2>3. CASE \/ Send \/ Connect \/ Receive \/ Result \/ Cut \/ Drained
             \/ Restart \/ (\E v \in jobs : ApplyError(v)) \/ UNCHANGED vars
    BY <2>3 DEF Send, Connect, Receive, Result, Cut, Drained, Restart,
       Server!Send, Server!Open, Server!Close, ApplyError, fileVars, vars
  <2>4. QED
    BY <2>1, <2>2, <2>3 DEF Next, Apply
<1>3. QED
  BY <1>1, <1>2, ClientInvariant, PTL DEF Spec, Remote!Spec

-----------------------------------------------------------------------------
\* The conjuncts of TypeOK one by one; a notification is pending only when
\* there is something to send.
NumberType ==
    /\ published \in 0..MaxVersion /\ target \in 0..MaxVersion
    /\ inflight \in 0..MaxVersion /\ live \in 0..MaxVersion
    /\ reply \in 0..MaxVersion /\ jobs \subseteq 1..MaxVersion
    /\ sent \in 0..MaxVersion
    /\ pending \in 0..Buffer + 1 /\ (pending > 0 => published > 0)
    /\ failures \in Nat /\ cuts \in Nat

PhaseType ==
    /\ conn \in {"off", "on", "draining"}
    /\ waiting \in {"none", "ok", "error"}
    /\ failed \in BOOLEAN

WireType == wire \in Seq(1..MaxVersion) /\ Len(wire) <= MaxWire

TypeInv == NumberType /\ PhaseType /\ WireType

\* What the wire holds after its first event was read, or one was added.
LEMMA WireFacts ==
    ASSUME NEW S, NEW w \in Seq(S)
    PROVE  /\ Len(w) \in Nat
           /\ w # <<>> => /\ Head(w) \in S /\ Tail(w) \in Seq(S)
                          /\ Len(Tail(w)) <= Len(w)
           /\ \A v \in S : /\ Append(w, v) \in Seq(S)
                           /\ Len(Append(w, v)) = Len(w) + 1
  OBVIOUS

\* The client's state and the wire keep their types: no payload but a published
\* one, no more lines than the buffers take, no result without a stream.
THEOREM TypeCorrect == Spec => []TypeOK
<1> USE ClientAssumption DEF ClientAssumption
<1>1. Init => TypeInv
  <2>1. Init => NumberType
    BY DEF Init, NumberType
  <2>2. Init => PhaseType
    BY DEF Init, PhaseType
  <2>3. Init => WireType
    BY EmptyWire DEF Init, WireType
  <2>4. QED
    BY <2>1, <2>2, <2>3 DEF TypeInv
<1>2. TypeInv /\ [Next]_vars => TypeInv'
  <2> SUFFICES ASSUME TypeInv, [Next]_vars PROVE TypeInv'
    OBVIOUS
  <2> USE DEF TypeInv
  <2>1. PhaseType'
    BY DEF Next, Publish, Send, Connect, Receive, Apply, ApplyOk, ApplyError,
       Result, Cut, Drained, Restart, Forget, vars, clientVars, streamVars,
       testVars, PhaseType
  <2>2. CASE Send
    <3>1. published \in 1..MaxVersion /\ NumberType'
      BY <2>2 DEF Send, Server!Send, NumberType, fileVars, testVars
    <3>2. WireType'
      <4>1. /\ wire' = Append(wire, published)
            /\ wire' \in Seq(1..MaxVersion) /\ Len(wire') = Len(wire) + 1
            /\ Len(wire) \in Nat /\ Len(wire) < MaxWire
        BY <2>2, <3>1, WireFacts DEF Send, Server!Send, WireType
      <4>2. QED
        BY <4>1 DEF WireType
    <3>3. QED
      BY <2>1, <3>1, <3>2
  <2>3. CASE Receive
    <3>1. Head(wire) \in 1..MaxVersion
      BY <2>3, WireFacts DEF Receive, WireType
    <3>2. WireType'
      <4>1. /\ wire' = Tail(wire)
            /\ wire' \in Seq(1..MaxVersion) /\ Len(wire') <= Len(wire)
            /\ Len(wire) \in Nat
        BY <2>3, WireFacts DEF Receive, WireType
      <4>2. Len(wire') \in Nat
        BY <4>1, WireFacts
      <4>3. QED
        BY <4>1, <4>2 DEF WireType
    <3>3. NumberType'
      <4>1. UNCHANGED <<published, pending, sent, live, reply, failures, cuts>>
        BY <2>3 DEF Receive, fileVars, testVars
      <4>2. target' \in {target, Head(wire)} /\ inflight' \in {inflight, Head(wire)}
        BY <2>3 DEF Receive, Forward
      <4>3. jobs' \subseteq jobs \union {Head(wire)}
        BY <2>3 DEF Receive, Forward
      <4>4. QED
        BY <3>1, <4>1, <4>2, <4>3 DEF NumberType
    <3>4. QED
      BY <2>1, <3>2, <3>3
  <2>4. CASE Drained \/ Restart
    <3>1. WireType'
      <4>1. wire' = <<>>
        BY <2>4 DEF Drained, Restart, Forget
      <4>2. QED
        BY <4>1, EmptyWire DEF WireType
    <3>2. NumberType'
      <4>1. /\ pending' \in {0, pending} /\ sent' \in {0, sent} /\ target' = 0 /\ inflight' = 0
            /\ jobs' \subseteq jobs
            /\ UNCHANGED <<published, live, failures>>
            /\ reply' \in {0, reply} /\ cuts' \in {cuts, cuts + 1}
        BY <2>4 DEF Drained, Restart, Forget, Server!Close, fileVars, testVars
      <4>2. QED
        BY <4>1 DEF NumberType
    <3>3. QED
      BY <2>1, <3>1, <3>2
  <2>5. CASE Publish \/ Connect \/ Apply \/ Result \/ Cut \/ UNCHANGED vars
    <3>1. WireType'
      <4>1. CASE Connect
        <5>1. /\ published \in 0..MaxVersion
              /\ published > 0 => wire' = <<published>>
              /\ published = 0 => wire' = <<>>
          BY <4>1 DEF Connect, Server!Open, NumberType
        <5>2. wire' \in Seq(1..MaxVersion) /\ Len(wire') \in {0, 1}
          <6>1. CASE published = 0
            BY <5>1, <6>1, EmptyWire
          <6>2. CASE published > 0
            <7>1. published \in 1..MaxVersion
              BY <5>1, <6>2
            <7>2. QED
              BY <5>1, <6>2, <7>1, OneEvent
          <6>3. QED
            BY <5>1, <6>1, <6>2
        <5>3. MaxWire \in Nat /\ MaxWire >= 1
          OBVIOUS
        <5>4. Len(wire') <= MaxWire
          BY ONLY <5>2, <5>3
        <5>5. QED
          BY <5>2, <5>4 DEF WireType
      <4>2. CASE ~Connect
        BY <2>5, <4>2 DEF Publish, Apply, ApplyOk, ApplyError, Result, Cut,
           vars, clientVars, streamVars, WireType
      <4>3. QED
        BY <4>1, <4>2
    <3>2. NumberType'
      <4>1. CASE Publish
        BY <4>1 DEF Publish, Server!Publish, clientVars, fileVars, testVars,
           NumberType
      <4>2. CASE Connect
        BY <4>2 DEF Connect, Server!Open, fileVars, NumberType
      <4>3. CASE Apply
        <5>1. PICK v \in jobs : ApplyOk(v) \/ ApplyError(v)
          BY <4>3 DEF Apply
        <5>2. /\ jobs' = jobs \ {v} /\ live' \in {live, v} /\ reply' \in {reply, v}
              /\ failures' \in {failures, failures + 1}
              /\ UNCHANGED <<published, pending, sent, target, inflight, cuts>>
          BY <5>1 DEF ApplyOk, ApplyError, fileVars
        <5>3. QED
          BY <5>2 DEF NumberType
      <4>4. CASE Result
        <5>1. /\ inflight' \in {0, target}
              /\ jobs' \subseteq jobs \union (IF target > inflight THEN {target} ELSE {})
              /\ UNCHANGED <<published, pending, sent, target, live, reply,
                             failures, cuts>>
          BY <4>4 DEF Result, fileVars, testVars
        <5>2. QED
          BY <5>1 DEF NumberType
      <4>5. CASE Cut
        BY <4>5 DEF Cut, Server!Close, clientVars, fileVars, NumberType
      <4>6. CASE UNCHANGED vars
        BY <4>6 DEF vars, clientVars, streamVars, fileVars, testVars, NumberType
      <4>7. QED
        BY <2>5, <4>1, <4>2, <4>3, <4>4, <4>5, <4>6
    <3>3. QED
      BY <2>1, <3>1, <3>2
  <2>6. QED
    BY <2>2, <2>3, <2>4, <2>5 DEF Next
<1>3. TypeInv => TypeOK
  BY DEF TypeInv, NumberType, PhaseType, WireType, TypeOK
<1>4. QED
  BY <1>1, <1>2, <1>3, PTL DEF Spec

-----------------------------------------------------------------------------
\* What a result says of the file, and what is known between two payloads.
ResultInv ==
    /\ waiting = "ok" => live = inflight
    /\ waiting \in {"none", "ok", "error"}
    /\ waiting = "error" => failed
    /\ conn = "off" => target = 0 /\ inflight = 0 /\ waiting = "none"
    /\ TargetReached

\* Nothing received is forgotten: when the stream loop has nothing in flight,
\* the newest payload is in the file or the last Apply failed.
THEOREM TargetIsReached == Spec => []TargetReached
<1>1. Init => ResultInv
  BY DEF Init, ResultInv, TargetReached
<1>2. ClientInv /\ ResultInv /\ [Next]_vars => ResultInv'
  <2> SUFFICES ASSUME ClientInv, ResultInv, [Next]_vars PROVE ResultInv'
    OBVIOUS
  <2> USE DEF ClientInv, NumberInv, JobInv, OrderInv, ResultInv, TargetReached,
              clientVars, fileVars, testVars
  <2>1. CASE Publish \/ Send \/ Cut
    BY <2>1 DEF Publish, Send, Cut
  <2>2. CASE Connect
    BY <2>2 DEF Connect
  <2>3. CASE Receive
    <3>1. UNCHANGED <<target, inflight>> \/ inflight' # 0
      BY <2>3, TailFacts DEF Receive, Forward
    <3>2. waiting # "none" => inflight' = inflight
      BY <2>3 DEF Receive, Forward
    <3>3. QED
      BY <2>3, <3>1, <3>2 DEF Receive
  <2>4. ASSUME NEW v \in jobs, ApplyOk(v) PROVE ResultInv'
    BY <2>4 DEF ApplyOk
  <2>5. ASSUME NEW v \in jobs, ApplyError(v) PROVE ResultInv'
    BY <2>5 DEF ApplyError
  <2>6. CASE Result
    <3>1. CASE waiting = "ok" /\ target > inflight
      BY <2>6, <3>1 DEF Result
    <3>2. CASE ~(waiting = "ok" /\ target > inflight)
      <4>1. CASE waiting = "error"
        BY <2>6, <3>2, <4>1 DEF Result
      <4>2. CASE waiting = "ok"
        BY <2>6, <3>2, <4>2 DEF Result
      <4>3. QED
        BY <2>6, <4>1, <4>2 DEF Result
    <3>3. QED
      BY <3>1, <3>2
  <2>7. CASE Drained \/ Restart
    BY <2>7 DEF Drained, Restart, Forget
  <2>8. CASE UNCHANGED vars
    BY <2>8 DEF vars, streamVars
  <2>9. QED
    BY <2>1, <2>2, <2>3, <2>4, <2>5, <2>6, <2>7, <2>8 DEF Next, Apply
<1>3. QED
  BY <1>1, <1>2, ClientInvariant, PTL DEF Spec, ResultInv
=============================================================================
