----------------------------- MODULE SSEClient ------------------------------
(***************************************************************************)
(* `sixpack client`: the loop that follows the event stream of a remote    *)
(* server and applies what it receives to the local configuration file.    *)
(*                                                                         *)
(* One goroutine reads lines, another applies a payload, and the stream    *)
(* loop remembers the payload being applied (inflight) and the newest one  *)
(* received (target).  A payload stands for its version, which orders the  *)
(* timestamps of the server; 0 stands for nil.  The server is EventStream,  *)
(* what SSEServer is shown to implement.                                   *)
(***************************************************************************)
EXTENDS Naturals, Sequences

CONSTANTS
    Buffer,         \* notifications the server keeps per stream
    MaxWire,        \* lines in transit; 16 in the client, more in the network
    MaxVersion,     \* bound: payloads published
    MaxFailures,    \* bound: Apply errors
    MaxCuts         \* bound: streams broken, processes restarted

ASSUME ClientAssumption ==
    /\ Buffer \in Nat \ {0} /\ MaxWire \in Nat \ {0}
    /\ MaxVersion \in Nat /\ MaxFailures \in Nat /\ MaxCuts \in Nat

VARIABLES
    published,  \* the server's record
    pending,    \* notifications the server has still to answer on this stream
    wire,       \* events on their way
    sent,       \* last version the server sent on this stream
    conn,       \* "off", "on", or "draining" while stream waits to return
    target,     \* newest payload received on this stream
    inflight,   \* payload handed to the apply goroutine
    jobs,       \* payloads whose Apply has not returned yet
    waiting,    \* waitingReload: "none", "ok" or "error"
    live,       \* local configuration file
    reply,      \* Client.reply
    failed,     \* history: an Apply failed on this stream, and none since
    failures, cuts

clientVars == <<wire, target, inflight, waiting>>
streamVars == <<pending, sent, conn, clientVars>>
fileVars == <<live, reply>>
testVars == <<failed, failures, cuts>>
vars == <<published, streamVars, jobs, fileVars, testVars>>

Init ==
    /\ published = 0
    /\ pending = 0 /\ sent = 0
    /\ wire = <<>>
    /\ conn = "off"
    /\ target = 0 /\ inflight = 0
    /\ jobs = {}
    /\ waiting = "none"
    /\ live = 0 /\ reply = 0
    /\ failed = FALSE
    /\ failures = 0 /\ cuts = 0

-----------------------------------------------------------------------------
(***************************************************************************)
(* The server and the network.                                             *)
(***************************************************************************)

Server == INSTANCE EventStream WITH record <- published, open <- conn = "on"

Publish ==
    /\ published < MaxVersion
    /\ UNCHANGED <<conn, clientVars, jobs, fileVars, testVars>>
    /\ Server!Publish

\* The server answers a notification with the record as it is now.
Send ==
    /\ Len(wire) < MaxWire
    /\ UNCHANGED <<conn, target, inflight, waiting, jobs, fileVars, testVars>>
    /\ Server!Send
    /\ wire' = Append(wire, sent')

-----------------------------------------------------------------------------
(***************************************************************************)
(* The client.                                                             *)
(***************************************************************************)

\* The stream starts with the server's record, if it has one, or a keepalive.
Connect ==
    /\ conn = "off" /\ conn' = "on"
    /\ Server!Open
    /\ wire' = IF sent' > 0 THEN <<sent'>> ELSE <<>>
    /\ failed' = FALSE
    /\ UNCHANGED <<target, inflight, waiting, jobs, fileVars, failures, cuts>>

\* Mutant: a payload is applied at once, whatever is in flight.
ForwardAtOnce(t) ==
    /\ inflight' = t
    /\ jobs' = jobs \union {t}

\* forwardTarget: apply t unless something is in flight.
Forward(t) ==
    IF inflight # 0
    THEN UNCHANGED <<inflight, jobs>>
    ELSE inflight' = t /\ jobs' = jobs \union {t}

\* Mutant: events are dropped while a payload is in flight.
ReceiveIdle ==
    /\ conn = "on"
    /\ wire # <<>>
    /\ wire' = Tail(wire)
    /\ IF Head(wire) <= target \/ inflight # 0
       THEN UNCHANGED <<target, inflight, jobs>>
       ELSE target' = Head(wire) /\ Forward(Head(wire))
    /\ UNCHANGED <<published, pending, sent, conn, waiting, fileVars, testVars>>

\* An event that is not newer than the target is skipped.
Receive ==
    /\ conn = "on"
    /\ wire # <<>>
    /\ wire' = Tail(wire)
    /\ IF Head(wire) <= target
       THEN UNCHANGED <<target, inflight, jobs>>
       ELSE target' = Head(wire) /\ Forward(Head(wire))
    /\ UNCHANGED <<published, pending, sent, conn, waiting, fileVars, testVars>>

\* The goroutine's Apply returns and its result is sent to the stream loop.
ApplyOk(v) ==
    /\ v \in jobs
    /\ jobs' = jobs \ {v}
    /\ live' = v
    /\ reply' = v
    /\ waiting' = "ok"
    /\ failed' = FALSE
    /\ UNCHANGED <<published, pending, sent, wire, conn, target, inflight,
                   failures, cuts>>

ApplyError(v) ==
    /\ v \in jobs
    /\ failures < MaxFailures
    /\ failures' = failures + 1
    /\ jobs' = jobs \ {v}
    /\ waiting' = "error"
    /\ failed' = TRUE
    /\ UNCHANGED <<published, pending, sent, wire, conn, target, inflight,
                   fileVars, cuts>>

\* Mutant: a target that arrived during the reload is not looked at again.
ForgetTarget ==
    /\ conn = "on"
    /\ waiting # "none"
    /\ waiting' = "none"
    /\ inflight' = 0
    /\ UNCHANGED <<published, pending, sent, wire, conn, target, jobs, fileVars,
                   testVars>>

\* The stream loop takes the result.  After a success it forwards a newer
\* target; after an error it only waits for the next event.
Result ==
    /\ conn = "on"
    /\ waiting # "none"
    /\ waiting' = "none"
    /\ IF waiting = "ok" /\ target > inflight
       THEN inflight' = target /\ jobs' = jobs \union {target}
       ELSE inflight' = 0 /\ UNCHANGED jobs
    /\ UNCHANGED <<published, pending, sent, wire, conn, target, fileVars,
                   testVars>>

\* The stream ends: read error or time-out, bad event, server gone.
Cut ==
    /\ conn = "on" /\ conn' = "draining"
    /\ Server!Close
    /\ cuts < MaxCuts
    /\ cuts' = cuts + 1
    /\ UNCHANGED <<clientVars, jobs, fileVars, failed, failures>>

Forget ==
    /\ conn' = "off"
    /\ wire' = <<>>
    /\ target' = 0 /\ inflight' = 0
    /\ waiting' = "none"

\* Mutant: stream returns without waiting for its goroutines.
DrainedAtOnce ==
    /\ conn = "draining"
    /\ Forget
    /\ UNCHANGED <<published, pending, sent, jobs, fileVars, testVars>>

\* wg.Wait: stream returns when its apply goroutine has.
Drained ==
    /\ conn = "draining"
    /\ jobs = {}
    /\ Forget
    /\ UNCHANGED <<published, pending, sent, jobs, fileVars, testVars>>

\* The client is killed and started again.
Restart ==
    /\ cuts < MaxCuts
    /\ cuts' = cuts + 1
    /\ Forget
    /\ IF conn = "on" THEN Server!Close ELSE UNCHANGED <<published, pending, sent>>
    /\ jobs' = {}
    /\ reply' = 0
    /\ failed' = FALSE
    /\ UNCHANGED <<live, failures>>

Apply == \E v \in jobs : ApplyOk(v) \/ ApplyError(v)

Next ==
    \/ Publish \/ Send
    \/ Connect \/ Receive \/ Apply \/ Result
    \/ Cut \/ Drained \/ Restart

Spec == Init /\ [][Next]_vars

\* The server answers its notifications, goroutines are scheduled, Apply
\* returns, and a client that was cut off reconnects.
Fairness ==
    /\ WF_vars(Send)
    /\ WF_vars(Connect) /\ WF_vars(Receive) /\ WF_vars(Result)
    /\ WF_vars(Apply) /\ WF_vars(Drained)

FairSpec == Spec /\ Fairness

-----------------------------------------------------------------------------
\* Type invariant of the stream loop and of its goroutines.
TypeOK ==
    /\ {published, sent, target, inflight, live, reply} \subseteq 0..MaxVersion
    /\ wire \in Seq(1..MaxVersion) /\ Len(wire) <= MaxWire
    /\ pending \in 0..Buffer + 1
    /\ conn \in {"off", "on", "draining"}
    /\ jobs \subseteq 1..MaxVersion
    /\ waiting \in {"none", "ok", "error"}
    /\ failed \in BOOLEAN
    /\ failures \in Nat /\ cuts \in Nat

\* Two payloads are never applied at once, not even across a reconnection: the
\* older one could otherwise end up in the file.
OneAtATime == \A v, w \in jobs : v = w

\* What was received on an open stream is being applied, is next, or is in
\* place, unless an Apply failed.
TargetReached ==
    conn = "on" /\ target # 0 /\ inflight = 0 /\ ~failed => live = target

Remote == INSTANCE Follower WITH record <- published, copy <- live

\* The loop implements the abstract follower: whatever is resent, cut, restarted
\* or refused, the local configuration only ever becomes a published version
\* that is newer than the one in place.
Follows == Remote!Spec

\* In the end the client has the last version published, unless the last Apply
\* on the stream failed.
Converges == <>[](live = published \/ failed)
=============================================================================
