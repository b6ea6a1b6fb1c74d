----------------------------- MODULE SSEServer ------------------------------
(***************************************************************************)
(* The SSE side of `sixpack serve`: the last payload applied for every     *)
(* gateway, the watchers of cursor.Watcher and one handler per event       *)
(* stream.                                                                 *)
(*                                                                         *)
(* A notification carries no payload and is dropped when the buffer of a   *)
(* slow stream is full; the handler reads the record again when it gets to *)
(* it.  Sections under the watcher's mutex are one action each; everything *)
(* between them interleaves.  Payloads are told apart by a version.        *)
(***************************************************************************)
EXTENDS Naturals

CONSTANTS
    Stream,         \* event streams a client may hold open
    Gateway,        \* virtual gateways
    Buffer,         \* capacity of a watcher's channel; 8 in handleSSE
    MaxVersion,     \* bound: payloads applied per gateway
    MaxOpens        \* bound: streams opened

ASSUME ServerAssumption ==
    /\ Buffer \in Nat \ {0}
    /\ MaxVersion \in Nat /\ MaxOpens \in Nat

VARIABLES
    record,     \* Reloader.records: last version of each gateway, 0 for none
    pc,         \* where the handler of each stream stands
    virtualgw,  \* gateway a stream asked for
    subs,       \* streams registered in Watcher.subs
    tokens,     \* notifications in the channel of each stream
    closed,     \* streams whose channel has been closed
    gwstate,    \* local of the handler: the record it is about to send
    sent,       \* last version written to the stream, 0 for a bare keepalive
    opens

vars == <<record, pc, virtualgw, subs, tokens, closed, gwstate, sent, opens>>

Init ==
    /\ record = [g \in Gateway |-> 0]
    /\ pc = [c \in Stream |-> "off"]
    /\ virtualgw \in [Stream -> Gateway]
    /\ subs = {}
    /\ tokens = [c \in Stream |-> 0]
    /\ closed = {}
    /\ gwstate = [c \in Stream |-> 0]
    /\ sent = [c \in Stream |-> 0]
    /\ opens = 0

-----------------------------------------------------------------------------
\* Mutant: a full buffer is not skipped.
PublishToFull(g) ==
    /\ record[g] < MaxVersion
    /\ record' = [record EXCEPT ![g] = @ + 1]
    /\ tokens' = [c \in Stream |->
                    IF c \in subs /\ virtualgw[c] = g
                    THEN tokens[c] + 1 ELSE tokens[c]]
    /\ UNCHANGED <<pc, virtualgw, subs, closed, gwstate, sent, opens>>

\* Apply, once the nested reloader succeeded: the record is replaced and the
\* watchers of the gateway notified under the lock; full buffers are skipped.
Publish(g) ==
    /\ record[g] < MaxVersion
    /\ record' = [record EXCEPT ![g] = @ + 1]
    /\ tokens' = [c \in Stream |->
                    IF c \in subs /\ virtualgw[c] = g /\ tokens[c] < Buffer
                    THEN tokens[c] + 1 ELSE tokens[c]]
    /\ UNCHANGED <<pc, virtualgw, subs, closed, gwstate, sent, opens>>

\* A client asks for the stream of g; the handler makes a fresh channel.
Open(c, g) ==
    /\ pc[c] = "off"
    /\ opens < MaxOpens
    /\ opens' = opens + 1
    /\ virtualgw' = [virtualgw EXCEPT ![c] = g]
    /\ tokens' = [tokens EXCEPT ![c] = 0]
    /\ closed' = closed \ {c}
    /\ gwstate' = [gwstate EXCEPT ![c] = 0]
    /\ sent' = [sent EXCEPT ![c] = 0]
    /\ pc' = [pc EXCEPT ![c] = "watch"]
    /\ UNCHANGED <<record, subs>>

Watch(c) ==
    /\ pc[c] = "watch"
    /\ subs' = subs \union {c}
    /\ pc' = [pc EXCEPT ![c] = "seed"]
    /\ UNCHANGED <<record, virtualgw, tokens, closed, gwstate, sent, opens>>

\* Mutant: a new stream starts with a keepalive and waits for a change.
SeedNothing(c) ==
    /\ pc[c] = "seed"
    /\ pc' = [pc EXCEPT ![c] = "write"]
    /\ UNCHANGED <<record, virtualgw, subs, tokens, closed, gwstate, sent,
                   opens>>

\* The record as it is after the registration.
Seed(c) ==
    /\ pc[c] = "seed"
    /\ gwstate' = [gwstate EXCEPT ![c] = record[virtualgw[c]]]
    /\ pc' = [pc EXCEPT ![c] = "write"]
    /\ UNCHANGED <<record, virtualgw, subs, tokens, closed, sent, opens>>

Receive(c) ==
    /\ pc[c] = "loop"
    /\ tokens[c] > 0
    /\ tokens' = [tokens EXCEPT ![c] = @ - 1]
    /\ pc' = [pc EXCEPT ![c] = "load"]
    /\ UNCHANGED <<record, virtualgw, subs, closed, gwstate, sent, opens>>

\* Mutant: the notification is answered with the payload sent before.
LoadNothing(c) ==
    /\ pc[c] = "load"
    /\ pc' = [pc EXCEPT ![c] = "write"]
    /\ UNCHANGED <<record, virtualgw, subs, tokens, closed, gwstate, sent,
                   opens>>

Load(c) ==
    /\ pc[c] = "load"
    /\ gwstate' = [gwstate EXCEPT ![c] = record[virtualgw[c]]]
    /\ pc' = [pc EXCEPT ![c] = "write"]
    /\ UNCHANGED <<record, virtualgw, subs, tokens, closed, sent, opens>>

\* The payload, or a keepalive comment while there is none, is flushed.
Write(c) ==
    /\ pc[c] = "write"
    /\ sent' = [sent EXCEPT ![c] = gwstate[c]]
    /\ pc' = [pc EXCEPT ![c] = "loop"]
    /\ UNCHANGED <<record, virtualgw, subs, tokens, closed, gwstate, opens>>

\* The client is gone: a write misses its deadline or the request is canceled.
Leave(c) ==
    /\ pc[c] \in {"write", "loop"}
    /\ pc' = [pc EXCEPT ![c] = "delete"]
    /\ UNCHANGED <<record, virtualgw, subs, tokens, closed, gwstate, sent,
                   opens>>

\* Mutant: the channel is closed before it is taken out of the watchers.
CloseFirst(c) ==
    /\ pc[c] = "delete"
    /\ closed' = closed \union {c}
    /\ pc' = [pc EXCEPT ![c] = "close"]
    /\ UNCHANGED <<record, virtualgw, subs, tokens, gwstate, sent, opens>>

\* Owned.Close: under the lock the channel leaves subs ...
Delete(c) ==
    /\ pc[c] = "delete"
    /\ subs' = subs \ {c}
    /\ pc' = [pc EXCEPT ![c] = "close"]
    /\ UNCHANGED <<record, virtualgw, tokens, closed, gwstate, sent, opens>>

\* ... and is closed after it.
Close(c) ==
    /\ pc[c] = "close"
    /\ closed' = closed \union {c}
    /\ pc' = [pc EXCEPT ![c] = "off"]
    /\ UNCHANGED <<record, virtualgw, subs, tokens, gwstate, sent, opens>>

\* The steps of a handler that wait for nobody outside the server.
Handle(c) ==
    \/ Watch(c) \/ Seed(c) \/ Receive(c) \/ Load(c) \/ Write(c)
    \/ Delete(c) \/ Close(c)

Next ==
    \/ \E g \in Gateway : Publish(g) \/ (\E c \in Stream : Open(c, g))
    \/ \E c \in Stream : Handle(c) \/ Leave(c)

Spec == Init /\ [][Next]_vars

\* A handler is a goroutine of its own, and its writes end, one way or the
\* other, at the write deadline.
FairSpec == Spec /\ \A c \in Stream : WF_vars(Handle(c))

-----------------------------------------------------------------------------
\* Type invariant of the records and of the handlers.
TypeOK ==
    /\ record \in [Gateway -> 0..MaxVersion]
    /\ pc \in [Stream -> {"off", "watch", "seed", "write", "loop", "load",
                          "delete", "close"}]
    /\ virtualgw \in [Stream -> Gateway]
    /\ subs \subseteq Stream
    /\ tokens \in [Stream -> 0..Buffer]
    /\ closed \subseteq Stream
    /\ gwstate \in [Stream -> 0..MaxVersion]
    /\ sent \in [Stream -> 0..MaxVersion]
    /\ opens \in Nat

\* Apply never sends on a closed channel, which would crash the process: only
\* open channels are registered, whenever the streams come and go.
NoSendOnClosed == subs \intersect closed = {}

\* A stream with nothing left to do has the last payload of its gateway:
\* neither a dropped notification nor one that raced the seed leaves it behind.
NeverStale ==
    \A c \in Stream :
        pc[c] = "loop" /\ tokens[c] = 0 => sent[c] = record[virtualgw[c]]

\* A stream that is behind catches up, or is closed.
CatchesUp ==
    \A c \in Stream :
        pc[c] = "loop" /\ sent[c] < record[virtualgw[c]]
            ~> pc[c] = "off" \/ sent[c] = record[virtualgw[c]]

\* The handler of c serves g: it has looked at the record.
Serving(c, g) == pc[c] \in {"write", "loop", "load"} /\ virtualgw[c] = g

\* What the handler of c still has to answer.
Unanswered(c) == tokens[c] + (IF pc[c] = "load" THEN 1 ELSE 0)

\* A stream as its client sees it: what was looked up is as good as sent.
Events(c, g) == INSTANCE EventStream WITH
    record <- record[g],
    open <- Serving(c, g),
    pending <- IF Serving(c, g) THEN Unanswered(c) ELSE 0,
    sent <- IF Serving(c, g) THEN gwstate[c] ELSE 0

\* Every stream is an event stream as the client takes it to be, however its
\* handler interleaves with publications and with other streams: a publication
\* between the registration and the first look, or one while a notification is
\* being answered, is neither lost nor sent before an older one.
Serves ==
    /\ \A c \in Stream, g \in Gateway : Events(c, g)!Init
    /\ [][\A c \in Stream, g \in Gateway :
            Events(c, g)!Next \/ UNCHANGED Events(c, g)!vars]_vars
=============================================================================
