-------------------------- MODULE SSEServerProofs ---------------------------
(***************************************************************************)
(* Event streams are neither left behind nor notified once closed, for any *)
(* number of streams and gateways and any buffer.                          *)
(***************************************************************************)
EXTENDS SSEServer, TLAPS

\* A channel is registered from Watch to Delete, and closed only afterwards.
RegisterInv ==
    \A c \in Stream :
        /\ c \in subs <=> pc[c] \in {"seed", "write", "loop", "load", "delete"}
        /\ c \in closed => pc[c] = "off"

\* What a handler is about to send is the record, or a notification is queued.
PendingInv ==
    \A c \in Stream :
        /\ pc[c] = "write" =>
             gwstate[c] = record[virtualgw[c]] \/ tokens[c] > 0
        /\ pc[c] = "loop" =>
             sent[c] = record[virtualgw[c]] \/ tokens[c] > 0

\* The records and the handlers keep their types: no buffer overflows, however
\* many notifications a slow stream is behind.
THEOREM TypeCorrect == Spec => []TypeOK
<1> USE ServerAssumption DEF TypeOK
<1>1. Init => TypeOK
  BY DEF Init
<1>2. TypeOK /\ [Next]_vars => TypeOK'
  <2> SUFFICES ASSUME TypeOK, [Next]_vars PROVE TypeOK'
    OBVIOUS
  <2>1. ASSUME NEW g \in Gateway, Publish(g) PROVE TypeOK'
    BY <2>1 DEF Publish
  <2>2. ASSUME NEW g \in Gateway, NEW c \in Stream, Open(c, g) PROVE TypeOK'
    BY <2>2 DEF Open
  <2>3. ASSUME NEW c \in Stream, Watch(c) \/ Seed(c) \/ Load(c) \/ Write(c)
        PROVE  TypeOK'
    BY <2>3 DEF Watch, Seed, Load, Write
  <2>4. ASSUME NEW c \in Stream, Receive(c) PROVE TypeOK'
    BY <2>4 DEF Receive
  <2>5. ASSUME NEW c \in Stream, Leave(c) \/ Delete(c) \/ Close(c) PROVE TypeOK'
    BY <2>5 DEF Leave, Delete, Close
  <2>6. CASE UNCHANGED vars
    BY <2>6 DEF vars
  <2>7. QED
    BY <2>1, <2>2, <2>3, <2>4, <2>5, <2>6 DEF Next, Handle
<1>3. QED
  BY <1>1, <1>2, PTL DEF Spec

\* Each step of a handler keeps the watchers and the channels in step.
LEMMA RegisterInductive ==
    ASSUME TypeOK, RegisterInv, [Next]_vars
    PROVE  RegisterInv'
<1> USE DEF TypeOK, RegisterInv
<1>1. ASSUME NEW g \in Gateway, Publish(g) PROVE RegisterInv'
  BY <1>1 DEF Publish
<1>2. ASSUME NEW g \in Gateway, NEW c \in Stream, Open(c, g) PROVE RegisterInv'
  BY <1>2 DEF Open
<1>3. ASSUME NEW c \in Stream, Handle(c) \/ Leave(c) PROVE RegisterInv'
  BY <1>3 DEF Handle, Watch, Seed, Receive, Load, Write, Leave, Delete, Close
<1>4. CASE UNCHANGED vars
  BY <1>4 DEF vars
<1>5. QED
  BY <1>1, <1>2, <1>3, <1>4 DEF Next

\* The process never panics by sending on the closed channel of a stream.
THEOREM ChannelsOutliveSubscriptions == Spec => []NoSendOnClosed
<1>1. Init => RegisterInv
  BY DEF Init, RegisterInv
<1>2. TypeOK /\ RegisterInv /\ [Next]_vars => RegisterInv'
  BY RegisterInductive
<1>3. TypeOK /\ RegisterInv => NoSendOnClosed
  BY DEF TypeOK, RegisterInv, NoSendOnClosed
<1>4. QED
  BY <1>1, <1>2, <1>3, TypeCorrect, PTL DEF Spec

\* Dropping a notification when the buffer is full leaves no stream behind, and
\* neither does a payload applied while a stream is being set up.
THEOREM StreamsAreNeverStale == Spec => []NeverStale
<1>1. Init => RegisterInv /\ PendingInv
  BY DEF Init, RegisterInv, PendingInv
<1>2. /\ TypeOK /\ TypeOK' /\ RegisterInv /\ PendingInv /\ [Next]_vars
      => RegisterInv' /\ PendingInv'
  <2> SUFFICES ASSUME TypeOK, TypeOK', RegisterInv, PendingInv, [Next]_vars
               PROVE  RegisterInv' /\ PendingInv'
    OBVIOUS
  <2> USE ServerAssumption DEF TypeOK, RegisterInv, PendingInv
  <2>1. ASSUME NEW g \in Gateway, Publish(g)
        PROVE  RegisterInv' /\ PendingInv'
    <3>1. UNCHANGED <<pc, virtualgw, subs, closed, gwstate, sent>>
      BY <2>1 DEF Publish
    <3>2. RegisterInv'
      BY <3>1
    <3>3. ASSUME NEW c \in Stream, pc[c] \in {"write", "loop"}
          PROVE  \/ tokens'[c] > 0
                 \/ record'[virtualgw[c]] = record[virtualgw[c]]
                    /\ tokens'[c] = tokens[c]
      BY <2>1, <3>3 DEF Publish
    <3>4. PendingInv'
      BY <3>1, <3>3
    <3>5. QED
      BY <3>2, <3>4
  <2>2. ASSUME NEW g \in Gateway, NEW c \in Stream, Open(c, g)
        PROVE  RegisterInv' /\ PendingInv'
    BY <2>2 DEF Open
  <2>3. ASSUME NEW c \in Stream, Handle(c) \/ Leave(c)
        PROVE  RegisterInv' /\ PendingInv'
    BY <2>3 DEF Handle, Watch, Seed, Receive, Load, Write, Leave, Delete, Close
  <2>4. CASE UNCHANGED vars
    BY <2>4 DEF vars
  <2>5. QED
    BY <2>1, <2>2, <2>3, <2>4 DEF Next
<1>3. TypeOK /\ PendingInv => NeverStale
  BY DEF TypeOK, PendingInv, NeverStale
<1>4. QED
  BY <1>1, <1>2, <1>3, TypeCorrect, PTL DEF Spec

-----------------------------------------------------------------------------
\* What a handler has sent, is about to send and could send is in this order.
SendInv ==
    \A c \in Stream :
        pc[c] \notin {"off", "delete", "close"} =>
            /\ sent[c] <= gwstate[c]
            /\ gwstate[c] <= record[virtualgw[c]]

\* An open stream never sends a version older than the one before it, nor one
\* that was not published.
Ordered ==
    \A c \in Stream :
        pc[c] # "off" =>
            sent'[c] >= sent[c] /\ (sent'[c] # sent[c] =>
                                    sent'[c] <= record[virtualgw[c]])

\* The events of a stream are versions in order: what the client's specification
\* takes for granted of its server.
THEOREM StreamsAreOrdered == Spec => [][Ordered]_vars
<1>1. Init => SendInv
  BY DEF Init, SendInv
<1>2. TypeOK /\ SendInv /\ [Next]_vars => SendInv'
  <2> SUFFICES ASSUME TypeOK, SendInv, [Next]_vars PROVE SendInv'
    OBVIOUS
  <2> USE ServerAssumption DEF TypeOK, SendInv
  <2>1. ASSUME NEW g \in Gateway, Publish(g) PROVE SendInv'
    <3>1. /\ UNCHANGED <<pc, virtualgw, gwstate, sent>>
          /\ \A h \in Gateway : record[h] <= record'[h]
      BY <2>1 DEF Publish
    <3>2. \A c \in Stream : gwstate[c] \in Nat /\ virtualgw[c] \in Gateway
      OBVIOUS
    <3>3. \A h \in Gateway : record[h] \in Nat /\ record'[h] \in Nat
      BY <2>1 DEF Publish
    <3>4. QED
      BY <3>1, <3>2, <3>3
  <2>2. ASSUME NEW g \in Gateway, NEW c \in Stream, Open(c, g) PROVE SendInv'
    BY <2>2 DEF Open
  <2>3. ASSUME NEW c \in Stream, Handle(c) \/ Leave(c) PROVE SendInv'
    BY <2>3 DEF Handle, Watch, Seed, Receive, Load, Write, Leave, Delete, Close
  <2>4. CASE UNCHANGED vars
    BY <2>4 DEF vars
  <2>5. QED
    BY <2>1, <2>2, <2>3, <2>4 DEF Next
<1>3. TypeOK /\ SendInv /\ [Next]_vars => [Ordered]_vars
  <2> SUFFICES ASSUME TypeOK, SendInv, [Next]_vars, vars' # vars,
                      NEW c \in Stream, pc[c] # "off"
               PROVE  sent'[c] >= sent[c] /\ (sent'[c] # sent[c] =>
                                              sent'[c] <= record[virtualgw[c]])
    BY DEF Ordered
  <2> USE DEF TypeOK, SendInv
  <2>1. ASSUME NEW d \in Stream, Write(d)
        PROVE  sent'[c] >= sent[c] /\ (sent'[c] # sent[c] =>
                                       sent'[c] <= record[virtualgw[c]])
    BY <2>1 DEF Write
  <2>2. ASSUME NEW d \in Stream, NEW g \in Gateway, Open(d, g)
        PROVE  sent'[c] = sent[c]
    BY <2>2 DEF Open
  <2>3. CASE UNCHANGED sent
    BY <2>3
  <2>4. QED
    BY <2>1, <2>2, <2>3 DEF Next, Handle, Publish, Watch, Seed, Receive, Load,
       Leave, Delete, Close, vars
<1>4. QED
  BY <1>1, <1>2, <1>3, TypeCorrect, PTL DEF Spec

-----------------------------------------------------------------------------
\* A channel that is not registered yet is empty, and a notification is pending
\* only after a publication.
NotifiedInv ==
    \A c \in Stream :
        /\ pc[c] = "watch" => tokens[c] = 0
        /\ pc[c] \in {"watch", "seed", "write", "loop", "load"} /\ tokens[c] > 0
                => record[virtualgw[c]] > 0

\* The same after each step: only publications notify.
LEMMA NotifiedInductive ==
    ASSUME TypeOK, NotifiedInv, RegisterInv, [Next]_vars
    PROVE  NotifiedInv'
<1> USE ServerAssumption DEF TypeOK, NotifiedInv, RegisterInv
<1>1. ASSUME NEW g \in Gateway, Publish(g) PROVE NotifiedInv'
  <2>1. /\ record' = [record EXCEPT ![g] = @ + 1] /\ UNCHANGED <<pc, virtualgw>>
        /\ \A h \in Gateway : record[h] \in Nat
    BY <1>1 DEF Publish
  <2>2. ASSUME NEW c \in Stream
        PROVE  /\ virtualgw[c] \in Gateway /\ tokens[c] \in Nat
               /\ \/ tokens'[c] = tokens[c]
                  \/ virtualgw[c] = g /\ c \in subs
    BY <1>1 DEF Publish
  <2>3. QED
    BY <2>1, <2>2
<1>2. ASSUME NEW g \in Gateway, NEW c \in Stream, Open(c, g) PROVE NotifiedInv'
  BY <1>2 DEF Open
<1>3. ASSUME NEW c \in Stream, Handle(c) \/ Leave(c) PROVE NotifiedInv'
  BY <1>3 DEF Handle, Watch, Seed, Receive, Load, Write, Leave, Delete, Close
<1>4. CASE UNCHANGED vars
  BY <1>4 DEF vars
<1>5. QED
  BY <1>1, <1>2, <1>3, <1>4 DEF Next

\* Each step of the server is, for every stream, a step of its promise or none.
LEMMA StepServes ==
    ASSUME TypeOK, NotifiedInv, RegisterInv, [Next]_vars,
           NEW c \in Stream, NEW g \in Gateway
    PROVE  Events(c, g)!Next \/ UNCHANGED Events(c, g)!vars
<1> USE ServerAssumption
    DEF TypeOK, Events!vars, Events!Next, Serving, Unanswered
<1>1. ASSUME NEW h \in Gateway, Publish(h)
      PROVE  Events(c, g)!Publish \/ UNCHANGED Events(c, g)!vars
  <2>1. /\ UNCHANGED <<pc, virtualgw, gwstate>>
        /\ record'[g] = IF g = h THEN record[g] + 1 ELSE record[g]
        /\ tokens'[c] = IF c \in subs /\ virtualgw[c] = h /\ tokens[c] < Buffer
                        THEN tokens[c] + 1 ELSE tokens[c]
        /\ tokens[c] \in 0..Buffer
    BY <1>1 DEF Publish
  <2>2. CASE h # g
    BY <2>1, <2>2
  <2>3. CASE h = g /\ ~Serving(c, g)
    BY <2>1, <2>3 DEF Events!Publish
  <2>4. CASE h = g /\ Serving(c, g)
    <3>1. c \in subs
      BY <2>4 DEF RegisterInv
    <3>2. CASE tokens[c] < Buffer
      BY <2>1, <2>4, <3>1, <3>2 DEF Events!Publish
    <3>3. CASE tokens[c] = Buffer
      BY <2>1, <2>4, <3>1, <3>3 DEF Events!Publish
    <3>4. QED
      BY <2>1, <3>2, <3>3
  <2>5. QED
    BY <2>2, <2>3, <2>4
<1>2. ASSUME NEW d \in Stream, Seed(d)
      PROVE  Events(c, g)!Open \/ UNCHANGED Events(c, g)!vars
  <2>1. CASE d = c /\ virtualgw[c] = g
    BY <1>2, <2>1 DEF Seed, NotifiedInv, Events!Open
  <2>2. CASE ~(d = c /\ virtualgw[c] = g)
    BY <1>2, <2>2 DEF Seed
  <2>3. QED
    BY <2>1, <2>2
<1>3. ASSUME NEW d \in Stream, Load(d)
      PROVE  Events(c, g)!Send \/ UNCHANGED Events(c, g)!vars
  <2>1. CASE d = c /\ virtualgw[c] = g
    BY <1>3, <2>1 DEF Load, Events!Send
  <2>2. CASE ~(d = c /\ virtualgw[c] = g)
    BY <1>3, <2>2 DEF Load
  <2>3. QED
    BY <2>1, <2>2
<1>4. ASSUME NEW d \in Stream, Leave(d)
      PROVE  Events(c, g)!Close \/ UNCHANGED Events(c, g)!vars
  <2>1. CASE d = c /\ virtualgw[c] = g
    BY <1>4, <2>1 DEF Leave, Events!Close
  <2>2. CASE ~(d = c /\ virtualgw[c] = g)
    BY <1>4, <2>2 DEF Leave
  <2>3. QED
    BY <2>1, <2>2
<1>5. ASSUME NEW h \in Gateway, NEW d \in Stream, Open(d, h)
      PROVE  UNCHANGED Events(c, g)!vars
  BY <1>5 DEF Open
<1>6. ASSUME NEW d \in Stream,
             Watch(d) \/ Receive(d) \/ Write(d) \/ Delete(d) \/ Close(d)
      PROVE  UNCHANGED Events(c, g)!vars
  <2>1. CASE Receive(d)
    BY <2>1 DEF Receive
  <2>2. CASE Watch(d) \/ Write(d) \/ Delete(d) \/ Close(d)
    BY <2>2 DEF Watch, Write, Delete, Close
  <2>3. QED
    BY <1>6, <2>1, <2>2
<1>7. CASE UNCHANGED vars
  BY <1>7 DEF vars
<1>8. QED
  BY <1>1, <1>2, <1>3, <1>4, <1>5, <1>6, <1>7 DEF Next, Handle

\* The server implements, for each of its streams, the stream of events its
\* clients rely on: no publication is lost between the registration and the
\* first look, and none while a notification is answered or the buffer is full.
THEOREM StreamsServe == Spec => Serves
<1>1. Init => NotifiedInv /\ RegisterInv
  BY DEF Init, NotifiedInv, RegisterInv
<1>2. Init => \A c \in Stream, g \in Gateway : Events(c, g)!Init
  BY DEF Init, Events!Init, Serving
<1>3. TypeOK /\ RegisterInv /\ [Next]_vars => RegisterInv'
  BY RegisterInductive
<1>4. TypeOK /\ NotifiedInv /\ RegisterInv /\ [Next]_vars => NotifiedInv'
  BY NotifiedInductive
<1>5. TypeOK /\ NotifiedInv /\ RegisterInv /\ [Next]_vars
      => [\A c \in Stream, g \in Gateway :
            Events(c, g)!Next \/ UNCHANGED Events(c, g)!vars]_vars
  BY StepServes
<1>6. QED
  BY <1>1, <1>2, <1>3, <1>4, <1>5, TypeCorrect, PTL DEF Spec, Serves
=============================================================================
