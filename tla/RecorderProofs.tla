--------------------------- MODULE RecorderProofs ---------------------------
(***************************************************************************)
(* Whatever the fragments, the gateways and the clients, and whatever the   *)
(* merge and the schema compute: the schema is downloaded under the lock    *)
(* and kept for good, and between two enumerations a client that is told    *)
(* 304 holds the sources as they are recorded, or an index that is one      *)
(* cycle behind at most.  When the merge keeps the members of the           *)
(* fragments, the answer for an object of a committed configuration holds   *)
(* all of it.                                                               *)
(***************************************************************************)
EXTENDS Recorder, TLAPS

-----------------------------------------------------------------------------
(***************************************************************************)
(* The schema.                                                             *)
(***************************************************************************)

Calls == {"none", "waiting", "fetching", "adopting", "ok", "failed"}

ManagerInv == call \in [Client -> Calls] /\ FetchedOnce

\* What a step of the program does to the manager: one step of one call.
ManagerNext ==
    \/ \E c \in Client : Ask(c) \/ Return(c) \/ ManagerStep(c)
    \/ UNCHANGED managerVars

LEMMA NextIsManagerNext ==
    ASSUME [Next]_vars
    PROVE  ManagerNext
  BY DEF Next, EditSource, Begin, Record, EndEnumeration, Handle, Request,
     AskSchema, Handler, Reply, Copy, Validate, ReplySchema, Manager,
     ManagerNext, vars

LEMMA ManagerInductive ==
    ASSUME ManagerInv, ManagerNext
    PROVE  ManagerInv'
<1> USE SchemaManagerAssumption DEF ManagerInv, FetchedOnce, Calls
<1>1. CASE UNCHANGED managerVars
  BY <1>1 DEF managerVars
<1>2. ASSUME NEW c \in Client, Ask(c) \/ Return(c) PROVE ManagerInv'
  BY <1>2 DEF Ask, Return
<1>3. ASSUME NEW c \in Client, Acquire(c) PROVE ManagerInv'
  BY <1>3 DEF Acquire
<1>4. ASSUME NEW c \in Client, FetchFails(c) \/ FetchTimesOut(c)
      PROVE  ManagerInv'
  BY <1>4 DEF FetchFails, FetchTimesOut, GiveUp
<1>5. ASSUME NEW c \in Client, NEW doc \in RawSchemas, FetchAnswered(c, doc)
      PROVE  ManagerInv'
  BY <1>5 DEF FetchAnswered
<1>6. ASSUME NEW c \in Client, Adopt(c) PROVE ManagerInv'
  BY <1>6 DEF Adopt
<1>7. QED
  BY <1>1, <1>2, <1>3, <1>4, <1>5, <1>6 DEF ManagerNext, ManagerStep

LEMMA ManagerInvariant == Spec => []ManagerInv
<1>1. Init => ManagerInv
  BY DEF Init, ManagerInit, ManagerInv, FetchedOnce, Calls
<1>2. ManagerInv /\ [Next]_vars => ManagerInv'
  BY NextIsManagerNext, ManagerInductive
<1>3. QED
  BY <1>1, <1>2, PTL DEF Spec

\* What the cached schema was made from, and the answer being adopted.
AdoptedInv ==
    /\ \A c \in Client : call[c] = "adopting" => raw \in RawSchemas
    /\ cached # Null =>
        /\ Compiled(cached)
        /\ \E doc \in RawSchemas : cached = Normalized(doc, ~Loose)

LEMMA AdoptedInductive ==
    ASSUME ManagerInv, AdoptedInv, ManagerNext
    PROVE  AdoptedInv'
<1> USE DEF AdoptedInv
<1>1. ASSUME NEW c \in Client, Ask(c) \/ Return(c) \/ Acquire(c)
             \/ FetchFails(c) \/ FetchTimesOut(c)
      PROVE  AdoptedInv'
  <2>1. /\ raw' = raw /\ cached' = cached
        /\ \A d \in Client : call'[d] = "adopting" => call[d] = "adopting"
    BY <1>1 DEF Ask, Return, Acquire, FetchFails, FetchTimesOut, GiveUp, ManagerInv
  <2>2. QED
    BY <2>1
<1>2. ASSUME NEW c \in Client, NEW doc \in RawSchemas, FetchAnswered(c, doc)
      PROVE  AdoptedInv'
  BY <1>2 DEF FetchAnswered
<1>3. ASSUME NEW c \in Client, Adopt(c) PROVE AdoptedInv'
  <2>1. \A d \in Client : call'[d] # "adopting"
    BY <1>3, SchemaManagerAssumption DEF Adopt, ManagerInv, FetchedOnce
  <2>2. raw \in RawSchemas
    BY <1>3 DEF Adopt
  <2>3. \/ cached' = cached
        \/ Compiled(Normalized(raw, ~Loose)) /\ cached' = Normalized(raw, ~Loose)
    BY <1>3 DEF Adopt
  <2>4. QED
    BY <2>1, <2>2, <2>3
<1>4. CASE UNCHANGED managerVars
  BY <1>4 DEF managerVars
<1>5. QED
  BY <1>1, <1>2, <1>3, <1>4 DEF ManagerNext, ManagerStep

\* Nothing is validated with a schema that the library refused, or that is not
\* made from one whole answer of APISIX: an answer given up half way, or one
\* that did not compile, is never found in the cache (manager.go, GetSchema).
THEOREM AdoptedIsWhole ==
    Spec => [](cached # Null =>
                /\ Compiled(cached)
                /\ \E doc \in RawSchemas : cached = Normalized(doc, ~Loose))
<1>1. Init => AdoptedInv
  BY DEF Init, ManagerInit, AdoptedInv
<1>2. ManagerInv /\ AdoptedInv /\ [Next]_vars => AdoptedInv'
  BY NextIsManagerNext, AdoptedInductive
<1>3. AdoptedInv => (cached # Null =>
                /\ Compiled(cached)
                /\ \E doc \in RawSchemas : cached = Normalized(doc, ~Loose))
  BY DEF AdoptedInv
<1>4. QED
  BY <1>1, <1>2, <1>3, ManagerInvariant, PTL DEF Spec

\* One request downloads the schema, under the lock, and none once there is one.
THEOREM DownloadedOnce == Spec => []FetchedOnce
<1>1. ManagerInv => FetchedOnce
  BY DEF ManagerInv
<1>2. QED
  BY <1>1, ManagerInvariant, PTL

\* A schema that was adopted is never replaced, by a later answer or any other.
THEOREM SchemaIsKept == Spec => [][cached # Null => cached' = cached]_vars
<1>1. ManagerInv /\ [Next]_vars => [cached # Null => cached' = cached]_vars
  <2> SUFFICES ASSUME ManagerInv, ManagerNext, cached # Null
               PROVE  cached' = cached
    BY NextIsManagerNext
  <2>1. ASSUME NEW c \in Client, Adopt(c) PROVE FALSE
    BY <2>1 DEF Adopt, ManagerInv, FetchedOnce
  <2>2. QED
    BY <2>1 DEF ManagerNext, ManagerStep, Ask, Return, Acquire, FetchFails,
       FetchTimesOut, GiveUp, FetchAnswered, managerVars
<1>2. QED
  BY <1>1, ManagerInvariant, PTL DEF Spec

-----------------------------------------------------------------------------
(***************************************************************************)
(* The tags.                                                               *)
(***************************************************************************)

\* The tag of an enumeration is its number, set when it ends: while it runs,
\* every tag in use is that of an earlier one.
TimeInv ==
    /\ stage \in {"idle", "enumerate", "gateways"}
    /\ cycles \in Nat /\ timestamp \in Nat /\ timestamp <= cycles
    /\ stage = "enumerate" => timestamp < cycles
    /\ tag \in [Client -> Nat] /\ \A c \in Client : tag[c] <= timestamp
    /\ DOMAIN held = Client
    /\ \A c \in Client : held[c] # Null =>
            held[c].etag \in Nat /\ held[c].etag <= timestamp

LEMMA TimeInvariant == Spec => []TimeInv
<1>1. Init => TimeInv
  BY DEF Init, TimeInv
<1>2. TimeInv /\ [Next]_vars => TimeInv'
  <2> SUFFICES ASSUME TimeInv, [Next]_vars PROVE TimeInv'
    OBVIOUS
  <2> USE DEF TimeInv, dispatcherVars, recorderVars, clientVars
  <2>1. CASE Begin
    BY <2>1 DEF Begin
  <2>2. ASSUME NEW f \in listed, Record(f) PROVE TimeInv'
    <3>1. /\ stage = "enumerate" /\ UNCHANGED <<cycles, tag, held>>
          /\ \/ stage' = "idle" /\ timestamp' = cycles
             \/ stage' = stage /\ timestamp' = timestamp
      BY <2>2 DEF Record, Finish
    <3>2. QED
      BY <3>1
  <2>3. CASE EndEnumeration
    <3>1. /\ stage = "enumerate" /\ UNCHANGED <<cycles, tag, held>>
          /\ stage' \in {"idle", "gateways"} /\ timestamp' = cycles
      BY <2>3 DEF EndEnumeration, Finish
    <3>2. QED
      BY <3>1
  <2>4. ASSUME NEW g \in todo, NEW accepted \in BOOLEAN, Handle(g, accepted)
        PROVE  TimeInv'
    <3>1. /\ stage = "gateways" /\ stage' \in {"idle", "gateways"}
          /\ UNCHANGED <<cycles, timestamp, tag, held>>
      BY <2>4 DEF Handle
    <3>2. QED
      BY <3>1
  <2>5. ASSUME NEW c \in Client, Request(c) PROVE TimeInv'
    <3>1. /\ UNCHANGED <<stage, cycles, timestamp, held>>
          /\ tag' \in {tag, [tag EXCEPT ![c] = timestamp]}
      BY <2>5 DEF Request
    <3>2. QED
      BY <3>1
  <2>6. ASSUME NEW c \in Client, Reply(c) \/ Validate(c) PROVE TimeInv'
    <3>1. /\ UNCHANGED <<stage, cycles, timestamp, tag>>
          /\ \/ held' = held
             \/ \E b : held' = [held EXCEPT ![c] = [etag |-> tag[c], body |-> b]]
      BY <2>6 DEF Reply, Validate, Keep
    <3>2. QED
      BY <3>1
  <2>7. CASE \/ \E f \in SourceFile : \E doc \in Contents[f] : EditSource(f, doc)
             \/ \E c \in Client : AskSchema(c) \/ Copy(c) \/ ReplySchema(c)
                                    \/ Manager(c)
             \/ UNCHANGED vars
    <3>1. UNCHANGED <<stage, cycles, timestamp, tag, held>>
      BY <2>7 DEF EditSource, AskSchema, Copy, ReplySchema, Manager, vars
    <3>2. QED
      BY <3>1
  <2>8. QED
    BY <2>1, <2>2, <2>3, <2>4, <2>5, <2>6, <2>7 DEF Next, Handler
<1>3. QED
  BY <1>1, <1>2, PTL DEF Spec

\* The client asks for the list of sources or for one of them.
AsksForSources(c) == url[c].kind \in {"list", "source"}

\* The answer is a matter of what is recorded alone.
LEMMA AnswerOfSources ==
    ASSUME NEW c, AsksForSources(c), UNCHANGED <<scenario, sources>>
    PROVE  Answer(url[c])' = Answer(url[c])
  BY DEF AsksForSources, url, Answer, ListSources, GetSource

\* A good answer is nothing but its body.
LEMMA GoodAnswer ==
    ASSUME NEW c, AsksForSources(c), Good(Answer(url[c]))
    PROVE  Answer(url[c]) = [body |-> Answer(url[c]).body]
  BY DEF AsksForSources, Answer, ListSources, GetSource, Good, NotFound

\* Between two enumerations, a client told 304 for the sources holds what they
\* are, even when its answer was made while they were being replaced.
THEOREM NotModifiedIsTrue == Spec => []SourcesNotModified
<1>1. Init => SourcesNotModified
  BY DEF Init, SourcesNotModified, Current
<1>2. TimeInv /\ TimeInv' /\ SourcesNotModified /\ [Next]_vars
      => SourcesNotModified'
  <2> SUFFICES ASSUME TimeInv, TimeInv', SourcesNotModified, [Next]_vars,
                      NEW c \in Client, AsksForSources(c)',
                      stage' # "enumerate", Current(c)'
               PROVE  Same(c)'
    BY DEF SourcesNotModified, AsksForSources
  <2> USE DEF dispatcherVars, recorderVars, clientVars
  <2>0. UNCHANGED scenario /\ AsksForSources(c)
    BY DEF Next, EditSource, Begin, Record, EndEnumeration, Handle, Request,
       AskSchema, Handler, Reply, Copy, Validate, ReplySchema, Manager, vars,
       AsksForSources, url
  <2>1. CASE UNCHANGED <<stage, sources, timestamp>> /\ held'[c] = held[c]
    BY <2>0, <2>1, AnswerOfSources DEF SourcesNotModified, Current, Same,
       AsksForSources
  <2>2. CASE Begin
    BY <2>2 DEF Begin
  <2>3. CASE (\E f \in listed : Record(f)) \/ EndEnumeration
    <3>1. stage = "enumerate" /\ timestamp' = cycles /\ held' = held
      BY <2>3 DEF Record, EndEnumeration, Finish
    <3>2. QED
      BY <3>1 DEF Current, TimeInv
  <2>4. ASSUME NEW g \in todo, NEW accepted \in BOOLEAN, Handle(g, accepted)
        PROVE  Same(c)'
    <3>1. stage = "gateways" /\ UNCHANGED <<sources, timestamp, held>>
      BY <2>4 DEF Handle
    <3>2. QED
      BY <2>0, <3>1, AnswerOfSources DEF SourcesNotModified, Current, Same,
         AsksForSources
  <2>5. CASE Reply(c)
    <3>1. UNCHANGED <<stage, sources, timestamp>>
      BY <2>5 DEF Reply
    <3>2. CASE ~Good(Answer(url[c]))
      BY <2>1, <2>5, <3>1, <3>2 DEF Reply, Keep
    <3>3. CASE Good(Answer(url[c]))
      <4>1. held'[c].body = Answer(url[c]).body
        BY <2>5, <3>3 DEF Reply, Keep, TimeInv
      <4>2. Answer(url[c])' = Answer(url[c])
        BY <2>0, <3>1, AnswerOfSources
      <4>3. QED
        BY <2>0, <3>3, <4>1, <4>2, GoodAnswer DEF Same
    <3>4. QED
      BY <3>2, <3>3
  <2>6. CASE Validate(c)
    BY <2>0, <2>6 DEF Validate, AsksForSources
  <2>7. ASSUME NEW d \in Client, Handler(d), d # c \/ Copy(d) \/ ReplySchema(d)
        PROVE  Same(c)'
    <3>1. UNCHANGED <<stage, sources, timestamp>> /\ held'[c] = held[c]
      BY <2>7 DEF Handler, Reply, Copy, Validate, ReplySchema, Keep, TimeInv
    <3>2. QED
      BY <2>1, <3>1
  <2>8. CASE \/ \E f \in SourceFile : \E doc \in Contents[f] : EditSource(f, doc)
             \/ \E d \in Client : Request(d) \/ AskSchema(d) \/ Manager(d)
             \/ UNCHANGED vars
    <3>1. UNCHANGED <<stage, sources, timestamp, held>>
      BY <2>8 DEF EditSource, Request, AskSchema, Manager, vars
    <3>2. QED
      BY <2>1, <3>1
  <2>9. QED
    BY <2>2, <2>3, <2>4, <2>5, <2>6, <2>7, <2>8 DEF Next, Handler
<1>3. QED
  BY <1>1, <1>2, TimeInvariant, PTL DEF Spec

-----------------------------------------------------------------------------
(***************************************************************************)
(* The tag of an index.                                                    *)
(***************************************************************************)

\* What a gateway has now is one of the versions since the time was set.
ShownInv ==
    /\ DOMAIN shown = Watched
    /\ \A g \in Watched : instance[g] \in shown[g]

LEMMA ScenarioIsFixed ==
    ASSUME [Next]_vars
    PROVE  /\ UNCHANGED scenario /\ UNCHANGED Watched
           /\ \A c : AsksForIndex(c)' <=> AsksForIndex(c)
<1>1. UNCHANGED scenario
  BY DEF Next, EditSource, Begin, Record, EndEnumeration, Handle, Request,
     AskSchema, Handler, Reply, Copy, Validate, ReplySchema, Manager, vars,
     clientVars
<1>2. QED
  BY <1>1 DEF Watched, AsksForIndex, url

\* A step of the dispatcher: nothing of it happens to the record, the time is
\* set, or a gateway has another version.
LEMMA ShownSteps ==
    ASSUME [Next]_vars
    PROVE  \/ UNCHANGED <<timestamp, instance, shown>>
           \/ /\ stage = "enumerate" /\ timestamp' = cycles
              /\ UNCHANGED <<instance, held>>
              /\ shown' = [g \in Watched |-> {instance[g]}]
           \/ /\ UNCHANGED <<timestamp, held>>
              /\ shown' = [g \in Watched |-> shown[g] \union {instance'[g]}]
  BY DEF Next, EditSource, Begin, Record, EndEnumeration, Finish, Handle,
     Request, AskSchema, Handler, Reply, Copy, Validate, ReplySchema, Manager,
     vars, recorderVars, clientVars

LEMMA ShownInvariant == Spec => []ShownInv
<1>1. Init => ShownInv
  BY DEF Init, ShownInv
<1>2. ShownInv /\ [Next]_vars => ShownInv'
  <2> SUFFICES ASSUME ShownInv, [Next]_vars PROVE ShownInv'
    OBVIOUS
  <2>1. UNCHANGED Watched
    BY ScenarioIsFixed
  <2>2. CASE UNCHANGED <<timestamp, instance, shown>>
    BY <2>1, <2>2 DEF ShownInv
  <2>3. CASE /\ UNCHANGED instance
             /\ shown' = [g \in Watched |-> {instance[g]}]
    BY <2>1, <2>3 DEF ShownInv
  <2>4. CASE shown' = [g \in Watched |-> shown[g] \union {instance'[g]}]
    BY <2>1, <2>4 DEF ShownInv
  <2>5. QED
    BY <2>2, <2>3, <2>4, ShownSteps
<1>3. QED
  BY <1>1, <1>2, PTL DEF Spec

LEMMA GoodShown ==
    ASSUME NEW inst, NEW u, Good(ShownBy(inst, u))
    PROVE  ShownBy(inst, u) = [body |-> ShownBy(inst, u).body]
  BY DEF ShownBy, GetIndex, Config, Good, NotFound, NotCommitted, Failed

\* What a client has kept changes only when it is answered: as long as it holds
\* an answer about an index, that was made from what the gateway had then.
LEMMA HeldSteps ==
    ASSUME TimeInv, [Next]_vars, NEW c \in Client, AsksForIndex(c)
    PROVE  \/ held'[c] = held[c]
           \/ /\ UNCHANGED <<timestamp, instance, shown>>
              /\ ShownBy(instance[url[c].gateway], url[c])
                    = [body |-> held'[c].body]
<1> USE DEF clientVars, recorderVars
<1>1. CASE Reply(c)
  <2> DEFINE answer == Answer(url[c])
  <2>1. answer = ShownBy(instance[url[c].gateway], url[c])
    BY DEF AsksForIndex, Answer
  <2>2. /\ UNCHANGED <<timestamp, instance, shown>>
        /\ held' = IF Good(answer)
                   THEN [held EXCEPT ![c] = [etag |-> tag[c], body |-> answer.body]]
                   ELSE held
    BY <1>1 DEF Reply, Keep
  <2> HIDE DEF answer
  <2>3. CASE Good(answer)
    <3>1. held'[c].body = answer.body
      BY <2>2, <2>3 DEF TimeInv
    <3>2. QED
      BY <2>1, <2>2, <2>3, <3>1, GoodShown
  <2>4. QED
    BY <2>2, <2>3
<1>2. ASSUME NEW d \in Client, Handler(d), d # c \/ ~Reply(c)
      PROVE  held'[c] = held[c]
  <2>1. Validate(d) => d # c
    BY DEF Validate, AsksForIndex
  <2>2. QED
    BY <1>2, <2>1 DEF Handler, Reply, Copy, Validate, ReplySchema, Keep, TimeInv
<1>3. CASE \/ \E f \in SourceFile : \E doc \in Contents[f] : EditSource(f, doc)
           \/ Begin \/ EndEnumeration
           \/ \E f \in listed : Record(f)
           \/ \E g \in todo, accepted \in BOOLEAN : Handle(g, accepted)
           \/ \E d \in Client : Request(d) \/ AskSchema(d) \/ Manager(d)
           \/ UNCHANGED vars
  BY <1>3 DEF EditSource, Begin, EndEnumeration, Record, Handle, Request,
     AskSchema, Manager, vars
<1>4. QED
  BY <1>1, <1>2, <1>3 DEF Next

\* A client told 304 for an index, or for an object in it, is a cycle behind at
\* most: the tag is computed before the answer, and set anew by every
\* enumeration, so that what it holds was made from a version the gateway had
\* since the last one.
THEOREM IndexIsRecent == Spec => []IndexNotModified
<1>1. Init => IndexNotModified
  BY DEF Init, IndexNotModified, Current
<1>2. TimeInv /\ TimeInv' /\ ShownInv /\ IndexNotModified /\ [Next]_vars
      => IndexNotModified'
  <2> SUFFICES ASSUME TimeInv, TimeInv', ShownInv, IndexNotModified, [Next]_vars,
                      NEW c \in Client, AsksForIndex(c)', Current(c)'
               PROVE  \E inst \in shown'[url'[c].gateway] :
                        ShownBy(inst, url'[c]) = [body |-> held'[c].body]
    BY DEF IndexNotModified
  <2> DEFINE u == url[c]
             IsHeld(inst, h) == ShownBy(inst, u) = [body |-> h.body]
  <2>1. /\ AsksForIndex(c) /\ url' = url /\ UNCHANGED Watched
        /\ u.gateway \in Watched
    BY ScenarioIsFixed DEF url, Watched
  <2>2. CASE held'[c] # held[c]
    <3>1. IsHeld(instance[u.gateway], held'[c]) /\ shown' = shown
      BY <2>1, <2>2, HeldSteps
    <3>2. instance[u.gateway] \in shown[u.gateway]
      BY <2>1 DEF ShownInv
    <3>3. QED
      BY <2>1, <3>1, <3>2
  <2>3. CASE held'[c] = held[c] /\ timestamp' = timestamp
    <3>1. PICK inst \in shown[u.gateway] : IsHeld(inst, held[c])
      BY <2>1, <2>3 DEF IndexNotModified, Current
    <3>2. ~(timestamp' = cycles /\ stage = "enumerate")
      BY <2>3 DEF TimeInv
    <3>3. \/ shown' = shown
          \/ shown' = [g \in Watched |-> shown[g] \union {instance'[g]}]
      BY <3>2, ShownSteps
    <3>4. inst \in shown'[u.gateway]
      BY <2>1, <3>1, <3>3
    <3>5. QED
      BY <2>1, <2>3, <3>1, <3>4
  <2>4. CASE held'[c] = held[c] /\ timestamp' # timestamp
    <3>1. timestamp' = cycles /\ stage = "enumerate"
      BY <2>4, ShownSteps
    <3>2. held'[c].etag <= timestamp /\ timestamp < cycles
      BY <2>4, <3>1 DEF TimeInv, Current
    <3>3. QED
      BY <3>1, <3>2 DEF Current, TimeInv
  <2>5. QED
    BY <2>2, <2>3, <2>4
<1>3. QED
  BY <1>1, <1>2, TimeInvariant, ShownInvariant, PTL DEF Spec

-----------------------------------------------------------------------------
(***************************************************************************)
(* The index.                                                              *)
(***************************************************************************)

\* What is recorded of a fragment, and what is not a document.
Recorded(f, doc) == f \in SourceFile /\ doc \in Contents[f] \ {Absent}

\* What a cycle has read is recorded as it was read: nothing is read twice in
\* one cycle, and a cycle that met something that is no document is over.
BatchInv ==
    /\ \A f \in SourceFile : disk[f] \in Contents[f]
    /\ \A f \in DOMAIN sources : Recorded(f, sources[f])
    /\ listed \subseteq SourceFile /\ listed \intersect batch = {}
    /\ batch \subseteq DOMAIN sources
    /\ \A f \in batch : sources[f] # Malformed
    /\ todo \subseteq UNION {HierarchyOf[f] : f \in batch}
    /\ stage # "gateways" => todo = {}

LEMMA BatchInvariant == Spec => []BatchInv
<1>1. Init => BatchInv
  BY DEF Init, BatchInv, Empty
<1>2. BatchInv /\ [Next]_vars => BatchInv'
  <2> SUFFICES ASSUME BatchInv, [Next]_vars PROVE BatchInv'
    OBVIOUS
  <2> USE DEF BatchInv, Recorded, dispatcherVars, recorderVars
  <2>1. ASSUME NEW f \in SourceFile, NEW doc \in Contents[f], EditSource(f, doc)
        PROVE  BatchInv'
    BY <2>1 DEF EditSource
  <2>2. CASE Begin
    BY <2>2 DEF Begin
  <2>3. ASSUME NEW f \in listed, Record(f) PROVE BatchInv'
    <3>1. /\ stage = "enumerate" /\ todo' = todo /\ disk' = disk /\ f \notin batch
          /\ f \in SourceFile /\ disk[f] \in Contents[f]
      BY <2>3 DEF Record
    <3>2. CASE disk[f] = Absent
      BY <2>3, <3>1, <3>2 DEF Record, Finish
    <3>3. CASE disk[f] # Absent
      <4>1. /\ DOMAIN sources' = DOMAIN sources \union {f}
            /\ sources'[f] = disk[f]
            /\ \A x \in DOMAIN sources \ {f} : sources'[x] = sources[x]
        BY <2>3, <3>3 DEF Record, Put
      <4>2. \/ batch' = batch /\ listed' = {} /\ stage' = "idle"
            \/ /\ batch' = batch \union {f} /\ listed' = listed \ {f}
               /\ disk[f] # Malformed /\ stage' = stage
        BY <2>3 DEF Record, Finish
      <4>3. \A x \in DOMAIN sources' : Recorded(x, sources'[x])
        BY <3>1, <3>3, <4>1
      <4>4. /\ batch' \subseteq DOMAIN sources'
            /\ \A x \in batch' : sources'[x] # Malformed
        BY <3>1, <4>1, <4>2
      <4>5. /\ listed' \subseteq SourceFile /\ listed' \intersect batch' = {}
            /\ stage' # "gateways" /\ todo' = {}
        BY <3>1, <4>2
      <4>6. QED
        BY <3>1, <4>3, <4>4, <4>5
    <3>4. QED
      BY <3>2, <3>3
  <2>4. CASE EndEnumeration
    BY <2>4 DEF EndEnumeration, Finish
  <2>5. ASSUME NEW g \in todo, NEW accepted \in BOOLEAN, Handle(g, accepted)
        PROVE  BatchInv'
    BY <2>5 DEF Handle
  <2>6. CASE \/ \E c \in Client : Request(c) \/ AskSchema(c) \/ Handler(c)
                                    \/ Manager(c)
             \/ UNCHANGED vars
    <3>1. UNCHANGED <<disk, sources, listed, batch, todo, stage>>
      BY <2>6 DEF Request, AskSchema, Handler, Reply, Copy, Validate,
         ReplySchema, Manager, vars
    <3>2. QED
      BY <3>1
  <2>7. QED
    BY <2>1, <2>2, <2>3, <2>4, <2>5, <2>6 DEF Next
<1>3. QED
  BY <1>1, <1>2, PTL DEF Spec

\* What was recorded for a gateway when it committed: documents of fragments,
\* the committed configuration merged from some of them, the index from all.
IsCommit(payload, inst) ==
    /\ inst.snippets = [f \in DOMAIN inst.snippets |-> inst.snippets[f]]
    /\ \A f \in DOMAIN inst.snippets :
            Recorded(f, inst.snippets[f]) /\ inst.snippets[f] # Malformed
    /\ inst.index = Describe(payload, inst.snippets)
    /\ payload # Error
    /\ \E own \in SUBSET DOMAIN inst.snippets :
            own # {} /\ payload = Merged([f \in own |-> inst.snippets[f]])

CommitInv ==
    /\ DOMAIN committed = Gateway /\ DOMAIN instance = Gateway
    /\ \A g \in Gateway : committed[g] # Null => IsCommit(committed[g], instance[g])

LEMMA CommitInvariant == Spec => []CommitInv
<1>1. Init => CommitInv
  BY DEF Init, CommitInv
<1>2. BatchInv /\ CommitInv /\ [Next]_vars => CommitInv'
  <2> SUFFICES ASSUME BatchInv, CommitInv, [Next]_vars PROVE CommitInv'
    OBVIOUS
  <2>1. CASE UNCHANGED <<committed, instance>>
    BY <2>1 DEF CommitInv, IsCommit, Describe, Paths
  <2>2. ASSUME NEW g \in todo, Handle(g, TRUE) PROVE CommitInv'
    <3> DEFINE own == {f \in batch : g \in HierarchyOf[f]}
               payload == Merged([f \in own |-> sources[f]])
               inst == [snippets |-> Snippets(g),
                        index |-> Describe(payload, Snippets(g))]
    <3>1. /\ payload # Error
          /\ committed' = [committed EXCEPT ![g] = payload]
          /\ instance' = [instance EXCEPT ![g] = inst]
      BY <2>2 DEF Handle
    <3>2. /\ Snippets(g) = [f \in DOMAIN Snippets(g) |-> Snippets(g)[f]]
          /\ DOMAIN Snippets(g) = {f \in DOMAIN sources :
                        g \in HierarchyOf[f] /\ sources[f] # Malformed}
          /\ \A f \in DOMAIN Snippets(g) : Snippets(g)[f] = sources[f]
      BY DEF Snippets
    <3>3. own # {} /\ own \subseteq DOMAIN Snippets(g)
      BY <3>2 DEF BatchInv
    <3>4. [f \in own |-> sources[f]] = [f \in own |-> Snippets(g)[f]]
      BY <3>2, <3>3
    <3>5. \A f \in DOMAIN Snippets(g) :
                Recorded(f, Snippets(g)[f]) /\ Snippets(g)[f] # Malformed
      BY <3>2 DEF BatchInv
    <3>6. IsCommit(payload, inst)
      BY <3>1, <3>2, <3>3, <3>4, <3>5 DEF IsCommit
    <3>7. QED
      BY <3>1, <3>6 DEF CommitInv
  <2>3. QED
    BY <2>1, <2>2 DEF Next, EditSource, Begin, Record, EndEnumeration, Handle,
       Request, AskSchema, Handler, Reply, Copy, Validate, ReplySchema, Manager,
       recorderVars, vars
<1>3. QED
  BY <1>1, <1>2, BatchInvariant, PTL DEF Spec

\* No list of a configuration has the name that tells null from a map.
LEMMA NullIsNoList ==
    ASSUME NEW doc
    PROVE  "null" \notin DOMAIN AsTree(doc)
<1>1. "null" \notin DOMAIN DefaultMergingRules.Children
  BY DEF DefaultMergingRules, Rule, RouteRules, GroupRules, ConsumerRules, Union2
<1>2. DOMAIN AsTree(doc) \subseteq DOMAIN DefaultMergingRules.Children
  BY DEF AsTree
<1>3. QED
  BY <1>1, <1>2

\* Fragments that are recorded as documents may be merged.
LEMMA SomeAreDocumented ==
    ASSUME NEW text, NEW D \in SUBSET DOMAIN text, D # {},
           \A f \in DOMAIN text : Recorded(f, text[f]) /\ text[f] # Malformed
    PROVE  [f \in D |-> text[f]] \in Documented
<1>1. D \in (SUBSET SourceFile) \ {{}}
  BY DEF Recorded
<1>2. [f \in D |-> text[f]] \in [D -> UNION {Contents[f] : f \in D}]
  BY DEF Recorded
<1>3. \A f \in D : text[f] \in Contents[f] \ {Absent, Malformed}
  BY DEF Recorded
<1>4. QED
  BY <1>1, <1>2, <1>3 DEF Documented

\* An object of a committed configuration, and what GetConfig answers.
LEMMA CommitShowsObject ==
    ASSUME NEW g, IsCommit(committed[g], instance[g]),
           NEW kind \in DOMAIN AsTree(committed[g]),
           NEW id \in DOMAIN AsTree(committed[g])[kind]
    PROVE  /\ Config(instance[g], kind, id) \notin {NotFound, NotCommitted}
           /\ Good(Config(instance[g], kind, id)) =>
                MembersOf(committed[g], kind, id)
                    \subseteq MembersOf(Config(instance[g], kind, id).body, kind, id)
<1> DEFINE text == instance[g].snippets
           index == instance[g].index
           paths == Paths(text, kind, id)
           answer == Merged([f \in paths |-> text[f]])
<1>1. PICK own \in SUBSET DOMAIN text :
            own # {} /\ committed[g] = Merged([f \in own |-> text[f]])
  BY DEF IsCommit
<1>2. \A f \in DOMAIN text : Recorded(f, text[f]) /\ text[f] # Malformed
  BY DEF IsCommit
<1>3. MergeKeeps([f \in own |-> text[f]])
  <2>1. [f \in own |-> text[f]] \in Documented
    BY <1>1, <1>2, SomeAreDocumented
  <2>2. QED
    BY <1>1, <2>1, MergeAssumption DEF IsCommit
<1>4. \E f \in own : HoldsObject(text[f], kind, id)
  BY <1>1, <1>3 DEF MergeKeeps
<1>5. paths # {} /\ paths \in SUBSET DOMAIN text
  BY <1>4 DEF Paths
<1>6. \A f \in own : MembersOf(text[f], kind, id) # {} => f \in paths
  BY <1>1, <1>3 DEF MergeKeeps, Paths
<1>7. \A m \in Members(committed[g]) : \E f \in own : m \in Members(text[f])
  BY <1>1, <1>3 DEF MergeKeeps
<1>8. /\ kind \in DOMAIN index /\ id \in DOMAIN index[kind]
      /\ index[kind][id].paths = paths /\ index # Null
  <2>1. index = Describe(committed[g], text)
    BY DEF IsCommit
  <2>2. /\ DOMAIN index = DOMAIN AsTree(committed[g])
        /\ id \in DOMAIN index[kind] /\ index[kind][id].paths = paths
    BY <2>1 DEF Describe
  <2>3. index # Null
    BY <2>2, NullIsNoList DEF Null
  <2>4. QED
    BY <2>2, <2>3
<1>9. Config(instance[g], kind, id) = IF answer = Error THEN Failed ELSE [body |-> answer]
  <2>1. paths \intersect DOMAIN text = paths
    BY <1>5
  <2>2. QED
    BY <1>5, <1>8, <2>1 DEF Config
<1>10. Config(instance[g], kind, id) \notin {NotFound, NotCommitted}
  BY <1>9 DEF Failed, NotFound, NotCommitted
<1>11. ASSUME Good(Config(instance[g], kind, id))
       PROVE  MembersOf(committed[g], kind, id)
                    \subseteq MembersOf(Config(instance[g], kind, id).body, kind, id)
  <2>1. answer # Error /\ Config(instance[g], kind, id).body = answer
    BY <1>9, <1>11 DEF Good, Failed
  <2>2. MergeKeeps([f \in paths |-> text[f]])
    <3>1. [f \in paths |-> text[f]] \in Documented
      BY <1>2, <1>5, SomeAreDocumented
    <3>2. QED
      BY <2>1, <3>1, MergeAssumption
  <2>3. \A f \in paths : Members(text[f]) \subseteq Members(answer)
    BY <2>2 DEF MergeKeeps
  <2>4. QED
    BY <1>6, <1>7, <2>1, <2>3 DEF MembersOf
<1>12. QED
  BY <1>10, <1>11

\* Whatever became of the sources since a gateway committed, GetConfig finds
\* every object of its configuration, and answers with all of it.
THEOREM ObjectsAreShown == Spec => []ConfigShowsObject
<1>1. CommitInv => ConfigShowsObject
  <2> SUFFICES ASSUME CommitInv, NEW g \in Gateway, committed[g] # Null,
                      NEW kind \in DOMAIN AsTree(committed[g]),
                      NEW id \in DOMAIN AsTree(committed[g])[kind]
               PROVE  /\ Config(instance[g], kind, id) \notin {NotFound, NotCommitted}
                      /\ Good(Config(instance[g], kind, id)) =>
                            MembersOf(committed[g], kind, id)
                              \subseteq MembersOf(Config(instance[g], kind, id).body, kind, id)
    BY DEF ConfigShowsObject, Empty
  <2>1. IsCommit(committed[g], instance[g])
    BY DEF CommitInv
  <2>2. QED
    BY <2>1, CommitShowsObject
<1>2. QED
  BY <1>1, CommitInvariant, PTL
=============================================================================
