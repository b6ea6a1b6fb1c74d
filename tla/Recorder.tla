------------------------------- MODULE Recorder -----------------------------
(***************************************************************************)
(* What sixpack tells of itself (internal/recorder, the cache tags of       *)
(* internal/cache and the validation handlers of internal/schema): the      *)
(* sources an enumeration has read, an index of the objects of every        *)
(* committed configuration with the fragments they come from, those         *)
(* fragments merged, and the validation of one of them.  The dispatcher      *)
(* writes while handlers read; a client keeps the last good answer with its  *)
(* ETag, and is told 304 as long as the tag is current.                     *)
(***************************************************************************)
EXTENDS SchemaManager

CONSTANTS
    Files,          \* the fragments, in the order they are enumerated in
    Contents,       \* what a fragment may hold
    HierarchyOf,    \* the gateways of a fragment
    Merged(_),      \* the merge of fragments in that order, or Error
    WithDefaults(_, _), \* a document with the defaults of a schema put in
    Members(_),     \* the members of a document, for the properties
    Scenarios       \* bounds: the resource each client asks for, and meanwhile
                    \* the changes of fragments and the cycles there may be

Absent == [absent |-> TRUE]
Malformed == [malformed |-> TRUE]
NotFound == [status |-> 404]
NotCommitted == [status |-> 417]
Failed == [status |-> 500]

SourceFile == ToSet(Files)
Gateway == UNION {HierarchyOf[f] : f \in SourceFile}

ASSUME RecorderAssumption ==
    \A s \in Scenarios :
        DOMAIN s.url = Client /\ s.MaxEdits \in Nat /\ s.MaxCycles \in Nat

\* The first of some fragments.
Position(f) == CHOOSE i \in DOMAIN Files : Files[i] = f
IsFirst(f, files) == f \in files /\ \A x \in files : Position(f) <= Position(x)

VARIABLES
    disk,       \* the fragments
    stage,      \* of the dispatcher: "idle", "enumerate" or "gateways"
    listed,     \* fragments listed and not read yet
    batch,      \* the fragments the snippets of the cycle are of
    todo,       \* the gateways not handled yet
    cycles, edits,
    sources,    \* SourcesEnumerator.sources
    timestamp,  \* SourcesEnumerator.timestamp, as the number of the cycle
    committed,  \* the configuration every gateway committed last
    instance,   \* Recorder.instances
    shown,      \* history: what the watched ones were since timestamp was set
    scenario,   \* one of Scenarios, for good
    request,    \* "idle", "tagged" (the tag is computed, the answer is not),
                \* or "schema" (the schema is needed too)
    tag,        \* the ETag of the answer in progress
    content,    \* the source a validation has copied
    held        \* the last good answer of each client, with its ETag

dispatcherVars == <<disk, stage, listed, batch, todo, cycles, edits>>
recorderVars == <<sources, timestamp, committed, instance, shown>>
clientVars == <<scenario, request, tag, content, held>>
vars == <<dispatcherVars, recorderVars, clientVars, managerVars>>

url == scenario.url

\* The gateways whose index, or an object in it, a client asks for.
AsksForIndex(c) == url[c].kind \in {"index", "config"}
Watched == {url[c].gateway : c \in {x \in Client : AsksForIndex(x)}}

-----------------------------------------------------------------------------
(***************************************************************************)
(* The index.                                                              *)
(***************************************************************************)

\* Mutant: only the fragments whose leaf the gateway is.
LeafSnippets(g) ==
    [f \in {x \in DOMAIN sources :
                HierarchyOf[x] = {g} /\ sources[x] # Malformed} |-> sources[f]]

\* SourcesEnumerator.Snippets: everything recorded for a gateway that is YAML.
Snippets(g) ==
    [f \in {x \in DOMAIN sources :
                g \in HierarchyOf[x] /\ sources[x] # Malformed} |-> sources[f]]

HoldsObject(doc, kind, id) ==
    kind \in DOMAIN AsTree(doc) /\ id \in DOMAIN AsTree(doc)[kind]

\* indexSnippets: the fragments that hold an object.
Paths(list, kind, id) == {f \in DOMAIN list : HoldsObject(list[f], kind, id)}

\* describeConfigs: the objects of a configuration, with their fragments and
\* for a route its tags.
Describe(config, list) ==
    LET tree == AsTree(config) IN
    [kind \in DOMAIN tree |->
        [id \in DOMAIN tree[kind] |->
            [paths |-> Paths(list, kind, id),
             tags |-> IF kind = "routes" THEN RouteTags(tree[kind][id])
                      ELSE Empty]]]

NoInstance == [snippets |-> Empty, index |-> Null]

\* The members of one object.
MembersOf(doc, kind, id) ==
    {m \in Members(doc) : Len(m[1]) > 2 /\ m[1][1] = kind /\ m[1][2] = id}

\* What some of the fragments may hold together, as documents.
Documented ==
    UNION {{t \in [D -> UNION {Contents[f] : f \in D}] :
                \A f \in D : t[f] \in Contents[f] \ {Absent, Malformed}}
            : D \in (SUBSET SourceFile) \ {{}}}

\* What the properties need to know of the merge: it keeps the members of the
\* fragments and adds none, and an object it makes is an object of a fragment,
\* of each one that has members of it.
MergeKeeps(t) ==
    /\ Members(Merged(t)) = UNION {Members(t[f]) : f \in DOMAIN t}
    /\ \A kind \in DOMAIN AsTree(Merged(t)) :
         \A id \in DOMAIN AsTree(Merged(t))[kind] :
            /\ \E f \in DOMAIN t : HoldsObject(t[f], kind, id)
            /\ \A f \in DOMAIN t : MembersOf(t[f], kind, id) # {}
                                        => HoldsObject(t[f], kind, id)

ASSUME MergeAssumption ==
    \A t \in Documented : Merged(t) # Error => MergeKeeps(t)

-----------------------------------------------------------------------------
(***************************************************************************)
(* Answers.                                                                *)
(***************************************************************************)

Leaf(f) == CHOOSE g \in HierarchyOf[f] :
                \A h \in HierarchyOf[f] : Len(h) <= Len(g)

\* GetConfig: the fragments of an object, merged.
Config(inst, kind, id) ==
    LET index == inst.index
        chosen == index[kind][id].paths \intersect DOMAIN inst.snippets
        merged == Merged([f \in chosen |-> inst.snippets[f]])
    IN IF index = Null THEN NotCommitted
       ELSE IF kind \notin DOMAIN index THEN NotFound
       ELSE IF id \notin DOMAIN index[kind] THEN NotFound
       ELSE IF index[kind][id].paths = {} THEN NotFound
       ELSE IF merged = Error THEN Failed ELSE [body |-> merged]

ListSources == [body |-> [f \in DOMAIN sources |-> Leaf(f)]]

GetSource(f) ==
    IF f \in DOMAIN sources THEN [body |-> sources[f]] ELSE NotFound

GetIndex(inst) ==
    IF inst.index = Null THEN NotCommitted ELSE [body |-> inst.index]

\* The answers made from what a gateway has committed.
ShownBy(inst, u) ==
    IF u.kind = "index" THEN GetIndex(inst)
    ELSE Config(inst, u.object[1], u.object[2])

\* What a handler answers after its tag is computed.
Answer(u) ==
    IF u.kind = "list" THEN ListSources
    ELSE IF u.kind = "source" THEN GetSource(u.file)
    ELSE ShownBy(instance[u.gateway], u)

\* ValidationProbe.Validate: the document that is validated, with the
\* variables of the request in place and the defaults put in.
Probe(text) ==
    IF text = Malformed THEN Malformed ELSE WithDefaults(cached, text)

Good(answer) == "body" \in DOMAIN answer

-----------------------------------------------------------------------------
Init ==
    /\ disk \in [SourceFile -> UNION {Contents[f] : f \in SourceFile}]
    /\ \A f \in SourceFile : disk[f] \in Contents[f]
    /\ stage = "idle" /\ listed = {} /\ batch = {} /\ todo = {}
    /\ cycles = 0 /\ edits = 0
    /\ sources = Empty /\ timestamp = 0
    /\ committed = [g \in Gateway |-> Null]
    /\ instance = [g \in Gateway |-> NoInstance]
    /\ scenario \in Scenarios
    /\ shown = [g \in Watched |-> {instance[g]}]
    /\ request = [c \in Client |-> "idle"]
    /\ tag = [c \in Client |-> 0]
    /\ content = [c \in Client |-> Null]
    /\ held = [c \in Client |-> Null]
    /\ ManagerInit

-----------------------------------------------------------------------------
(***************************************************************************)
(* The dispatcher.                                                         *)
(***************************************************************************)

EditSource(f, doc) ==
    /\ edits < scenario.MaxEdits
    /\ doc # disk[f]
    /\ disk' = [disk EXCEPT ![f] = doc]
    /\ edits' = edits + 1
    /\ UNCHANGED <<stage, listed, batch, todo, cycles, recorderVars,
                   clientVars, managerVars>>

\* Mutant: the time is that of the start.
BeginTimed ==
    /\ stage = "idle" /\ cycles < scenario.MaxCycles
    /\ stage' = "enumerate"
    /\ cycles' = cycles + 1
    /\ timestamp' = cycles'
    /\ listed' = {f \in SourceFile : disk[f] # Absent}
    /\ batch' = {}
    /\ UNCHANGED <<disk, todo, edits, sources, committed, instance, shown,
                   clientVars, managerVars>>

Begin ==
    /\ stage = "idle" /\ cycles < scenario.MaxCycles
    /\ stage' = "enumerate"
    /\ cycles' = cycles + 1
    /\ listed' = {f \in SourceFile : disk[f] # Absent}
    /\ batch' = {}
    /\ UNCHANGED <<disk, todo, edits, recorderVars, clientVars, managerVars>>

\* Mutant: the time is not set.
FinishUntimed ==
    /\ UNCHANGED timestamp
    /\ shown' = [g \in Watched |-> {instance[g]}]
    /\ listed' = {}

\* The enumeration ends, at its end or at the first error: only then is its
\* time set.
Finish ==
    /\ timestamp' = cycles
    /\ shown' = [g \in Watched |-> {instance[g]}]
    /\ listed' = {}

\* One source is read and recorded.  A file that is gone or no YAML ends the
\* cycle.
Record(f) ==
    /\ stage = "enumerate" /\ IsFirst(f, listed)
    /\ sources' = IF disk[f] = Absent THEN sources ELSE Put(sources, f, disk[f])
    /\ IF disk[f] \in {Absent, Malformed}
       THEN Finish /\ stage' = "idle" /\ UNCHANGED batch
       ELSE /\ listed' = listed \ {f}
            /\ batch' = batch \union {f}
            /\ UNCHANGED <<stage, timestamp, shown>>
    /\ UNCHANGED <<disk, todo, cycles, edits, committed, instance, clientVars,
                   managerVars>>

EndEnumeration ==
    /\ stage = "enumerate" /\ listed = {}
    /\ Finish
    /\ todo' = UNION {HierarchyOf[f] : f \in batch}
    /\ stage' = IF todo' = {} THEN "idle" ELSE "gateways"
    /\ UNCHANGED <<disk, batch, cycles, edits, sources, committed, instance,
                   clientVars, managerVars>>

\* A gateway is handled.  What is not new, or does not get past the merge, the
\* validator or the reloader, is not committed.
Handle(g, accepted) ==
    LET own == {f \in batch : g \in HierarchyOf[f]}
        payload == Merged([f \in own |-> sources[f]])
    IN /\ stage = "gateways" /\ g \in todo
       /\ accepted => payload \notin {Error, committed[g]}
       /\ todo' = todo \ {g}
       /\ stage' = IF todo = {g} THEN "idle" ELSE stage
       /\ IF accepted
          THEN /\ committed' = [committed EXCEPT ![g] = payload]
               /\ instance' = [instance EXCEPT ![g] =
                    [snippets |-> Snippets(g),
                     index |-> Describe(payload, Snippets(g))]]
               /\ shown' = [h \in Watched |-> shown[h] \union {instance'[h]}]
          ELSE UNCHANGED <<committed, instance, shown>>
       /\ UNCHANGED <<disk, listed, batch, cycles, edits, sources, timestamp,
                      clientVars, managerVars>>

-----------------------------------------------------------------------------
(***************************************************************************)
(* The handlers.                                                           *)
(***************************************************************************)

\* cache.Reply: a client whose tag is current is told 304 and nothing changes.
Request(c) ==
    /\ request[c] = "idle" /\ url[c].kind \notin {"schema", "none"}
    /\ IF held[c] # Null /\ held[c].etag = timestamp
       THEN UNCHANGED <<request, tag>>
       ELSE /\ request' = [request EXCEPT ![c] = "tagged"]
            /\ tag' = [tag EXCEPT ![c] = timestamp]
    /\ UNCHANGED <<scenario, content, held, dispatcherVars, recorderVars,
                   managerVars>>

\* The client keeps a good answer with its tag.
Keep(c, answer) ==
    /\ request' = [request EXCEPT ![c] = "idle"]
    /\ held' = IF Good(answer)
               THEN [held EXCEPT ![c] = [etag |-> tag[c], body |-> answer.body]]
               ELSE held

Reply(c) ==
    /\ request[c] = "tagged" /\ url[c].kind # "validate"
    /\ Keep(c, Answer(url[c]))
    /\ UNCHANGED <<scenario, tag, content, dispatcherVars, recorderVars, managerVars>>

\* ValidateSource: the source is copied, then the schema asked for.
Copy(c) ==
    /\ request[c] = "tagged" /\ url[c].kind = "validate"
    /\ IF url[c].file \in DOMAIN sources
       THEN /\ content' = [content EXCEPT ![c] = sources[url[c].file]]
            /\ request' = [request EXCEPT ![c] = "schema"]
            /\ Ask(c)
       ELSE /\ request' = [request EXCEPT ![c] = "idle"]
            /\ UNCHANGED <<content, managerVars>>
    /\ UNCHANGED <<scenario, tag, held, dispatcherVars, recorderVars>>

\* ... and the copy validated.
Validate(c) ==
    /\ request[c] = "schema" /\ url[c].kind = "validate"
    /\ Keep(c, IF call[c] = "ok" THEN [body |-> Probe(content[c])] ELSE Failed)
    /\ content' = [content EXCEPT ![c] = Null]
    /\ Return(c)
    /\ UNCHANGED <<scenario, tag, dispatcherVars, recorderVars>>

\* Schema and ValidateBody need the schema only.
AskSchema(c) ==
    /\ request[c] = "idle" /\ url[c].kind = "schema"
    /\ request' = [request EXCEPT ![c] = "schema"]
    /\ Ask(c)
    /\ UNCHANGED <<scenario, tag, content, held, dispatcherVars, recorderVars>>

ReplySchema(c) ==
    /\ request[c] = "schema" /\ url[c].kind = "schema"
    /\ request' = [request EXCEPT ![c] = "idle"]
    /\ Return(c)
    /\ UNCHANGED <<scenario, tag, content, held, dispatcherVars, recorderVars>>

Manager(c) ==
    /\ ManagerStep(c)
    /\ UNCHANGED <<dispatcherVars, recorderVars, clientVars>>

Handler(c) ==
    Reply(c) \/ Copy(c) \/ Validate(c) \/ ReplySchema(c)

Next ==
    \/ \E f \in SourceFile : \E doc \in Contents[f] : EditSource(f, doc)
    \/ Begin
    \/ \E f \in listed : Record(f)
    \/ EndEnumeration
    \/ \E g \in todo, accepted \in BOOLEAN : Handle(g, accepted)
    \/ \E c \in Client : Request(c)
    \/ \E c \in Client : AskSchema(c)
    \/ \E c \in Client : Handler(c)
    \/ \E c \in Client : Manager(c)

Spec == Init /\ [][Next]_vars

\* What a step of Handler(c) does to the request, and Adopt(c) to the call:
\* fairness of these is fairness of those steps, with nothing computed to see
\* whether they can be taken.
Turn(c) ==
    /\ request[c] = "tagged" \/ (request[c] = "schema" /\ call[c] \in {"ok", "failed"})
    /\ request' \in {[request EXCEPT ![c] = r] : r \in {"schema", "idle"}}

Adopted(c) ==
    /\ call[c] = "adopting"
    /\ call' \in {[call EXCEPT ![c] = r] : r \in {"ok", "failed"}}

\* Handlers run until they have answered; a download has a timeout; and a lock
\* that is released again and again is got in the end, as Go's is fair to those
\* who wait long.
Fairness ==
    \A c \in Client :
        /\ WF_request(Turn(c))
        /\ WF_call(Adopted(c))
        /\ WF_managerVars(FetchTimesOut(c))
        /\ SF_managerVars(Acquire(c))

FairSpec == Spec /\ Fairness

-----------------------------------------------------------------------------
(***************************************************************************)
(* Properties.                                                             *)
(***************************************************************************)

\* A client whose tag is current would be told 304.
Current(c) == held[c] # Null /\ held[c].etag = timestamp
Same(c) == Answer(url[c]) = [body |-> held[c].body]

\* Between two enumerations, 304 for the list of sources or for one of them is
\* only said to a client that holds what is recorded (handlers.go:170, "304 Not
\* Modified when nothing changed"): its answer may have been made while the
\* sources were being replaced one by one.
SourcesNotModified ==
    \A c \in Client :
        url[c].kind \in {"list", "source"} /\ stage # "enumerate" /\ Current(c)
            => Same(c)

\* The tag of an index is the time of the last enumeration, and the gateways
\* commit after it: 304 is said for an index, or an object in it, that has been
\* replaced.  But never for one that had been replaced before that enumeration
\* ended: the client holds what one of the versions since then answers, and is
\* a cycle behind at most (handlers.go:28, "304 Not Modified when nothing
\* changed").
IndexNotModified ==
    \A c \in Client :
        AsksForIndex(c) /\ Current(c) =>
            \E inst \in shown[url[c].gateway] :
                ShownBy(inst, url[c]) = [body |-> held[c].body]

\* Every object of a committed configuration is in the index of its gateway,
\* with the fragments that made it: the answer of GetConfig, when those can be
\* merged, holds every member the object has in the configuration, whatever
\* became of the sources since (recorder.go, Commit).
ConfigShowsObject ==
    \A g \in Gateway :
        LET tree == IF committed[g] = Null THEN Empty ELSE AsTree(committed[g]) IN
        \A kind \in DOMAIN tree : \A id \in DOMAIN tree[kind] :
            LET answer == Config(instance[g], kind, id) IN
            /\ answer \notin {NotFound, NotCommitted}
            /\ Good(answer) => MembersOf(committed[g], kind, id)
                                    \subseteq MembersOf(answer.body, kind, id)

\* enumerator.go:113: the snippets are those "for the last enumeration".
SnippetsOfLastEnumeration ==
    [][\A g \in Gateway : instance'[g] # instance[g] =>
        DOMAIN instance'[g].snippets \subseteq batch]_vars

\* The defaults leave every member of a document as it is, and once they are in
\* there is nothing left to add: not in what a default brought with it, nor
\* behind a reference (validator.go, applyDefaults).
DefaultsOnlyAdd ==
    \A c \in Client :
        request[c] = "schema" /\ call[c] = "ok" /\ content[c] \notin {Null, Malformed}
            => LET probe == Probe(content[c]) IN
               /\ Members(content[c]) \subseteq Members(probe)
               /\ Probe(probe) = probe

\* Every request is answered, even if the schema cannot be had: one that waits
\* for another's download is not left waiting (manager.go, GetSchema).
Answered ==
    \A c \in Client : request[c] # "idle" ~> request[c] = "idle"
=============================================================================
