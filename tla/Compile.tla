------------------------------ MODULE Compile -------------------------------
(***************************************************************************)
(* What a compile cycle does to the configuration itself: the fragments    *)
(* are read with the variables of their directory put in, decoded and given *)
(* to every gateway they belong to; each gateway merges its own, gets its   *)
(* certificates and its labels, and publishes the result.  When cycles are  *)
(* started, and how a failed step is retried, is the matter of Dispatcher;  *)
(* how a certificate is obtained, of Tracker.                              *)
(***************************************************************************)
EXTENDS SSLPlugin

CONSTANTS
    Roots,          \* the input directories, in the order of the command line
    Files,          \* the fragments, in the order in which they are read
    RootOf,         \* the input directory of a fragment
    DirOf,          \* its directory there, as the names between the dots
    Contents,       \* what a fragment may hold, for every fragment
    EnvContents,    \* what the file of variables of a directory may hold
    BaseEnv,        \* the environment of the process
    CertFiles,      \* paths of the certificate files
    Providers, DefaultProvider, \* certmagic; no provider when it is off
    Virtualgw,      \* --apisix-virtual-gateway, as the names between the dots
    GatewayFromDots,    \* --virtualgw-from-dots
    EnableLabels,   \* --plugin-labels
    Merged(_),      \* the merge of fragments, in their order, or Error
    Substituted(_, _),  \* a document with variables put in
    WithDefaults(_),    \* a document with the defaults of the schema put in
    Members(_),     \* the members of a document, for the properties
    MaxEdits,       \* bound: changes of fragments, variables and files
    MaxFaults       \* bound: refused payloads, failed reloads and requests

ASSUME CompileAssumption ==
    /\ ToSet(Files) = DOMAIN Contents
    /\ Roots \in Seq(ToSet(Roots)) /\ IsInjective(Roots)
    /\ MaxEdits \in Nat /\ MaxFaults \in Nat

\* The contents of a file that are not a document: it is not there, it is
\* empty, it is not YAML (or not lines of variables).
Absent == [absent |-> TRUE]
EmptyFile == [empty |-> TRUE]
Malformed == [malformed |-> TRUE]

SourceFile == ToSet(Files)

\* Directories of one name are different ones in two input directories.
Place(f) == <<RootOf[f], DirOf[f]>>
Dir == {Place(f) : f \in SourceFile}

\* The first of some fragments.
Position(f) == CHOOSE i \in DOMAIN Files : Files[i] = f
IsFirst(f, files) == f \in files /\ \A x \in files : Position(f) <= Position(x)

VARIABLES
    sources,    \* the fragments on disk
    env,        \* the files of variables on disk
    disk,       \* the certificate files there are
    pc,         \* "idle", "enumerate" or "gateways"
    roots,      \* input directories not listed yet
    listed,     \* fragments listed and not read yet
    envCache,   \* envInput.envCache, of the directories read
    snippets,   \* the snippet of each fragment fetched, with what it was read
                \* from
    todo,       \* the gateways not handled yet
    instance,   \* Dispatcher.virtualgw with its SerializerInstance
    published,  \* the payload of every gateway
    track,      \* Tracker.track; a pair of halves, or <<>> while it is awaited
    envSeen,    \* history: what env was since the directory's root was listed
    edits, faults

diskVars == <<sources, env, disk>>
cycleVars == <<roots, listed, envCache, snippets, todo>>
outVars == <<instance, published, track>>
vars == <<diskVars, pc, cycleVars, outVars, envSeen, edits, faults>>

-----------------------------------------------------------------------------
(***************************************************************************)
(* Reading a fragment.                                                     *)
(***************************************************************************)

\* loadEnvVars: the environment and over it the file, if there is one.
EnvVars(content) ==
    IF content = Absent THEN BaseEnv ELSE Union2(BaseEnv, content)

\* envInput.Open: the file of variables is read for the first fragment of a
\* directory and remembered for the others.
CachedEnv(dir) == IF dir \in DOMAIN envCache THEN envCache[dir] ELSE env[dir]

CleanParts(parts) == SelectSeq(parts, LAMBDA p : p # "")

\* FromKey: the names of a gateway, from those between the dots.
FromKey(parts) ==
    IF CleanParts(parts) = <<>> THEN <<"default">> ELSE CleanParts(parts)

\* GatewayFromDots.Virtualgw: the leaf gateway of a directory.
Leaf(dir) ==
    IF GatewayFromDots /\ Len(CleanParts(dir)) > 1 THEN CleanParts(dir)
    ELSE FromKey(Virtualgw)

\* FromLeaf: a fragment belongs to the leaf and to everything above it.
Hierarchy(dir) == {SubSeq(Leaf(dir), 1, n) : n \in 1..Len(Leaf(dir))}

Gateway == UNION {Hierarchy(d[2]) : d \in Dir}

\* Mutant: the defaults are put into the fragment that is published.
FetchedInPlace(doc) == WithDefaults(doc)

\* SchemaFetcher.Fetch: the defaults go into a copy, and what the validation
\* says of it is only logged.
Fetched(doc) == doc

-----------------------------------------------------------------------------
(***************************************************************************)
(* Rendering a gateway.                                                    *)
(***************************************************************************)

Own(g) == {f \in DOMAIN snippets : g \in Hierarchy(DirOf[f])}
Data(files) == [f \in files |-> snippets[f].data]

\* A certificate file is the first of its name in the directories given.
Half(path) == PEM([file |-> path])

IsACME(k) == "acme" \in DOMAIN k
NotIssued == <<>>

\* The pair a provider answers a request with.
Pair(k) ==
    IF "fallback" \in DOMAIN k THEN FallbackPair
    ELSE IF "files" \in DOMAIN k THEN <<Half(k.files[1]), Half(k.files[2])>>
    ELSE <<PEM([acme |-> k.acme, half |-> "cert"]),
           PEM([acme |-> k.acme, half |-> "key"])>>

\* A request for files that are not there fails.
Unreadable(k) == "files" \in DOMAIN k /\ ~ToSet(k.files) \subseteq disk

\* ensureManagedLabels.
ManagedLabels(g) ==
    [l \in {"managed-by", "sixpack-label"} |->
        IF l = "managed-by" THEN Str("sixpack") ELSE [gateway |-> g]]

LabelsOf(item, g) ==
    LET labels == Member(item, "labels") IN
    IF labels = Null THEN Map(ManagedLabels(g))
    ELSE Map(Union2(labels.map, ManagedLabels(g)))

Labelled(kind, v) ==
    /\ kind \in DOMAIN DefaultMergingRules.Children
    /\ DefaultMergingRules.Children[kind].SupportsLabels
    /\ IsList(v)

\* ManagedLabelsPlugin.Update, an error when labels are not a map.
AddLabels(doc, g) ==
    LET Bad(e) == IsMap(e) /\ Member(e, "labels") # Null
                  /\ ~IsMap(Member(e, "labels"))
    IN IF ~EnableLabels THEN doc
       ELSE IF \E k \in DOMAIN doc.map : Labelled(k, doc.map[k])
                  /\ \E e \in ToSet(doc.map[k].list) : Bad(e)
       THEN Error
       ELSE Map([k \in DOMAIN doc.map |->
                IF ~Labelled(k, doc.map[k]) THEN doc.map[k]
                ELSE List([i \in DOMAIN doc.map[k].list |->
                        LET e == doc.map[k].list[i]
                        IN IF IsMap(e) THEN With(e, "labels", LabelsOf(e, g))
                           ELSE e])])

-----------------------------------------------------------------------------
NoInstance == [success |-> FALSE, hasCommit |-> FALSE, commitHash |-> Null,
               CommittedCerts |-> {}, lastCommit |-> Null]

Init ==
    /\ sources \in [SourceFile -> UNION {Contents[f] : f \in SourceFile}]
    /\ \A f \in SourceFile : sources[f] \in Contents[f]
    /\ env = [d \in Dir |-> Absent]
    /\ disk = CertFiles
    /\ pc = "idle" /\ roots = <<>> /\ listed = {}
    /\ envCache = Empty /\ snippets = Empty /\ todo = {}
    /\ instance = [g \in Gateway |-> NoInstance]
    /\ published = [g \in Gateway |-> Null]
    /\ track = Empty
    /\ envSeen = [d \in Dir |-> {}]
    /\ edits = 0 /\ faults = 0

-----------------------------------------------------------------------------
(***************************************************************************)
(* The world outside.                                                      *)
(***************************************************************************)

EditSource(f, content) ==
    /\ edits < MaxEdits
    /\ content # sources[f]
    /\ sources' = [sources EXCEPT ![f] = content]
    /\ edits' = edits + 1
    /\ UNCHANGED <<env, disk, pc, cycleVars, outVars, envSeen, faults>>

EditEnv(d, content) ==
    /\ edits < MaxEdits
    /\ content # env[d]
    /\ env' = [env EXCEPT ![d] = content]
    /\ envSeen' = [envSeen EXCEPT ![d] = @ \union {content}]
    /\ edits' = edits + 1
    /\ UNCHANGED <<sources, disk, pc, cycleVars, outVars, faults>>

\* A certificate file is removed, or put back.
EditDisk(path) ==
    /\ edits < MaxEdits
    /\ disk' = IF path \in disk THEN disk \ {path} ELSE disk \union {path}
    /\ edits' = edits + 1
    /\ UNCHANGED <<sources, env, pc, cycleVars, outVars, envSeen, faults>>

\* Certmagic obtains a certificate it has been asked for, and the update loop
\* puts it into the track.
Issue(k) ==
    /\ k \in DOMAIN track /\ track[k] = NotIssued
    /\ track' = [track EXCEPT ![k] = Pair(k)]
    /\ UNCHANGED <<diskVars, pc, cycleVars, instance, published, envSeen,
                   edits, faults>>

-----------------------------------------------------------------------------
(***************************************************************************)
(* A cycle.                                                                *)
(***************************************************************************)

Start ==
    /\ pc = "idle"
    /\ pc' = "enumerate"
    /\ roots' = Roots /\ listed' = {} /\ snippets' = Empty
    /\ UNCHANGED <<diskVars, envCache, todo, outVars, envSeen, edits, faults>>

\* Mutant: what was read of the variables in an earlier cycle is kept.
KeepCache(root) == envCache

\* envInput.Enumerate forgets the variables of the root.
FreshCache(root) ==
    [d \in {x \in DOMAIN envCache : x[1] # root} |-> envCache[d]]

\* listYAMLFiles.
YAMLFiles(root) == {f \in SourceFile : RootOf[f] = root /\ sources[f] # Absent}

\* The YAML files of the next input directory are listed.
ListRoot ==
    /\ pc = "enumerate" /\ listed = {} /\ roots # <<>>
    /\ LET root == Head(roots) IN
       /\ envCache' = FreshCache(root)
       /\ envSeen' = [d \in Dir |->
                        IF d[1] = root THEN {env[d]} ELSE envSeen[d]]
       /\ listed' = YAMLFiles(root)
    /\ roots' = Tail(roots)
    /\ UNCHANGED <<diskVars, pc, snippets, todo, outVars, edits, faults>>

Abandon ==
    /\ pc' = "idle"
    /\ UNCHANGED <<snippets, listed>>

\* A file decodes into a snippet, of which a null document is dropped.
Decodes(f) == sources[f] \notin {EmptyFile, Malformed}

Snippet(f, raw) ==
    IF raw = Null THEN snippets
    ELSE Put(snippets, f,
             [raw |-> raw, text |-> sources[f], data |-> Fetched(raw)])

\* One fragment is read and decoded; the first error ends the cycle.
Fetch(f) ==
    /\ pc = "enumerate" /\ IsFirst(f, listed)
    /\ LET vars_ == CachedEnv(Place(f)) IN
       /\ envCache' = Put(envCache, Place(f), vars_)
       /\ IF vars_ = Malformed \/ sources[f] = Absent \/ ~Decodes(f)
          THEN Abandon
          ELSE /\ listed' = listed \ {f}
               /\ snippets' = Snippet(f, Substituted(sources[f], EnvVars(vars_)))
               /\ pc' = pc
    /\ UNCHANGED <<diskVars, roots, todo, outVars, envSeen, edits, faults>>

\* The gateways of what was fetched; their order is that of a Go map.
Group ==
    /\ pc = "enumerate" /\ listed = {} /\ roots = <<>>
    /\ todo' = UNION {Hierarchy(DirOf[f]) : f \in DOMAIN snippets}
    /\ pc' = IF todo' = {} THEN "idle" ELSE "gateways"
    /\ UNCHANGED <<diskVars, roots, listed, envCache, snippets, outVars,
                   envSeen, edits, faults>>

\* Mutant: the merged document shares the entries of the fragments.
SharedAlways(g, certs) ==
    [f \in DOMAIN snippets |->
        IF f \in Own(g)
        THEN [snippets[f] EXCEPT !.data =
                Inline(@, certs, Providers, DefaultProvider)]
        ELSE snippets[f]]

\* The entries of ssls are never merged with others: without the deep copy the
\* plugin replaces the texts in the fragments themselves, which the gateways
\* handled later still have to merge.
AfterInline(g, certs) ==
    IF EnableLabels THEN snippets ELSE SharedAlways(g, certs)

\* What the gateway is left with when a stage fails: nothing is committed.
Refused(g) ==
    /\ instance' = [instance EXCEPT ![g].success = FALSE]
    /\ UNCHANGED published

Cached(g, payload) ==
    instance[g].hasCommit /\ instance[g].commitHash = payload

\* The validator and the reloader accept the payload, and it is committed with
\* the certificates recorded for it.
Publish(g, payload, record) ==
    LET out == IF Cached(g, payload) THEN instance[g].lastCommit ELSE payload
    IN /\ published' = [published EXCEPT ![g] = out]
       /\ instance' = [instance EXCEPT ![g] =
            [success |-> TRUE, hasCommit |-> TRUE, commitHash |-> payload,
             CommittedCerts |-> record, lastCommit |-> out]]

\* The trackings the plugin asks certificates for.
Asked(g) ==
    LET merged == Merged(Data(Own(g))) IN
    IF merged = Error \/ UpdateFails(merged) THEN {}
    ELSE LiveKeys(merged, Providers, DefaultProvider)

\* The document of a gateway with its certificates and labels.
Rendered(g, certs) ==
    LET merged == Merged(Data(Own(g))) IN
    IF merged = Error \/ UpdateFails(merged) THEN Error
    ELSE AddLabels(Inline(merged, certs, Providers, DefaultProvider), g)

\* handleGateway.  A certificate that is tracked is not asked for again; of the
\* others certmagic refuses those of failed.  The ones of arrived are received
\* before the timeout, a certificate that certmagic has to obtain first
\* perhaps among them.
Handle(g, failed, arrived, accepted) ==
    LET new == Asked(g) \ DOMAIN track
        refused == failed \union {k \in new : Unreadable(k)}
        record == Asked(g) \ refused
        tracked == [k \in DOMAIN track \union record |->
                        IF k \in arrived \/ (k \in new /\ ~IsACME(k)) THEN Pair(k)
                        ELSE IF k \in new THEN NotIssued ELSE track[k]]
        late == {k \in record \ arrived : tracked[k] # NotIssued}
        certs == [k \in arrived |-> Pair(k)]
        payload == Rendered(g, certs)
        hit == Cached(g, payload) /\ instance[g].success
    IN /\ pc = "gateways" /\ g \in todo
       /\ failed \subseteq {k \in new : IsACME(k)}
       /\ arrived \subseteq record
       /\ ~accepted => payload # Error /\ ~hit
       /\ todo' = todo \ {g}
       /\ pc' = IF todo = {g} THEN "idle" ELSE pc
       /\ track' = tracked
       /\ snippets' = IF payload = Error THEN snippets ELSE AfterInline(g, certs)
       /\ faults' = faults + Cardinality(failed) + Cardinality(late)
                      + (IF accepted THEN 0 ELSE 1)
       /\ faults' <= MaxFaults
       /\ IF payload = Error \/ ~accepted THEN Refused(g)
          ELSE IF hit THEN UNCHANGED <<instance, published>>
          ELSE Publish(g, payload, record)
       /\ UNCHANGED <<diskVars, roots, listed, envCache, envSeen, edits>>

Next ==
    \/ \E f \in SourceFile : \E c \in Contents[f] : EditSource(f, c)
    \/ \E d \in Dir : \E c \in EnvContents : EditEnv(d, c)
    \/ \E p \in CertFiles : EditDisk(p)
    \/ \E k \in DOMAIN track : Issue(k)
    \/ Start
    \/ ListRoot
    \/ \E f \in listed : Fetch(f)
    \/ Group
    \/ \E g \in todo :
          \E failed \in SUBSET Asked(g) : \E arrived \in SUBSET Asked(g) :
            \E accepted \in BOOLEAN : Handle(g, failed, arrived, accepted)

Spec == Init /\ [][Next]_vars

-----------------------------------------------------------------------------
(***************************************************************************)
(* Properties.                                                             *)
(***************************************************************************)

\* How many entries of a top-level list have no identifier.
Untagged(doc, kind) ==
    IF kind \in DOMAIN doc.map /\ IsList(doc.map[kind])
    THEN Len(Tails(doc.map[kind].list, DefaultMergingRules.Children[kind]))
    ELSE 0

\* The merge of the fragments of a gateway, whatever their order: it fails if
\* and only if two of them hold what cannot be in one document, and otherwise
\* it holds every member of every fragment and nothing else, the entries of one
\* identifier made into one and those without any kept apart (README.md, the
\* merge rules; compiler.go, Merge).
MergeReference ==
    \A g \in todo :
        LET docs == Data(Own(g))
            merged == Merged(docs)
            members == [f \in DOMAIN docs |-> Members(docs[f])]
        IN /\ merged = Error <=>
                \E f, h \in DOMAIN docs : f # h /\
                    \E m \in members[f], n \in members[h] : Apart(m, n)
           /\ merged # Error =>
                /\ Members(merged) = UNION {members[f] : f \in DOMAIN docs}
                /\ \A kind \in DOMAIN DefaultMergingRules.Children :
                     Untagged(merged, kind) =
                        SumFunction([f \in DOMAIN docs |-> Untagged(docs[f], kind)])

\* The fragments of a directory that one cycle fetched were all given the
\* variables of one version of its file, which it had at some time since the
\* cycle listed the directory: the file changes while fragments are read, and
\* the cache is kept from one cycle to the next (env.go, Enumerate and Open).
EnvCurrent ==
    \A d \in Dir :
        LET here == {f \in DOMAIN snippets : Place(f) = d} IN
        here # {} => \E e \in envSeen[d] \ {Malformed} :
            \A f \in here :
                snippets[f].raw = Substituted(snippets[f].text, EnvVars(e))

\* The certificate whose halves the texts of a pair are.
HeldIn(pair) ==
    IF "pem" \notin DOMAIN pair[1] \/ "pem" \notin DOMAIN pair[2] THEN {}
    ELSE IF IsACME(pair[1].pem) THEN {[acme |-> pair[1].pem.acme]}
    ELSE IF "file" \in DOMAIN pair[1].pem
    THEN {[files |-> <<pair[1].pem.file, pair[2].pem.file>>]} ELSE {}

\* The certificates that the entries of ssls hold.
HeldBy(doc) ==
    IF ~IsMap(doc) \/ ~HasSSLs(doc) THEN {}
    ELSE UNION {UNION {HeldIn(Pairs(e.map)[n]) : n \in DOMAIN Pairs(e.map)}
                    : e \in ToSet(doc.map["ssls"].list)}

\* What a fragment may be read as, and some of them together.
ReadAs(f) ==
    {Substituted(c, EnvVars(e)) :
        c \in Contents[f] \ {Absent, EmptyFile, Malformed},
        e \in (EnvContents \union {Absent}) \ {Malformed}} \ {Null}

Documented ==
    UNION {{t \in [D -> UNION {ReadAs(f) : f \in D}] : \A f \in D : t[f] \in ReadAs(f)}
            : D \in (SUBSET SourceFile) \ {{}}}

\* Fragments are maps and so is their merge; a text written in one is text, only
\* the plugin puts certificates in.
ASSUME DocumentsAssumption ==
    \A t \in Documented :
        Merged(t) # Error => IsMap(Merged(t)) /\ HeldBy(Merged(t)) = {}

\* What sixpack itself puts into the entries of a list.
OwnTexts(kind) ==
    IF kind = "ssls" THEN {"cert", "key", "certs", "keys"} ELSE {}

OwnLabels == {"managed-by", "sixpack-label"}

\* The labels of an entry without those of sixpack.
OtherLabels(labels) ==
    IF ~IsMap(labels) THEN labels
    ELSE Map([l \in DOMAIN labels.map \ OwnLabels |-> labels.map[l]])

StrippedEntry(kind, e) ==
    LET labels == OtherLabels(Member(e, "labels"))
        put == OwnTexts(kind) \union
                 (IF labels \in {Null, Map(Empty)} THEN {"labels"} ELSE {})
    IN IF ~IsMap(e) THEN e
       ELSE Map([a \in DOMAIN e.map \ put |->
                    IF a = "labels" THEN labels ELSE e.map[a]])

\* A document without what sixpack itself puts there: the texts of
\* certificates and its labels.
Stripped(doc) ==
    IF ~IsMap(doc) THEN doc
    ELSE Map([k \in DOMAIN doc.map |->
            IF ~Labelled(k, doc.map[k]) THEN doc.map[k]
            ELSE List([i \in DOMAIN doc.map[k].list |->
                    StrippedEntry(k, doc.map[k].list[i])])])

Plain(doc) == Members(Stripped(doc))

\* Every entry that can have labels has those of the gateway.
LabelledFor(doc, g) ==
    \A k \in DOMAIN doc.map : Labelled(k, doc.map[k]) =>
        \A e \in ToSet(doc.map[k].list) : IsMap(e) =>
            LET labels == Member(e, "labels") IN
            /\ IsMap(labels)
            /\ \A l \in OwnLabels : l \in DOMAIN labels.map
                                    /\ labels.map[l] = ManagedLabels(g)[l]

\* A merge that succeeds holds what the fragments hold, whatever sixpack is
\* going to put over it.
ASSUME MergeAssumption ==
    \A t \in Documented :
        Merged(t) # Error =>
            Plain(Merged(t)) = UNION {Plain(t[f]) : f \in DOMAIN t}

\* Every certificate in a published configuration is in the record of some
\* gateway (serializer_factory.go:77, "Global records of last committed
\* certs"): the upkeep gives up those in no record (tracker.go, Commit), and a
\* cycle that changes nothing or fails leaves its own record out.
CertificatesCommitted ==
    UNION {HeldBy(published[g]) : g \in Gateway}
        \subseteq UNION {instance[g].CommittedCerts : g \in Gateway}

\* What is published for a gateway is what the fragments hold that its cycle
\* read: no member is lost, none comes from an earlier cycle, from another
\* gateway or from the defaults of the schema; and with the plugin every entry
\* that can have labels says which gateway it is for, this one.
PublishedFromSources ==
    [][\A g \in Gateway : published'[g] # published[g] =>
        /\ Plain(published'[g]) = UNION {Plain(snippets[f].raw) : f \in Own(g)}
        /\ EnableLabels => LabelledFor(published'[g], g)]_vars

\* README.md:78-92: an entry whose certificate is a file is published with the
\* certificate in the place of the reference; the example has nothing else.
FileReferencesReplaced ==
    \A g \in Gateway : published[g] # Null =>
        \A m \in Members(published[g]) : "file" \notin DOMAIN m[2]
=============================================================================
