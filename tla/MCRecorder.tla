------------------------------ MODULE MCRecorder ----------------------------
(***************************************************************************)
(* The instance of Recorder that TLC checks: two fragments of one leaf      *)
(* gateway and one of its parent, two clients, a schema with plugins.       *)
(***************************************************************************)
EXTENDS Recorder

CONSTANTS c1, c2

MCFiles == <<"f1", "f2">>
Parent == <<"d">>
Child == <<"d", "e">>
MCHierarchyOf == [f1 |-> {Parent}, f2 |-> {Parent, Child}]

Route(id, members) == Map(("id" :> id) @@ members)
Routes(list) == Map([routes |-> List(list)])

\* A route shared by both fragments, and one that changes its place.
One == Routes(<<Route(Int64(1), [uri |-> Str("/a")])>>)
Two == Routes(<<Route(Str("1"), [hosts |-> List(<<Str("h")>>)]),
                Route(Str("2"), [plugins |-> Map(("a/b" :> Map(Empty)))])>>)
Three == Routes(<<Route(Str("2"), [uri |-> Str("/b")])>>)
MCContents == [f1 |-> {One, Three, Absent}, f2 |-> {Two, Malformed, Absent}]

Spelling == ("a/b" :> <<"a", "/", "b">>) @@ ("~c" :> <<"~", "c">>)

Schemas == INSTANCE Schema

Plugin ==
    Map([schema |-> Map([properties |->
        Map([limit |-> Map([default |-> Map(Empty), properties |->
                Map([count |-> Map([default |-> Int64(1)])])])])])])

\* APISIX's answer; then one that is not a schema.
MCRawSchemas ==
    {Map([main |-> Map([route |-> Map([properties |->
                Map([id |-> Map([anyOf |-> List(<<Map([type |-> Str("string")]),
                                        Map([type |-> Str("integer")])>>)]),
                     status |-> Map([default |-> Int64(1),
                                     minimum |-> Schemas!Digits(0)]),
                     plugins |-> Map(Empty)])])]),
          plugins |-> Map(("a/b" :> Plugin) @@ ("~c" :> Plugin)),
          stream_plugins |-> Map(Empty)]),
     Map([message |-> Str("not ready")])}

MCNormalized(doc, strict) == Schemas!NormalizeSchema(doc, strict)
MCCompiled(schema) == Schemas!Compiles(schema)
MCWithDefaults(schema, doc) == Schemas!ApplyDefaults(schema, doc)

Docs == INSTANCE Transforms
MCMerged(fragments) == Docs!MergeFiles(MCFiles, fragments)
MCMembers(doc) == Docs!AllLeaves(doc)

Resource ==
    {[kind |-> "list"], [kind |-> "source", file |-> "f1"],
     [kind |-> "index", gateway |-> Parent],
     [kind |-> "config", gateway |-> Parent, object |-> <<"routes", "1">>]}
Nothing == [kind |-> "none"]

\* A client that looks at one resource while the fragments change; and two that
\* need the schema.
MCScenarios ==
    {[url |-> (c1 :> u) @@ (c2 :> Nothing), MaxEdits |-> 2, MaxCycles |-> 3]
        : u \in Resource}
    \union
    {[url |-> (c1 :> [kind |-> "validate", file |-> "f2"])
                @@ (c2 :> [kind |-> "schema"]),
      MaxEdits |-> 0, MaxCycles |-> 1]}
=============================================================================
