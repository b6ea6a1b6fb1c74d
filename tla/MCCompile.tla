------------------------------ MODULE MCCompile -----------------------------
(***************************************************************************)
(* The instances of Compile that TLC checks: two input directories, the     *)
(* fragments of the first for the gateway d alone, those of the second for  *)
(* d.e and d.                                                              *)
(***************************************************************************)
EXTENDS Compile

MCRoots == <<"r1", "r2">>
MCFiles == <<"f1", "f2", "f3">>
MCRootOf == [f1 |-> "r1", f2 |-> "r2", f3 |-> "r2"]
MCDirOf == [f1 |-> <<"base">>, f2 |-> <<"d", "e">>, f3 |-> <<"d", "e">>]
MCVirtualgw == <<"", "d">>

One(kind, entries) == Map(kind :> List(entries))
Name == [env |-> <<"NAME", Str("none")>>]

Route(id, uri) == Map([id |-> id, uris |-> List(<<Str(uri)>>)])
Upstream(id, nodes) == Map([id |-> Str(id), nodes |-> Str(nodes)])

\* A route whose identifier is a number, and one without, that has a label.
Base1 ==
    Map([routes |-> List(<<Route(Int64(1), "/a"), Map([name |-> Str("x"), labels |->
                                Map([team |-> Str("t")])])>>),
         upstreams |-> List(<<Upstream("u", "n1")>>)])
Base2 ==
    Map([upstreams |-> List(<<Upstream("w", "n1")>>),
         consumers |-> List(<<Map([username |-> Str("c"), credentials |->
                List(<<Map([credential_id |-> Str("k1")])>>)])>>)])

\* The same route with a variable in it, and an entry with a certificate of
\* certmagic.
Leaf1 ==
    Map([routes |-> List(<<Map([id |-> Str("1"), name |-> Name,
                                uris |-> List(<<Str("/a"), Str("/b")>>)])>>),
         ssls |-> List(<<Map([id |-> Str("s"), cert |-> Acme(""),
                              key |-> Str("ignored"),
                              snis |-> List(<<Str("x.org")>>)])>>)])
Leaf2 ==
    Map([consumers |-> List(<<Map([username |-> Str("c"), credentials |->
                List(<<Map([credential_id |-> Str("k2")])>>)])>>),
         upstreams |-> List(<<Upstream("u", "n1")>>)])

\* A certificate from files, and another entry without an identifier.
Other1 ==
    Map([routes |-> List(<<Map([name |-> Name])>>),
         ssls |-> List(<<Map([certs |-> List(<<File(<<"c.pem">>)>>),
                              keys |-> List(<<File(<<".", "c.key">>)>>)])>>)])

MCContents ==
    [f1 |-> {Base1, Base2, Malformed},
     f2 |-> {Leaf1, Leaf2},
     f3 |-> {Other1, Absent}]

MCEnvContents == {[NAME |-> Str("prod")], Malformed}
MCBaseEnv == [HOME |-> Str("/")]
MCCertFiles == {<<"c.pem">>, <<"c.key">>}
MCProviders == {"letsencrypt"}

\* The example of README.md:78-82.
Example == One("ssls", <<Map([cert |-> File(<<"c.pem">>)])>>)
MCContentsExample ==
    [f1 |-> {Example}, f2 |-> {Leaf1}, f3 |-> {Absent, Other1}]

\* The schema of APISIX: a route has a default.
Schemas == INSTANCE Schema WITH Spelling <- Empty
RouteSchema ==
    Map([items |-> Map([properties |->
        Map([status |-> Map([default |-> Int64(1)])])])])
Defaults == Schemas!Object([routes |-> RouteSchema])

Docs == INSTANCE Transforms
MCMerged(fragments) == Docs!MergeFiles(MCFiles, fragments)
MCSubstituted(doc, vars_) == Docs!Substitute(doc, vars_)
MCWithDefaults(doc) == Schemas!ApplyDefaults(Defaults, doc)
MCMembers(doc) == Docs!AllLeaves(doc)
=============================================================================
