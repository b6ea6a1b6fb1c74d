---------------------------- MODULE CompileProofs ----------------------------
(***************************************************************************)
(* Proofs about Compile.  The variables of a directory: the cache of the    *)
(* variables, kept from one cycle to the next, only gives a fragment what   *)
(* its file was since the directory was listed, and every fragment of the   *)
(* directory the same.  The certificates: those in a published              *)
(* configuration are the ones that arrived for it, all of them recorded     *)
(* with its commit.  The rest: certificates and labels put aside, a         *)
(* published configuration has the members of the fragments read for it.   *)
(***************************************************************************)
EXTENDS Compile, TLAPS

SnippetFields == {"raw", "text", "data"}

-----------------------------------------------------------------------------
(***************************************************************************)
(* The variables.                                                          *)
(***************************************************************************)

\* No directory is listed twice in a cycle, nor one that was read from.
RootsInv ==
    /\ roots \in Seq(ToSet(Roots)) /\ IsInjective(roots)
    /\ \A f \in listed \union DOMAIN snippets :
            \A i \in DOMAIN roots : roots[i] # RootOf[f]

\* A file of variables is, and is remembered as, what it was since the listing.
ListedInv ==
    /\ DOMAIN env = Dir /\ DOMAIN envSeen = Dir
    /\ listed \subseteq SourceFile
    /\ \A f \in listed :
        /\ env[Place(f)] \in envSeen[Place(f)]
        /\ Place(f) \in DOMAIN envCache =>
                envCache[Place(f)] \in envSeen[Place(f)]

\* What was read is what the remembered variables make of it.
ReadInv ==
    /\ DOMAIN snippets \subseteq SourceFile
    /\ \A f \in DOMAIN snippets :
        /\ DOMAIN snippets[f] = SnippetFields
        /\ Place(f) \in DOMAIN envCache
        /\ envCache[Place(f)] \in envSeen[Place(f)] \ {Malformed}
        /\ snippets[f].raw =
                Substituted(snippets[f].text, EnvVars(envCache[Place(f)]))

EnvInv == RootsInv /\ ListedInv /\ ReadInv

LEMMA PlaceIsDir == \A f \in SourceFile : Place(f) \in Dir
  BY DEF Dir

\* Certificates change nothing of what a snippet was read from.
LEMMA AfterInlineKeepsText ==
    ASSUME NEW g, NEW certs,
           \A f \in DOMAIN snippets : DOMAIN snippets[f] = SnippetFields
    PROVE  /\ DOMAIN AfterInline(g, certs) = DOMAIN snippets
           /\ \A f \in DOMAIN snippets :
                /\ DOMAIN AfterInline(g, certs)[f] = SnippetFields
                /\ AfterInline(g, certs)[f].raw = snippets[f].raw
                /\ AfterInline(g, certs)[f].text = snippets[f].text
  BY DEF AfterInline, SharedAlways, SnippetFields

LEMMA TailOfRoots ==
    ASSUME RootsInv, roots # <<>>
    PROVE  /\ Tail(roots) \in Seq(ToSet(Roots)) /\ IsInjective(Tail(roots))
           /\ \A i \in DOMAIN Tail(roots) :
                /\ Tail(roots)[i] # Head(roots)
                /\ \E j \in DOMAIN roots : Tail(roots)[i] = roots[j]
<1> DEFINE S == ToSet(Roots)
<1>1. roots \in Seq(S) /\ IsInjective(roots)
  BY DEF RootsInv
<1> HIDE DEF S
<1>2. /\ Tail(roots) \in Seq(S) /\ 1 \in DOMAIN roots
      /\ Head(roots) = roots[1]
      /\ \A i \in DOMAIN Tail(roots) :
            i \in Int /\ i >= 1 /\ i + 1 \in DOMAIN roots
            /\ Tail(roots)[i] = roots[i + 1]
  BY <1>1
<1>3. IsInjective(Tail(roots))
  <2> SUFFICES ASSUME NEW i \in DOMAIN Tail(roots), NEW j \in DOMAIN Tail(roots),
                      Tail(roots)[i] = Tail(roots)[j]
               PROVE  i = j
    BY DEF IsInjective
  <2>1. roots[i + 1] = roots[j + 1]
    BY <1>2
  <2>2. i + 1 = j + 1
    BY <1>1, <1>2, <2>1 DEF IsInjective
  <2>3. QED
    BY <1>2, <2>2
<1>4. ASSUME NEW i \in DOMAIN Tail(roots)
      PROVE  /\ Tail(roots)[i] # Head(roots)
             /\ \E j \in DOMAIN roots : Tail(roots)[i] = roots[j]
  <2>1. i + 1 # 1
    BY <1>2
  <2>2. QED
    BY <1>1, <1>2, <2>1 DEF IsInjective
<1>5. QED
  BY <1>2, <1>3, <1>4 DEF S

LEMMA ListRootKeeps ==
    ASSUME EnvInv, ListRoot
    PROVE  EnvInv'
<1> USE DEF EnvInv
<1> DEFINE root == Head(roots)
<1>1. /\ roots # <<>> /\ listed = {}
      /\ envCache' = FreshCache(root)
      /\ envSeen' = [d \in Dir |-> IF d[1] = root THEN {env[d]} ELSE envSeen[d]]
      /\ listed' = YAMLFiles(root)
      /\ roots' = Tail(roots)
      /\ snippets' = snippets /\ env' = env
  BY DEF ListRoot, diskVars
<1>2. \A f \in listed' : f \in SourceFile /\ RootOf[f] = root
  BY <1>1 DEF YAMLFiles
<1>3. \A f \in DOMAIN snippets : RootOf[f] # root
  <2>1. roots \in Seq(ToSet(Roots))
    BY DEF RootsInv
  <2>2. 1 \in DOMAIN roots /\ root = roots[1]
    BY <1>1, <2>1
  <2>3. QED
    BY <2>2 DEF RootsInv
<1>4. RootsInv'
  BY <1>1, <1>2, TailOfRoots DEF RootsInv
<1>5. \A f : Place(f)[1] = RootOf[f]
  BY DEF Place
<1>6. ListedInv'
  BY <1>1, <1>2, <1>5, PlaceIsDir DEF ListedInv, FreshCache
<1>7. ReadInv'
  BY <1>1, <1>3, <1>5, PlaceIsDir DEF ReadInv, FreshCache, ListedInv
<1>8. QED
  BY <1>4, <1>6, <1>7

LEMMA FetchKeeps ==
    ASSUME EnvInv, NEW f \in listed, Fetch(f)
    PROVE  EnvInv'
<1> USE DEF EnvInv
<1> DEFINE d == Place(f)
           e == CachedEnv(d)
           raw == Substituted(sources[f], EnvVars(e))
<1>1. /\ envCache' = Put(envCache, d, e)
      /\ env' = env /\ envSeen' = envSeen /\ roots' = roots
  BY DEF Fetch, diskVars
<1>2. f \in SourceFile /\ e \in envSeen[d]
  BY DEF ListedInv, CachedEnv
<1>3. /\ d \in DOMAIN envCache' /\ envCache'[d] = e
      /\ \A x \in DOMAIN envCache : x \in DOMAIN envCache'
                                    /\ envCache'[x] = envCache[x]
      /\ \A x \in DOMAIN envCache' : x = d \/ x \in DOMAIN envCache
  BY <1>1 DEF Put, CachedEnv
<1>4. \/ listed' = listed /\ snippets' = snippets
      \/ /\ listed' = listed \ {f} /\ e # Malformed
         /\ \/ snippets' = snippets
            \/ snippets' = Put(snippets, f, [raw |-> raw, text |-> sources[f],
                                             data |-> Fetched(raw)])
  BY DEF Fetch, Abandon, Snippet
<1>5. RootsInv'
  <2>1. listed' \union DOMAIN snippets' \subseteq listed \union DOMAIN snippets
    BY <1>4 DEF Put
  <2>2. QED
    BY <1>1, <2>1 DEF RootsInv
<1>6. ListedInv'
  <2>1. listed' \subseteq listed
    BY <1>4
  <2>2. QED
    BY <1>1, <1>2, <1>3, <2>1 DEF ListedInv
<1>7. ReadInv'
  <2>1. \A x \in DOMAIN snippets :
            /\ Place(x) \in DOMAIN envCache'
            /\ envCache'[Place(x)] = envCache[Place(x)]
    BY <1>3 DEF ReadInv
  <2>2. CASE snippets' = snippets
    BY <1>1, <2>1, <2>2 DEF ReadInv
  <2>3. CASE /\ e # Malformed
             /\ snippets' = Put(snippets, f, [raw |-> raw, text |-> sources[f],
                                              data |-> Fetched(raw)])
    <3>1. /\ DOMAIN snippets' = DOMAIN snippets \union {f}
          /\ snippets'[f] = [raw |-> raw, text |-> sources[f],
                             data |-> Fetched(raw)]
          /\ \A x \in DOMAIN snippets \ {f} : snippets'[x] = snippets[x]
      BY <2>3 DEF Put
    <3>2. /\ DOMAIN snippets'[f] = SnippetFields
          /\ snippets'[f].raw = Substituted(snippets'[f].text,
                                            EnvVars(envCache'[d]))
      BY <1>3, <3>1 DEF SnippetFields
    <3>3. envCache'[d] \in envSeen'[d] \ {Malformed}
      BY <1>1, <1>2, <1>3, <2>3
    <3>4. \A x \in DOMAIN snippets \ {f} :
            /\ DOMAIN snippets'[x] = SnippetFields
            /\ envCache'[Place(x)] \in envSeen'[Place(x)] \ {Malformed}
            /\ snippets'[x].raw = Substituted(snippets'[x].text,
                                              EnvVars(envCache'[Place(x)]))
      BY <1>1, <2>1, <3>1 DEF ReadInv
    <3>5. QED
      BY <1>2, <1>3, <2>1, <3>1, <3>2, <3>3, <3>4 DEF ReadInv
  <2>4. QED
    BY <1>4, <2>2, <2>3
<1>8. QED
  BY <1>5, <1>6, <1>7

LEMMA EnvInvariant == Spec => []EnvInv
<1>1. Init => EnvInv
  BY DEF Init, EnvInv, RootsInv, ListedInv, ReadInv, Empty, IsInjective
<1>2. EnvInv /\ [Next]_vars => EnvInv'
  <2> SUFFICES ASSUME EnvInv, [Next]_vars PROVE EnvInv'
    OBVIOUS
  <2> USE DEF diskVars, cycleVars, outVars
  <2>1. ASSUME NEW d \in Dir, NEW c \in EnvContents, EditEnv(d, c)
        PROVE  EnvInv'
    <3>1. /\ env' = [env EXCEPT ![d] = c]
          /\ envSeen' = [envSeen EXCEPT ![d] = @ \union {c}]
          /\ UNCHANGED <<roots, listed, envCache, snippets>>
      BY <2>1 DEF EditEnv
    <3>2. /\ DOMAIN env' = Dir /\ DOMAIN envSeen' = Dir
          /\ env'[d] = c /\ c \in envSeen'[d]
          /\ \A x \in Dir : envSeen[x] \subseteq envSeen'[x]
          /\ \A x \in Dir \ {d} : env'[x] = env[x]
      BY <3>1 DEF EnvInv, ListedInv
    <3>3. RootsInv'
      BY <3>1 DEF EnvInv, RootsInv
    <3>4. ListedInv'
      BY <3>1, <3>2, PlaceIsDir DEF EnvInv, ListedInv
    <3>5. ReadInv'
      BY <3>1, <3>2, PlaceIsDir DEF EnvInv, ReadInv
    <3>6. QED
      BY <3>3, <3>4, <3>5 DEF EnvInv
  <2>2. CASE Start
    <3>1. /\ roots' = Roots /\ listed' = {} /\ snippets' = Empty
          /\ UNCHANGED <<env, envSeen, envCache>>
      BY <2>2 DEF Start
    <3>2. RootsInv'
      BY <3>1, CompileAssumption DEF RootsInv, Empty
    <3>3. QED
      BY <3>1, <3>2 DEF EnvInv, ListedInv, ReadInv, Empty
  <2>3. CASE ListRoot
    BY <2>3, ListRootKeeps
  <2>4. ASSUME NEW f \in listed, Fetch(f) PROVE EnvInv'
    BY <2>4, FetchKeeps
  <2>5. ASSUME NEW g \in todo, NEW failed, NEW arrived, NEW accepted,
               Handle(g, failed, arrived, accepted)
        PROVE  EnvInv'
    <3>1. /\ UNCHANGED <<env, envSeen, envCache, roots, listed>>
          /\ \/ snippets' = snippets
             \/ \E certs : snippets' = AfterInline(g, certs)
      BY <2>5 DEF Handle
    <3>2. /\ DOMAIN snippets' = DOMAIN snippets
          /\ \A f \in DOMAIN snippets :
                /\ DOMAIN snippets'[f] = SnippetFields
                /\ snippets'[f].raw = snippets[f].raw
                /\ snippets'[f].text = snippets[f].text
      BY <3>1, AfterInlineKeepsText DEF EnvInv, ReadInv
    <3>3. RootsInv' /\ ListedInv'
      BY <3>1, <3>2 DEF EnvInv, RootsInv, ListedInv
    <3>4. ReadInv'
      BY <3>1, <3>2 DEF EnvInv, ReadInv
    <3>5. QED
      BY <3>3, <3>4 DEF EnvInv
  <2>6. CASE \/ \E f \in SourceFile : \E c \in Contents[f] : EditSource(f, c)
             \/ \E p \in CertFiles : EditDisk(p)
             \/ \E k \in DOMAIN track : Issue(k)
             \/ Group
             \/ UNCHANGED vars
    <3>1. UNCHANGED <<env, envSeen, envCache, roots, listed, snippets>>
      BY <2>6 DEF EditSource, EditDisk, Issue, Group, vars
    <3>2. QED
      BY <3>1 DEF EnvInv, RootsInv, ListedInv, ReadInv
  <2>7. QED
    BY <2>1, <2>2, <2>3, <2>4, <2>5, <2>6 DEF Next
<1>3. QED
  BY <1>1, <1>2, PTL DEF Spec

\* The fragments of a directory are all read with one version of its variables,
\* one that the file had while the cycle read it.
THEOREM OneVersionOfVariables == Spec => []EnvCurrent
<1>1. EnvInv => EnvCurrent
  <2> SUFFICES ASSUME EnvInv, NEW d \in Dir,
                      NEW f \in DOMAIN snippets, Place(f) = d
               PROVE  \E e \in envSeen[d] \ {Malformed} :
                        \A h \in {x \in DOMAIN snippets : Place(x) = d} :
                            snippets[h].raw = Substituted(snippets[h].text, EnvVars(e))
    BY DEF EnvCurrent
  <2>1. envCache[d] \in envSeen[d] \ {Malformed}
    BY DEF EnvInv, ReadInv
  <2> WITNESS envCache[d] \in envSeen[d] \ {Malformed}
  <2>2. QED
    BY DEF EnvInv, ReadInv
<1>2. QED
  BY <1>1, EnvInvariant, PTL

-----------------------------------------------------------------------------
(***************************************************************************)
(* The pairs of an entry.                                                  *)
(***************************************************************************)

\* The texts of an entry that the pairs are made of.
PairKeys == {"cert", "key", "certs", "keys"}

LEMMA PairsOfTheirTexts ==
    ASSUME NEW e, NEW h,
           \A k \in PairKeys : k \in DOMAIN h <=> k \in DOMAIN e,
           \A k \in PairKeys \intersect DOMAIN e : h[k] = e[k]
    PROVE  Pairs(h) = Pairs(e)
<1>1. SinglePair(h) = SinglePair(e)
  BY DEF SinglePair, PairKeys
<1>2. ListPairs(h) = ListPairs(e)
  BY DEF ListPairs, PairKeys
<1>3. QED
  BY <1>1, <1>2 DEF Pairs

\* A pair of an entry with its certificates in place is the replacement of a
\* pair it had before.
LEMMA InlinePairs ==
    ASSUME NEW entry, NEW certs, NEW n,
           n \in DOMAIN Pairs(InlineEntry(entry, certs, Providers, DefaultProvider))
    PROVE  LET pair == Pairs(InlineEntry(entry, certs, Providers,
                                         DefaultProvider))[n]
               R(m) == Replacement(entry, m, certs, Providers, DefaultProvider)
           IN \E m \in DOMAIN Pairs(entry) :
                 pair[1] = R(m)[1] /\ pair[2] = R(m)[2]
<1> DEFINE R(m) == Replacement(entry, m, certs, Providers, DefaultProvider)
           new == InlineEntry(entry, certs, Providers, DefaultProvider)
           Half_(x) == List([m \in DOMAIN ListPairs(entry) |-> R(m)[x]])
<1>1. /\ DOMAIN new = DOMAIN entry
      /\ \A k \in DOMAIN entry :
            new[k] = IF k \in {"cert", "key"} /\ DOMAIN SinglePair(entry) # {}
                     THEN R(0)[IF k = "cert" THEN 1 ELSE 2]
                     ELSE IF k \in {"certs", "keys"} /\ ListPairs(entry) # <<>>
                     THEN Half_(IF k = "certs" THEN 1 ELSE 2)
                     ELSE entry[k]
  BY DEF InlineEntry
<1> HIDE DEF new, R
<1>2. \A m \in DOMAIN ListPairs(entry) \union DOMAIN SinglePair(entry) :
            m \in DOMAIN Pairs(entry)
  BY DEF Pairs, Union2
<1>3. ASSUME n \in DOMAIN SinglePair(new)
      PROVE  /\ n \in DOMAIN SinglePair(entry)
             /\ SinglePair(new)[n] = <<R(n)[1], R(n)[2]>>
  <2>1. /\ n = 0 /\ {"cert", "key"} \subseteq DOMAIN entry
        /\ IsText(new["cert"]) /\ IsText(new["key"])
        /\ SinglePair(new)[n] = <<new["cert"], new["key"]>>
    BY <1>1, <1>3 DEF SinglePair
  <2>2. DOMAIN SinglePair(entry) # {}
    <3> SUFFICES ASSUME DOMAIN SinglePair(entry) = {} PROVE FALSE
      OBVIOUS
    <3>1. new["cert"] = entry["cert"] /\ new["key"] = entry["key"]
      BY <1>1, <2>1
    <3>2. QED
      BY <2>1, <3>1 DEF SinglePair
  <2>3. n \in DOMAIN SinglePair(entry)
    BY <2>1, <2>2 DEF SinglePair
  <2>4. new["cert"] = R(0)[1] /\ new["key"] = R(0)[2]
    BY <1>1, <2>1, <2>2
  <2>5. QED
    BY <2>1, <2>3, <2>4
<1>4. ASSUME n \in DOMAIN ListPairs(new)
      PROVE  /\ n \in DOMAIN ListPairs(entry)
             /\ ListPairs(new)[n] = <<R(n)[1], R(n)[2]>>
  <2> DEFINE certs_ == AsStringSlice(new["certs"])
             keys_ == AsStringSlice(new["keys"])
  <2>1. /\ {"certs", "keys"} \subseteq DOMAIN entry
        /\ n \in DOMAIN certs_ /\ n \in DOMAIN keys_
        /\ ListPairs(new)[n] = <<certs_[n], keys_[n]>>
    BY <1>1, <1>4 DEF ListPairs
  <2>2. ListPairs(entry) # <<>>
    <3> SUFFICES ASSUME ListPairs(entry) = <<>> PROVE FALSE
      OBVIOUS
    <3>1. new["certs"] = entry["certs"] /\ new["keys"] = entry["keys"]
      BY <1>1, <2>1
    <3>2. ListPairs(new) = ListPairs(entry)
      BY <1>1, <2>1, <3>1 DEF ListPairs
    <3>3. QED
      BY <1>4, <3>2
  <2>3. new["certs"] = Half_(1) /\ new["keys"] = Half_(2)
    BY <1>1, <2>1, <2>2
  <2>4. certs_ = Half_(1).list /\ keys_ = Half_(2).list
    BY <2>1, <2>3 DEF AsStringSlice
  <2>5. QED
    BY <2>1, <2>4 DEF List
<1>5. /\ n \in DOMAIN SinglePair(new) \/ n \in DOMAIN ListPairs(new)
      /\ Pairs(new)[n] = IF n \in DOMAIN ListPairs(new) THEN ListPairs(new)[n]
                         ELSE SinglePair(new)[n]
  BY DEF Pairs, Union2, new
<1>6. n \in DOMAIN Pairs(entry) /\ Pairs(new)[n] = <<R(n)[1], R(n)[2]>>
  BY <1>2, <1>3, <1>4, <1>5
<1>7. QED
  BY <1>6 DEF new, R

-----------------------------------------------------------------------------
(***************************************************************************)
(* The certificates that a document holds.                                 *)
(***************************************************************************)

\* A tracking that certificates are asked for under.
IsKey(k) ==
    \/ \E x : k = [fallback |-> x]
    \/ \E x, y : k = [files |-> <<x, y>>]
    \/ \E x : k = [acme |-> x]

LEMMA ResolvedAreKeys ==
    ASSUME NEW entry, NEW pair,
           NEW k \in Resolve(Tracking(entry, pair), Providers, DefaultProvider)
    PROVE  IsKey(k)
<1>1. IsKey(Tracking(entry, pair))
  BY DEF Tracking, IsKey
<1>2. QED
  BY <1>1 DEF Resolve, IsKey

LEMMA AskedAreKeys ==
    ASSUME NEW g, NEW k \in Asked(g)
    PROVE  IsKey(k)
  BY ResolvedAreKeys DEF Asked, LiveKeys

\* The pair of a certificate holds that one, that of the fallback none.
LEMMA PairHolds ==
    ASSUME NEW k, IsKey(k)
    PROVE  HeldIn(Pair(k)) \subseteq {k}
<1>1. CASE \E x : k = [fallback |-> x]
  BY <1>1 DEF HeldIn, Pair, FallbackPair, PEM, IsACME
<1>2. CASE \E x, y : k = [files |-> <<x, y>>]
  <2> PICK x, y : k = [files |-> <<x, y>>]
    BY <1>2
  <2>1. Pair(k) = <<[pem |-> [file |-> x]], [pem |-> [file |-> y]]>>
    BY DEF Pair, Half, PEM
  <2>2. QED
    BY <2>1 DEF HeldIn, IsACME
<1>3. CASE \E x : k = [acme |-> x]
  <2> PICK x : k = [acme |-> x]
    BY <1>3
  <2>1. Pair(k) = <<[pem |-> [acme |-> x, half |-> "cert"]],
                    [pem |-> [acme |-> x, half |-> "key"]]>>
    BY DEF Pair, PEM
  <2>2. QED
    BY <2>1 DEF HeldIn, IsACME
<1>4. QED
  BY <1>1, <1>2, <1>3 DEF IsKey

LEMMA FallbackHoldsNone == HeldIn(FallbackPair) = {}
  BY DEF HeldIn, FallbackPair, PEM, IsACME

\* What replaces a pair holds nothing but certificates that arrived.
LEMMA ReplacementHolds ==
    ASSUME NEW entry, NEW m, HeldIn(Pairs(entry)[m]) = {},
           NEW arrived, \A k \in arrived : IsKey(k)
    PROVE  HeldIn(Replacement(entry, m, [k \in arrived |-> Pair(k)], Providers,
                              DefaultProvider)) \subseteq arrived
<1> DEFINE certs == [k \in arrived |-> Pair(k)]
           pair == Pairs(entry)[m]
           got == Resolve(Tracking(entry, pair), Providers, DefaultProvider)
                        \intersect DOMAIN certs
           new == Replacement(entry, m, certs, Providers, DefaultProvider)
<1>1. \/ new = pair
      \/ new = FallbackPair
      \/ got # {} /\ new = certs[CHOOSE k \in got : TRUE]
  BY DEF Replacement
<1>2. CASE got # {} /\ new = certs[CHOOSE k \in got : TRUE]
  <2> DEFINE k == CHOOSE x \in got : TRUE
  <2>1. k \in got
    BY <1>2
  <2>2. k \in arrived /\ new = Pair(k)
    BY <1>2, <2>1
  <2>3. QED
    BY <2>2, PairHolds
<1>3. QED
  BY <1>1, <1>2, FallbackHoldsNone

\* The certificates of the entries of a document.
HeldByEntry(e) == UNION {HeldIn(Pairs(e)[n]) : n \in DOMAIN Pairs(e)}

LEMMA HeldByEntries ==
    ASSUME NEW doc
    PROVE  HeldBy(doc) =
             IF ~IsMap(doc) \/ ~HasSSLs(doc) THEN {}
             ELSE UNION {HeldByEntry(doc.map["ssls"].list[i].map) :
                            i \in DOMAIN doc.map["ssls"].list}
<1> DEFINE S == doc.map["ssls"].list
<1>1. HeldBy(doc) = IF ~IsMap(doc) \/ ~HasSSLs(doc) THEN {}
                    ELSE UNION {HeldByEntry(e.map) : e \in ToSet(S)}
  BY DEF HeldBy, HeldByEntry
<1>2. {HeldByEntry(e.map) : e \in ToSet(S)} =
            {HeldByEntry(S[i].map) : i \in DOMAIN S}
  BY DEF ToSet
<1>3. QED
  BY <1>1, <1>2

LEMMA EntryHolds ==
    ASSUME NEW entry, HeldByEntry(entry) = {},
           NEW arrived, \A k \in arrived : IsKey(k)
    PROVE  HeldByEntry(InlineEntry(entry, [k \in arrived |-> Pair(k)], Providers,
                                   DefaultProvider)) \subseteq arrived
<1> DEFINE certs == [k \in arrived |-> Pair(k)]
           new == InlineEntry(entry, certs, Providers, DefaultProvider)
<1> SUFFICES ASSUME NEW n \in DOMAIN Pairs(new)
             PROVE  HeldIn(Pairs(new)[n]) \subseteq arrived
  BY DEF HeldByEntry
<1>1. PICK m \in DOMAIN Pairs(entry) :
        LET old == Replacement(entry, m, certs, Providers, DefaultProvider)
        IN Pairs(new)[n][1] = old[1] /\ Pairs(new)[n][2] = old[2]
  BY InlinePairs
<1>2. HeldIn(Pairs(new)[n]) =
        HeldIn(Replacement(entry, m, certs, Providers, DefaultProvider))
  BY <1>1 DEF HeldIn
<1>3. HeldIn(Pairs(entry)[m]) = {}
  BY DEF HeldByEntry
<1>4. QED
  BY <1>2, <1>3, ReplacementHolds

LEMMA InlineHolds ==
    ASSUME NEW doc, IsMap(doc), HeldBy(doc) = {},
           NEW arrived, \A k \in arrived : IsKey(k)
    PROVE  LET new == Inline(doc, [k \in arrived |-> Pair(k)], Providers,
                             DefaultProvider)
           IN IsMap(new) /\ HeldBy(new) \subseteq arrived
<1> DEFINE certs == [k \in arrived |-> Pair(k)]
           new == Inline(doc, certs, Providers, DefaultProvider)
           Entry(i) == doc.map["ssls"].list[i].map
<1>1. CASE ~HasSSLs(doc)
  BY <1>1 DEF Inline
<1>2. CASE HasSSLs(doc)
  <2>1. /\ IsMap(new) /\ HasSSLs(new)
        /\ DOMAIN new.map["ssls"].list = DOMAIN doc.map["ssls"].list
        /\ \A i \in DOMAIN doc.map["ssls"].list :
              new.map["ssls"].list[i].map =
                    InlineEntry(Entry(i), certs, Providers, DefaultProvider)
    BY <1>2 DEF Inline, HasSSLs, Map, List, IsMap
  <2>2. \A i \in DOMAIN doc.map["ssls"].list : HeldByEntry(Entry(i)) = {}
    BY <1>2, HeldByEntries
  <2>3. \A i \in DOMAIN doc.map["ssls"].list :
            HeldByEntry(new.map["ssls"].list[i].map) \subseteq arrived
    BY <2>1, <2>2, EntryHolds
  <2>4. HeldBy(new) = UNION {HeldByEntry(new.map["ssls"].list[i].map) :
                                i \in DOMAIN new.map["ssls"].list}
    BY <2>1, HeldByEntries
  <2>5. QED
    BY <2>1, <2>3, <2>4
<1>3. QED
  BY <1>1, <1>2

\* Labels are no certificates.
LEMMA LabelsHold ==
    ASSUME NEW doc, NEW g, IsMap(doc), AddLabels(doc, g) # Error
    PROVE  HeldBy(AddLabels(doc, g)) = HeldBy(doc)
<1> DEFINE new == AddLabels(doc, g)
           Kept(i) == HeldByEntry(new.map["ssls"].list[i].map)
                        = HeldByEntry(doc.map["ssls"].list[i].map)
<1>1. CASE ~EnableLabels
  BY <1>1 DEF AddLabels
<1>2. CASE EnableLabels
  <2>1. new = Map([k \in DOMAIN doc.map |->
                IF ~Labelled(k, doc.map[k]) THEN doc.map[k]
                ELSE List([i \in DOMAIN doc.map[k].list |->
                        LET e == doc.map[k].list[i]
                        IN IF IsMap(e) THEN With(e, "labels", LabelsOf(e, g))
                           ELSE e])])
    BY <1>2 DEF AddLabels
  <2>2. IsMap(new) /\ (HasSSLs(new) <=> HasSSLs(doc))
    BY <2>1 DEF IsMap, Map, HasSSLs
  <2>3. CASE ~HasSSLs(doc)
    BY <2>2, <2>3, HeldByEntries
  <2>4. CASE HasSSLs(doc) /\ ~Labelled("ssls", doc.map["ssls"])
    <3>1. new.map["ssls"] = doc.map["ssls"]
      BY <2>1, <2>4 DEF Map, HasSSLs
    <3>2. QED
      BY <2>2, <2>4, <3>1, HeldByEntries
  <2>5. CASE HasSSLs(doc) /\ Labelled("ssls", doc.map["ssls"])
    <3>1. /\ DOMAIN new.map["ssls"].list = DOMAIN doc.map["ssls"].list
          /\ \A i \in DOMAIN doc.map["ssls"].list :
                LET e == doc.map["ssls"].list[i]
                IN new.map["ssls"].list[i] =
                        IF IsMap(e) THEN With(e, "labels", LabelsOf(e, g)) ELSE e
      BY <2>1, <2>5 DEF Map, List, HasSSLs
    <3>2. ASSUME NEW i \in DOMAIN doc.map["ssls"].list PROVE Kept(i)
      <4> DEFINE e == doc.map["ssls"].list[i]
      <4>1. CASE IsMap(e)
        <5>1. new.map["ssls"].list[i].map = Put(e.map, "labels", LabelsOf(e, g))
          <6>1. new.map["ssls"].list[i] = With(e, "labels", LabelsOf(e, g))
            BY <3>1, <4>1
          <6>2. QED
            BY <6>1 DEF With, Map
        <5>2. Pairs(new.map["ssls"].list[i].map) = Pairs(e.map)
          <6>1. \A k \in PairKeys : k \in DOMAIN Put(e.map, "labels", LabelsOf(e, g))
                                        <=> k \in DOMAIN e.map
            BY DEF Put, PairKeys
          <6>2. \A k \in PairKeys \intersect DOMAIN e.map :
                    Put(e.map, "labels", LabelsOf(e, g))[k] = e.map[k]
            BY DEF Put, PairKeys
          <6>3. QED
            BY <5>1, <6>1, <6>2, PairsOfTheirTexts
        <5>3. QED
          BY <5>2 DEF HeldByEntry
      <4>2. CASE ~IsMap(e)
        BY <3>1, <4>2
      <4>3. QED
        BY <4>1, <4>2
    <3>3. QED
      BY <2>2, <2>5, <3>1, <3>2, HeldByEntries
  <2>6. QED
    BY <2>3, <2>4, <2>5
<1>3. QED
  BY <1>1, <1>2

-----------------------------------------------------------------------------
(***************************************************************************)
(* The certificates that are published.                                    *)
(***************************************************************************)

EnvVersion == EnvContents \union {Absent}

\* What the fragments and the variables may be, on disk and read.
ContentsInv ==
    /\ DOMAIN sources = SourceFile /\ DOMAIN env = Dir
    /\ \A f \in SourceFile : sources[f] \in Contents[f]
    /\ \A d \in Dir : env[d] \in EnvVersion
    /\ \A d \in DOMAIN envCache : envCache[d] \in EnvVersion
    /\ listed \subseteq SourceFile

\* While gateways are handled, each has fragments, as they were read.
SnippetsInv ==
    /\ DOMAIN snippets \subseteq SourceFile
    /\ \A f \in DOMAIN snippets : snippets[f].data \in ReadAs(f)
    /\ todo \subseteq UNION {Hierarchy(DirOf[f]) : f \in DOMAIN snippets}
    /\ pc # "gateways" => todo = {}

InstanceFields ==
    {"success", "hasCommit", "commitHash", "CommittedCerts", "lastCommit"}

\* The record of a gateway has the certificates of what it publishes.
RecordInv ==
    /\ DOMAIN instance = Gateway /\ DOMAIN published = Gateway
    /\ \A g \in Gateway :
        /\ DOMAIN instance[g] = InstanceFields
        /\ instance[g].hasCommit =>
                instance[g].lastCommit = instance[g].commitHash
        /\ HeldBy(published[g]) \subseteq instance[g].CommittedCerts

CertsInv == ContentsInv /\ SnippetsInv /\ RecordInv

\* What is merged for a gateway is some fragments, each as it may be read.
LEMMA OwnAreDocumented ==
    ASSUME SnippetsInv, NEW g \in todo
    PROVE  Data(Own(g)) \in Documented
<1> DEFINE D == Own(g)
           t == Data(D)
<1>1. D # {} /\ D \subseteq SourceFile /\ D \subseteq DOMAIN snippets
  BY DEF SnippetsInv, Own
<1>2. /\ t = [f \in D |-> t[f]]
      /\ \A f \in D : t[f] \in ReadAs(f)
  BY <1>1 DEF Data, SnippetsInv
<1> HIDE DEF t
<1>3. t \in [D -> UNION {ReadAs(f) : f \in D}]
  BY <1>2
<1>4. D \in (SUBSET SourceFile) \ {{}}
  BY <1>1
<1>5. QED
  BY <1>2, <1>3, <1>4 DEF Documented, t

\* What is rendered for a gateway holds nothing but certificates that arrived.
LEMMA RenderedHolds ==
    ASSUME SnippetsInv, NEW g \in todo, NEW arrived \in SUBSET Asked(g),
           Rendered(g, [k \in arrived |-> Pair(k)]) # Error
    PROVE  HeldBy(Rendered(g, [k \in arrived |-> Pair(k)])) \subseteq arrived
<1> DEFINE merged == Merged(Data(Own(g)))
           certs == [k \in arrived |-> Pair(k)]
           new == Inline(merged, certs, Providers, DefaultProvider)
<1>1. merged # Error /\ Rendered(g, certs) = AddLabels(new, g)
  BY DEF Rendered
<1>2. IsMap(merged) /\ HeldBy(merged) = {}
  BY <1>1, OwnAreDocumented, DocumentsAssumption
<1>3. \A k \in arrived : IsKey(k)
  BY AskedAreKeys
<1>4. IsMap(new) /\ HeldBy(new) \subseteq arrived
  BY <1>2, <1>3, InlineHolds
<1>5. QED
  BY <1>1, <1>4, LabelsHold

LEMMA NullHoldsNone == HeldBy(Null) = {}
  BY DEF HeldBy, Null, IsMap

LEMMA PublishKeeps ==
    ASSUME RecordInv, NEW g \in Gateway, NEW payload, NEW record,
           HeldBy(payload) \subseteq record, Publish(g, payload, record)
    PROVE  RecordInv'
<1> DEFINE out == IF Cached(g, payload) THEN instance[g].lastCommit ELSE payload
           new == [success |-> TRUE, hasCommit |-> TRUE, commitHash |-> payload,
                   CommittedCerts |-> record, lastCommit |-> out]
<1>1. out = payload
  BY DEF Cached, RecordInv
<1>2. /\ published' = [published EXCEPT ![g] = payload]
      /\ instance' = [instance EXCEPT ![g] = new]
  BY <1>1 DEF Publish
<1>3. /\ DOMAIN new = InstanceFields /\ new.lastCommit = new.commitHash
      /\ HeldBy(payload) \subseteq new.CommittedCerts
  BY <1>1 DEF InstanceFields
<1> HIDE DEF new
<1>4. QED
  BY <1>2, <1>3 DEF RecordInv

LEMMA RefusedKeeps ==
    ASSUME RecordInv, NEW g \in Gateway, Refused(g)
    PROVE  RecordInv'
<1> DEFINE new == [instance[g] EXCEPT !.success = FALSE]
<1>1. published' = published /\ instance' = [instance EXCEPT ![g] = new]
  BY DEF Refused
<1>2. /\ DOMAIN new = DOMAIN instance[g]
      /\ DOMAIN instance[g] = InstanceFields
           => /\ new.hasCommit = instance[g].hasCommit
              /\ new.lastCommit = instance[g].lastCommit
              /\ new.commitHash = instance[g].commitHash
              /\ new.CommittedCerts = instance[g].CommittedCerts
  BY DEF InstanceFields
<1> HIDE DEF new
<1>3. QED
  BY <1>1, <1>2 DEF RecordInv

LEMMA ReadFragment ==
    ASSUME ContentsInv, SnippetsInv, NEW f \in listed, Fetch(f)
    PROVE  ContentsInv' /\ SnippetsInv'
<1> DEFINE e == CachedEnv(Place(f))
           raw == Substituted(sources[f], EnvVars(e))
<1>1. f \in SourceFile /\ e \in EnvVersion
  BY PlaceIsDir DEF ContentsInv, CachedEnv
<1>2. /\ envCache' = Put(envCache, Place(f), e)
      /\ UNCHANGED <<sources, env, todo>> /\ pc = "enumerate"
      /\ pc' \in {"idle", "enumerate"} /\ listed' \subseteq listed
  BY DEF Fetch, Abandon, diskVars
<1>3. ContentsInv'
  BY <1>1, <1>2 DEF ContentsInv, Put
<1>4. \/ snippets' = snippets
      \/ /\ raw # Null /\ e # Malformed
         /\ sources[f] \notin {Absent, EmptyFile, Malformed}
         /\ snippets' = Put(snippets, f, [raw |-> raw, text |-> sources[f],
                                          data |-> raw])
  BY DEF Fetch, Abandon, Snippet, Decodes, Fetched
<1>5. todo' = {} /\ pc' # "gateways"
  BY <1>2 DEF SnippetsInv
<1>6. CASE snippets' = snippets
  BY <1>3, <1>5, <1>6 DEF SnippetsInv
<1>7. CASE /\ raw # Null /\ e # Malformed
           /\ sources[f] \notin {Absent, EmptyFile, Malformed}
           /\ snippets' = Put(snippets, f, [raw |-> raw, text |-> sources[f],
                                            data |-> raw])
  <2>1. raw \in ReadAs(f)
    BY <1>1, <1>7 DEF ReadAs, ContentsInv, EnvVersion
  <2>2. /\ DOMAIN snippets' = DOMAIN snippets \union {f}
        /\ snippets'[f].data = raw
        /\ \A x \in DOMAIN snippets \ {f} : snippets'[x] = snippets[x]
    BY <1>7 DEF Put
  <2>3. QED
    BY <1>1, <1>3, <1>5, <2>1, <2>2 DEF SnippetsInv
<1>8. QED
  BY <1>4, <1>6, <1>7

LEMMA TodoAreGateways ==
    ASSUME SnippetsInv, NEW g \in todo
    PROVE  g \in Gateway
<1>1. PICK f \in DOMAIN snippets : g \in Hierarchy(DirOf[f])
  BY DEF SnippetsInv
<1>2. Place(f) \in Dir /\ Place(f)[2] = DirOf[f]
  BY PlaceIsDir DEF SnippetsInv, Place
<1>3. QED
  BY <1>1, <1>2 DEF Gateway

LEMMA HandleKeeps ==
    ASSUME EnableLabels, CertsInv,
           NEW g \in todo, NEW failed \in SUBSET Asked(g),
           NEW arrived \in SUBSET Asked(g), NEW accepted \in BOOLEAN,
           Handle(g, failed, arrived, accepted)
    PROVE  CertsInv'
<1> DEFINE certs == [k \in arrived |-> Pair(k)]
           payload == Rendered(g, certs)
           refused == failed \union {k \in Asked(g) \ DOMAIN track : Unreadable(k)}
           record == Asked(g) \ refused
<1>1. /\ UNCHANGED <<sources, env, listed, envCache>>
      /\ snippets' = snippets /\ pc = "gateways" /\ todo' = todo \ {g}
      /\ pc' = IF todo = {g} THEN "idle" ELSE pc
      /\ arrived \subseteq record
      /\ \/ Refused(g)
         \/ UNCHANGED <<instance, published>>
         \/ payload # Error /\ Publish(g, payload, record)
  BY DEF Handle, AfterInline, diskVars
<1>2. ContentsInv'
  BY <1>1 DEF CertsInv, ContentsInv
<1>3. SnippetsInv'
  <2>1. pc' # "gateways" => todo' = {}
    BY <1>1
  <2>2. QED
    BY <1>1, <2>1 DEF CertsInv, SnippetsInv
<1>4. g \in Gateway
  BY TodoAreGateways DEF CertsInv
<1>5. RecordInv'
  <2>1. CASE UNCHANGED <<instance, published>>
    BY <2>1 DEF CertsInv, RecordInv
  <2>2. CASE Refused(g)
    BY <1>4, <2>2, RefusedKeeps DEF CertsInv
  <2>3. CASE payload # Error /\ Publish(g, payload, record)
    <3>1. HeldBy(payload) \subseteq arrived
      BY <2>3, RenderedHolds DEF CertsInv
    <3>2. HeldBy(payload) \subseteq record
      BY <1>1, <3>1
    <3>3. QED
      BY <1>4, <2>3, <3>2, PublishKeeps DEF CertsInv
  <2>4. QED
    BY <1>1, <2>1, <2>2, <2>3
<1>6. QED
  BY <1>2, <1>3, <1>5 DEF CertsInv

LEMMA CertsInductive ==
    ASSUME EnableLabels, CertsInv, [Next]_vars
    PROVE  CertsInv'
<1> USE DEF CertsInv, diskVars, cycleVars, outVars
<1>1. ASSUME NEW f \in SourceFile, NEW c \in Contents[f], EditSource(f, c)
      PROVE  CertsInv'
  <2>1. /\ sources' = [sources EXCEPT ![f] = c]
        /\ UNCHANGED <<env, listed, envCache, snippets, todo, pc, instance,
                       published>>
    BY <1>1 DEF EditSource
  <2>2. QED
    BY <2>1 DEF ContentsInv, SnippetsInv, RecordInv
<1>2. ASSUME NEW d \in Dir, NEW c \in EnvContents, EditEnv(d, c)
      PROVE  CertsInv'
  <2>1. /\ env' = [env EXCEPT ![d] = c]
        /\ UNCHANGED <<sources, listed, envCache, snippets, todo, pc, instance,
                       published>>
    BY <1>2 DEF EditEnv
  <2>2. QED
    BY <2>1 DEF ContentsInv, SnippetsInv, RecordInv, EnvVersion
<1>3. CASE Start
  <2>1. /\ UNCHANGED <<sources, env, envCache, todo, instance, published>>
        /\ pc = "idle" /\ listed' = {} /\ snippets' = Empty
        /\ DOMAIN snippets' = {}
    BY <1>3 DEF Start, Empty
  <2>2. todo' = {}
    BY <2>1 DEF SnippetsInv
  <2>3. QED
    BY <2>1, <2>2 DEF ContentsInv, SnippetsInv, RecordInv
<1>4. CASE ListRoot
  <2>1. /\ UNCHANGED <<sources, env, snippets, todo, pc, instance, published>>
        /\ envCache' = FreshCache(Head(roots))
        /\ listed' = YAMLFiles(Head(roots))
    BY <1>4 DEF ListRoot
  <2>2. QED
    BY <2>1 DEF ContentsInv, SnippetsInv, RecordInv, FreshCache, YAMLFiles
<1>5. ASSUME NEW f \in listed, Fetch(f) PROVE CertsInv'
  <2>1. UNCHANGED <<instance, published>>
    BY <1>5 DEF Fetch
  <2>2. QED
    BY <1>5, <2>1, ReadFragment DEF RecordInv
<1>6. CASE Group
  <2>1. /\ UNCHANGED <<sources, env, listed, envCache, snippets, instance,
                       published>>
        /\ todo' = UNION {Hierarchy(DirOf[f]) : f \in DOMAIN snippets}
        /\ pc' = IF todo' = {} THEN "idle" ELSE "gateways"
    BY <1>6 DEF Group
  <2>2. QED
    BY <2>1 DEF ContentsInv, SnippetsInv, RecordInv
<1>7. ASSUME NEW g \in todo, NEW failed \in SUBSET Asked(g),
             NEW arrived \in SUBSET Asked(g), NEW accepted \in BOOLEAN,
             Handle(g, failed, arrived, accepted)
      PROVE  CertsInv'
  BY <1>7, HandleKeeps
<1>8. CASE \/ \E p \in CertFiles : EditDisk(p)
           \/ \E k \in DOMAIN track : Issue(k)
           \/ UNCHANGED vars
  <2>1. UNCHANGED <<sources, env, listed, envCache, snippets, todo, pc,
                    instance, published>>
    BY <1>8 DEF EditDisk, Issue, vars
  <2>2. QED
    BY <2>1 DEF ContentsInv, SnippetsInv, RecordInv
<1>9. QED
  BY <1>1, <1>2, <1>3, <1>4, <1>5, <1>6, <1>7, <1>8 DEF Next

LEMMA CertsHold ==
    ASSUME Init
    PROVE  CertsInv
<1>1. ContentsInv
  BY DEF Init, ContentsInv, EnvVersion, Empty
<1>2. SnippetsInv
  BY DEF Init, SnippetsInv, Empty
<1>3. RecordInv
  BY NullHoldsNone DEF Init, RecordInv, NoInstance, InstanceFields
<1>4. QED
  BY <1>1, <1>2, <1>3 DEF CertsInv

\* With labels the gateways merge copies, and every certificate in a published
\* configuration is in the record of the gateway it is published for, one that
\* the upkeep does not give up.
THEOREM PublishedAreCommitted ==
    ASSUME EnableLabels
    PROVE  Spec => []CertificatesCommitted
<1>1. Init => CertsInv
  BY CertsHold
<1>2. CertsInv /\ [Next]_vars => CertsInv'
  BY CertsInductive
<1>3. CertsInv => CertificatesCommitted
  BY DEF CertsInv, RecordInv, CertificatesCommitted
<1>4. QED
  BY <1>1, <1>2, <1>3, PTL DEF Spec

-----------------------------------------------------------------------------
(***************************************************************************)
(* A document without what sixpack puts into it.                           *)
(***************************************************************************)

LEMMA SSLsAreLabelled ==
    ASSUME NEW v, IsList(v)
    PROVE  Labelled("ssls", v)
<1> DEFINE rules == Union2(RouteRules, Union2(GroupRules, ConsumerRules))
<1>1. DefaultMergingRules.Children = rules
  BY DEF DefaultMergingRules, Rule
<1>2. /\ "ssls" \in DOMAIN RouteRules
      /\ RouteRules["ssls"] = ListRule("id", TRUE, FALSE, TRUE,
                                       [snis |-> ScalarListRule])
  BY DEF RouteRules
<1>3. "ssls" \notin DOMAIN GroupRules
  BY DEF GroupRules
<1>4. "ssls" \notin DOMAIN ConsumerRules
  BY DEF ConsumerRules
<1>5. "ssls" \in DOMAIN rules /\ rules["ssls"] = RouteRules["ssls"]
  BY <1>2, <1>3, <1>4 DEF Union2
<1>6. rules["ssls"].SupportsLabels
  BY <1>2, <1>5 DEF ListRule
<1>7. QED
  BY <1>1, <1>5, <1>6 DEF Labelled

\* Certificates change nothing but the texts of an entry.
LEMMA InlineEntryStrips ==
    ASSUME NEW e, IsMap(e), NEW certs
    PROVE  StrippedEntry("ssls", Map(InlineEntry(e.map, certs, Providers,
                                                 DefaultProvider)))
                = StrippedEntry("ssls", e)
<1> DEFINE entry == InlineEntry(e.map, certs, Providers, DefaultProvider)
           new == Map(entry)
           labels == OtherLabels(Member(e, "labels"))
           put == OwnTexts("ssls") \union
                    (IF labels \in {Null, Map(Empty)} THEN {"labels"} ELSE {})
<1>1. /\ DOMAIN entry = DOMAIN e.map
      /\ \A a \in DOMAIN e.map \ OwnTexts("ssls") : entry[a] = e.map[a]
  BY DEF InlineEntry, OwnTexts
<1> HIDE DEF entry
<1>2. IsMap(new) /\ new.map = entry
  BY DEF Map, IsMap
<1> HIDE DEF new
<1>3. Member(new, "labels") = Member(e, "labels")
  BY <1>1, <1>2 DEF Member, OwnTexts
<1>4. StrippedEntry("ssls", new) =
        Map([a \in DOMAIN entry \ put |-> IF a = "labels" THEN labels ELSE entry[a]])
  BY <1>2, <1>3 DEF StrippedEntry
<1>5. StrippedEntry("ssls", e) =
        Map([a \in DOMAIN e.map \ put |-> IF a = "labels" THEN labels ELSE e.map[a]])
  BY DEF StrippedEntry
<1>6. [a \in DOMAIN entry \ put |-> IF a = "labels" THEN labels ELSE entry[a]]
        = [a \in DOMAIN e.map \ put |-> IF a = "labels" THEN labels ELSE e.map[a]]
  BY <1>1
<1>7. QED
  BY <1>4, <1>5, <1>6 DEF new, entry

LEMMA InlineStrips ==
    ASSUME NEW doc, IsMap(doc), ~UpdateFails(doc), NEW certs
    PROVE  Stripped(Inline(doc, certs, Providers, DefaultProvider))
                = Stripped(doc)
<1> DEFINE new == Inline(doc, certs, Providers, DefaultProvider)
           list == doc.map["ssls"].list
           Of(d) == [k \in DOMAIN d.map |->
                        IF ~Labelled(k, d.map[k]) THEN d.map[k]
                        ELSE List([i \in DOMAIN d.map[k].list |->
                                StrippedEntry(k, d.map[k].list[i])])]
<1>1. CASE ~HasSSLs(doc)
  BY <1>1 DEF Inline
<1>2. CASE HasSSLs(doc)
  <2>1. /\ "ssls" \in DOMAIN doc.map /\ IsList(doc.map["ssls"])
        /\ \A i \in DOMAIN list : IsMap(list[i])
    BY <1>2 DEF UpdateFails, HasSSLs, ToSet
  <2>2. /\ IsMap(new) /\ DOMAIN new.map = DOMAIN doc.map
        /\ \A k \in DOMAIN doc.map \ {"ssls"} : new.map[k] = doc.map[k]
        /\ new.map["ssls"] =
             List([i \in DOMAIN list |->
                Map(InlineEntry(list[i].map, certs, Providers, DefaultProvider))])
    BY <1>2, <2>1 DEF Inline, HasSSLs, Map, IsMap
  <2> HIDE DEF new
  <2>3. /\ IsList(new.map["ssls"])
        /\ DOMAIN new.map["ssls"].list = DOMAIN list
        /\ \A i \in DOMAIN list :
              new.map["ssls"].list[i] =
                Map(InlineEntry(list[i].map, certs, Providers, DefaultProvider))
    BY <2>2 DEF List, IsList
  <2>4. \A i \in DOMAIN list :
            StrippedEntry("ssls", new.map["ssls"].list[i]) =
                StrippedEntry("ssls", list[i])
    BY <2>1, <2>3, InlineEntryStrips
  <2>5. [i \in DOMAIN new.map["ssls"].list |->
                StrippedEntry("ssls", new.map["ssls"].list[i])]
            = [i \in DOMAIN list |-> StrippedEntry("ssls", list[i])]
    BY <2>3, <2>4
  <2>6. Labelled("ssls", new.map["ssls"]) /\ Labelled("ssls", doc.map["ssls"])
    BY <2>1, <2>3, SSLsAreLabelled
  <2>7. Of(new)["ssls"] = Of(doc)["ssls"]
    BY <2>1, <2>2, <2>5, <2>6
  <2>8. \A k \in DOMAIN doc.map \ {"ssls"} : Of(new)[k] = Of(doc)[k]
    BY <2>2
  <2>9. Of(new) = Of(doc)
    BY <2>2, <2>7, <2>8
  <2>10. Stripped(new) = Map(Of(new)) /\ Stripped(doc) = Map(Of(doc))
    BY <2>2 DEF Stripped
  <2>11. QED
    BY <2>9, <2>10 DEF new
<1>3. QED
  BY <1>1, <1>2

LEMMA ManagedLabelsAreOwn == \A g : DOMAIN ManagedLabels(g) = OwnLabels
  BY DEF ManagedLabels, OwnLabels

\* The labels of sixpack come off again, and leave those the entry had.
LEMMA LabelsComeOff ==
    ASSUME NEW e, IsMap(e), NEW g,
           Member(e, "labels") # Null => IsMap(Member(e, "labels"))
    PROVE  /\ IsMap(LabelsOf(e, g))
           /\ \A l \in OwnLabels : l \in DOMAIN LabelsOf(e, g).map
                                /\ LabelsOf(e, g).map[l] = ManagedLabels(g)[l]
           /\ OtherLabels(LabelsOf(e, g)) =
                IF Member(e, "labels") = Null THEN Map(Empty)
                ELSE OtherLabels(Member(e, "labels"))
<1> DEFINE labels == Member(e, "labels")
           new == LabelsOf(e, g)
           M == ManagedLabels(g)
<1> HIDE DEF labels, M
<1>1. DOMAIN M = OwnLabels
  BY ManagedLabelsAreOwn DEF M
<1>2. CASE labels = Null
  <2>1. IsMap(new) /\ new.map = M
    BY <1>2 DEF LabelsOf, Map, IsMap, labels, M
  <2>2. OtherLabels(new) = Map([l \in DOMAIN M \ OwnLabels |-> M[l]])
    BY <2>1 DEF OtherLabels
  <2>3. [l \in DOMAIN M \ OwnLabels |-> M[l]] = Empty
    BY <1>1 DEF Empty
  <2>4. QED
    BY <1>1, <1>2, <2>1, <2>2, <2>3 DEF labels, M
<1>3. CASE labels # Null
  <2>1. IsMap(labels)
    BY <1>3 DEF labels
  <2>2. IsMap(new) /\ new.map = Union2(labels.map, M)
    BY <1>3 DEF LabelsOf, Map, IsMap, labels, M
  <2>3. /\ DOMAIN new.map \ OwnLabels = DOMAIN labels.map \ OwnLabels
        /\ \A l \in DOMAIN labels.map \ OwnLabels : new.map[l] = labels.map[l]
        /\ \A l \in OwnLabels : l \in DOMAIN new.map /\ new.map[l] = M[l]
    BY <1>1, <2>2 DEF Union2
  <2>4. [l \in DOMAIN new.map \ OwnLabels |-> new.map[l]] =
            [l \in DOMAIN labels.map \ OwnLabels |-> labels.map[l]]
    BY <2>3
  <2>5. OtherLabels(new) = OtherLabels(labels)
    BY <2>1, <2>2, <2>4 DEF OtherLabels
  <2>6. QED
    BY <1>3, <2>2, <2>3, <2>5 DEF labels, M
<1>4. QED
  BY <1>2, <1>3

LEMMA LabelledEntryStrips ==
    ASSUME NEW kind, NEW e, IsMap(e), NEW g,
           Member(e, "labels") # Null => IsMap(Member(e, "labels"))
    PROVE  StrippedEntry(kind, With(e, "labels", LabelsOf(e, g)))
                = StrippedEntry(kind, e)
<1> DEFINE new == With(e, "labels", LabelsOf(e, g))
           Left(v) == IF v \in {Null, Map(Empty)} THEN {"labels"} ELSE {}
           old == OtherLabels(Member(e, "labels"))
           Of(v, labels) == [a \in DOMAIN v.map \ (OwnTexts(kind) \union Left(labels))
                                |-> IF a = "labels" THEN labels ELSE v.map[a]]
<1>1. /\ IsMap(new) /\ DOMAIN new.map = DOMAIN e.map \union {"labels"}
      /\ new.map["labels"] = LabelsOf(e, g)
      /\ \A a \in DOMAIN e.map \ {"labels"} : new.map[a] = e.map[a]
  BY DEF With, Put, Map, IsMap
<1> HIDE DEF new
<1>2. Member(new, "labels") = LabelsOf(e, g)
  BY <1>1 DEF Member
<1> DEFINE got == OtherLabels(Member(new, "labels"))
<1>3. got = IF Member(e, "labels") = Null THEN Map(Empty) ELSE old
  BY <1>2, LabelsComeOff
<1>4. Member(e, "labels") = Null => old = Null
  BY DEF OtherLabels, Null, IsMap
<1>5. "labels" \notin DOMAIN e.map => Member(e, "labels") = Null
  BY DEF Member
<1>6. StrippedEntry(kind, new) = Map(Of(new, got))
  BY <1>1 DEF StrippedEntry
<1>7. StrippedEntry(kind, e) = Map(Of(e, old))
  BY DEF StrippedEntry
<1> HIDE DEF got, old
<1>8. CASE Member(e, "labels") = Null
  <2>1. Left(got) = {"labels"} /\ Left(old) = {"labels"}
    BY <1>3, <1>4, <1>8
  <2>2. Of(new, got) = Of(e, old)
    BY <1>1, <2>1
  <2>3. QED
    BY <1>6, <1>7, <2>2 DEF new
<1>9. CASE Member(e, "labels") # Null
  <2>1. got = old /\ DOMAIN new.map = DOMAIN e.map
    BY <1>1, <1>3, <1>5, <1>9
  <2>2. Of(new, got) = Of(e, old)
    BY <1>1, <2>1
  <2>3. QED
    BY <1>6, <1>7, <2>2 DEF new
<1>10. QED
  BY <1>8, <1>9

\* The labels put into a document come off again, and say whose it is.
LEMMA LabelsStrip ==
    ASSUME EnableLabels, NEW doc, NEW g, IsMap(doc), AddLabels(doc, g) # Error
    PROVE  /\ Stripped(AddLabels(doc, g)) = Stripped(doc)
           /\ LabelledFor(AddLabels(doc, g), g)
<1> DEFINE new == AddLabels(doc, g)
           Entry(e) == IF IsMap(e) THEN With(e, "labels", LabelsOf(e, g)) ELSE e
           Of(d) == [k \in DOMAIN d.map |->
                        IF ~Labelled(k, d.map[k]) THEN d.map[k]
                        ELSE List([i \in DOMAIN d.map[k].list |->
                                StrippedEntry(k, d.map[k].list[i])])]
<1>1. \A k \in DOMAIN doc.map : Labelled(k, doc.map[k]) =>
        \A i \in DOMAIN doc.map[k].list :
            LET e == doc.map[k].list[i] IN
            IsMap(e) /\ Member(e, "labels") # Null => IsMap(Member(e, "labels"))
  BY DEF AddLabels, ToSet
<1>2. new = Map([k \in DOMAIN doc.map |->
                IF ~Labelled(k, doc.map[k]) THEN doc.map[k]
                ELSE List([i \in DOMAIN doc.map[k].list |->
                                Entry(doc.map[k].list[i])])])
  BY DEF AddLabels
<1>3. /\ IsMap(new) /\ DOMAIN new.map = DOMAIN doc.map
      /\ \A k \in DOMAIN doc.map :
            new.map[k] = IF ~Labelled(k, doc.map[k]) THEN doc.map[k]
                         ELSE List([i \in DOMAIN doc.map[k].list |->
                                        Entry(doc.map[k].list[i])])
  BY <1>2 DEF Map, IsMap
<1> HIDE DEF new, Entry
<1>4. ASSUME NEW k \in DOMAIN doc.map, Labelled(k, doc.map[k])
      PROVE  /\ Labelled(k, new.map[k])
             /\ DOMAIN new.map[k].list = DOMAIN doc.map[k].list
             /\ \A i \in DOMAIN doc.map[k].list :
                    new.map[k].list[i] = Entry(doc.map[k].list[i])
  <2>1. new.map[k] = List([i \in DOMAIN doc.map[k].list |->
                                Entry(doc.map[k].list[i])])
    BY <1>3, <1>4
  <2>2. IsList(new.map[k])
    BY <2>1 DEF List, IsList
  <2>3. QED
    BY <1>4, <2>1, <2>2 DEF Labelled, List
<1>5. ASSUME NEW k \in DOMAIN doc.map PROVE Of(new)[k] = Of(doc)[k]
  <2>1. CASE ~Labelled(k, doc.map[k])
    BY <1>3, <2>1
  <2>2. CASE Labelled(k, doc.map[k])
    <3>1. ASSUME NEW i \in DOMAIN doc.map[k].list
          PROVE  StrippedEntry(k, new.map[k].list[i]) =
                    StrippedEntry(k, doc.map[k].list[i])
      BY <1>1, <1>4, <2>2, LabelledEntryStrips DEF Entry
    <3>2. [i \in DOMAIN new.map[k].list |-> StrippedEntry(k, new.map[k].list[i])]
            = [i \in DOMAIN doc.map[k].list |->
                    StrippedEntry(k, doc.map[k].list[i])]
      BY <1>4, <2>2, <3>1
    <3>3. QED
      BY <1>3, <1>4, <2>2, <3>2
  <2>3. QED
    BY <2>1, <2>2
<1>6. Stripped(new) = Stripped(doc)
  <2>1. Of(new) = Of(doc)
    BY <1>3, <1>5
  <2>2. Stripped(new) = Map(Of(new)) /\ Stripped(doc) = Map(Of(doc))
    BY <1>3 DEF Stripped
  <2>3. QED
    BY <2>1, <2>2
<1>7. LabelledFor(new, g)
  <2> SUFFICES ASSUME NEW k \in DOMAIN doc.map, Labelled(k, new.map[k]),
                      NEW i \in DOMAIN new.map[k].list,
                      IsMap(new.map[k].list[i])
               PROVE  LET labels == Member(new.map[k].list[i], "labels") IN
                      /\ IsMap(labels)
                      /\ \A l \in OwnLabels : l \in DOMAIN labels.map
                                /\ labels.map[l] = ManagedLabels(g)[l]
    BY <1>3 DEF LabelledFor, ToSet
  <2>1. Labelled(k, doc.map[k])
    BY <1>3
  <2> DEFINE e == doc.map[k].list[i]
  <2>2. i \in DOMAIN doc.map[k].list /\ new.map[k].list[i] = Entry(e)
    BY <1>4, <2>1
  <2>3. IsMap(e) /\ new.map[k].list[i] = With(e, "labels", LabelsOf(e, g))
    BY <2>2 DEF Entry
  <2>4. Member(new.map[k].list[i], "labels") = LabelsOf(e, g)
    BY <2>3 DEF Member, With, Put, Map, IsMap
  <2>5. QED
    BY <1>1, <2>1, <2>2, <2>3, <2>4, LabelsComeOff
<1>8. QED
  BY <1>6, <1>7 DEF new

-----------------------------------------------------------------------------
(***************************************************************************)
(* What is published is what was read.                                     *)
(***************************************************************************)

\* With labels, the gateways merge the fragments as they were read.
RawInv == \A f \in DOMAIN snippets : snippets[f].data = snippets[f].raw

LEMMA RawInductive ==
    ASSUME EnableLabels, RawInv, [Next]_vars
    PROVE  RawInv'
<1> USE DEF diskVars, cycleVars, outVars
<1>1. CASE Start
  BY <1>1 DEF Start, RawInv, Empty
<1>2. ASSUME NEW f \in listed, Fetch(f) PROVE RawInv'
  <2>1. \/ snippets' = snippets
        \/ \E raw : snippets' = Put(snippets, f, [raw |-> raw, text |-> sources[f],
                                                  data |-> raw])
    BY <1>2 DEF Fetch, Abandon, Snippet, Fetched
  <2>2. QED
    BY <2>1 DEF RawInv, Put
<1>3. CASE \/ \E f \in SourceFile : \E c \in Contents[f] : EditSource(f, c)
           \/ \E d \in Dir : \E c \in EnvContents : EditEnv(d, c)
           \/ \E p \in CertFiles : EditDisk(p)
           \/ \E k \in DOMAIN track : Issue(k)
           \/ ListRoot \/ Group \/ UNCHANGED vars
  <2>1. snippets' = snippets
    BY <1>3 DEF EditSource, EditEnv, EditDisk, Issue, ListRoot, Group, vars
  <2>2. QED
    BY <2>1 DEF RawInv
<1>4. ASSUME NEW g, NEW failed, NEW arrived, NEW accepted,
             Handle(g, failed, arrived, accepted)
      PROVE  RawInv'
  <2>1. snippets' = snippets
    BY <1>4 DEF Handle, AfterInline
  <2>2. QED
    BY <2>1 DEF RawInv
<1>5. QED
  BY <1>1, <1>2, <1>3, <1>4 DEF Next

\* What is rendered holds what the fragments of the gateway hold.
LEMMA RenderedIsPlain ==
    ASSUME EnableLabels, SnippetsInv, RawInv, NEW g \in todo, NEW certs,
           Rendered(g, certs) # Error
    PROVE  /\ Plain(Rendered(g, certs)) =
                    UNION {Plain(snippets[f].raw) : f \in Own(g)}
           /\ LabelledFor(Rendered(g, certs), g)
<1> DEFINE t == Data(Own(g))
           merged == Merged(t)
           new == Inline(merged, certs, Providers, DefaultProvider)
<1>1. /\ merged # Error /\ ~UpdateFails(merged)
      /\ Rendered(g, certs) = AddLabels(new, g)
  BY DEF Rendered
<1>2. t \in Documented
  BY OwnAreDocumented
<1>3. IsMap(merged)
  BY <1>1, <1>2, DocumentsAssumption
<1>4. IsMap(new)
  BY <1>3 DEF Inline, IsMap, Map
<1>5. /\ Stripped(Rendered(g, certs)) = Stripped(new)
      /\ LabelledFor(Rendered(g, certs), g)
  BY <1>1, <1>4, LabelsStrip
<1>6. Stripped(new) = Stripped(merged)
  BY <1>1, <1>3, InlineStrips
<1>7. Plain(Rendered(g, certs)) = Plain(merged)
  BY <1>5, <1>6 DEF Plain
<1>8. Plain(merged) = UNION {Plain(t[f]) : f \in DOMAIN t}
  BY <1>1, <1>2, MergeAssumption
<1>9. DOMAIN t = Own(g) /\ \A f \in Own(g) : t[f] = snippets[f].raw
  BY DEF Data, Own, RawInv
<1>10. {Plain(t[f]) : f \in DOMAIN t} = {Plain(snippets[f].raw) : f \in Own(g)}
  BY <1>9
<1>11. QED
  BY <1>5, <1>7, <1>8, <1>10

\* With labels, a gateway is only ever given what its own fragments hold, as the
\* cycle that publishes it read them, with the labels that name it: nothing is
\* left of an earlier cycle, nothing comes from another gateway or from the
\* schema, and neither the certificates put in nor the payload kept since the
\* last commit lose any of it.
THEOREM PublishedIsOfItsSources ==
    ASSUME EnableLabels
    PROVE  Spec => PublishedFromSources
<1> DEFINE Step == \A g \in Gateway : published'[g] # published[g] =>
                /\ Plain(published'[g]) =
                        UNION {Plain(snippets[f].raw) : f \in Own(g)}
                /\ EnableLabels => LabelledFor(published'[g], g)
<1>1. Init => CertsInv /\ RawInv
  BY CertsHold DEF Init, RawInv, Empty
<1>2. CertsInv /\ RawInv /\ [Next]_vars => (CertsInv /\ RawInv)'
  BY CertsInductive, RawInductive
<1>3. CertsInv /\ RawInv /\ [Next]_vars => [Step]_vars
  <2> SUFFICES ASSUME CertsInv, RawInv, Next PROVE Step
    OBVIOUS
  <2>1. ASSUME NEW g \in todo, NEW failed \in SUBSET Asked(g),
               NEW arrived \in SUBSET Asked(g), NEW accepted \in BOOLEAN,
               Handle(g, failed, arrived, accepted)
        PROVE  Step
    <3> DEFINE payload == Rendered(g, [k \in arrived |-> Pair(k)])
    <3>1. \/ published' = published
          \/ /\ payload # Error
             /\ \E record : Publish(g, payload, record)
      BY <2>1 DEF Handle, Refused
    <3>2. CASE payload # Error /\ \E record : Publish(g, payload, record)
      <4>1. published' = [published EXCEPT ![g] = payload]
        BY <3>2, TodoAreGateways DEF Publish, Cached, CertsInv, RecordInv
      <4>2. /\ Plain(payload) = UNION {Plain(snippets[f].raw) : f \in Own(g)}
            /\ LabelledFor(payload, g)
        BY <3>2, RenderedIsPlain DEF CertsInv
      <4>3. QED
        BY <4>1, <4>2 DEF CertsInv, RecordInv
    <3>3. QED
      BY <3>1, <3>2
  <2>2. ASSUME NEW f \in listed, Fetch(f) PROVE Step
    <3>1. published' = published
      BY <2>2 DEF Fetch, outVars
    <3>2. QED
      BY <3>1
  <2>3. CASE \/ \E f \in SourceFile : \E c \in Contents[f] : EditSource(f, c)
             \/ \E d \in Dir : \E c \in EnvContents : EditEnv(d, c)
             \/ \E p \in CertFiles : EditDisk(p)
             \/ \E k \in DOMAIN track : Issue(k)
             \/ Start \/ ListRoot \/ Group
    <3>1. published' = published
      BY <2>3 DEF EditSource, EditEnv, EditDisk, Issue, Start, ListRoot, Group,
                  outVars
    <3>2. QED
      BY <3>1
  <2>4. QED
    BY <2>1, <2>2, <2>3 DEF Next
<1>4. QED
  BY <1>1, <1>2, <1>3, PTL DEF Spec, PublishedFromSources
=============================================================================
