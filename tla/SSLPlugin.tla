----------------------------- MODULE SSLPlugin ------------------------------
(***************************************************************************)
(* What the SSL plugin (internal/plugin/ssl) replaces in a configuration:   *)
(* which entries of ssls name a certificate, which tracking each asks for,  *)
(* and the document with the certificates in place.  Asking for them is a   *)
(* matter of the modules that use this one.                                *)
(*                                                                         *)
(* A text is a string, the reference `$secret://acme/..', `$secret://file/..'*)
(* or any other secret, or the PEM of one half of a certificate.            *)
(***************************************************************************)
EXTENDS Documents

Acme(provider) == [acme |-> provider]
File(path) == [file |-> path]       \* a path is a sequence of its elements
Vault(name) == [vault |-> name]
PEM(half) == [pem |-> half]

IsSecret(text) == DOMAIN text \subseteq {"acme", "file", "vault"}
IsText(v) == IsStr(v) \/ IsSecret(v) \/ "pem" \in DOMAIN v

-----------------------------------------------------------------------------
(***************************************************************************)
(* Targets: the pairs of an entry that name a certificate.                 *)
(***************************************************************************)

\* asStringSlice: nothing, unless every item of the list is a text.
AsStringSlice(v) ==
    IF IsList(v) /\ \A t \in ToSet(v.list) : IsText(t) THEN v.list ELSE <<>>

\* The pair cert and key of an entry is number 0, those of the lists certs and
\* keys are numbered from 1.
SinglePair(entry) ==
    IF {"cert", "key"} \subseteq DOMAIN entry
       /\ IsText(entry["cert"]) /\ IsText(entry["key"])
    THEN [n \in {0} |-> <<entry["cert"], entry["key"]>>]
    ELSE [n \in {} |-> <<>>]

\* certPairs: lists of different lengths are left alone.
ListPairs(entry) ==
    IF {"certs", "keys"} \subseteq DOMAIN entry
    THEN LET certs == AsStringSlice(entry["certs"])
             keys == AsStringSlice(entry["keys"])
         IN IF DOMAIN certs = DOMAIN keys
            THEN [n \in DOMAIN certs |-> <<certs[n], keys[n]>>]
            ELSE <<>>
    ELSE <<>>

Pairs(entry) == Union2(SinglePair(entry), ListPairs(entry))

SNIs(entry) ==
    IF "snis" \in DOMAIN entry
    THEN {t.str : t \in {u \in ToSet(AsStringSlice(entry["snis"])) : IsStr(u)}}
            \ {""}
    ELSE {}

SingleType(text) ==
    IF "acme" \in DOMAIN text THEN "acme"
    ELSE IF "file" \in DOMAIN text THEN "file" ELSE "text"

\* resolvePairType.  The key of an ACME certificate does not matter, unless it
\* is a secret of a kind unknown to the plugin.
PairType(pair) ==
    IF \E text \in ToSet(pair) : IsSecret(text) /\ SingleType(text) = "text"
    THEN "text"
    ELSE IF SingleType(pair[1]) = "acme" THEN "acme"
    ELSE IF "file" \in {SingleType(pair[1]), SingleType(pair[2])} THEN "file"
    ELSE "text"

\* collectEntryTargets: the pairs of an entry that name a certificate.
Targets(entry) ==
    {n \in DOMAIN Pairs(entry) : PairType(Pairs(entry)[n]) # "text"}

-----------------------------------------------------------------------------
(***************************************************************************)
(* Trackings.                                                              *)
(***************************************************************************)

\* sanitizePath: the path without "." and "..", in a set that is empty when it
\* is absolute, names nothing or leaves the directory.
SanitizePath(path) ==
    LET clean == FoldLeft(LAMBDA out, name :
                    IF name = "." THEN out
                    ELSE IF name = ".." /\ out # <<>> /\ Last(out) # ".."
                    THEN Front(out) ELSE Append(out, name), <<>>, path)
    IN IF clean = <<>> \/ Head(path) = "/" \/ Head(clean) = ".." THEN {}
       ELSE {clean}

\* fallbackIdentity: of several names the code takes any.
FallbackIdentity(entry) ==
    IF "id" \in DOMAIN entry /\ AsString(entry["id"]) # {}
    THEN CHOOSE s \in AsString(entry["id"]) : TRUE
    ELSE IF SNIs(entry) # {} THEN CHOOSE s \in SNIs(entry) : TRUE
    ELSE "fallback"

\* A certificate from two files is known by both paths.
Tracking(entry, pair) ==
    LET fallback == [fallback |-> FallbackIdentity(entry)] IN
    IF SingleType(pair[1]) = "acme"
    THEN IF Cardinality(SNIs(entry)) = 1
         THEN [acme |-> <<pair[1].acme, CHOOSE s \in SNIs(entry) : TRUE>>]
         ELSE fallback
    ELSE IF SingleType(pair[1]) = "file" /\ SingleType(pair[2]) = "file"
    THEN IF SanitizePath(pair[1].file) # {} /\ SanitizePath(pair[2].file) # {}
         THEN [files |-> <<CHOOSE p \in SanitizePath(pair[1].file) : TRUE,
                           CHOOSE p \in SanitizePath(pair[2].file) : TRUE>>]
         ELSE fallback
    ELSE fallback

\* ProviderRouter and the certmagic manager: the tracking under the name of the
\* provider that answers for it, in a set that is empty when none does.  The
\* empty name stands for the default provider.
Resolve(tracking, providers, default) ==
    IF "acme" \notin DOMAIN tracking THEN {tracking}
    ELSE LET name == IF tracking.acme[1] = "" THEN default ELSE tracking.acme[1]
         IN IF name \in providers
            THEN {[acme |-> <<name, tracking.acme[2]>>]} ELSE {}

-----------------------------------------------------------------------------
(***************************************************************************)
(* The replacement.                                                        *)
(***************************************************************************)

FallbackPair == <<PEM([fallback |-> "cert"]), PEM([fallback |-> "key"])>>

\* One pair with what replaces it: the certificate that arrived for its
\* tracking, or else the fallback.
Replacement(entry, n, certs, providers, default) ==
    LET pair == Pairs(entry)[n]
        got == Resolve(Tracking(entry, pair), providers, default)
                    \intersect DOMAIN certs
    IN IF PairType(pair) = "text" THEN pair
       ELSE IF got = {} THEN FallbackPair
       ELSE certs[CHOOSE k \in got : TRUE]

\* The closures certTargets.replace of an entry.
InlineEntry(entry, certs, providers, default) ==
    LET R(n) == Replacement(entry, n, certs, providers, default)
        Half(h) == List([n \in DOMAIN ListPairs(entry) |-> R(n)[h]])
    IN [k \in DOMAIN entry |->
            IF k \in {"cert", "key"} /\ DOMAIN SinglePair(entry) # {}
            THEN R(0)[IF k = "cert" THEN 1 ELSE 2]
            ELSE IF k \in {"certs", "keys"} /\ ListPairs(entry) # <<>>
            THEN Half(IF k = "certs" THEN 1 ELSE 2)
            ELSE entry[k]]

HasSSLs(doc) == "ssls" \in DOMAIN doc.map

\* Update refuses a document whose ssls are not a list of maps.
UpdateFails(doc) ==
    HasSSLs(doc) /\ (~IsList(doc.map["ssls"])
                     \/ \E e \in ToSet(doc.map["ssls"].list) : ~IsMap(e))

\* The trackings a document asks certificates for.
LiveKeys(doc, providers, default) ==
    IF ~HasSSLs(doc) THEN {}
    ELSE UNION {UNION {Resolve(Tracking(e.map, Pairs(e.map)[n]),
                               providers, default) : n \in Targets(e.map)}
                    : e \in ToSet(doc.map["ssls"].list)}

\* The document with the certificates in place of the references.
Inline(doc, certs, providers, default) ==
    IF ~HasSSLs(doc) THEN doc
    ELSE Map([doc.map EXCEPT !["ssls"] =
            List([i \in DOMAIN @.list |->
                    Map(InlineEntry(@.list[i].map, certs, providers,
                                    default))])])
=============================================================================
