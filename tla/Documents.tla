----------------------------- MODULE Documents ------------------------------
(***************************************************************************)
(* Decoded configuration documents, and the rules by which they are merged  *)
(* and indexed (internal/compiler).  A value is null, a scalar, a map or a  *)
(* list; each kind is a record with a field of its own, so that values of   *)
(* any two kinds can be compared.  What goes down into a document, whatever *)
(* its depth, is in Transforms.                                            *)
(***************************************************************************)
EXTENDS Integers, Sequences, FiniteSets, SequencesExt

Null == [null |-> TRUE]
Str(s) == [str |-> s]
Int64(n) == [int |-> n]
Tenths(n) == [tenths |-> n]     \* the floating point number n / 10
Map(f) == [map |-> f]
List(s) == [list |-> s]
Error == [error |-> TRUE]       \* a non-nil error instead of a value

IsMap(v) == "map" \in DOMAIN v
IsList(v) == "list" \in DOMAIN v
IsStr(v) == "str" \in DOMAIN v
IsScalar(v) == ~IsMap(v) /\ ~IsList(v)

Empty == [k \in {} |-> Null]

Member(v, k) == IF IsMap(v) /\ k \in DOMAIN v.map THEN v.map[k] ELSE Null

\* A function with one value put over what it was, or added.
Put(f, k, w) == [x \in DOMAIN f \union {k} |-> IF x = k THEN w ELSE f[x]]

With(v, k, w) == Map(Put(v.map, k, w))

-----------------------------------------------------------------------------
(***************************************************************************)
(* The merge rules.                                                        *)
(***************************************************************************)

NoChildren == [attr \in {} |-> Null]

Rule(kind, children) ==
    [kind |-> kind, IDAttr |-> "", IDOptional |-> FALSE,
     AllowMergeSameID |-> FALSE, SupportsLabels |-> FALSE,
     Children |-> children]

ScalarRule == Rule("scalar", NoChildren)
MapRule == Rule("map", NoChildren)
ScalarListRule == Rule("scalarlist", NoChildren)

\* A top-level list, whose entries are told apart by the attribute id.
ListRule(id, optional, mergeSame, labels, children) ==
    [kind |-> "list", IDAttr |-> id, IDOptional |-> optional,
     AllowMergeSameID |-> mergeSame, SupportsLabels |-> labels,
     Children |-> children]

BasicRules == [plugins |-> MapRule, labels |-> MapRule]

\* The properties of entries that are lists of scalars.
Hosts == [hosts |-> ScalarListRule]
HostsAndURIs == [hosts |-> ScalarListRule, uris |-> ScalarListRule]

Union2(f, g) ==
    [a \in DOMAIN f \union DOMAIN g |-> IF a \in DOMAIN g THEN g[a] ELSE f[a]]

RouteRules ==
    [routes |-> ListRule("id", TRUE, TRUE, TRUE,
                         Union2(BasicRules, HostsAndURIs)),
     services |-> ListRule("id", TRUE, TRUE, TRUE, Union2(BasicRules, Hosts)),
     upstreams |-> ListRule("id", TRUE, FALSE, TRUE, NoChildren),
     ssls |-> ListRule("id", TRUE, FALSE, TRUE, [snis |-> ScalarListRule])]

GroupRules ==
    [global_rules |-> ListRule("id", FALSE, FALSE, FALSE, NoChildren),
     consumer_groups |-> ListRule("id", FALSE, TRUE, TRUE, BasicRules),
     plugin_configs |-> ListRule("id", FALSE, TRUE, TRUE, BasicRules),
     stream_routes |-> ListRule("id", TRUE, TRUE, TRUE, [labels |-> MapRule])]

ConsumerRules ==
    [protos |-> ListRule("id", TRUE, FALSE, TRUE,
                         [labels |-> [MapRule EXCEPT !.IDAttr = "route_id"]]),
     consumers |-> ListRule("username", FALSE, TRUE, TRUE,
                     Union2(BasicRules,
                            [credentials |-> ListRule("credential_id", FALSE,
                                                FALSE, FALSE, NoChildren)])),
     plugin_metadata |-> ListRule("id", FALSE, FALSE, FALSE, NoChildren)]

DefaultMergingRules ==
    Rule("map", Union2(RouteRules, Union2(GroupRules, ConsumerRules)))

\* What has no rule of its own is merged as a scalar.
RuleChild(rule, attrib) ==
    IF attrib \in DOMAIN rule.Children THEN rule.Children[attrib]
    ELSE ScalarRule

-----------------------------------------------------------------------------
(***************************************************************************)
(* Identifiers.                                                            *)
(***************************************************************************)

\* asInt64 cuts the fraction off.
AsInt64(v) ==
    IF "int" \in DOMAIN v THEN v.int
    ELSE IF v.tenths >= 0 THEN v.tenths \div 10 ELSE -((-v.tenths) \div 10)

\* asString: the identifier written by v, in a set that is empty when v is
\* neither a string nor a number.
AsString(v) ==
    IF IsStr(v) THEN {v.str}
    ELSE IF DOMAIN v \subseteq {"int", "tenths"} THEN {ToString(AsInt64(v))}
    ELSE {}

HasID(item, rule) == rule.IDAttr \in DOMAIN item.map
ID(item, rule) == CHOOSE s \in AsString(item.map[rule.IDAttr]) : TRUE

\* extractID and indexListByID find no error in the list.
Indexable(items, rule) ==
    /\ \A i \in DOMAIN items :
        /\ IsMap(items[i])
        /\ IF HasID(items[i], rule)
           THEN AsString(items[i].map[rule.IDAttr]) # {}
           ELSE rule.IDOptional
    /\ \A i, j \in DOMAIN items :
        i # j /\ HasID(items[i], rule) /\ HasID(items[j], rule)
            => ID(items[i], rule) # ID(items[j], rule)

Keyed(items, rule) == SelectSeq(items, LAMBDA e : HasID(e, rule))
Tails(items, rule) == SelectSeq(items, LAMBDA e : ~HasID(e, rule))
IDs(items, rule) == {ID(e, rule) : e \in ToSet(Keyed(items, rule))}

-----------------------------------------------------------------------------
(***************************************************************************)
(* The index of a document (Snippet.AsTree) and the tags of a route.       *)
(***************************************************************************)

\* The entries of every known list by identifier; of two with the same one the
\* later stays.
AsTree(doc) ==
    LET rules == DefaultMergingRules.Children
        lists == {k \in DOMAIN doc.map \intersect DOMAIN rules :
                    IsList(doc.map[k])}
        Known(k) == SelectSeq(doc.map[k].list,
                              LAMBDA e : /\ IsMap(e) /\ HasID(e, rules[k])
                                         /\ AsString(e.map[rules[k].IDAttr]) # {})
    IN [k \in lists |->
          [id \in IDs(Known(k), rules[k]) |->
              Known(k)[CHOOSE i \in DOMAIN Known(k) :
                  /\ ID(Known(k)[i], rules[k]) = id
                  /\ \A j \in DOMAIN Known(k) :
                        ID(Known(k)[j], rules[k]) = id => j <= i]]]

CollectStrings(v) ==
    IF IsList(v) THEN {e.str : e \in {x \in ToSet(v.list) : IsStr(x)}} ELSE {}

Texts(item, list, single) ==
    (IF list \in DOMAIN item.map THEN CollectStrings(item.map[list]) ELSE {})
    \union
    (IF single \in DOMAIN item.map /\ IsStr(item.map[single])
     THEN {item.map[single].str} ELSE {})

RouteTags(route) ==
    [hosts |-> Texts(route, "hosts", "host"),
     uris |-> Texts(route, "uris", "uri")]

-----------------------------------------------------------------------------
(***************************************************************************)
(* What a document holds, for the properties.                              *)
(***************************************************************************)

\* The members of a document, each with the names that lead to it.  The entries
\* of a list are told apart by their identifiers; those without one share a
\* place, and so do the items of a list of scalars.  What no other document may
\* have too is claimed.
Claim(path) == <<path, [claim |-> TRUE]>>

\* Two members that one document cannot have both: different values for one
\* name, values of different kinds, or what one of them claims.
Shared(path) == "untagged" \in ToSet(path) \/ Last(path) = "item"

Apart(m, n) ==
    /\ IsPrefix(m[1], n[1]) \/ IsPrefix(n[1], m[1])
    /\ ~(Shared(m[1]) /\ Shared(n[1]))
    /\ m # n \/ "claim" \in DOMAIN m[2]
=============================================================================
