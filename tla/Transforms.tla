----------------------------- MODULE Transforms -----------------------------
(***************************************************************************)
(* What is computed over whole documents: the merge of the fragments of a   *)
(* gateway (internal/compiler), the variables put in, and       *)
(* the members of a document, for the properties.  The modules about        *)
(* cycles and handlers take these as parameters: what they promise does     *)
(* not depend on them.                                                     *)
(***************************************************************************)
EXTENDS Documents

-----------------------------------------------------------------------------
(***************************************************************************)
(* Merging two values.                                                     *)
(***************************************************************************)
RECURSIVE ApplyMergeRules(_, _, _)

\* An identifier that both sides give is a string afterwards, whatever it was.
IDText(v) == IF AsString(v) = {} THEN v ELSE Str(CHOOSE s \in AsString(v) : TRUE)

MergeKey(left, right, key, rule) ==
    IF key \notin DOMAIN left THEN right[key]
    ELSE IF key \notin DOMAIN right THEN left[key]
    ELSE IF key = rule.IDAttr
    THEN ApplyMergeRules(IDText(left[key]), IDText(right[key]),
                         RuleChild(rule, key))
    ELSE ApplyMergeRules(left[key], right[key], RuleChild(rule, key))

MergeMap(left, right, rule) ==
    LET merged == [key \in DOMAIN left \union DOMAIN right |->
                      MergeKey(left, right, key, rule)]
    IN IF \E key \in DOMAIN merged : merged[key] = Error
       THEN Error ELSE Map(merged)

\* Mutant: entries of one identifier are merged whatever their rule says.
MergeAnyItem(left, right, rule) ==
    ApplyMergeRules(left, right, [rule EXCEPT !.kind = "map"])

\* Two entries with one identifier.
MergeItem(left, right, rule) ==
    IF rule.AllowMergeSameID
    THEN ApplyMergeRules(left, right, [rule EXCEPT !.kind = "map"])
    ELSE Error

\* The entries of the left list in their order, then those only the right one
\* has, then the entries without an identifier.
MergeList(left, right, rule) ==
    LET merged ==
            [i \in DOMAIN Keyed(left, rule) |->
                LET item == Keyed(left, rule)[i]
                    same == {e \in ToSet(Keyed(right, rule)) :
                                ID(e, rule) = ID(item, rule)}
                IN IF same = {} THEN item
                   ELSE MergeItem(item, CHOOSE e \in same : TRUE, rule)]
        new == SelectSeq(Keyed(right, rule),
                         LAMBDA e : ID(e, rule) \notin IDs(left, rule))
    IN IF ~Indexable(left, rule) \/ ~Indexable(right, rule) THEN Error
       ELSE IF Error \in ToSet(merged) THEN Error
       ELSE List(merged \o new \o Tails(left, rule) \o Tails(right, rule))

\* Only what comes from the right is looked for before it is appended.
MergeScalarList(left, right) ==
    IF \E v \in ToSet(left) \union ToSet(right) : ~IsScalar(v) THEN Error
    ELSE List(FoldLeft(LAMBDA out, v : IF v \in ToSet(out) THEN out
                                       ELSE Append(out, v), left, right))

ApplyMergeRules(left, right, rule) ==
    IF left = Null THEN right
    ELSE IF right = Null THEN left
    ELSE IF IsMap(left) /\ IsMap(right) /\ rule.kind = "map"
    THEN MergeMap(left.map, right.map, rule)
    ELSE IF IsList(left) /\ IsList(right) /\ rule.kind = "list"
    THEN MergeList(left.list, right.list, rule)
    ELSE IF IsList(left) /\ IsList(right) /\ rule.kind = "scalarlist"
    THEN MergeScalarList(left.list, right.list)
    ELSE IF rule.kind = "scalar" /\ IsScalar(left) /\ left = right
    THEN left
    ELSE Error

\* The first fragment is taken as it is, each of the others merged into it.
Merge(fragments) ==
    FoldLeft(LAMBDA merged, data :
                IF merged = Error THEN Error
                ELSE ApplyMergeRules(merged, data, DefaultMergingRules),
             Null, fragments)

\* The merge of what some of the files hold, in the order of the files.
MergeFiles(files, doc) ==
    LET own == SelectSeq(files, LAMBDA f : f \in DOMAIN doc)
    IN Merge([i \in DOMAIN own |-> doc[own[i]]])

-----------------------------------------------------------------------------
(***************************************************************************)
(* Variables.                                                              *)
(***************************************************************************)
RECURSIVE Substitute(_, _)

\* SubstituteAPISIX: a placeholder is [env |-> <<name, default>>].
Substitute(v, vars_) ==
    IF IsMap(v) THEN Map([k \in DOMAIN v.map |-> Substitute(v.map[k], vars_)])
    ELSE IF IsList(v)
    THEN List([i \in DOMAIN v.list |-> Substitute(v.list[i], vars_)])
    ELSE IF "env" \notin DOMAIN v THEN v
    ELSE IF v.env[1] \in DOMAIN vars_ THEN vars_[v.env[1]] ELSE v.env[2]

-----------------------------------------------------------------------------
(***************************************************************************)
(* Every member of a document.                                             *)
(***************************************************************************)
RECURSIVE Leaves(_, _, _)
Leaves(v, rule, path) ==
    LET Tagged(e) == IsMap(e) /\ HasID(e, rule)
        Entry(e) == Append(path, IF Tagged(e) THEN ID(e, rule) ELSE "untagged")
        Of(e) == Leaves(e, [rule EXCEPT !.kind = "map"], Entry(e))
                    \union (IF rule.AllowMergeSameID \/ ~Tagged(e) THEN {}
                            ELSE {Claim(Entry(e))})
        unclaimed == \/ IsMap(v) /\ rule.kind = "map"
                     \/ IsList(v) /\ rule.kind = "scalarlist"
                     \/ IsList(v) /\ rule.kind = "list" /\ Indexable(v.list, rule)
    IN (IF IsScalar(v) \/ unclaimed THEN {} ELSE {Claim(path)})
       \union
       (IF IsMap(v)
        THEN UNION {Leaves(IF k = rule.IDAttr THEN IDText(v.map[k]) ELSE v.map[k],
                           RuleChild(rule, k), Append(path, k)) : k \in DOMAIN v.map}
        ELSE IF IsList(v) /\ rule.kind = "list" THEN UNION {Of(e) : e \in ToSet(v.list)}
        ELSE IF IsList(v) /\ rule.kind = "scalarlist"
        THEN {<<Append(path, "item"), e>> : e \in ToSet(v.list)}
        ELSE IF v = Null THEN {} ELSE {<<path, v>>})

AllLeaves(doc) == Leaves(doc, DefaultMergingRules, <<>>)
=============================================================================
