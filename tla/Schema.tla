------------------------------- MODULE Schema -------------------------------
(***************************************************************************)
(* The schema APISIX publishes, made into one JSON Schema (internal/schema, *)
(* schema.go), and the defaults it puts into a document (validator.go).     *)
(* Schemas are documents as in Documents; below are the scalars only they   *)
(* have.  The validation itself is the work of a library.                   *)
(***************************************************************************)
EXTENDS Documents, TLC

CONSTANT
    Spelling    \* names that "~" or "/" occur in, with their characters

Bool(b) == [bool |-> b]
Digits(n) == [digits |-> n]         \* a string that reads as the integer n
Decimal(n) == [decimal |-> n]       \* a string that reads as n / 10
Regexp(ok) == [regexp |-> ok]       \* a pattern; Go compiles it if ok
Ref(parts) == [ref |-> parts]       \* "#/" and the parts, with "/" between

Object(properties) ==
    Map([type |-> Str("object"), properties |-> Map(properties),
         additionalProperties |-> Bool(FALSE)])

-----------------------------------------------------------------------------
(***************************************************************************)
(* References between the parts of a schema.                               *)
(***************************************************************************)

Spell(name) == IF name \in DOMAIN Spelling THEN Spelling[name] ELSE <<name>>

\* strings.ReplaceAll, of what old is the first characters of.
RECURSIVE ReplaceEach(_, _, _)
ReplaceEach(s, old, new) ==
    IF s = <<>> THEN <<>>
    ELSE IF IsPrefix(old, s)
    THEN new \o ReplaceEach(SubSeq(s, Len(old) + 1, Len(s)), old, new)
    ELSE <<Head(s)>> \o ReplaceEach(Tail(s), old, new)

\* Mutant: the slashes first.
EscapeSlashFirst(name) ==
    ReplaceEach(ReplaceEach(Spell(name), <<"/">>, <<"~", "1">>),
               <<"~">>, <<"~", "0">>)

\* escapeJSONPointer: "~" becomes "~0" before "/" becomes "~1".
Escape(name) ==
    ReplaceEach(ReplaceEach(Spell(name), <<"~">>, <<"~", "0">>),
               <<"/">>, <<"~", "1">>)

Unescape(part) ==
    ReplaceEach(ReplaceEach(part, <<"~", "1">>, <<"/">>), <<"~", "0">>, <<"~">>)

\* The member of v that a part of a reference names; lists are counted from 0.
Step(v, part) ==
    IF IsMap(v)
    THEN LET named == {k \in DOMAIN v.map : Spell(k) = Unescape(part)}
         IN IF named = {} THEN Null ELSE v.map[CHOOSE k \in named : TRUE]
    ELSE IF IsList(v)
    THEN LET named == {i \in DOMAIN v.list : <<ToString(i - 1)>> = part}
         IN IF named = {} THEN Null ELSE v.list[CHOOSE i \in named : TRUE]
    ELSE Null

ResolveRef(root, ref) == FoldLeft(Step, root, ref.ref)

IsRef(schema) == "ref" \in DOMAIN Member(schema, "$ref")

-----------------------------------------------------------------------------
(***************************************************************************)
(* From the schemas of the resources to the schema of a configuration.     *)
(***************************************************************************)

ResourceSpecs ==
    [routes |-> "route", services |-> "service", upstreams |-> "upstream",
     consumers |-> "consumer", consumer_groups |-> "consumer_group",
     plugin_configs |-> "plugin_config", global_rules |-> "global_rule",
     plugin_metadata |-> "plugin_metadata", ssls |-> "ssl",
     stream_routes |-> "stream_route"]

IDField(key) == IF key = "consumers" THEN "username" ELSE "id"

\* extractPluginDefs and extractPluginMetadataDefs.
PluginDefs(section, attr) ==
    IF ~IsMap(section) THEN Empty
    ELSE [name \in {n \in DOMAIN section.map :
                        /\ IsMap(section.map[n])
                        /\ attr \in DOMAIN section.map[n].map} |->
            section.map[name].map[attr]]

PluginsSchema(defs, prefix) ==
    Object([name \in DOMAIN defs |->
                Map("$ref" :> Ref(Append(prefix, Escape(name))))])

DefsSchema(defs) ==
    IF defs = Empty THEN Map([type |-> Str("object")]) ELSE Object(defs)

\* updatePluginSchema: the plugins of one kind of resource.
UpdatePluginSchema(main, mainKey, prefix, defs) ==
    LET section == Member(main, mainKey) IN
    IF defs = Empty \/ ~IsMap(Member(section, "properties")) THEN main
    ELSE With(main, mainKey,
              With(section, "properties",
                   With(section.map["properties"], "plugins",
                        PluginsSchema(defs, prefix))))

\* What a plugin's metadata may be: its own properties, told from those of the
\* other plugins by the id.
MetadataOption(name, schema) ==
    LET id == [id |-> Map([const |-> Str(name)])]
        own == Member(schema, "properties")
        required == Member(schema, "required")
    IN With(Object(IF IsMap(own) THEN Union2(id, own.map) ELSE id),
            "required",
            List(<<Str("id")>> \o (IF IsList(required) THEN required.list
                                   ELSE <<>>)))

PluginMetadataSchema(defs, strict) ==
    LET names == SetToSeq(DOMAIN defs)
        options == List([i \in DOMAIN names |->
                            MetadataOption(names[i], defs[names[i]])])
    IN IF strict THEN Map([oneOf |-> options]) ELSE Map([anyOf |-> options])

EnsureRequired(required, field) ==
    LET listed == IF IsList(required) THEN required.list ELSE <<>>
    IN IF Str(field) \in ToSet(listed) THEN List(listed)
       ELSE List(Append(listed, Str(field)))

\* stripAnyOfTypes: of the alternatives for an id only the strings stay.
StripAnyOfTypes(schema) ==
    IF ~IsList(Member(schema, "anyOf")) THEN schema
    ELSE LET kept == SelectSeq(schema.map["anyOf"].list, LAMBDA e :
                                    Member(e, "type") = Str("string"))
         IN IF kept # <<>> THEN With(schema, "anyOf", List(kept))
            ELSE Map([k \in DOMAIN schema.map \ {"anyOf"} |-> schema.map[k]])

\* enforceIDSchema.
EnforceID(resource, field, strict) ==
    LET properties == Member(resource, "properties")
        current == Member(properties, field)
        copied == IF IsMap(current) THEN current ELSE Map(Empty)
        typed == With(copied, "type", Str("string"))
        bounded == IF "minLength" \in DOMAIN typed.map THEN typed
                   ELSE With(typed, "minLength", Int64(1))
    IN IF ~IsMap(properties) THEN resource
       ELSE IF ~strict
       THEN With(resource, "properties", With(properties, field, copied))
       ELSE With(With(resource, "properties",
                      With(properties, field, StripAnyOfTypes(bounded))),
                 "required",
                 EnsureRequired(Member(resource, "required"), field))

\* wrapResourceSchema; every kind of resource is a list.
Wrap(resource) == Map([type |-> Str("array"), items |-> resource])

TopLevelProperties(main, strict) ==
    [key \in {k \in DOMAIN ResourceSpecs : IsMap(Member(main, ResourceSpecs[k]))}
        |-> Wrap(EnforceID(main.map[ResourceSpecs[key]], IDField(key), strict))]

\* normalizeSchema, an error without the section main.
NormalizeDoc(doc, strict) ==
    LET defs == PluginDefs(Member(doc, "plugins"), "schema")
        streamDefs == PluginDefs(Member(doc, "stream_plugins"), "schema")
        metadata == Union2(PluginDefs(Member(doc, "plugins"), "metadata_schema"),
                           PluginDefs(Member(doc, "stream_plugins"),
                                      "metadata_schema"))
        HTTP == << <<"$defs">>, <<"plugins">>, <<"properties">> >>
        Stream == << <<"$defs">>, <<"stream_plugins">>, <<"properties">> >>
        main == UpdatePluginSchema(
                  UpdatePluginSchema(
                    UpdatePluginSchema(
                      UpdatePluginSchema(Member(doc, "main"),
                                         "route", HTTP, defs),
                      "plugin_config", HTTP, defs),
                    "global_rule", HTTP, defs),
                  "stream_route", Stream, streamDefs)
        top == TopLevelProperties(main, strict)
    IN IF ~IsMap(Member(doc, "main")) THEN Error
       ELSE With(Object(IF metadata = Empty THEN top
                        ELSE Union2(top, [plugin_metadata |->
                            Wrap(PluginMetadataSchema(metadata, strict))])),
                 "$defs",
                 Map([plugins |-> DefsSchema(defs),
                      stream_plugins |-> DefsSchema(streamDefs)]))

-----------------------------------------------------------------------------
(***************************************************************************)
(* What APISIX writes and JSON Schema does not allow.                      *)
(***************************************************************************)
RECURSIVE Sanitize(_)

IntegerKeywords ==
    {"minLength", "maxLength", "minItems", "maxItems", "minProperties",
     "maxProperties", "minContains", "maxContains"}
NumberKeywords ==
    {"multipleOf", "minimum", "maximum", "exclusiveMinimum",
     "exclusiveMaximum"}
MapKeywords ==
    {"$defs", "definitions", "dependentSchemas", "patternProperties",
     "properties"}
PrimitiveTypes ==
    {"array", "boolean", "integer", "null", "number", "object", "string"}

\* coerceSchemaMapEntry: the name of a type where a schema has to be.
Coerce(v) ==
    IF IsStr(v) /\ v.str \in PrimitiveTypes THEN Map([type |-> v]) ELSE v

Dropped(key, v) ==
    \/ key = "pattern" /\ v = Regexp(FALSE)
    \/ key = "additionalProperties" /\ ~IsMap(v) /\ "bool" \notin DOMAIN v

SanitizeValue(key, v) ==
    IF key \in IntegerKeywords /\ "digits" \in DOMAIN v THEN Int64(v.digits)
    ELSE IF key \in NumberKeywords /\ "digits" \in DOMAIN v
    THEN Int64(v.digits)
    ELSE IF key \in NumberKeywords /\ "decimal" \in DOMAIN v
    THEN Tenths(v.decimal)
    ELSE IF key \in MapKeywords /\ IsMap(v)
    THEN Map([k \in DOMAIN v.map |-> Coerce(v.map[k])])
    ELSE v

\* sanitizeJSONSchemaNode: the entries of every list are coerced, whatever
\* keyword the list is the value of.
Sanitize(node) ==
    IF IsMap(node)
    THEN Map([k \in {x \in DOMAIN node.map : ~Dropped(x, node.map[x])} |->
                Sanitize(SanitizeValue(k, node.map[k]))])
    ELSE IF IsList(node)
    THEN List([i \in DOMAIN node.list |-> Sanitize(Coerce(node.list[i]))])
    ELSE node

NormalizeSchema(doc, strict) ==
    IF NormalizeDoc(doc, strict) = Error THEN Error
    ELSE Sanitize(NormalizeDoc(doc, strict))

\* Every reference of a schema, wherever in it.
RECURSIVE Refs(_)
Refs(v) ==
    IF IsMap(v)
    THEN (IF IsRef(v) THEN {v.map["$ref"]} ELSE {})
            \union UNION {Refs(v.map[k]) : k \in DOMAIN v.map}
    ELSE IF IsList(v) THEN UNION {Refs(e) : e \in ToSet(v.list)}
    ELSE {}

\* The library refuses a schema whose references lead nowhere.
Compiles(schema) == \A r \in Refs(schema) : ResolveRef(schema, r) # Null

-----------------------------------------------------------------------------
(***************************************************************************)
(* Defaults.  A reference met again on the way down is not followed.       *)
(***************************************************************************)
RECURSIVE GetDefault(_, _, _), Defaulted(_, _, _, _)

GetDefault(schema, root, seen) ==
    IF ~IsMap(schema) THEN Null
    ELSE IF "default" \in DOMAIN schema.map THEN schema.map["default"]
    ELSE IF ~IsRef(schema) \/ schema.map["$ref"] \in seen THEN Null
    ELSE GetDefault(ResolveRef(root, schema.map["$ref"]), root,
                    seen \union {schema.map["$ref"]})

\* Mutant: what is added is not looked into.
GivenDefaults(schema, instance, root, seen) ==
    LET properties == Member(schema, "properties") IN
    IF ~IsMap(instance) \/ ~IsMap(properties) THEN instance
    ELSE Map([k \in DOMAIN instance.map \union
                    {p \in DOMAIN properties.map :
                        GetDefault(properties.map[p], root, seen) # Null} |->
                IF k \notin DOMAIN instance.map
                THEN GetDefault(properties.map[k], root, seen)
                ELSE IF k \in DOMAIN properties.map
                THEN Defaulted(properties.map[k], instance.map[k], root, seen)
                ELSE instance.map[k]])

\* The properties of an object: what is missing is added, then everything is
\* given the defaults within.
PropertyDefaults(schema, instance, root, seen) ==
    LET properties == Member(schema, "properties")
        given == DOMAIN instance.map
        added == {p \in DOMAIN properties.map \ given :
                    GetDefault(properties.map[p], root, seen) # Null}
    IN IF ~IsMap(instance) \/ ~IsMap(properties) THEN instance
       ELSE Map([k \in given \union added |->
                LET v == IF k \in given THEN instance.map[k]
                         ELSE GetDefault(properties.map[k], root, seen)
                IN IF k \in DOMAIN properties.map
                   THEN Defaulted(properties.map[k], v, root, seen) ELSE v])

\* The items of a list, with one schema for all or one for each of the first.
ItemDefaults(schema, instance, root, seen) ==
    LET items == Member(schema, "items") IN
    IF ~IsList(instance) \/ items = Null THEN instance
    ELSE List([i \in DOMAIN instance.list |->
            IF ~IsList(items)
            THEN Defaulted(items, instance.list[i], root, seen)
            ELSE IF i \in DOMAIN items.list
            THEN Defaulted(items.list[i], instance.list[i], root, seen)
            ELSE instance.list[i]])

\* applyDefaults.
Defaulted(schema, instance, root, seen) ==
    IF ~IsMap(schema) THEN instance
    ELSE IF IsRef(schema)
    THEN LET ref == schema.map["$ref"]
         IN IF ref \in seen \/ ResolveRef(root, ref) = Null THEN instance
            ELSE Defaulted(ResolveRef(root, ref), instance, root,
                           seen \union {ref})
    ELSE LET allOf == Member(schema, "allOf")
             merged == IF ~IsList(allOf) THEN instance
                       ELSE FoldLeft(LAMBDA v, s : Defaulted(s, v, root, seen),
                                     instance, allOf.list)
         IN ItemDefaults(schema, PropertyDefaults(schema, merged, root, seen),
                         root, seen)

ApplyDefaults(schema, instance) == Defaulted(schema, instance, schema, {})
=============================================================================
