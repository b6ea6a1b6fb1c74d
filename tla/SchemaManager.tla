---------------------------- MODULE SchemaManager ---------------------------
(***************************************************************************)
(* The schema that the validation endpoints share (schema.Manager): the     *)
(* first request that needs it downloads it from APISIX while it holds the  *)
(* lock, the others wait for the lock, and what could be normalized and      *)
(* compiled is kept for good.                                              *)
(***************************************************************************)
EXTENDS Documents

CONSTANTS
    Client,         \* those who send requests
    Nobody,         \* the lock is free
    RawSchemas,     \* what APISIX may answer
    Loose,          \* Manager.Loose
    MaxRetries,     \* of the backoff
    Normalized(_, _),   \* an answer made into one schema, strictly or not, or
                        \* Error
    Compiled(_)     \* whether the library compiles a schema

ASSUME SchemaManagerAssumption ==
    Nobody \notin Client /\ Loose \in BOOLEAN /\ MaxRetries \in Nat

VARIABLES
    call,       \* where the call of GetSchema of each request is
    holder,     \* Manager.Lock
    tries,      \* attempts of the fetch in progress
    raw,        \* RawSchema, downloaded and not yet adopted
    cached      \* Manager.cached, with what was compiled from it

managerVars == <<call, holder, tries, raw, cached>>

ManagerInit ==
    /\ call = [c \in Client |-> "none"]
    /\ holder = Nobody /\ tries = 0 /\ raw = Null /\ cached = Null

-----------------------------------------------------------------------------
\* GetSchema is called.
Ask(c) ==
    /\ call[c] = "none"
    /\ call' = [call EXCEPT ![c] = "waiting"]
    /\ UNCHANGED <<holder, tries, raw, cached>>

\* Mutant: the cache is not looked at again under the lock.
AcquireAlways(c) ==
    /\ call[c] = "waiting" /\ holder = Nobody
    /\ call' = [call EXCEPT ![c] = "fetching"]
    /\ holder' = c /\ tries' = 0
    /\ UNCHANGED <<raw, cached>>

\* The lock is taken; what is cached is returned at once.
Acquire(c) ==
    /\ call[c] = "waiting" /\ holder = Nobody
    /\ IF cached # Null
       THEN /\ call' = [call EXCEPT ![c] = "ok"]
            /\ UNCHANGED <<holder, tries>>
       ELSE /\ call' = [call EXCEPT ![c] = "fetching"]
            /\ holder' = c /\ tries' = 0
    /\ UNCHANGED <<raw, cached>>

\* The call returns with an error and the lock is released.
GiveUp(c) ==
    /\ call' = [call EXCEPT ![c] = "failed"]
    /\ holder' = Nobody
    /\ UNCHANGED <<tries, raw, cached>>

\* A download fails, or is answered with an error; after the last retry the
\* call does.
FetchFails(c) ==
    /\ call[c] = "fetching"
    /\ IF tries < MaxRetries
       THEN /\ tries' = tries + 1
            /\ UNCHANGED <<call, holder, raw, cached>>
       ELSE GiveUp(c)

\* The client of the request is gone, or Manager.Timeout over: it counts from
\* when the lock was taken.
FetchTimesOut(c) == call[c] = "fetching" /\ GiveUp(c)

FetchAnswered(c, doc) ==
    /\ call[c] = "fetching"
    /\ call' = [call EXCEPT ![c] = "adopting"]
    /\ raw' = doc
    /\ UNCHANGED <<holder, tries, cached>>

\* Mutant: an answer that is no schema is one more reason to try again.
AdoptOrRetry(c) ==
    /\ call[c] = "adopting"
    /\ LET normalized == Normalized(raw, ~Loose)
           good == normalized # Error /\ Compiled(normalized)
       IN /\ cached' = IF good THEN normalized ELSE cached
          /\ call' = [call EXCEPT ![c] = IF good THEN "ok" ELSE "fetching"]
          /\ holder' = IF good THEN Nobody ELSE c
    /\ raw' = Null
    /\ UNCHANGED tries

\* The answer is normalized, compiled and kept.
Adopt(c) ==
    /\ call[c] = "adopting"
    /\ LET normalized == Normalized(raw, ~Loose)
           good == normalized # Error /\ Compiled(normalized)
       IN /\ cached' = IF good THEN normalized ELSE cached
          /\ call' = [call EXCEPT ![c] = IF good THEN "ok" ELSE "failed"]
    /\ holder' = Nobody /\ raw' = Null
    /\ UNCHANGED tries

\* The handler goes on with what the call returned.
Return(c) ==
    /\ call[c] \in {"ok", "failed"}
    /\ call' = [call EXCEPT ![c] = "none"]
    /\ UNCHANGED <<holder, tries, raw, cached>>

\* Steps of the call itself.
ManagerStep(c) ==
    \/ Acquire(c)
    \/ FetchFails(c)
    \/ FetchTimesOut(c)
    \/ \E doc \in RawSchemas : FetchAnswered(c, doc)
    \/ Adopt(c)

-----------------------------------------------------------------------------
\* The schema is downloaded by one request at a time and never again once a
\* download was good: a request that waited while another one fetched must not
\* fetch too (manager.go, GetSchema).
FetchedOnce ==
    \A c \in Client : call[c] \in {"fetching", "adopting"} =>
        holder = c /\ cached = Null

\* Whatever the names of the plugins, the references that the normalization
\* writes lead to their schemas: else the library refuses the whole schema and
\* every validation fails for good (schema.go, escapeJSONPointer and
\* validator.go, resolveRef).
RefsResolve ==
    LET normalized == Normalized(raw, ~Loose) IN
    raw # Null /\ normalized # Error => Compiled(normalized)
=============================================================================
