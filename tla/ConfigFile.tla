----------------------------- MODULE ConfigFile -----------------------------
(***************************************************************************)
(* What Reloader.Apply promises about the live configuration file: a call  *)
(* installs its payload at once and whole, or leaves the file as it was.   *)
(* A call that dies with the process may have done either.  A power loss   *)
(* may bring an earlier configuration back, but a whole one.               *)
(***************************************************************************)
CONSTANTS Payload,      \* payloads that may be installed
          NoFile,       \* there is no configuration file
          NoRequest     \* no call is under way

VARIABLES live,         \* what APISIX reads
          durable,      \* what a power loss would leave
          request,      \* payload of the call under way
          result        \* what the last call returned

vars == <<live, durable, request, result>>

Init ==
    /\ live \in Payload \union {NoFile}
    /\ durable = live
    /\ request = NoRequest
    /\ result = "none"

Ask(p) ==
    /\ request = NoRequest
    /\ request' = p
    /\ result' = "none"
    /\ UNCHANGED <<live, durable>>

\* Another gateway's payload is ignored; an empty one is refused.
Decline(r) ==
    /\ request = NoRequest
    /\ result' = r
    /\ UNCHANGED <<live, durable, request>>

Install ==
    /\ request # NoRequest
    /\ live' = request
    /\ request' = NoRequest
    /\ result' = "ok"
    /\ UNCHANGED durable

Refuse ==
    /\ request # NoRequest
    /\ request' = NoRequest
    /\ result' = "error"
    /\ UNCHANGED <<live, durable>>

Persist ==
    /\ durable' = live
    /\ UNCHANGED <<live, request, result>>

Die ==
    /\ live' \in {live, durable}
    /\ request' = NoRequest
    /\ result' = "none"
    /\ UNCHANGED durable

Next ==
    \/ \E p \in Payload : Ask(p)
    \/ \E r \in {"ok", "error"} : Decline(r)
    \/ Install \/ Refuse \/ Persist \/ Die

Spec == Init /\ [][Next]_vars
=============================================================================
