------------------------------ MODULE MCTracker -----------------------------
(***************************************************************************)
(* The instances of Tracker that TLC checks.                               *)
(***************************************************************************)
EXTENDS Tracker

CONSTANTS x, y

\* Two names, of which one may be in use while the other goes stale; and one
\* whose certificate is renewed.
Both == {[names |-> {x, y}, MaxCert |-> 1], [names |-> {x}, MaxCert |-> 3]}

One == {[names |-> {x}, MaxCert |-> 1]}
=============================================================================
