----------------------------- MODULE Follower ------------------------------
(***************************************************************************)
(* What an event stream promises: a copy that follows a record.  The copy  *)
(* may skip versions and may lag behind, but it only ever becomes a version *)
(* that was published and is newer than the one it holds.                  *)
(***************************************************************************)
EXTENDS Naturals

VARIABLES
    record,     \* last version published, 0 before the first
    copy        \* version the follower has in place

Init == record = 0 /\ copy = 0

Publish == record' = record + 1 /\ UNCHANGED copy

Follow == copy' \in (copy + 1)..record /\ UNCHANGED record

Spec == Init /\ [][Publish \/ Follow]_<<record, copy>>
=============================================================================
