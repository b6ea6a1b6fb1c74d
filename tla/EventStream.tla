---------------------------- MODULE EventStream -----------------------------
(***************************************************************************)
(* What the server promises about one event stream: it starts with the     *)
(* record, and every publication is either answered with the record as it   *)
(* is by then or covered by a notification that is still to be answered.    *)
(* SSEServer implements it for every stream, and SSEClient has it for its    *)
(* server.                                                                 *)
(***************************************************************************)
EXTENDS Naturals

CONSTANT Buffer     \* notifications that wait, besides the one being answered

VARIABLES
    record,     \* last version published, 0 before the first
    open,       \* the stream is served
    pending,    \* notifications still to be answered
    sent        \* last version sent on the stream, 0 for none

vars == <<record, open, pending, sent>>

Init == record = 0 /\ open = FALSE /\ pending = 0 /\ sent = 0

\* A notification may be dropped when as many as the buffer takes are pending.
Publish ==
    /\ record' = record + 1
    /\ \/ open /\ pending <= Buffer /\ pending' = pending + 1
       \/ (open => pending >= Buffer) /\ pending' = pending
    /\ UNCHANGED <<open, sent>>

\* The stream starts with the record, and with the notifications that came
\* between its registration and the look at the record.
Open ==
    /\ ~open /\ open' = TRUE
    /\ sent' = record
    /\ pending' \in 0..Buffer
    /\ record = 0 => pending' = 0
    /\ UNCHANGED record

Send ==
    /\ open /\ pending > 0
    /\ sent' = record
    /\ pending' = pending - 1
    /\ UNCHANGED <<record, open>>

Close ==
    /\ open /\ open' = FALSE
    /\ pending' = 0 /\ sent' = 0
    /\ UNCHANGED record

Next == Publish \/ Open \/ Send \/ Close

Spec == Init /\ [][Next]_vars
=============================================================================
