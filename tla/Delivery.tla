------------------------------- MODULE Delivery -------------------------------
(***************************************************************************)
(* What the ingest client (gulfwatch-ingest/client.rs) promises whoever    *)
(* reads its channel, however its socket fares: of the notifications the   *)
(* node offers, numbered as they come, it hands on some, each at most once *)
(* and in their order.  IngestClient implements this.                      *)
(***************************************************************************)
EXTENDS Naturals, Sequences

VARIABLES
    offered,      \* notifications offered so far
    handed        \* numbers of those handed on, in the order they were

vars == <<offered, handed>>

Newest == IF handed = << >> THEN 0 ELSE handed[Len(handed)]

Init == offered = 0 /\ handed = << >>

Offer == offered' \in Nat /\ offered' > offered /\ UNCHANGED handed

HandOn ==
    \E n \in Newest + 1 .. offered :
        handed' = Append(handed, n) /\ UNCHANGED offered

Next == Offer \/ HandOn

Spec == Init /\ [][Next]_vars
=============================================================================
