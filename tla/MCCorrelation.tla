---------------------------- MODULE MCCorrelation ----------------------------
(* Correlation on small instances for TLC.  Nothing distinguishes one        *)
(* program or one signer from another, so both sets are symmetric.           *)
EXTENDS Correlation

Shape(ok, big, del) == [success |-> ok, large |-> big, delegate |-> del]
Failure == Shape(FALSE, FALSE, FALSE)

\* A probe and its success, or a failed transfer (its kind is recorded too).
ProbeOrTransfer == {Failure, Shape(TRUE, TRUE, FALSE)}

Symmetry == Permutations(Programs) \cup Permutations(Signers)
=============================================================================
