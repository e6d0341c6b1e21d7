----------------------------- MODULE MCAdhocQueue -----------------------------
(* Instances of AdhocQueue for TLC.                                         *)
EXTENDS AdhocQueue

CONSTANTS b1, b2, i1, i2

TwoBackends == {b1, b2}
TwoItems == {i1, i2}

=============================================================================
