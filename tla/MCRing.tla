-------------------------------- MODULE MCRing --------------------------------
(* Instances of Ring for TLC.                                               *)
EXTENDS Ring

CONSTANTS b1, b2

TwoBackends == {b1, b2}
ThreeItems == {1, 2, 3}

=============================================================================
