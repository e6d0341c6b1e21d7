------------------------------ MODULE MCEventd ------------------------------
(****************************************************************************)
(* Small instances of Eventd: one check, or two of which one has a name     *)
(* that extends the other's, one worker, one backend, and a history of two       *)
(* results.                                                                 *)
(****************************************************************************)
EXTENDS Eventd

CONSTANTS cpu, cpu2, w1, b1

OneCheck == {cpu}
TwoChecks == {cpu, cpu2}
NoLonger == [c \in OneCheck |-> NoCheck]
CPULonger == [c \in TwoChecks |-> IF c = cpu THEN cpu2 ELSE NoCheck]
OneWorker == {w1}
OneBackend == {b1}
AtOne == [w \in Workers |-> b1]

=============================================================================
