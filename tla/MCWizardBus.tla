----------------------------- MODULE MCWizardBus -----------------------------
(****************************************************************************)
(* A small instance of WizardBus: two consumers, so that one can leave      *)
(* while the other subscribes, and two publishers whose messages do not     *)
(* both fit in a channel of one place, so that publishers block.            *)
(****************************************************************************)
EXTENDS WizardBus

CONSTANTS c1, c2, p1, p2

TwoConsumers == {c1, c2}
TwoPublishers == {p1, p2}

=============================================================================
