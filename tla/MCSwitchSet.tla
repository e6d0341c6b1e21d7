----------------------------- MODULE MCSwitchSet -----------------------------
(****************************************************************************)
(* A small instance of SwitchSet: two backends, one member, one TTL that is *)
(* accepted and one that is refused, and a callback channel of one place,   *)
(* so that the monitor is held up by a callback that has not run.           *)
(****************************************************************************)
EXTENDS SwitchSet

CONSTANTS b1, b2, c1, c2, s1

TwoBackends == {b1, b2}
TwoClients == {c1, c2}
OneSwitch == {s1}
SmallTTLs == {4, 5}

=============================================================================
