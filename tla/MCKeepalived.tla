---------------------------- MODULE MCKeepalived ----------------------------
(****************************************************************************)
(* A small instance of Keepalived: one entity, with and without             *)
(* deregistration, one worker, a switch TTL of one tick and a critical      *)
(* timeout of two or none.                                                  *)
(****************************************************************************)
EXTENDS Keepalived

CONSTANTS e1, w1

OneWorker == {w1}

=============================================================================
