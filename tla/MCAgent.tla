------------------------------ MODULE MCAgent ------------------------------
(****************************************************************************)
(* A small instance of Agent: two events, two requests, a channel for one   *)
(* message.                                                                 *)
(****************************************************************************)
EXTENDS Agent

CONSTANTS e1, e2, r1, r2

MCEvents == {e1, e2}
MCRequests == {r1, r2}

=============================================================================
