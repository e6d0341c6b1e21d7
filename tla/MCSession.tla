----------------------------- MODULE MCSession -----------------------------
(****************************************************************************)
(* A small instance of Session: two sessions of one agent.                  *)
(****************************************************************************)
EXTENDS Session

=============================================================================
