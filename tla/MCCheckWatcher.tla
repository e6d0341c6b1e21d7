--------------------------- MODULE MCCheckWatcher ---------------------------
(****************************************************************************)
(* A small instance of CheckWatcher: a check of two intervals, round robin  *)
(* or not.                                                                  *)
(****************************************************************************)
EXTENDS CheckWatcher

Config(t, n) == [type |-> t, interval |-> n]

MCConfigs == {Config(t, n) : t \in {"interval", "roundrobin"}, n \in 1 .. 2}

=============================================================================
