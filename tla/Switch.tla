------------------------------- MODULE Switch -------------------------------
(****************************************************************************)
(* What backend/liveness promises its users, without leases, requests and   *)
(* watches.  SwitchSet implements it; Keepalived and Eventd are built on it *)
(* and take their switches from here.                                       *)
(*                                                                          *)
(* A switch is asserted alive or dead, is buried, and vanishes when its TTL *)
(* runs out or its burial is completed.  A vanished switch may be put back  *)
(* as dead, once for each time it vanished, and whoever puts it back is the *)
(* leader of that death.  Nobody has to put it back.                        *)
(****************************************************************************)
EXTENDS Naturals

CONSTANT Members        \* the identifiers of the switches

VARIABLES state,        \* member -> what its switch says
          deaths        \* member -> times it vanished and was not put back

States == {"absent", "alive", "dead", "buried"}

Init == /\ state = [m \in Members |-> "absent"]
        /\ deaths = [m \in Members |-> 0]

\* Alive, Dead, and the first half of Bury.
Put(m, s) == /\ state' = [state EXCEPT ![m] = s]
             /\ UNCHANGED deaths

\* The TTL runs out, or Bury deletes the switch.
Vanish(m) == /\ state[m] # "absent"
             /\ state' = [state EXCEPT ![m] = "absent"]
             /\ deaths' = [deaths EXCEPT ![m] = @ + 1]

\* Bury deletes the switch, and every backend ignores that.
Forget(m) == /\ state[m] = "buried"
             /\ state' = [state EXCEPT ![m] = "absent"]
             /\ UNCHANGED deaths

\* A backend has seen the switch vanish and puts it back.
TakeOver(m) == /\ state[m] = "absent" /\ deaths[m] > 0
               /\ state' = [state EXCEPT ![m] = "dead"]
               /\ deaths' = [deaths EXCEPT ![m] = @ - 1]

\* Every backend has handled, or has missed, one time that it vanished.
Forgo(m) == /\ deaths[m] > 0
            /\ deaths' = [deaths EXCEPT ![m] = @ - 1]
            /\ UNCHANGED state

Next == \E m \in Members :
    \/ \E s \in States \ {"absent"} : Put(m, s)
    \/ Vanish(m)
    \/ Forget(m)
    \/ TakeOver(m)
    \/ Forgo(m)

Spec == Init /\ [][Next]_<<state, deaths>>

=============================================================================
