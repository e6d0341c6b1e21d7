--------------------------- MODULE AdhocQueueProofs ---------------------------
(****************************************************************************)
(* Proofs about AdhocQueue, for every number of backends, requests and      *)
(* errors.                                                                  *)
(*                                                                          *)
(* That no request is published twice or lost needs to know where the copy  *)
(* of a request is at every point of Enqueue and of listenQueue: it is in   *)
(* no lane before the transaction (Unborn), an executor that is about to    *)
(* publish holds a request that it took out of the work lane and has not    *)
(* published (Held), and one that is about to acknowledge it has published  *)
(* it (Held again).  The order of the requests follows from what each read  *)
(* of the lane has seen.                                                    *)
(****************************************************************************)
EXTENDS AdhocQueue, TLAPS

\* Before its transaction a request is in no lane, and nobody has it or has
\* published it.
Unborn == \A i \in Items : enq[i].pc \in {"new", "read"} =>
              \A b \in Backends : i \notin work[b] /\ i \notin inFlight[b] /\ runs[b][i] = 0

\* What the executor has in hand after tryDelete has left the work lane.
Held == \A b \in Backends :
            /\ exec[b].pc \in {"process", "ack"} => exec[b].item \notin work[b]
            /\ exec[b].pc = "process" => runs[b][exec[b].item] = 0
            /\ exec[b].pc = "process" => enq[exec[b].item].pc \in {"done", "failed"}
            /\ exec[b].pc = "ack" => runs[b][exec[b].item] = 1

\* A request in the work lane has not been published.
Unpublished == \A b \in Backends, i \in Items : i \in work[b] => runs[b][i] = 0

\* Nothing is in flight until tryDelete succeeds.
EmptyHanded == \A b \in Backends :
    exec[b].pc \in {"off", "get", "try", "watch", "waiting", "woken"} => inFlight[b] = {}

\* A backend that has not registered is addressed by nobody.
Newcomer == \A b \in Backends : exec[b].pc = "off" =>
                b \notin registered /\ \A i \in Items : b \notin enq[i].ids

\* The inductive invariant.
SafetyInv == /\ Unborn /\ Held /\ Unpublished /\ EmptyHanded /\ Newcomer
             /\ AtMostOnce /\ NothingLost /\ InFlightIsHeld

-----------------------------------------------------------------------------

\* Type correctness of the initial state.
LEMMA InitType == Init => TypeOK
  BY QueueAssumption DEF Init, TypeOK, InHand, Executors, Enqueues

\* Enqueue returns.
LEMMA EnqType ==
    ASSUME TypeOK, NEW i \in Items, NEW p \in {"done", "failed"},
           enq' = [enq EXCEPT ![i].pc = p]
    PROVE  enq' \in [Items -> Enqueues]
<1>1. enq \in [Items -> Enqueues]
  BY DEF TypeOK
<1>2. [enq[i] EXCEPT !.pc = p] \in Enqueues
  BY <1>1 DEF Enqueues
<1> QED BY <1>1, <1>2

\* Publishing counts.
LEMMA PublishType ==
    ASSUME TypeOK, NEW b \in Backends, exec[b].pc \in {"process"}, Publish(b)
    PROVE  /\ runs' \in [Backends -> [Items -> Nat]]
           /\ exec[b].item \in Items
           /\ runs' = [c \in Backends |-> [i \in Items |->
                          IF c = b /\ i = exec[b].item THEN runs[c][i] + 1 ELSE runs[c][i]]]
<1>1. exec[b].item \in Items /\ runs[b] \in [Items -> Nat]
  BY DEF TypeOK, InHand
<1>2. runs' = [c \in Backends |-> [i \in Items |->
                 IF c = b /\ i = exec[b].item THEN runs[c][i] + 1 ELSE runs[c][i]]]
  BY <1>1 DEF TypeOK, Publish
<1>3. \A c \in Backends, i \in Items : runs[c][i] \in Nat
  BY DEF TypeOK
<1>4. runs' \in [Backends -> [Items -> Nat]]
  BY <1>2, <1>3
<1> QED BY <1>1, <1>2, <1>4

\* Every step of the queue and of its executors preserves the types.
LEMMA NextType == TypeOK /\ [Next]_vars => TypeOK'
<1> SUFFICES ASSUME TypeOK, [Next]_vars PROVE TypeOK'
  OBVIOUS
<1> USE QueueAssumption DEF TypeOK, InHand, lanes
<1>1. CASE UNCHANGED vars
  BY <1>1 DEF vars
<1>2. ASSUME NEW b \in Backends, Register(b) PROVE TypeOK'
  BY <1>2 DEF Register, Executors
<1>3. ASSUME NEW b \in Backends, LeaseExpire(b) PROVE TypeOK'
  BY <1>3 DEF LeaseExpire
<1>4. ASSUME NEW b \in Backends, Die(b) PROVE TypeOK'
  BY <1>4 DEF Die, Executors
<1>5. ASSUME NEW b \in Backends, WatchCancelled(b) PROVE TypeOK'
  BY <1>5 DEF WatchCancelled, Executors
<1>6. ASSUME NEW b \in Backends, Fail(b) PROVE TypeOK'
  <2>1. /\ exec' \in [Backends -> Executors] /\ errors' \in 0..MaxErrors
        /\ \A c \in Backends : InHand(c)'
    BY <1>6 DEF Fail, Executors
  <2>2. /\ registered' \in SUBSET Backends
        /\ work' \in [Backends -> SUBSET Items]
        /\ inFlight' \in [Backends -> SUBSET Items]
    <3>1. CASE UNCHANGED lanes
      BY <3>1
    <3>2. CASE exec[b].pc \in {"try", "woken"} /\ MoveToInFlight(b, exec[b].item)
      BY <3>2 DEF MoveToInFlight
    <3>3. CASE DeleteInFlight(b)
      BY <3>3 DEF DeleteInFlight
    <3> QED BY <1>6, <3>1, <3>2, <3>3 DEF Fail
  <2>3. runs' \in [Backends -> [Items -> Nat]]
    BY <1>6, PublishType DEF Fail
  <2>4. enq' = enq
    BY <1>6 DEF Fail
  <2> QED BY <2>1, <2>2, <2>3, <2>4
<1>7. ASSUME NEW b \in Backends, DequeueGet(b) PROVE TypeOK'
  <2>1. CASE \E i \in Items : /\ IsFirst(i, b)
                             /\ exec' = [exec EXCEPT ![b] = [pc |-> "try", item |-> i]]
    BY <1>7, <2>1 DEF DequeueGet, Executors
  <2>2. CASE exec' = [exec EXCEPT ![b].pc = "watch"]
    BY <1>7, <2>2 DEF DequeueGet, Executors
  <2> QED BY <1>7, <2>1, <2>2 DEF DequeueGet
<1>8. ASSUME NEW b \in Backends, WatchOpen(b) PROVE TypeOK'
  BY <1>8 DEF WatchOpen, Executors
<1>9. ASSUME NEW b \in Backends, TryDelete(b) PROVE TypeOK'
  BY <1>9 DEF TryDelete, MoveToInFlight, Executors
<1>10. ASSUME NEW b \in Backends, TryDeleteLost(b) PROVE TypeOK'
  BY <1>10 DEF TryDeleteLost, Executors
<1>11. ASSUME NEW b \in Backends, Process(b) PROVE TypeOK'
  <2>1. runs' \in [Backends -> [Items -> Nat]]
    BY <1>11, PublishType DEF Process
  <2> QED BY <1>11, <2>1 DEF Process, Executors
<1>12. ASSUME NEW b \in Backends, Ack(b) PROVE TypeOK'
  BY <1>12 DEF Ack, DeleteInFlight, Executors
<1>13. ASSUME NEW i \in Items, EnqueueRead(i) PROVE TypeOK'
  BY <1>13 DEF EnqueueRead, Enqueues
<1>14. ASSUME NEW i \in Items, EnqueueTxn(i) PROVE TypeOK'
  BY <1>14 DEF EnqueueTxn, PutCopies, Enqueues, Executors
<1>15. ASSUME NEW i \in Items, EnqueueRefused(i) PROVE TypeOK'
  <2>1. enq' \in [Items -> Enqueues]
    BY <1>15, EnqType DEF EnqueueRefused
  <2> QED BY <1>15, <2>1 DEF EnqueueRefused
<1>16. ASSUME NEW i \in Items, EnqueueFail(i) PROVE TypeOK'
  <2>1. enq' \in [Items -> Enqueues] /\ errors' \in 0..MaxErrors
    <3>1. errors < MaxErrors /\ errors' = errors + 1 /\ enq' = [enq EXCEPT ![i].pc = "failed"]
      BY <1>16 DEF EnqueueFail
    <3>2. enq' \in [Items -> Enqueues]
      BY <3>1, EnqType
    <3> QED BY <3>1, <3>2
  <2>2. CASE PutCopies(i)
    BY <1>16, <2>1, <2>2 DEF PutCopies, Executors
  <2>3. CASE UNCHANGED <<lanes, exec, runs>>
    BY <1>16, <2>1, <2>3
  <2> QED BY <1>16, <2>2, <2>3 DEF EnqueueFail
<1>17. CASE Finished
  BY <1>17 DEF Finished, vars
<1> QED
  BY <1>1, <1>2, <1>3, <1>4, <1>5, <1>6, <1>7, <1>8, <1>9, <1>10, <1>11, <1>12,
     <1>13, <1>14, <1>15, <1>16, <1>17 DEF Next, ExecStep

-----------------------------------------------------------------------------

\* Nothing has happened in the initial state.
LEMMA InitSafety == Init => SafetyInv
  BY DEF Init, SafetyInv, Unborn, Held, Unpublished, AtMostOnce, NothingLost,
         InFlightIsHeld, EmptyHanded, Newcomer

\* The transaction of Enqueue, when it is committed, puts copies of a request
\* that is in no lane yet; only an executor that waits, with nothing in
\* flight, has its request changed.
LEMMA PutCopiesSafety ==
    ASSUME TypeOK, SafetyInv, NEW i \in Items, enq[i].pc = "read", PutCopies(i),
           NEW p \in {"done", "failed"}, enq' = [enq EXCEPT ![i].pc = p]
    PROVE  SafetyInv'
<1> USE DEF TypeOK, SafetyInv
<1>1. Unborn'
  BY DEF PutCopies, Unborn, Enqueues
<1>2. Held'
  BY DEF PutCopies, Held, Unborn, Executors, InHand
<1>3. Unpublished'
  BY DEF PutCopies, Unpublished, Unborn
<1>4. AtMostOnce'
  BY DEF PutCopies, AtMostOnce, Unborn
<1>5. NothingLost'
  BY DEF PutCopies, NothingLost, Enqueues
<1>6. InFlightIsHeld'
  BY DEF PutCopies, InFlightIsHeld, EmptyHanded
<1>7. EmptyHanded'
  BY DEF PutCopies, EmptyHanded
<1>8. Newcomer'
  BY DEF Newcomer, Executors, Enqueues, lanes, PutCopies
<1> QED BY <1>1, <1>2, <1>3, <1>4, <1>5, <1>6, <1>7, <1>8

\* tryDelete's transaction takes a copy that nobody has published to the
\* in-flight lane, which is empty.
LEMMA MoveSafety ==
    ASSUME TypeOK, SafetyInv, NEW b \in Backends, exec[b].pc \in {"try", "woken"},
           MoveToInFlight(b, exec[b].item), UNCHANGED <<enq, runs>>,
           NEW p \in {"process", "blocked"}, exec' = [exec EXCEPT ![b].pc = p]
    PROVE  SafetyInv'
<1> USE DEF TypeOK, InHand, SafetyInv, MoveToInFlight
<1>1. Unborn'
  BY DEF Unborn, Executors
<1>2. Held'
  BY DEF Held, Executors, Unpublished, Unborn, Enqueues
<1>3. Unpublished'
  BY DEF Unpublished, Executors
<1>4. EmptyHanded'
  BY DEF EmptyHanded, Executors
<1>5. AtMostOnce'
  BY DEF AtMostOnce, Executors
<1>6. NothingLost'
  BY DEF NothingLost, Executors
<1>7. InFlightIsHeld'
  BY DEF InFlightIsHeld, Executors, EmptyHanded
<1>8. Newcomer'
  BY DEF Newcomer, Executors, Enqueues, lanes, PutCopies
<1> QED BY <1>1, <1>2, <1>3, <1>4, <1>5, <1>6, <1>7, <1>8

\* processCheck publishes what the executor took out of the lane and has not
\* published before.
LEMMA PublishSafety ==
    ASSUME TypeOK, SafetyInv, NEW b \in Backends, exec[b].pc = "process",
           Publish(b), UNCHANGED <<lanes, enq>>,
           NEW p \in {"ack", "blocked"}, exec' = [exec EXCEPT ![b].pc = p]
    PROVE  SafetyInv'
<1> DEFINE i == exec[b].item
<1>0. /\ i \in Items /\ runs[b][i] = 0 /\ i \notin work[b]
      /\ runs' = [c \in Backends |-> [j \in Items |->
                     IF c = b /\ j = i THEN runs[c][j] + 1 ELSE runs[c][j]]]
  BY PublishType DEF SafetyInv, Held
<1> USE <1>0 DEF TypeOK, SafetyInv, lanes
<1>1. Unborn'
  <2>1. enq[i].pc \notin {"new", "read"}
    BY DEF Held
  <2> QED BY <2>1 DEF Unborn
<1>2. Held'
  BY DEF Held, Executors
<1>3. Unpublished'
  BY DEF Unpublished
<1>4. EmptyHanded'
  BY DEF EmptyHanded, Executors
<1>5. AtMostOnce'
  BY DEF AtMostOnce
<1>6. NothingLost'
  BY DEF NothingLost
<1>7. InFlightIsHeld'
  BY DEF InFlightIsHeld, Executors
<1>8. Newcomer'
  BY DEF Newcomer, Executors, Enqueues, lanes, PutCopies
<1> QED BY <1>1, <1>2, <1>3, <1>4, <1>5, <1>6, <1>7, <1>8

\* Deleting the in-flight copy of a request that has been published.
LEMMA DeleteSafety ==
    ASSUME TypeOK, SafetyInv, NEW b \in Backends, exec[b].pc = "ack",
           DeleteInFlight(b), UNCHANGED <<enq, runs>>,
           \/ exec' = [exec EXCEPT ![b].pc = "blocked"]
           \/ exec' = [exec EXCEPT ![b] = [pc |-> "get", item |-> NoItem]]
    PROVE  SafetyInv'
<1>0. inFlight'[b] = {}
  BY DEF DeleteInFlight, InFlightIsHeld, SafetyInv, TypeOK
<1> USE <1>0 DEF TypeOK, SafetyInv, DeleteInFlight
<1>1. Unborn'
  BY DEF Unborn
<1>2. Held'
  <2>1. ASSUME NEW c \in Backends
        PROVE  c # b => exec'[c] = exec[c]
    OBVIOUS
  <2>2. exec'[b].pc \in {"get", "blocked"}
    BY DEF Executors
  <2> QED BY <2>1, <2>2 DEF Held
<1>3. Unpublished'
  BY DEF Unpublished
<1>4. EmptyHanded'
  BY DEF EmptyHanded, Executors
<1>5. AtMostOnce'
  BY DEF AtMostOnce
<1>6. NothingLost'
  BY DEF NothingLost, Held, InFlightIsHeld, Enqueues
<1>7. InFlightIsHeld'
  BY DEF InFlightIsHeld, Executors
<1>8. Newcomer'
  BY DEF Newcomer, Executors, Enqueues, lanes, PutCopies
<1> QED BY <1>1, <1>2, <1>3, <1>4, <1>5, <1>6, <1>7, <1>8

\* A step of an executor that leaves the lanes alone, and takes no request to
\* hand that it could publish, disturbs nothing: nothing is in flight unless
\* it keeps its request.
LEMMA IdleSafety ==
    ASSUME TypeOK, SafetyInv, NEW b \in Backends, UNCHANGED <<lanes, enq, runs>>,
           NEW e \in Executors, exec' = [exec EXCEPT ![b] = e],
           e.pc \notin {"process", "ack", "off"},
           e.item # exec[b].item => inFlight[b] = {},
           e.pc \in {"off", "get", "try", "watch", "waiting", "woken"} => inFlight[b] = {}
    PROVE  SafetyInv'
  BY DEF SafetyInv, TypeOK, lanes, Unborn, Held, Unpublished, EmptyHanded,
         AtMostOnce, NothingLost, InFlightIsHeld, Newcomer

\* Every step preserves the invariant.
LEMMA NextSafety == TypeOK /\ SafetyInv /\ [Next]_vars => SafetyInv'
<1> SUFFICES ASSUME TypeOK, SafetyInv, [Next]_vars PROVE SafetyInv'
  OBVIOUS
<1>1. CASE UNCHANGED vars
  BY <1>1 DEF vars, lanes, SafetyInv, Unborn, Held, Unpublished, EmptyHanded,
         AtMostOnce, NothingLost, InFlightIsHeld, Newcomer
<1>2. ASSUME NEW b \in Backends, Register(b) PROVE SafetyInv'
  <2>1. NothingLost'
    BY <1>2 DEF Register, NothingLost, Newcomer, SafetyInv
  <2>2. Newcomer'
    BY <1>2 DEF Register, Newcomer, SafetyInv, TypeOK, Executors
  <2> QED BY <1>2, <2>1, <2>2
          DEF Register, SafetyInv, TypeOK, Unborn, Held, Unpublished,
              EmptyHanded, AtMostOnce, InFlightIsHeld, Executors
<1>3. ASSUME NEW b \in Backends, LeaseExpire(b) PROVE SafetyInv'
  BY <1>3 DEF LeaseExpire, SafetyInv, TypeOK, Unborn, Held, Unpublished,
              EmptyHanded, AtMostOnce, NothingLost, InFlightIsHeld, Newcomer
<1>4. ASSUME NEW b \in Backends, Die(b) PROVE SafetyInv'
  <2>1. exec[b] \in Executors
    BY DEF TypeOK
  <2>2. [exec[b] EXCEPT !.pc = "dead"] \in Executors
    BY <2>1 DEF Executors
  <2> QED BY <1>4, <2>1, <2>2, IdleSafety DEF Die, Executors, TypeOK
<1>5. ASSUME NEW b \in Backends, WatchCancelled(b) PROVE SafetyInv'
  <2>1. exec[b] \in Executors
    BY DEF TypeOK
  <2>2. [exec[b] EXCEPT !.pc = "watch"] \in Executors
    BY <2>1 DEF Executors
  <2>3. inFlight[b] = {}
    BY <1>5 DEF WatchCancelled, SafetyInv, EmptyHanded
  <2> QED BY <1>5, <2>1, <2>2, <2>3, IdleSafety DEF WatchCancelled, Executors, TypeOK
<1>6. ASSUME NEW b \in Backends, Fail(b) PROVE SafetyInv'
  <2>1. exec[b] \in Executors
    BY DEF TypeOK
  <2>2. [exec[b] EXCEPT !.pc = "blocked"] \in Executors
    BY <2>1 DEF Executors
  <2>3. CASE UNCHANGED <<lanes, runs>>
    BY <1>6, <2>1, <2>2, <2>3, IdleSafety DEF Fail, Executors, TypeOK
  <2>4. CASE exec[b].pc \in {"try", "woken"} /\ MoveToInFlight(b, exec[b].item) /\ UNCHANGED runs
    BY <1>6, <2>4, MoveSafety DEF Fail
  <2>5. CASE exec[b].pc = "process" /\ Publish(b) /\ UNCHANGED lanes
    BY <1>6, <2>5, PublishSafety DEF Fail
  <2>6. CASE exec[b].pc = "ack" /\ DeleteInFlight(b) /\ UNCHANGED runs
    BY <1>6, <2>6, DeleteSafety DEF Fail
  <2> QED BY <1>6, <2>3, <2>4, <2>5, <2>6 DEF Fail
<1>7. ASSUME NEW b \in Backends, DequeueGet(b) PROVE SafetyInv'
  <2>1. exec[b] \in Executors /\ inFlight[b] = {}
    BY <1>7 DEF TypeOK, DequeueGet, SafetyInv, EmptyHanded
  <2>2. CASE \E i \in Items : exec' = [exec EXCEPT ![b] = [pc |-> "try", item |-> i]]
    <3>1. PICK i \in Items : exec' = [exec EXCEPT ![b] = [pc |-> "try", item |-> i]]
      BY <2>2
    <3>2. [pc |-> "try", item |-> i] \in Executors
      BY DEF Executors
    <3> QED BY <1>7, <2>1, <3>1, <3>2, IdleSafety DEF DequeueGet
  <2>3. CASE exec' = [exec EXCEPT ![b].pc = "watch"]
    <3>1. [exec[b] EXCEPT !.pc = "watch"] \in Executors
      BY <2>1 DEF Executors
    <3> QED BY <1>7, <2>1, <2>3, <3>1, IdleSafety DEF DequeueGet, Executors, TypeOK
  <2> QED BY <1>7, <2>2, <2>3 DEF DequeueGet
<1>8. ASSUME NEW b \in Backends, WatchOpen(b) PROVE SafetyInv'
  <2>1. exec[b] \in Executors /\ inFlight[b] = {}
    BY <1>8 DEF TypeOK, WatchOpen, SafetyInv, EmptyHanded
  <2>2. [exec[b] EXCEPT !.pc = "waiting"] \in Executors
    BY <2>1 DEF Executors
  <2> QED BY <1>8, <2>1, <2>2, IdleSafety DEF WatchOpen, Executors, TypeOK
<1>9. ASSUME NEW b \in Backends, TryDelete(b) PROVE SafetyInv'
  BY <1>9, MoveSafety DEF TryDelete
<1>10. ASSUME NEW b \in Backends, TryDeleteLost(b) PROVE SafetyInv'
  <2>1. inFlight[b] = {}
    BY <1>10 DEF TryDeleteLost, SafetyInv, EmptyHanded
  <2>2. \A p \in {"get", "dead"} : [pc |-> p, item |-> NoItem] \in Executors
    BY DEF Executors
  <2> QED BY <1>10, <2>1, <2>2, IdleSafety DEF TryDeleteLost
<1>11. ASSUME NEW b \in Backends, Process(b) PROVE SafetyInv'
  BY <1>11, PublishSafety DEF Process
<1>12. ASSUME NEW b \in Backends, Ack(b) PROVE SafetyInv'
  BY <1>12, DeleteSafety DEF Ack
<1>13. ASSUME NEW i \in Items, EnqueueRead(i) PROVE SafetyInv'
  <2>1. \A j \in Items : /\ j # i => enq'[j] = enq[j]
                        /\ enq'[i].pc = "read" /\ enq'[i].ids = registered
    BY <1>13 DEF EnqueueRead, TypeOK
  <2> QED BY <1>13, <2>1 DEF EnqueueRead, lanes, SafetyInv, TypeOK, Unborn, Held,
              Unpublished, EmptyHanded, AtMostOnce, NothingLost, InFlightIsHeld, Newcomer, InHand
<1>14. ASSUME NEW i \in Items, EnqueueTxn(i) PROVE SafetyInv'
  BY <1>14, PutCopiesSafety DEF EnqueueTxn
<1>15. ASSUME NEW i \in Items, enq[i].pc = "read", enq' = [enq EXCEPT ![i].pc = "failed"],
              UNCHANGED <<lanes, exec, runs>>
       PROVE  SafetyInv'
  BY <1>15 DEF lanes, SafetyInv, TypeOK, Unborn, Held, Enqueues,
              Unpublished, EmptyHanded, AtMostOnce, NothingLost, InFlightIsHeld, Newcomer, InHand
<1>16. ASSUME NEW i \in Items, EnqueueRefused(i) \/ EnqueueFail(i) PROVE SafetyInv'
  BY <1>15, <1>16, PutCopiesSafety DEF EnqueueRefused, EnqueueFail
<1>17. CASE Finished
  BY <1>1, <1>17 DEF Finished
<1> QED
  BY <1>1, <1>2, <1>3, <1>4, <1>5, <1>6, <1>7, <1>8, <1>9, <1>10, <1>11, <1>12,
     <1>13, <1>14, <1>16, <1>17 DEF Next, ExecStep

-----------------------------------------------------------------------------

\* The types hold in every behaviour of the queue.
THEOREM TypeCorrect == Spec => []TypeOK
  BY InitType, NextType, PTL DEF Spec

\* The invariant holds in every behaviour of the queue.
LEMMA AlwaysSafe == Spec => []SafetyInv
  BY TypeCorrect, InitSafety, NextSafety, PTL DEF Spec

\* For any number of backends, requests and errors: no backend publishes a
\* request twice.
THEOREM PublishedAtMostOnce == Spec => []AtMostOnce
<1>1. SafetyInv => AtMostOnce
  BY DEF SafetyInv
<1> QED BY <1>1, AlwaysSafe, PTL

\* For any number of backends, requests and errors: a request whose Enqueue
\* succeeded is kept by every backend it addressed until it is published,
\* while the backend's lease lives.
THEOREM NoRequestIsLost == Spec => []NothingLost
<1>1. SafetyInv => NothingLost
  BY DEF SafetyInv
<1> QED BY <1>1, AlwaysSafe, PTL

\* For any number of backends, requests and errors: the in-flight lane holds
\* at most the request its executor is at.
THEOREM InFlightIsBounded == Spec => []InFlightIsHeld
<1>1. SafetyInv => InFlightIsHeld
  BY DEF SafetyInv
<1> QED BY <1>1, AlwaysSafe, PTL

-----------------------------------------------------------------------------
(* The order in which requests are taken.                                   *)

\* Only a request that has been put comes before another.
Past == \A i \in Items : \A j \in enq[i].after : enq[j].pc = "done" /\ j # i

\* No two keys of a lane are the same.
Distinct == \A b \in Backends : \A i, j \in work[b] : enq[i].stamp = enq[j].stamp => i = j

\* i has been put, and what came earlier and waits in b's lane has a later stamp.
InOrder(i, b) == /\ enq[i].pc \in {"done", "failed"}
                 /\ \A j \in enq[i].after : j \in work[b] => enq[i].stamp < enq[j].stamp

\* So it is with what an executor found by reading its lane.
FoundFirst == \A b \in Backends : exec[b].pc = "try" => InOrder(exec[b].item, b)

OrderInv == Past /\ Distinct /\ FoundFirst

\* What is first in the lane has an earlier stamp than anything else in it.
LEMMA FirstIsFound ==
    ASSUME TypeOK, SafetyInv, OrderInv, NEW b \in Backends, NEW i \in Items, IsFirst(i, b)
    PROVE  InOrder(i, b)
<1>1. enq[i].pc \in {"done", "failed"}
  BY DEF IsFirst, SafetyInv, Unborn, TypeOK, Enqueues
<1>2. ASSUME NEW j \in enq[i].after, j \in work[b] PROVE enq[i].stamp < enq[j].stamp
  <2>1. j \in Items /\ enq[j].stamp \in Nat /\ enq[i].stamp \in Nat
    BY <1>2 DEF TypeOK, Enqueues
  <2>2. enq[i].stamp <= enq[j].stamp
    BY <1>2 DEF IsFirst
  <2>3. enq[i].stamp # enq[j].stamp
    BY <1>2 DEF IsFirst, OrderInv, Distinct, Past
  <2> QED BY <2>1, <2>2, <2>3
<1> QED BY <1>1, <1>2 DEF InOrder

\* A step of one executor, or one that empties a lane: what it leaves in the lanes
\* was there, and if it reads, it finds the first.
LEMMA ExecOrder ==
    ASSUME TypeOK, OrderInv, UNCHANGED enq, NEW b \in Backends,
           \A x \in Backends : x # b => exec'[x] = exec[x],
           \A x \in Backends : work'[x] \subseteq work[x],
           exec'[b] = exec[b] \/ exec'[b].pc # "try" \/ InOrder(exec'[b].item, b)
    PROVE  OrderInv'
<1>1. Past' /\ Distinct'
  BY DEF OrderInv, Past, Distinct
<1>2. FoundFirst'
  BY DEF OrderInv, FoundFirst, InOrder
<1> QED BY <1>1, <1>2 DEF OrderInv

\* Enqueue that begins comes after others, and before none.
LEMMA ReadOrder ==
    ASSUME TypeOK, SafetyInv, OrderInv, NEW i \in Items, EnqueueRead(i)
    PROVE  OrderInv'
<1>1. enq \in [Items -> Enqueues] /\ work \in [Backends -> SUBSET Items]
      /\ \A j \in Items : enq[j].after \subseteq Items
  BY DEF TypeOK, Enqueues
<1>2. /\ enq'[i].pc = "read" /\ enq'[i].after = {j \in Items : enq[j].pc = "done"}
      /\ \A j \in Items : j # i => enq'[j] = enq[j]
      /\ enq[i].pc = "new" /\ UNCHANGED <<work, exec>>
  BY <1>1 DEF EnqueueRead, lanes
<1>3. \A b \in Backends : i \notin work[b]
  BY <1>2 DEF SafetyInv, Unborn
<1>4. Past'
  BY <1>1, <1>2 DEF OrderInv, Past
<1>5. Distinct'
  BY <1>1, <1>2, <1>3 DEF OrderInv, Distinct
<1>6. FoundFirst'
  <2> SUFFICES ASSUME NEW b \in Backends, exec[b].pc = "try" PROVE InOrder(exec[b].item, b)'
    BY <1>2 DEF FoundFirst
  <2>1. exec[b].item \in Items /\ InOrder(exec[b].item, b) /\ exec[b].item # i
    BY <1>2 DEF OrderInv, FoundFirst, InOrder, TypeOK, InHand
  <2> QED BY <1>1, <1>2, <1>3, <2>1 DEF InOrder
<1> QED BY <1>4, <1>5, <1>6 DEF OrderInv

\* Enqueue that returns comes before none that has begun.  What it puts has no
\* key that is there already.
LEMMA ReturnOrder ==
    ASSUME TypeOK, SafetyInv, OrderInv, NEW i \in Items, NEW p \in {"done", "failed"},
           enq[i].pc = "read", enq' = [enq EXCEPT ![i].pc = p],
           PutCopies(i) \/ UNCHANGED <<lanes, exec>>
    PROVE  OrderInv'
<1>1. enq \in [Items -> Enqueues] /\ work \in [Backends -> SUBSET Items]
      /\ \A j \in Items : enq[j].after \subseteq Items
  BY DEF TypeOK, Enqueues
<1>2. \A j \in Items : /\ enq'[j].stamp = enq[j].stamp /\ enq'[j].after = enq[j].after
                      /\ j # i => enq'[j].pc = enq[j].pc
                      /\ enq'[i].pc = p
  BY <1>1 DEF Enqueues
<1>3. \A j \in Items : i \notin enq[j].after
  BY DEF OrderInv, Past
<1>4. \A b \in Backends : i \notin work[b]
  BY DEF SafetyInv, Unborn
<1>5. Past'
  BY <1>1, <1>2, <1>3 DEF OrderInv, Past
<1>6. ASSUME NEW b \in Backends, NEW j \in work'[b], NEW k \in work'[b],
             enq'[j].stamp = enq'[k].stamp
      PROVE  j = k
  <2>1. CASE UNCHANGED <<lanes, exec>>
    BY <1>1, <1>2, <1>6, <2>1 DEF OrderInv, Distinct, lanes
  <2>2. CASE PutCopies(i)
    <3>1. /\ work'[b] = work[b] \cup {m \in {i} : b \in enq[i].ids}
          /\ j \in Items /\ k \in Items /\ enq[j].stamp = enq[k].stamp
      BY <1>1, <1>2, <1>6, <2>2 DEF PutCopies
    <3>2. ASSUME b \in enq[i].ids, NEW m \in work[b] PROVE enq[m].stamp # enq[i].stamp
      BY <2>2, <3>2 DEF PutCopies, Clash
    <3> QED BY <3>1, <3>2 DEF OrderInv, Distinct
  <2> QED BY <2>1, <2>2
<1>7. FoundFirst'
  <2> SUFFICES ASSUME NEW b \in Backends, exec'[b].pc = "try" PROVE InOrder(exec[b].item, b)'
    BY DEF FoundFirst
  <2>1. exec'[b] = exec[b]
    BY DEF PutCopies
  <2>2. exec[b].item \in Items /\ InOrder(exec[b].item, b) /\ exec[b].item # i
    BY <2>1 DEF OrderInv, FoundFirst, InOrder, TypeOK, InHand
  <2>3. ASSUME NEW j \in work'[b], j # i PROVE j \in work[b]
    BY <2>3 DEF PutCopies, lanes
  <2> QED BY <1>1, <1>2, <1>3, <2>1, <2>2, <2>3 DEF InOrder
<1> QED BY <1>5, <1>6, <1>7 DEF OrderInv, Distinct

\* Every step keeps the order.
LEMMA NextOrder ==
    ASSUME TypeOK, SafetyInv, OrderInv, [Next]_vars
    PROVE  OrderInv'
<1>0. /\ exec \in [Backends -> Executors] /\ work \in [Backends -> SUBSET Items]
  BY DEF TypeOK
<1>2. ASSUME NEW b \in Backends, DequeueGet(b) PROVE OrderInv'
  <2>1. CASE \E i \in Items : /\ IsFirst(i, b)
                             /\ exec' = [exec EXCEPT ![b] = [pc |-> "try", item |-> i]]
    <3>1. PICK i \in Items : /\ IsFirst(i, b)
                             /\ exec' = [exec EXCEPT ![b] = [pc |-> "try", item |-> i]]
      BY <2>1
    <3>2. InOrder(i, b)
      BY <3>1, FirstIsFound
    <3>3. exec'[b].item = i /\ \A x \in Backends : x # b => exec'[x] = exec[x]
      BY <1>0, <3>1
    <3> QED BY <1>2, <3>2, <3>3, ExecOrder DEF DequeueGet, lanes
  <2>2. CASE exec' = [exec EXCEPT ![b].pc = "watch"]
    <3>1. exec'[b].pc # "try" /\ \A x \in Backends : x # b => exec'[x] = exec[x]
      BY <1>0, <2>2 DEF Executors
    <3> QED BY <1>2, <3>1, ExecOrder DEF DequeueGet, lanes
  <2> QED BY <1>2, <2>1, <2>2 DEF DequeueGet
<1>3. ASSUME NEW b \in Backends,
             \/ Register(b) \/ LeaseExpire(b) \/ Die(b) \/ WatchCancelled(b) \/ Fail(b)
             \/ WatchOpen(b) \/ TryDelete(b) \/ TryDeleteLost(b) \/ Process(b) \/ Ack(b)
      PROVE  OrderInv'
  <2>1. \A x \in Backends : x # b => exec'[x] = exec[x]
    BY <1>0, <1>3 DEF Register, LeaseExpire, Die, WatchCancelled, Fail, WatchOpen, TryDelete,
                      TryDeleteLost, Process, Ack
  <2>2. exec'[b] = exec[b] \/ exec'[b].pc # "try"
    BY <1>0, <1>3 DEF Register, LeaseExpire, Die, WatchCancelled, Fail, WatchOpen, TryDelete,
                      TryDeleteLost, Process, Ack, Executors
  <2>3. \A x \in Backends : work'[x] \subseteq work[x]
    BY <1>0, <1>3 DEF Register, LeaseExpire, Die, WatchCancelled, Fail, WatchOpen, TryDelete,
                      TryDeleteLost, Process, Ack, MoveToInFlight, DeleteInFlight, lanes
  <2>4. UNCHANGED enq
    BY <1>3 DEF Register, LeaseExpire, Die, WatchCancelled, Fail, WatchOpen, TryDelete,
                TryDeleteLost, Process, Ack
  <2> QED BY <2>1, <2>2, <2>3, <2>4, ExecOrder
<1>4. ASSUME NEW i \in Items, EnqueueTxn(i) \/ EnqueueRefused(i) \/ EnqueueFail(i)
      PROVE  OrderInv'
  <2>1. /\ enq[i].pc = "read"
        /\ \E p \in {"done", "failed"} : enq' = [enq EXCEPT ![i].pc = p]
        /\ PutCopies(i) \/ UNCHANGED <<lanes, exec>>
    BY <1>4 DEF EnqueueTxn, EnqueueRefused, EnqueueFail
  <2> QED BY <2>1, ReturnOrder
<1>5. CASE Finished \/ UNCHANGED vars
  <2>1. UNCHANGED <<lanes, exec, enq>>
    BY <1>5 DEF Finished, vars
  <2> QED BY <2>1 DEF OrderInv, Past, Distinct, FoundFirst, InOrder, lanes
<1> QED BY <1>2, <1>3, <1>4, <1>5, ReadOrder DEF Next, ExecStep

\* For any number of backends, requests and errors, and whatever the callers' clocks
\* say: a request that Dequeue found by reading the lane is taken ahead of one whose
\* Enqueue had returned before its own began only if its stamp is the earlier one.
THEOREM TakenInOrder == Spec => ReadInOrder
<1> DEFINE Ordered == \A b \in Backends, i, j \in Items :
              (TakenBefore(b, i, j) /\ exec[b].pc = "try" /\ j \in enq[i].after)
                  => enq[i].stamp < enq[j].stamp
<1>1. Init => OrderInv
  BY DEF Init, OrderInv, Past, Distinct, FoundFirst
<1>2. TypeOK /\ SafetyInv /\ OrderInv /\ [Next]_vars => OrderInv'
  BY NextOrder
<1>3. TypeOK /\ OrderInv /\ [Next]_vars => [Ordered]_vars
  <2> SUFFICES ASSUME TypeOK, OrderInv, Next, NEW b \in Backends, NEW i \in Items,
                      NEW j \in Items, TakenBefore(b, i, j), exec[b].pc = "try",
                      j \in enq[i].after
               PROVE  enq[i].stamp < enq[j].stamp
    OBVIOUS
  <2>0. work \in [Backends -> SUBSET Items] /\ inFlight \in [Backends -> SUBSET Items]
    BY DEF TypeOK
  <2>1. exec[b].item = i => enq[i].stamp < enq[j].stamp
    BY DEF OrderInv, FoundFirst, InOrder, TakenBefore
  <2>2. ASSUME NEW x \in Backends, MoveToInFlight(x, exec[x].item) PROVE exec[b].item = i
    BY <2>0, <2>2 DEF MoveToInFlight, TakenBefore
  <2>3. UNCHANGED work => FALSE
    BY DEF TakenBefore
  <2>4. ASSUME NEW x \in Backends, LeaseExpire(x) PROVE FALSE
    BY <2>0, <2>4 DEF LeaseExpire, TakenBefore
  <2>5. ASSUME NEW k \in Items, PutCopies(k) PROVE FALSE
    BY <2>5 DEF PutCopies, TakenBefore
  <2>6. ASSUME NEW x \in Backends,
               Register(x) \/ Die(x) \/ WatchCancelled(x) \/ Fail(x) \/ ExecStep(x)
        PROVE  exec[b].item = i
    BY <2>2, <2>3, <2>6 DEF Register, Die, WatchCancelled, Fail, ExecStep, DequeueGet, WatchOpen,
            TryDelete, TryDeleteLost, Process, Ack, DeleteInFlight, lanes
  <2>7. ASSUME NEW k \in Items,
               EnqueueRead(k) \/ EnqueueTxn(k) \/ EnqueueRefused(k) \/ EnqueueFail(k)
        PROVE  FALSE
    BY <2>3, <2>5, <2>7 DEF EnqueueRead, EnqueueTxn, EnqueueRefused, EnqueueFail, lanes
  <2>8. ~Finished
    BY <2>3 DEF Finished, vars, lanes
  <2> QED BY <2>1, <2>4, <2>6, <2>7, <2>8 DEF Next
<1> QED BY TypeCorrect, AlwaysSafe, <1>1, <1>2, <1>3, PTL DEF Spec, ReadInOrder

=============================================================================
