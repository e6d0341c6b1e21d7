------------------------------ MODULE AdhocQueue ------------------------------
(****************************************************************************)
(* The queue of ad hoc check requests, kept in etcd (backend/queue), and    *)
(* the executor that every backend runs on it (backend/schedulerd).         *)
(*                                                                          *)
(* A backend is known by its lease; its keys vanish when the lease runs     *)
(* out.  Enqueue puts one copy of a request into the work lane of every     *)
(* backend that is registered.  Each backend's executor moves a copy from   *)
(* its work lane to its in-flight lane, publishes the check, and deletes    *)
(* the copy.  A backend that restarts gets a new lease, and so is another   *)
(* member of Backends.  A lane is ordered by the time stamps in its keys,   *)
(* which Enqueue takes from its own backend's clock before its transaction. *)
(* Those clocks need not agree, and may step back, so a stamp is any number *)
(* up to MaxStamp.  One stamp stands for those of all the copies of a       *)
(* request.                                                                 *)
(****************************************************************************)
EXTENDS Naturals

CONSTANTS Backends,   \* backend IDs (leases)
          Items,      \* requests
          NoItem,     \* no request
          MaxStamp,   \* bound: the clocks' readings
          MaxErrors   \* bound: failed etcd requests and checks, lost leases

ASSUME QueueAssumption == /\ NoItem \notin Items
                          /\ MaxStamp \in Nat
                          /\ MaxErrors \in Nat

VARIABLES registered,  \* backends whose lease is alive
          work,        \* backend -> its work lane
          inFlight,    \* backend -> its in-flight lane
          exec,        \* backend -> progress of listenQueue
          enq,         \* request -> progress of Enqueue
          runs,        \* history: how often a backend published a request
          errors       \* used up so far, against MaxErrors

lanes == <<registered, work, inFlight>>
vars == <<lanes, exec, enq, runs, errors>>

Executors == [pc : {"off", "get", "try", "watch", "waiting", "woken", "process",
                    "ack", "blocked", "dead"},
              item : Items \cup {NoItem}]
\* ids: the backends read; stamp: the time stamp; after: history, the
\* requests whose Enqueue had returned when this one began.
Enqueues == [pc : {"new", "read", "done", "failed"}, ids : SUBSET Backends,
             stamp : Nat, after : SUBSET Items]

Init == /\ registered = {}
        /\ work = [b \in Backends |-> {}]
        /\ inFlight = [b \in Backends |-> {}]
        /\ exec = [b \in Backends |-> [pc |-> "off", item |-> NoItem]]
        /\ enq = [i \in Items |-> [pc |-> "new", ids |-> {}, stamp |-> 0, after |-> {}]]
        /\ runs = [b \in Backends |-> [i \in Items |-> 0]]
        /\ errors = 0

\* Mutant of IsFirst: the keys of the lane are not sorted.
IsAny(i, b) == i \in work[b]

\* i is the first key of b's work lane (clientv3.WithFirstKey).
IsFirst(i, b) == i \in work[b] /\ \A j \in work[b] : enq[i].stamp <= enq[j].stamp

-----------------------------------------------------------------------------
(* Backend IDs.                                                             *)

\* getLease: the backend registers its lease; then the executor starts.
Register(b) ==
    /\ exec[b].pc = "off"
    /\ registered' = registered \cup {b}
    /\ exec' = [exec EXCEPT ![b].pc = "get"]
    /\ UNCHANGED <<work, inFlight, enq, runs, errors>>

\* The lease runs out, because the backend died or could not keep it alive:
\* its registration and everything in its lanes is gone.
LeaseExpire(b) ==
    /\ b \in registered
    /\ errors < MaxErrors
    /\ errors' = errors + 1
    /\ registered' = registered \ {b}
    /\ work' = [work EXCEPT ![b] = {}]
    /\ inFlight' = [inFlight EXCEPT ![b] = {}]
    /\ UNCHANGED <<exec, enq, runs>>

\* The process ends, or its daemons are stopped.
Die(b) ==
    /\ exec[b].pc \notin {"off", "dead"}
    /\ errors < MaxErrors
    /\ errors' = errors + 1
    /\ exec' = [exec EXCEPT ![b].pc = "dead"]
    /\ UNCHANGED <<lanes, enq, runs>>

-----------------------------------------------------------------------------
(* Enqueue.                                                                 *)

\* getAllBackendIDs; then enqueueOps takes the time stamp, of whatever its
\* clock says.
EnqueueRead(i) ==
    /\ enq[i].pc = "new"
    /\ \E now \in 1..MaxStamp :
          enq' = [enq EXCEPT ![i] =
                    [pc |-> "read", ids |-> registered, stamp |-> now,
                     after |-> {j \in Items : enq[j].pc = "done"}]]
    /\ UNCHANGED <<lanes, exec, runs, errors>>

\* A key that Enqueue is about to put is there already: the compare fails, and
\* Enqueue tries the same keys again, until the key is gone.
Clash(i) == \E b \in enq[i].ids : \E j \in work[b] : enq[j].stamp = enq[i].stamp

\* One transaction puts all the copies, each under its backend's lease.  An
\* executor whose watch is open is woken by the copy in its lane.
PutCopies(i) ==
    /\ ~Clash(i)
    /\ enq[i].ids \subseteq registered
    /\ work' = [b \in Backends |-> work[b] \cup {j \in {i} : b \in enq[i].ids}]
    /\ exec' = [b \in Backends |-> IF b \in enq[i].ids /\ exec[b].pc = "waiting"
                                     THEN [pc |-> "woken", item |-> i]
                                     ELSE exec[b]]
    /\ UNCHANGED <<registered, inFlight, runs>>

EnqueueTxn(i) ==
    /\ enq[i].pc = "read"
    /\ PutCopies(i)
    /\ enq' = [enq EXCEPT ![i].pc = "done"]
    /\ UNCHANGED errors

\* A lease that ran out since makes etcd refuse the transaction.
EnqueueRefused(i) ==
    /\ enq[i].pc = "read"
    /\ ~Clash(i)
    /\ ~(enq[i].ids \subseteq registered)
    /\ enq' = [enq EXCEPT ![i].pc = "failed"]
    /\ UNCHANGED <<lanes, exec, runs, errors>>

\* The request or its answer is lost, or the context is done: Enqueue returns
\* an error, and the transaction may have been committed all the same.
EnqueueFail(i) ==
    /\ enq[i].pc = "read"
    /\ errors < MaxErrors
    /\ errors' = errors + 1
    /\ enq' = [enq EXCEPT ![i].pc = "failed"]
    /\ PutCopies(i) \/ UNCHANGED <<lanes, exec, runs>>

-----------------------------------------------------------------------------
(* The executor: Dequeue, processCheck, Ack.                                *)

\* Mutant of DequeueGet: an empty lane is not told from one with a key.
DequeueGetUnchecked(b) ==
    /\ exec[b].pc = "get"
    /\ \/ \E i \in Items : /\ IsFirst(i, b)
                           /\ exec' = [exec EXCEPT ![b] = [pc |-> "try", item |-> i]]
       \/ /\ work[b] = {}
          /\ exec' = [exec EXCEPT ![b].pc = "try"]
    /\ UNCHANGED <<lanes, enq, runs, errors>>

\* Dequeue reads the lane: there is a first key, or the lane is empty.
DequeueGet(b) ==
    /\ exec[b].pc = "get"
    /\ \/ \E i \in Items : /\ IsFirst(i, b)
                           /\ exec' = [exec EXCEPT ![b] = [pc |-> "try", item |-> i]]
       \/ /\ work[b] = {}
          /\ exec' = [exec EXCEPT ![b].pc = "watch"]
    /\ UNCHANGED <<lanes, enq, runs, errors>>

\* The watch is opened, at the revision that is current by now.
WatchOpen(b) ==
    /\ exec[b].pc = "watch"
    /\ exec' = [exec EXCEPT ![b].pc = "waiting"]
    /\ UNCHANGED <<lanes, enq, runs, errors>>

\* The watch was cancelled: waitPutEvent opens another one.
WatchCancelled(b) ==
    /\ exec[b].pc = "waiting"
    /\ errors < MaxErrors
    /\ errors' = errors + 1
    /\ exec' = [exec EXCEPT ![b].pc = "watch"]
    /\ UNCHANGED <<lanes, enq, runs>>

\* Mutant of MoveToInFlight: the copy is deleted, and put nowhere.
DeleteOnly(b, i) ==
    /\ i \in work[b]
    /\ work' = [work EXCEPT ![b] = @ \ {i}]
    /\ UNCHANGED <<registered, inFlight>>

\* tryDelete: the copy changes lanes, if it is still there.
MoveToInFlight(b, i) ==
    /\ i \in work[b]
    /\ work' = [work EXCEPT ![b] = @ \ {i}]
    /\ inFlight' = [inFlight EXCEPT ![b] = @ \cup {i}]
    /\ UNCHANGED registered

TryDelete(b) ==
    /\ exec[b].pc \in {"try", "woken"}
    /\ MoveToInFlight(b, exec[b].item)
    /\ exec' = [exec EXCEPT ![b].pc = "process"]
    /\ UNCHANGED <<enq, runs, errors>>

\* The copy is gone.  After a read, Dequeue starts again; after a wait it
\* returns no item and no error, and listenQueue dereferences it.
TryDeleteLost(b) ==
    /\ exec[b].pc \in {"try", "woken"}
    /\ exec[b].item \notin work[b]
    /\ exec' = [exec EXCEPT ![b] = IF exec[b].pc = "try"
                                     THEN [pc |-> "get", item |-> NoItem]
                                     ELSE [pc |-> "dead", item |-> NoItem]]
    /\ UNCHANGED <<lanes, enq, runs, errors>>

\* processCheck publishes the request to the agents of this backend.
Publish(b) == runs' = [runs EXCEPT ![b][exec[b].item] = @ + 1]

Process(b) ==
    /\ exec[b].pc = "process"
    /\ Publish(b)
    /\ exec' = [exec EXCEPT ![b].pc = "ack"]
    /\ UNCHANGED <<lanes, enq, errors>>

\* Mutant of DeleteInFlight: Ack deletes the key the copy had in the work lane.
DeleteWorkKey(b) ==
    /\ work' = [work EXCEPT ![b] = @ \ {exec[b].item}]
    /\ UNCHANGED <<registered, inFlight>>

DeleteInFlight(b) ==
    /\ inFlight' = [inFlight EXCEPT ![b] = @ \ {exec[b].item}]
    /\ UNCHANGED <<registered, work>>

\* Mutant of Ack: Dequeue waits for the next put without reading the lane.
AckAndWatch(b) ==
    /\ exec[b].pc = "ack"
    /\ DeleteInFlight(b)
    /\ exec' = [exec EXCEPT ![b] = [pc |-> "watch", item |-> NoItem]]
    /\ UNCHANGED <<enq, runs, errors>>

Ack(b) ==
    /\ exec[b].pc = "ack"
    /\ DeleteInFlight(b)
    /\ exec' = [exec EXCEPT ![b] = [pc |-> "get", item |-> NoItem]]
    /\ UNCHANGED <<enq, runs, errors>>

\* Mutant of Fail: the executor goes on after an error, and Nack returns the
\* request to the work lane.
FailAndNack(b) ==
    /\ exec[b].pc = "process"
    /\ errors < MaxErrors
    /\ errors' = errors + 1
    /\ Publish(b)
    /\ exec' = [exec EXCEPT ![b] = [pc |-> "get", item |-> NoItem]]
    /\ inFlight' = [inFlight EXCEPT ![b] = @ \ {exec[b].item}]
    /\ work' = [work EXCEPT ![b] = @ \cup {exec[b].item}]
    /\ UNCHANGED <<registered, enq>>

\* Dequeue, decoding, processCheck or Ack failed, perhaps after taking effect.
\* The error is sent on listenQueueErr, a channel nobody makes: the send
\* blocks for ever, and the Nack after it is never reached.
Fail(b) ==
    /\ exec[b].pc \in {"get", "try", "waiting", "woken", "process", "ack"}
    /\ errors < MaxErrors
    /\ errors' = errors + 1
    /\ exec' = [exec EXCEPT ![b].pc = "blocked"]
    /\ UNCHANGED enq
    /\ \/ UNCHANGED <<lanes, runs>>
       \/ exec[b].pc \in {"try", "woken"} /\ MoveToInFlight(b, exec[b].item) /\ UNCHANGED runs
       \/ exec[b].pc = "process" /\ Publish(b) /\ UNCHANGED lanes
       \/ exec[b].pc = "ack" /\ DeleteInFlight(b) /\ UNCHANGED runs

ExecStep(b) == \/ DequeueGet(b) \/ WatchOpen(b) \/ TryDelete(b) \/ TryDeleteLost(b)
               \/ Process(b) \/ Ack(b)

\* Every request has been put or refused, or is tried in vain, and the executors
\* wait or are stuck.
Finished == /\ \A i \in Items : \/ enq[i].pc \in {"done", "failed"}
                                \/ enq[i].pc = "read" /\ Clash(i)
            /\ \A b \in Backends : exec[b].pc \in {"waiting", "blocked", "dead"}
            /\ UNCHANGED vars

Next == \/ \E b \in Backends : \/ Register(b) \/ LeaseExpire(b) \/ Die(b)
                               \/ WatchCancelled(b) \/ Fail(b) \/ ExecStep(b)
        \/ \E i \in Items : \/ EnqueueRead(i) \/ EnqueueTxn(i)
                            \/ EnqueueRefused(i) \/ EnqueueFail(i)
        \/ Finished

\* An executor that can go on goes on; so does a caller of Enqueue.
Fairness == /\ \A b \in Backends : WF_vars(ExecStep(b))
            /\ \A i \in Items : WF_vars(EnqueueTxn(i) \/ EnqueueRefused(i))

Spec == Init /\ [][Next]_vars
FairSpec == Spec /\ Fairness

-----------------------------------------------------------------------------
(* Properties.                                                              *)

InHand(b) == exec[b].pc \in {"try", "woken", "process", "ack"} => exec[b].item \in Items

\* Every variable has its type, and an executor that has a request in hand knows
\* which one.
TypeOK == /\ registered \in SUBSET Backends
          /\ work \in [Backends -> SUBSET Items]
          /\ inFlight \in [Backends -> SUBSET Items]
          /\ exec \in [Backends -> Executors]
          /\ \A b \in Backends : InHand(b)
          /\ enq \in [Items -> Enqueues]
          /\ runs \in [Backends -> [Items -> Nat]]
          /\ errors \in 0..MaxErrors

\* No backend publishes a request twice, whatever is lost, retried or refused:
\* a copy is published at most once, and not before it left the work lane
\* (swapping lanes in one transaction, tryDelete; no Nack after a failure).
AtMostOnce ==
    \A b \in Backends, i \in Items :
        /\ runs[b][i] <= 1
        /\ runs[b][i] = 1 => i \notin work[b]

\* Once Enqueue has returned without error, every backend it addressed, while
\* its lease lives, still holds its copy or has published it: neither the
\* swap of lanes nor a failure at any point of listenQueue loses a request.
NothingLost ==
    \A i \in Items : enq[i].pc = "done" =>
        \A b \in enq[i].ids \cap registered :
            i \in work[b] \/ i \in inFlight[b] \/ runs[b][i] = 1

\* The in-flight lane holds nothing but the request its executor is at, or was
\* at when it stopped: requests do not pile up there (Ack after processCheck).
InFlightIsHeld == \A b \in Backends : inFlight[b] \subseteq {exec[b].item}

\* Whatever is in the lane when the executor takes a request is taken as well
\* before it waits again, unless the executor fails: after Ack, Dequeue reads
\* the lane before it opens a watch.
BacklogDrains ==
    \A b \in Backends, i \in Items :
        (exec[b].pc = "process" /\ i \in work[b])
            ~> (i \notin work[b] \/ exec[b].pc \in {"blocked", "dead"})

\* i is moved to the in-flight lane of b while j is left in the work lane.
TakenBefore(b, i, j) == /\ i \in work[b] /\ i \notin work'[b] /\ i \in inFlight'[b]
                        /\ j \in work[b]

\* The part of "FIFO queue" (queue.go:46) that holds.  A request that Dequeue found
\* by reading the lane is taken ahead of one whose Enqueue had returned before its
\* own began only if their clocks put them in the wrong order, though the read and
\* the transaction that takes it are two requests (WithFirstKey, stamps taken
\* before the put, no key put twice).  A request that was waited for is taken ahead
\* of any that was put before the watch was opened.
ReadInOrder ==
    [][\A b \in Backends, i, j \in Items :
         (TakenBefore(b, i, j) /\ exec[b].pc = "try" /\ j \in enq[i].after)
             => enq[i].stamp < enq[j].stamp]_vars

=============================================================================
