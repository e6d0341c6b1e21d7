------------------------------ MODULE SwitchSet ------------------------------
(****************************************************************************)
(* The liveness tracker of the backend cluster: backend/liveness.           *)
(*                                                                          *)
(* A switch is an etcd key attached to a lease.  Its value is a TTL: a      *)
(* positive one for a live member, a negative one for a dead member, and    *)
(* the word "buried" for a member that is being forgotten.  Every backend   *)
(* watches the keys.  When a lease expires etcd deletes the key, and every  *)
(* backend that sees the deletion tries to put the key back as dead, in a   *)
(* transaction that only the first of them wins (the leader).  Callbacks go *)
(* through one queue per backend and run one at a time.                     *)
(*                                                                          *)
(* Clients are the keepalived and eventd workers of all the backends.  They *)
(* call Alive, Dead and Bury.  Each call is a sequence of etcd requests;    *)
(* every request is one step, so the requests of different callers and      *)
(* monitors interleave.  There is no clock: a lease may expire at any time. *)
(****************************************************************************)
EXTENDS Integers, Sequences, FiniteSets

CONSTANTS Backends,     \* the backends that monitor the switch set
          Clients,      \* the goroutines that call Alive, Dead and Bury
          Switches,     \* identifiers of the members
          TTLs,         \* the TTLs the clients ask for
          FallbackTTL,  \* the smallest TTL etcd supports
          EventsCap,    \* capacity of a backend's callback channel
          MaxOps,       \* bound: calls of Alive, Dead and Bury
          MaxExpiries,  \* bound: leases that run out
          FaultKinds,   \* which of "request", "watch" and "crash" can happen
          MaxFaults     \* bound: failed requests, cancelled watches, crashes

ASSUME TTLAssumption == /\ FallbackTTL \in Nat \ {0}
                        /\ TTLs \subseteq Nat
                        /\ Switches # {}
ASSUME BoundAssumption == /\ EventsCap \in Nat \ {0}
                          /\ MaxOps \in Nat
                          /\ MaxExpiries \in Nat
                          /\ MaxFaults \in Nat

VARIABLES kv,         \* the switch keys stored in etcd
          leaseKey,   \* switch -> the lease its lease key names, 0 if none
          live,       \* switch -> its leases that have not run out
          nextLease,  \* switch -> the lease that etcd grants for it next
          inbox,      \* backend -> watch events it has not handled yet
          handler,    \* backend -> progress of handleEvent
          events,     \* backend -> callbacks that wait to run
          runner,     \* backend -> progress of the callback goroutine
          client,     \* client -> progress of its call
          ops, expiries, faults,  \* used up so far, against the bounds
          born, led, deleted,     \* history: who created a key, and deletions
          lastCb,     \* history: the last callback a backend ran for a switch
          gone,       \* history: the value a switch had when it last vanished
          missed      \* history: whether a backend lost a deletion

etcd == <<kv, leaseKey, live, nextLease>>
bounds == <<ops, expiries, faults>>
history == <<born, led, deleted, gone, lastCb, missed>>
vars == <<etcd, inbox, handler, events, runner, client, bounds, history>>

\* What Sscanf("%d") makes of the value "buried"; no TTL is 0.
Buried == 0
NoLease == 0
Absent == [exists |-> FALSE, val |-> 0, lease |-> NoLease]

KeyValues == [exists : BOOLEAN, val : Int, lease : Nat]
WatchEvents == [type : {"PUT", "DELETE"}, sw : Switches, val : Int, prev : Int]
Callbacks == [kind : {"alive", "dead"}, sw : Switches, prev : {"Alive", "Dead"},
              leader : BOOLEAN]

\* A call in progress: which request comes next, and what the earlier ones
\* returned.  "read" is the lease that the lease key named, "lease" the lease
\* that getLeaseID returned; the two differ exactly when it was granted now.
Calls == [stage : {"idle", "lease", "txn", "notify", "bury", "buried"}, sw : Switches,
          val : Int, read : Nat, lease : Nat, leader : BOOLEAN]
IdleCall == [stage |-> "idle", sw |-> CHOOSE s \in Switches : TRUE, val |-> 0,
             read |-> NoLease, lease |-> NoLease, leader |-> FALSE]

Init == /\ kv = [s \in Switches |-> Absent]
        /\ leaseKey = [s \in Switches |-> NoLease]
        /\ live = [s \in Switches |-> {}]
        /\ nextLease = [s \in Switches |-> 1]
        /\ inbox = [b \in Backends |-> <<>>]
        /\ handler = [b \in Backends |-> IdleCall]
        /\ events = [b \in Backends |-> <<>>]
        /\ runner = [b \in Backends |-> IdleCall]
        /\ client = [c \in Clients |-> IdleCall]
        /\ ops = 0 /\ expiries = 0 /\ faults = 0
        /\ born = [s \in Switches |-> 0]
        /\ led = [s \in Switches |-> 0]
        /\ deleted = [s \in Switches |-> 0]
        /\ gone = [s \in Switches |-> Buried]
        /\ lastCb = [b \in Backends |-> [s \in Switches |-> "none"]]
        /\ missed = [b \in Backends |-> FALSE]

-----------------------------------------------------------------------------
(* etcd.  A write of one key is one revision, which every watch sees in the *)
(* same order.  A lease serves one switch, so leases are numbered apart for *)
(* each switch.                                                             *)

\* The key of s is put with this value and lease.
PutKey(s, v, l) ==
    /\ kv' = [kv EXCEPT ![s] = [exists |-> TRUE, val |-> v, lease |-> l]]
    /\ inbox' = [b \in Backends |->
                   Append(inbox[b], [type |-> "PUT", sw |-> s, val |-> v,
                                     prev |-> kv[s].val])]

\* The key of s vanishes; the deletion carries the value it had.
DeleteKey(s) ==
    /\ kv' = [kv EXCEPT ![s] = Absent]
    /\ inbox' = [b \in Backends |->
                   Append(inbox[b], [type |-> "DELETE", sw |-> s, val |-> 0,
                                     prev |-> kv[s].val])]
    /\ deleted' = [deleted EXCEPT ![s] = @ + 1]
    /\ gone' = [gone EXCEPT ![s] = kv[s].val]

\* A lease runs out, and takes the key that is attached to it away.
LeaseExpire(s, l) ==
    /\ l \in live[s]
    /\ expiries < MaxExpiries
    /\ expiries' = expiries + 1
    /\ live' = [live EXCEPT ![s] = @ \ {l}]
    /\ \/ kv[s].exists /\ kv[s].lease = l /\ DeleteKey(s)
       \/ ~(kv[s].exists /\ kv[s].lease = l) /\ UNCHANGED <<kv, inbox, deleted, gone>>
    /\ UNCHANGED <<leaseKey, nextLease, handler, events, runner, client, ops,
                   faults, born, led, lastCb, missed>>

\* Second half of getLeaseID: the lease that the lease key named is kept alive
\* if it still exists, otherwise a new one is granted.
GetLease(call) ==
    LET s == call.sw IN
    \/ /\ call.read \in live[s]
       /\ UNCHANGED <<live, nextLease>>
    \/ /\ call.read \notin live[s]
       /\ live' = [live EXCEPT ![s] = @ \cup {nextLease[s]}]
       /\ nextLease' = [nextLease EXCEPT ![s] = @ + 1]

LeaseOf(call) == IF call.read \in live[call.sw] THEN call.read
                                                ELSE nextLease[call.sw]

\* Mutant of PutWithLease: the key is put with the lease the lease key named,
\* though that one ran out and another was granted.
PutWithStaleLease(call) ==
    /\ PutKey(call.sw, call.val, call.read)
    /\ leaseKey' = IF call.lease # call.read
                     THEN [leaseKey EXCEPT ![call.sw] = call.lease]
                     ELSE leaseKey

\* The operations of a transaction that puts the key: a lease granted by this
\* call is recorded under the lease key.
PutWithLease(call) ==
    /\ PutKey(call.sw, call.val, call.lease)
    /\ leaseKey' = IF call.lease # call.read
                     THEN [leaseKey EXCEPT ![call.sw] = call.lease]
                     ELSE leaseKey

-----------------------------------------------------------------------------
(* Alive and Dead: ping.                                                    *)

\* A call starts and reads the lease key.  A TTL below the minimum is refused.
PingGet(c, s, ttl, alive) ==
    /\ client[c].stage = "idle"
    /\ ops < MaxOps
    /\ ttl >= FallbackTTL
    /\ ops' = ops + 1
    /\ client' = [client EXCEPT ![c] =
                    [IdleCall EXCEPT !.stage = "lease", !.sw = s,
                                     !.val = IF alive THEN ttl ELSE -ttl,
                                     !.read = leaseKey[s]]]
    /\ UNCHANGED <<etcd, inbox, handler, events, runner, expiries, faults, history>>

PingLease(c) ==
    /\ client[c].stage = "lease"
    /\ GetLease(client[c])
    /\ client' = [client EXCEPT ![c].stage = "txn",
                                ![c].lease = LeaseOf(client[c])]
    /\ UNCHANGED <<kv, leaseKey, inbox, handler, events, runner, bounds, history>>

\* The transaction is unconditional, but etcd refuses a lease that ran out.
PingTxn(c) ==
    /\ client[c].stage = "txn"
    /\ client' = [client EXCEPT ![c] = IdleCall]
    /\ \/ /\ client[c].lease \in live[client[c].sw]
          /\ PutWithLease(client[c])
          /\ born' = IF kv[client[c].sw].exists THEN born
                       ELSE [born EXCEPT ![client[c].sw] = @ + 1]
       \/ /\ client[c].lease \notin live[client[c].sw]
          /\ UNCHANGED <<kv, leaseKey, inbox, born>>
    /\ UNCHANGED <<live, nextLease, handler, events, runner, bounds, led,
                   deleted, gone, lastCb, missed>>

-----------------------------------------------------------------------------
(* Bury: two requests, for a client or for a callback that asked for it.    *)

BuryPut(s) ==
    /\ PutKey(s, Buried, NoLease)
    /\ born' = IF kv[s].exists THEN born ELSE [born EXCEPT ![s] = @ + 1]

BuryDelete(s) ==
    \/ kv[s].exists /\ DeleteKey(s)
    \/ ~kv[s].exists /\ UNCHANGED <<kv, inbox, deleted, gone>>

\* Mutant of ClientBuryPut: Bury returns before it has deleted the key.
ClientBuryPutOnly(c, s) ==
    /\ client[c].stage = "idle"
    /\ ops < MaxOps
    /\ ops' = ops + 1
    /\ BuryPut(s)
    /\ UNCHANGED <<leaseKey, live, nextLease, handler, events, runner, client, expiries,
                   faults, led, deleted, gone, lastCb, missed>>

ClientBuryPut(c, s) ==
    /\ client[c].stage = "idle"
    /\ ops < MaxOps
    /\ ops' = ops + 1
    /\ BuryPut(s)
    /\ client' = [client EXCEPT ![c] = [IdleCall EXCEPT !.stage = "buried", !.sw = s]]
    /\ UNCHANGED <<leaseKey, live, nextLease, handler, events, runner, expiries,
                   faults, led, deleted, gone, lastCb, missed>>

ClientBuryDelete(c) ==
    /\ client[c].stage = "buried"
    /\ BuryDelete(client[c].sw)
    /\ client' = [client EXCEPT ![c] = IdleCall]
    /\ UNCHANGED <<leaseKey, live, nextLease, handler, events, runner, bounds,
                   born, led, lastCb, missed>>

\* A request of a client fails: the call returns the error and is over.
ClientFail(c) ==
    /\ client[c].stage # "idle"
    /\ "request" \in FaultKinds /\ faults < MaxFaults
    /\ faults' = faults + 1
    /\ client' = [client EXCEPT ![c] = IdleCall]
    /\ UNCHANGED <<etcd, inbox, handler, events, runner, ops, expiries, history>>

-----------------------------------------------------------------------------
(* The monitor goroutine of a backend: handleEvent on one event at a time.  *)

isBuried(e) == IF e.type = "PUT" THEN e.val = Buried ELSE e.prev = Buried

\* Mutant of prevState: a switch that had no value had no state.
prevStateOrNone(e) == IF e.prev > 0 THEN "Alive" ELSE IF e.prev < 0 THEN "Dead" ELSE "None"

prevState(e) == IF e.prev > 0 THEN "Alive" ELSE "Dead"

Ready(b) == handler[b].stage = "idle" /\ inbox[b] # <<>>

\* Mutant of HandleIgnored: a dead member has died already, so the end of its
\* lease is ignored too.
HandleIgnoredDead(b) ==
    /\ Ready(b)
    /\ isBuried(Head(inbox[b])) \/ Head(inbox[b]).prev < 0
    /\ inbox' = [inbox EXCEPT ![b] = Tail(@)]
    /\ UNCHANGED <<etcd, handler, events, runner, client, bounds, history>>

\* A buried switch, or a dead one that was put back, needs no callback.
HandleIgnored(b) ==
    /\ Ready(b)
    /\ \/ isBuried(Head(inbox[b]))
       \/ Head(inbox[b]).type = "PUT" /\ Head(inbox[b]).val < 0
    /\ inbox' = [inbox EXCEPT ![b] = Tail(@)]
    /\ UNCHANGED <<etcd, handler, events, runner, client, bounds, history>>

\* Mutant of HandleAlive: the callback is dropped when the channel is full.
HandleAliveNonBlocking(b) ==
    LET e == Head(inbox[b]) IN
    /\ Ready(b)
    /\ e.type = "PUT" /\ e.val > 0
    /\ events' = IF Len(events[b]) = EventsCap THEN events
                   ELSE [events EXCEPT ![b] =
                          Append(@, [kind |-> "alive", sw |-> e.sw,
                                     prev |-> prevState(e), leader |-> FALSE])]
    /\ inbox' = [inbox EXCEPT ![b] = Tail(@)]
    /\ UNCHANGED <<etcd, handler, runner, client, bounds, history>>

\* A live member: the callback is queued, when there is room for it.
HandleAlive(b) ==
    LET e == Head(inbox[b]) IN
    /\ Ready(b)
    /\ e.type = "PUT" /\ e.val > 0
    /\ Len(events[b]) < EventsCap
    /\ events' = [events EXCEPT ![b] =
                    Append(@, [kind |-> "alive", sw |-> e.sw,
                               prev |-> prevState(e), leader |-> FALSE])]
    /\ inbox' = [inbox EXCEPT ![b] = Tail(@)]
    /\ UNCHANGED <<etcd, handler, runner, client, bounds, history>>

\* A member expired.  The event stays at the head until it is dealt with.  The
\* TTL to put back is negative whatever its sign was.
HandleGet(b) ==
    LET e == Head(inbox[b]) IN
    /\ Ready(b)
    /\ e.type = "DELETE" /\ ~isBuried(e)
    /\ handler' = [handler EXCEPT ![b] =
                     [IdleCall EXCEPT !.stage = "lease", !.sw = e.sw,
                                      !.val = IF e.prev < 0 THEN e.prev ELSE -e.prev,
                                      !.read = leaseKey[e.sw]]]
    /\ UNCHANGED <<etcd, inbox, events, runner, client, bounds, history>>

HandleLease(b) ==
    /\ handler[b].stage = "lease"
    /\ GetLease(handler[b])
    /\ handler' = [handler EXCEPT ![b].stage = "txn",
                                  ![b].lease = LeaseOf(handler[b])]
    /\ UNCHANGED <<kv, leaseKey, inbox, events, runner, client, bounds, history>>

\* Mutant of TakeOver: the transaction has no compare.
TakeOverAlways(b) ==
    /\ PutWithLease(handler[b])
    /\ led' = [led EXCEPT ![handler[b].sw] = @ + 1]

\* The key is put back if its version is 0, that is, if it does not exist.
TakeOver(b) ==
    LET s == handler[b].sw IN
    \/ /\ ~kv[s].exists
       /\ PutWithLease(handler[b])
       /\ led' = [led EXCEPT ![s] = @ + 1]
    \/ /\ kv[s].exists
       /\ UNCHANGED <<kv, leaseKey, inbox, led>>

HandleTxn(b) ==
    /\ handler[b].stage = "txn"
    /\ handler[b].lease \in live[handler[b].sw] \/ kv[handler[b].sw].exists
    /\ TakeOver(b)
    /\ handler' = [handler EXCEPT ![b].stage = "notify",
                                  ![b].leader = ~kv[handler[b].sw].exists]
    /\ UNCHANGED <<live, nextLease, events, runner, client, bounds, born, deleted,
                   gone, lastCb, missed>>

\* The lease ran out before the transaction: etcd refuses it, and the handler
\* returns without having replaced the switch or queued the callback.
HandleTxnRefused(b) ==
    /\ handler[b].stage = "txn"
    /\ handler[b].lease \notin live[handler[b].sw] /\ ~kv[handler[b].sw].exists
    /\ handler' = [handler EXCEPT ![b] = IdleCall]
    /\ inbox' = [inbox EXCEPT ![b] = Tail(@)]
    /\ missed' = [missed EXCEPT ![b] = TRUE]
    /\ UNCHANGED <<etcd, events, runner, client, bounds, born, led, deleted, gone, lastCb>>

HandleNotify(b) ==
    /\ handler[b].stage = "notify"
    /\ Len(events[b]) < EventsCap
    /\ events' = [events EXCEPT ![b] =
                    Append(@, [kind |-> "dead", sw |-> handler[b].sw,
                               prev |-> prevState(Head(inbox[b])),
                               leader |-> handler[b].leader])]
    /\ inbox' = [inbox EXCEPT ![b] = Tail(@)]
    /\ handler' = [handler EXCEPT ![b] = IdleCall]
    /\ UNCHANGED <<etcd, runner, client, bounds, history>>

\* A request of the handler fails: it logs the error and gives the event up.
\* In stage "notify" the transaction was applied, and its answer is lost.
HandleFail(b) ==
    /\ handler[b].stage \in {"lease", "txn", "notify"}
    /\ "request" \in FaultKinds /\ faults < MaxFaults
    /\ faults' = faults + 1
    /\ handler' = [handler EXCEPT ![b] = IdleCall]
    /\ inbox' = [inbox EXCEPT ![b] = Tail(@)]
    /\ missed' = [missed EXCEPT ![b] = TRUE]
    /\ UNCHANGED <<etcd, events, runner, client, ops, expiries, born, led,
                   deleted, gone, lastCb>>

\* The watch was cancelled.  The new one starts at the current revision, so
\* what happened since the last event that was delivered is never seen.
Rewatch(b) ==
    /\ handler[b].stage = "idle"
    /\ inbox[b] # <<>>
    /\ "watch" \in FaultKinds /\ faults < MaxFaults
    /\ faults' = faults + 1
    /\ inbox' = [inbox EXCEPT ![b] = <<>>]
    /\ missed' = [missed EXCEPT ![b] = TRUE]
    /\ UNCHANGED <<etcd, handler, events, runner, client, ops, expiries, born,
                   led, deleted, gone, lastCb>>

-----------------------------------------------------------------------------
(* The goroutine of a backend that runs the callbacks.                      *)

\* The next callback runs.  A dead callback decides whether its switch is to be
\* buried; the alive callbacks of keepalived and eventd never ask for that.
RunCallback(b, bury) ==
    LET cb == Head(events[b]) IN
    /\ runner[b].stage = "idle"
    /\ events[b] # <<>>
    /\ bury => cb.kind = "dead" /\ ops < MaxOps
    /\ ops' = IF bury THEN ops + 1 ELSE ops
    /\ events' = [events EXCEPT ![b] = Tail(@)]
    /\ runner' = IF bury
                   THEN [runner EXCEPT ![b] = [IdleCall EXCEPT !.stage = "bury",
                                                               !.sw = cb.sw]]
                   ELSE runner
    /\ lastCb' = [lastCb EXCEPT ![b][cb.sw] = cb.kind]
    /\ UNCHANGED <<etcd, inbox, handler, client, expiries, faults, born, led,
                   deleted, gone, missed>>

RunnerBuryPut(b) ==
    /\ runner[b].stage = "bury"
    /\ BuryPut(runner[b].sw)
    /\ runner' = [runner EXCEPT ![b].stage = "buried"]
    /\ UNCHANGED <<leaseKey, live, nextLease, handler, events, client, bounds,
                   led, deleted, gone, lastCb, missed>>

RunnerBuryDelete(b) ==
    /\ runner[b].stage = "buried"
    /\ BuryDelete(runner[b].sw)
    /\ runner' = [runner EXCEPT ![b] = IdleCall]
    /\ UNCHANGED <<leaseKey, live, nextLease, handler, events, client, bounds,
                   born, led, lastCb, missed>>

RunnerFail(b) ==
    /\ runner[b].stage # "idle"
    /\ "request" \in FaultKinds /\ faults < MaxFaults
    /\ faults' = faults + 1
    /\ runner' = [runner EXCEPT ![b] = IdleCall]
    /\ UNCHANGED <<etcd, inbox, handler, events, client, ops, expiries, history>>

\* A backend process ends and is started again: everything it had in memory is
\* gone, and monitor opens a watch at the current revision.
Crash(b) ==
    /\ "crash" \in FaultKinds /\ faults < MaxFaults
    /\ faults' = faults + 1
    /\ inbox' = [inbox EXCEPT ![b] = <<>>]
    /\ handler' = [handler EXCEPT ![b] = IdleCall]
    /\ events' = [events EXCEPT ![b] = <<>>]
    /\ runner' = [runner EXCEPT ![b] = IdleCall]
    /\ missed' = [missed EXCEPT ![b] = TRUE]
    /\ UNCHANGED <<etcd, client, ops, expiries, born, led, deleted, gone, lastCb>>

-----------------------------------------------------------------------------
\* Nothing is under way and the bounds leave nothing to start.
Finished ==
    /\ ops = MaxOps
    /\ expiries = MaxExpiries \/ \A s \in Switches : live[s] = {}
    /\ \A c \in Clients : client[c].stage = "idle"
    /\ \A b \in Backends : /\ inbox[b] = <<>> /\ events[b] = <<>>
                           /\ handler[b].stage = "idle" /\ runner[b].stage = "idle"
    /\ UNCHANGED vars

ClientStep(c) == \/ PingLease(c) \/ PingTxn(c) \/ ClientBuryDelete(c)

MonitorStep(b) == \/ HandleIgnored(b) \/ HandleAlive(b) \/ HandleGet(b)
                  \/ HandleLease(b) \/ HandleTxn(b) \/ HandleTxnRefused(b)
                  \/ HandleNotify(b)

RunnerStep(b) == \/ \E bury \in BOOLEAN : RunCallback(b, bury)
                 \/ RunnerBuryPut(b) \/ RunnerBuryDelete(b)

Next ==
    \/ \E s \in Switches : \E l \in live[s] : LeaseExpire(s, l)
    \/ \E c \in Clients :
         \/ \E s \in Switches, ttl \in TTLs, alive \in BOOLEAN : PingGet(c, s, ttl, alive)
         \/ \E s \in Switches : ClientBuryPut(c, s)
         \/ ClientStep(c)
         \/ ClientFail(c)
    \/ \E b \in Backends :
         \/ MonitorStep(b) \/ RunnerStep(b)
         \/ HandleFail(b) \/ Rewatch(b) \/ RunnerFail(b) \/ Crash(b)
    \/ Finished

\* A goroutine that can take its next step takes it.  Nothing makes clients
\* start calls, leases run out or requests fail.
Fairness == /\ \A c \in Clients : WF_vars(ClientStep(c))
            /\ \A b \in Backends : WF_vars(MonitorStep(b)) /\ WF_vars(RunnerStep(b))

Spec == Init /\ [][Next]_vars
FairSpec == Spec /\ Fairness

-----------------------------------------------------------------------------
(* Properties.                                                              *)

\* Every variable has its type.
TypeOK == /\ kv \in [Switches -> KeyValues]
          /\ leaseKey \in [Switches -> Nat]
          /\ live \in [Switches -> SUBSET Nat]
          /\ nextLease \in [Switches -> Nat]
          /\ inbox \in [Backends -> Seq(WatchEvents)]
          /\ handler \in [Backends -> Calls]
          /\ events \in [Backends -> Seq(Callbacks)]
          /\ runner \in [Backends -> Calls]
          /\ client \in [Clients -> Calls]
          /\ ops \in Nat /\ expiries \in Nat /\ faults \in Nat
          /\ born \in [Switches -> Nat]
          /\ led \in [Switches -> Nat]
          /\ deleted \in [Switches -> Nat]
          /\ gone \in [Switches -> Int]
          /\ lastCb \in [Backends -> [Switches -> {"none", "alive", "dead"}]]
          /\ missed \in [Backends -> BOOLEAN]

\* handleEvent makes a backend the leader of a death through the compare of its
\* transaction (liveness.go:342-345).  However many backends handle the same
\* deletion, early or late, no more leaders are made than keys have vanished.
LeadersBounded == \A s \in Switches : led[s] <= deleted[s]

\* A switch that is alive or dead hangs on a lease that will run out, so its TTL
\* countdown is running: no interleaving of pings, handlers and expiries leaves
\* a member alive for ever (ping and handleEvent put every value WithLease).
CountdownRuns == \A s \in Switches :
    kv[s].exists /\ kv[s].val # Buried => kv[s].lease \in live[s]

\* A key that says "buried" has a caller of Bury that is about to delete it,
\* unless a request failed or a process died between Bury's two requests.
BuriedIsTransient == \A s \in Switches :
    kv[s].exists /\ kv[s].val = Buried =>
        \/ \E c \in Clients : client[c].stage = "buried" /\ client[c].sw = s
        \/ \E b \in Backends : runner[b].stage = "buried" /\ runner[b].sw = s
        \/ faults > 0

\* The events channel "serializes events so that their execution ordering is as
\* expected" (liveness.go:110-112): once a backend that missed nothing has
\* caught up, the last callback that it ran for a live member is the alive one,
\* never a late dead callback.
AliveIsLast == \A b \in Backends, s \in Switches :
    /\ inbox[b] = <<>> /\ events[b] = <<>> /\ handler[b].stage = "idle"
    /\ ~missed[b]
    /\ kv[s].exists /\ kv[s].val > 0
    => lastCb[b][s] = "alive"

\* The handler puts a dead value only where there was no key: it never turns a
\* member that asserted its liveness into a dead one (liveness.go:345, 368).
NeverKillsTheLiving == [][
    \A s \in Switches :
        kv[s].exists /\ kv[s].val > 0 /\ kv'[s].exists /\ kv'[s].val < 0
            => \E c \in Clients : /\ client[c].stage = "txn" /\ client[c].sw = s
                                  /\ client'[c].stage = "idle"]_vars

\* The switch ran out, or was deleted while it held a TTL.
Expired(s) == ~kv[s].exists /\ gone[s] # Buried

\* The switch of a member that died is put back as dead, so that its death is
\* announced at every TTL (liveness.go:98-100, 317-321), as long as one backend
\* has not missed an event.
ExpiredComesBack == \A s \in Switches :
    Expired(s) ~> (kv[s].exists \/ \A b \in Backends : missed[b])

\* What a switch says, for those who use it.
StateOf(s) == IF ~kv[s].exists THEN "absent"
              ELSE IF kv[s].val = Buried THEN "buried"
              ELSE IF kv[s].val > 0 THEN "alive" ELSE "dead"

Abs == INSTANCE Switch WITH Members <- Switches,
                            state <- [s \in Switches |-> StateOf(s)],
                            deaths <- [s \in Switches |-> deleted[s] - led[s]]

\* The requests of pings, burials and handlers on all the backends, in any
\* order, together behave like the one switch that keepalived and eventd rely
\* on: a switch only comes to life through Alive, Dead or Bury, or is put back
\* as dead by one leader for a time that it vanished (liveness.go:328-391).
ImplementsSwitch == Abs!Spec

=============================================================================
