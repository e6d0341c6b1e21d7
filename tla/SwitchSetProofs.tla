--------------------------- MODULE SwitchSetProofs ---------------------------
(****************************************************************************)
(* Proofs about SwitchSet, for any number of backends, clients and members, *)
(* any bounds and any faults: types, who leads, that the set implements the *)
(* abstract Switch, the order in which a backend runs its callbacks, and    *)
(* that a death is never dropped by every backend.                          *)
(****************************************************************************)
EXTENDS SwitchSet, TLAPS

\* What a call looks like when there is none is a call.
LEMMA IdleCallType == IdleCall \in Calls /\ IdleCall.stage = "idle"
  <1>1. (CHOOSE s \in Switches : TRUE) \in Switches
    BY TTLAssumption
  <1> QED BY <1>1 DEF IdleCall, Calls, NoLease

\* Appending to and removing from a queue keeps its type.
LEMMA QueueType ==
    ASSUME NEW S, NEW q \in Seq(S), NEW x \in S
    PROVE  /\ Append(q, x) \in Seq(S) /\ Append(q, x) # <<>>
           /\ q # <<>> => Tail(q) \in Seq(S) /\ Head(q) \in S
  <1>1. Append(q, x) \in Seq(S)
    OBVIOUS
  <1>2. Len(Append(q, x)) = Len(q) + 1 /\ Len(q) \in Nat
    OBVIOUS
  <1>3. Append(q, x) # <<>>
    BY <1>2
  <1>4. q # <<>> => Tail(q) \in Seq(S) /\ Head(q) \in S
    OBVIOUS
  <1> QED BY <1>1, <1>3, <1>4

\* A handler that is not idle works on the event at the head of its inbox.
Working == \A b \in Backends : handler[b].stage # "idle" => inbox[b] # <<>>

\* The type invariant, with the fact that a busy handler has an event.
TypeInv == TypeOK /\ Working

\* Putting a key keeps the types, and every monitor gets an event.
LEMMA PutKeyType ==
    ASSUME TypeInv, NEW s \in Switches, NEW v \in Int, NEW l \in Nat, PutKey(s, v, l)
    PROVE  /\ kv' \in [Switches -> KeyValues]
           /\ inbox' \in [Backends -> Seq(WatchEvents)]
           /\ \A b \in Backends : inbox'[b] # <<>>
  <1> DEFINE e == [type |-> "PUT", sw |-> s, val |-> v, prev |-> kv[s].val]
             k == [exists |-> TRUE, val |-> v, lease |-> l]
  <1>1. kv[s].val \in Int
    BY DEF TypeInv, TypeOK, KeyValues
  <1>2. e \in WatchEvents
    BY <1>1 DEF WatchEvents
  <1>3. k \in KeyValues
    BY DEF KeyValues
  <1>4. kv' = [kv EXCEPT ![s] = k] /\ inbox' = [b \in Backends |-> Append(inbox[b], e)]
    BY DEF PutKey
  <1> HIDE DEF e, k
  <1>5. kv' \in [Switches -> KeyValues]
    BY <1>3, <1>4 DEF TypeInv, TypeOK
  <1>6. ASSUME NEW b \in Backends
        PROVE  inbox'[b] \in Seq(WatchEvents) /\ inbox'[b] # <<>>
    <2>1. inbox[b] \in Seq(WatchEvents)
      BY DEF TypeInv, TypeOK
    <2> QED BY <1>2, <1>4, <2>1, QueueType
  <1> QED BY <1>4, <1>5, <1>6

\* Deleting a key keeps the types, and every monitor gets an event.
LEMMA DeleteKeyType ==
    ASSUME TypeInv, NEW s \in Switches, DeleteKey(s)
    PROVE  /\ kv' \in [Switches -> KeyValues]
           /\ inbox' \in [Backends -> Seq(WatchEvents)]
           /\ \A b \in Backends : inbox'[b] # <<>>
           /\ deleted' \in [Switches -> Nat]
           /\ gone' \in [Switches -> Int]
  <1> DEFINE e == [type |-> "DELETE", sw |-> s, val |-> 0, prev |-> kv[s].val]
  <1>1. kv[s].val \in Int
    BY DEF TypeInv, TypeOK, KeyValues
  <1>2. e \in WatchEvents
    BY <1>1 DEF WatchEvents
  <1>3. Absent \in KeyValues
    BY DEF KeyValues, Absent, NoLease
  <1>4. kv' = [kv EXCEPT ![s] = Absent] /\ inbox' = [b \in Backends |-> Append(inbox[b], e)]
    BY DEF DeleteKey
  <1>5. deleted' \in [Switches -> Nat] /\ gone' \in [Switches -> Int]
    BY <1>1 DEF DeleteKey, TypeInv, TypeOK
  <1> HIDE DEF e
  <1>6. kv' \in [Switches -> KeyValues]
    BY <1>3, <1>4 DEF TypeInv, TypeOK
  <1>7. ASSUME NEW b \in Backends
        PROVE  inbox'[b] \in Seq(WatchEvents) /\ inbox'[b] # <<>>
    <2>1. inbox[b] \in Seq(WatchEvents)
      BY DEF TypeInv, TypeOK
    <2> QED BY <1>2, <1>4, <2>1, QueueType
  <1> QED BY <1>4, <1>5, <1>6, <1>7

\* Getting a lease, for a client or a handler.
LEMMA GetLeaseType ==
    ASSUME TypeInv, NEW call \in Calls, GetLease(call)
    PROVE  /\ live' \in [Switches -> SUBSET Nat]
           /\ nextLease' \in [Switches -> Nat]
           /\ LeaseOf(call) \in Nat
           /\ [call EXCEPT !.stage = "txn", !.lease = LeaseOf(call)] \in Calls
  <1>1. call.sw \in Switches /\ call.read \in Nat
    BY DEF Calls
  <1>2. live \in [Switches -> SUBSET Nat] /\ nextLease \in [Switches -> Nat]
    BY DEF TypeInv, TypeOK
  <1>3. LeaseOf(call) \in Nat
    BY <1>1, <1>2 DEF LeaseOf
  <1>4. live' \in [Switches -> SUBSET Nat] /\ nextLease' \in [Switches -> Nat]
    BY <1>1, <1>2 DEF GetLease
  <1>5. [call EXCEPT !.stage = "txn", !.lease = LeaseOf(call)] \in Calls
    BY <1>3 DEF Calls
  <1> QED BY <1>3, <1>4, <1>5

\* The transaction that puts a key with a lease.
LEMMA PutWithLeaseType ==
    ASSUME TypeInv, NEW call \in Calls, PutWithLease(call)
    PROVE  /\ kv' \in [Switches -> KeyValues]
           /\ inbox' \in [Backends -> Seq(WatchEvents)]
           /\ \A b \in Backends : inbox'[b] # <<>>
           /\ leaseKey' \in [Switches -> Nat]
  <1>1. call.sw \in Switches /\ call.val \in Int /\ call.lease \in Nat
    BY DEF Calls
  <1>2. PutKey(call.sw, call.val, call.lease)
    BY DEF PutWithLease
  <1>3. leaseKey' \in [Switches -> Nat]
    BY <1>1 DEF PutWithLease, TypeInv, TypeOK
  <1> QED BY <1>1, <1>2, <1>3, PutKeyType

\* Counting the creation of a key.
LEMMA BornType ==
    ASSUME TypeInv, NEW s \in Switches
    PROVE  (IF kv[s].exists THEN born ELSE [born EXCEPT ![s] = @ + 1]) \in [Switches -> Nat]
  <1>1. born \in [Switches -> Nat]
    BY DEF TypeInv, TypeOK
  <1>2. [born EXCEPT ![s] = @ + 1] \in [Switches -> Nat]
    BY <1>1
  <1> QED BY <1>1, <1>2

\* The first event of a queue has the type of an event, and so has the rest.
LEMMA InboxHead ==
    ASSUME TypeInv, NEW b \in Backends, inbox[b] # <<>>
    PROVE  /\ Head(inbox[b]) \in WatchEvents
           /\ [inbox EXCEPT ![b] = Tail(@)] \in [Backends -> Seq(WatchEvents)]
  <1>1. inbox \in [Backends -> Seq(WatchEvents)] /\ inbox[b] \in Seq(WatchEvents)
    BY DEF TypeInv, TypeOK
  <1> HIDE DEF WatchEvents
  <1>2. Head(inbox[b]) \in WatchEvents /\ Tail(inbox[b]) \in Seq(WatchEvents)
    BY <1>1
  <1> QED BY <1>1, <1>2

\* No step of a client breaks the type invariant.
LEMMA ClientType ==
    ASSUME TypeInv, NEW c \in Clients,
           \/ \E s \in Switches, ttl \in TTLs, alive \in BOOLEAN : PingGet(c, s, ttl, alive)
           \/ \E s \in Switches : ClientBuryPut(c, s)
           \/ ClientStep(c)
           \/ ClientFail(c)
    PROVE  TypeInv'
  <1> USE IdleCallType DEF etcd, bounds, history
  <1>0. client[c] \in Calls
    BY DEF TypeInv, TypeOK
  <1>1. ASSUME NEW s \in Switches, NEW ttl \in TTLs, NEW alive \in BOOLEAN,
               PingGet(c, s, ttl, alive)
        PROVE  TypeInv'
    <2> DEFINE new == [IdleCall EXCEPT !.stage = "lease", !.sw = s,
                                       !.val = IF alive THEN ttl ELSE -ttl,
                                       !.read = leaseKey[s]]
    <2>1. ttl \in Int /\ -ttl \in Int /\ leaseKey[s] \in Nat
      BY TTLAssumption DEF TypeInv, TypeOK
    <2>2. new \in Calls
      BY <2>1 DEF Calls
    <2>3. client' = [client EXCEPT ![c] = new]
      BY <1>1 DEF PingGet
    <2> HIDE DEF new
    <2>4. client' \in [Clients -> Calls]
      BY <2>2, <2>3 DEF TypeInv, TypeOK
    <2>5. /\ ops' = ops + 1
          /\ UNCHANGED <<etcd, inbox, handler, events, runner, expiries, faults, history>>
      BY <1>1 DEF PingGet
    <2> QED BY <2>4, <2>5 DEF TypeInv, TypeOK, Working
  <1>2. ASSUME NEW s \in Switches, ClientBuryPut(c, s)
        PROVE  TypeInv'
    <2>1. PutKey(s, Buried, NoLease)
      BY <1>2 DEF ClientBuryPut, BuryPut
    <2>2. /\ kv' \in [Switches -> KeyValues]
          /\ inbox' \in [Backends -> Seq(WatchEvents)]
          /\ \A b \in Backends : inbox'[b] # <<>>
      BY <2>1, PutKeyType DEF Buried, NoLease
    <2>3. born' \in [Switches -> Nat]
      BY <1>2, BornType DEF ClientBuryPut, BuryPut
    <2>4. client' \in [Clients -> Calls]
      <3>1. [IdleCall EXCEPT !.stage = "buried", !.sw = s] \in Calls
        BY DEF Calls
      <3> QED BY <1>2, <3>1 DEF ClientBuryPut, TypeInv, TypeOK
    <2>5. /\ ops' = ops + 1
          /\ UNCHANGED <<leaseKey, live, nextLease, handler, events, runner, expiries,
                         faults, led, deleted, gone, lastCb, missed>>
      BY <1>2 DEF ClientBuryPut
    <2>6. Working'
      BY <2>2 DEF Working
    <2>7. ops' \in Nat
      BY <2>5 DEF TypeInv, TypeOK
    <2> HIDE IdleCallType
    <2>8. TypeOK'
      BY <2>2, <2>3, <2>4, <2>5, <2>7 DEF TypeInv, TypeOK
    <2> QED BY <2>6, <2>8 DEF TypeInv
  <1>3. CASE PingLease(c)
    <2>1. GetLease(client[c])
      BY <1>3 DEF PingLease
    <2>2. /\ live' \in [Switches -> SUBSET Nat]
          /\ nextLease' \in [Switches -> Nat]
          /\ [client[c] EXCEPT !.stage = "txn", !.lease = LeaseOf(client[c])] \in Calls
      BY <1>0, <2>1, GetLeaseType
    <2>3. client' \in [Clients -> Calls]
      BY <1>3, <2>2 DEF PingLease, TypeInv, TypeOK
    <2> QED BY <1>3, <2>2, <2>3 DEF PingLease, TypeInv, TypeOK, Working
  <1>4. CASE PingTxn(c)
    <2>1. client' \in [Clients -> Calls]
      BY <1>4 DEF PingTxn, TypeInv, TypeOK
    <2>2. CASE client[c].lease \in live[client[c].sw]
      <3>1. PutWithLease(client[c])
        BY <1>4, <2>2 DEF PingTxn
      <3>2. /\ kv' \in [Switches -> KeyValues]
            /\ inbox' \in [Backends -> Seq(WatchEvents)]
            /\ \A b \in Backends : inbox'[b] # <<>>
            /\ leaseKey' \in [Switches -> Nat]
        BY <1>0, <3>1, PutWithLeaseType
      <3>3. born' \in [Switches -> Nat]
        BY <1>0, <1>4, <2>2, BornType DEF PingTxn, Calls
      <3> QED BY <1>4, <2>1, <3>2, <3>3 DEF PingTxn, TypeInv, TypeOK, Working
    <2>3. CASE client[c].lease \notin live[client[c].sw]
      BY <1>4, <2>1, <2>3 DEF PingTxn, TypeInv, TypeOK, Working
    <2> QED BY <2>2, <2>3
  <1>5. CASE ClientBuryDelete(c)
    <2>1. client' \in [Clients -> Calls]
      BY <1>5 DEF ClientBuryDelete, TypeInv, TypeOK
    <2>2. client[c].sw \in Switches
      BY <1>0 DEF Calls
    <2>3. CASE DeleteKey(client[c].sw)
      <3>1. /\ kv' \in [Switches -> KeyValues]
            /\ inbox' \in [Backends -> Seq(WatchEvents)]
            /\ \A b \in Backends : inbox'[b] # <<>>
            /\ deleted' \in [Switches -> Nat]
            /\ gone' \in [Switches -> Int]
        BY <2>2, <2>3, DeleteKeyType
      <3> QED BY <1>5, <2>1, <3>1 DEF ClientBuryDelete, TypeInv, TypeOK, Working
    <2>4. CASE UNCHANGED <<kv, inbox, deleted, gone>>
      BY <1>5, <2>1, <2>4 DEF ClientBuryDelete, TypeInv, TypeOK, Working
    <2> QED BY <1>5, <2>3, <2>4 DEF ClientBuryDelete, BuryDelete
  <1>6. CASE ClientFail(c)
    BY <1>6 DEF ClientFail, TypeInv, TypeOK, Working
  <1> QED BY <1>1, <1>2, <1>3, <1>4, <1>5, <1>6 DEF ClientStep

\* No step of a monitor breaks the type invariant.
LEMMA MonitorType ==
    ASSUME TypeInv, NEW b \in Backends,
           MonitorStep(b) \/ HandleFail(b) \/ Rewatch(b)
    PROVE  TypeInv'
  <1> USE IdleCallType DEF etcd, bounds, history
  <1>0. /\ handler \in [Backends -> Calls] /\ handler[b] \in Calls
        /\ handler[b].sw \in Switches
        /\ (handler[b].stage # "idle" => inbox[b] # <<>>)
        /\ events \in [Backends -> Seq(Callbacks)] /\ events[b] \in Seq(Callbacks)
    BY DEF TypeInv, TypeOK, Working, Calls
  <1>1. CASE HandleIgnored(b)
    <2>1. inbox' \in [Backends -> Seq(WatchEvents)]
      BY <1>1, InboxHead DEF HandleIgnored, Ready
    <2>2. Working'
      BY <1>1 DEF HandleIgnored, Ready, TypeInv, TypeOK, Working
    <2> QED BY <1>1, <2>1, <2>2 DEF HandleIgnored, TypeInv, TypeOK
  <1>2. CASE HandleAlive(b)
    <2> DEFINE e == Head(inbox[b])
               cb == [kind |-> "alive", sw |-> e.sw, prev |-> prevState(e), leader |-> FALSE]
    <2>1. inbox' \in [Backends -> Seq(WatchEvents)] /\ e \in WatchEvents
      BY <1>2, InboxHead DEF HandleAlive, Ready
    <2>2. cb \in Callbacks
      BY <2>1 DEF WatchEvents, Callbacks, prevState
    <2>3. events' = [events EXCEPT ![b] = Append(@, cb)]
      BY <1>2 DEF HandleAlive
    <2> HIDE DEF cb
    <2>4. events' \in [Backends -> Seq(Callbacks)]
      BY <1>0, <2>2, <2>3
    <2>5. Working'
      BY <1>2 DEF HandleAlive, Ready, TypeInv, TypeOK, Working
    <2> QED BY <1>2, <2>1, <2>4, <2>5 DEF HandleAlive, TypeInv, TypeOK
  <1>3. CASE HandleGet(b)
    <2> DEFINE e == Head(inbox[b])
               new == [IdleCall EXCEPT !.stage = "lease", !.sw = e.sw,
                                       !.val = IF e.prev < 0 THEN e.prev ELSE -e.prev,
                                       !.read = leaseKey[e.sw]]
    <2>1. e \in WatchEvents
      BY <1>3, InboxHead DEF HandleGet, Ready
    <2>2. e.sw \in Switches /\ e.prev \in Int /\ leaseKey[e.sw] \in Nat
      BY <2>1 DEF WatchEvents, TypeInv, TypeOK
    <2>3. new \in Calls
      <3>1. (IF e.prev < 0 THEN e.prev ELSE -e.prev) \in Int
        BY <2>2
      <3> HIDE DEF e
      <3> QED BY <2>2, <3>1 DEF Calls
    <2>4. /\ handler' = [handler EXCEPT ![b] = new] /\ inbox[b] # <<>>
          /\ UNCHANGED <<etcd, inbox, events, runner, client, bounds, history>>
      BY <1>3 DEF HandleGet, Ready
    <2> HIDE DEF new
    <2> QED BY <1>0, <2>3, <2>4 DEF TypeInv, TypeOK, Working
  <1>4. CASE HandleLease(b)
    <2>1. GetLease(handler[b])
      BY <1>4 DEF HandleLease
    <2>2. /\ live' \in [Switches -> SUBSET Nat]
          /\ nextLease' \in [Switches -> Nat]
          /\ [handler[b] EXCEPT !.stage = "txn", !.lease = LeaseOf(handler[b])] \in Calls
      BY <1>0, <2>1, GetLeaseType
    <2>3. handler' \in [Backends -> Calls]
      BY <1>0, <1>4, <2>2 DEF HandleLease
    <2>4. Working'
      BY <1>0, <1>4 DEF HandleLease, TypeInv, TypeOK, Working
    <2> QED BY <1>4, <2>2, <2>3, <2>4 DEF HandleLease, TypeInv, TypeOK
  <1>5. CASE HandleTxn(b)
    <2> DEFINE new == [handler[b] EXCEPT !.stage = "notify", !.leader = ~kv[handler[b].sw].exists]
    <2>1. new \in Calls
      BY <1>0 DEF Calls
    <2>2. handler' \in [Backends -> Calls]
      BY <1>0, <1>5, <2>1 DEF HandleTxn
    <2>3. CASE PutWithLease(handler[b]) /\ led' = [led EXCEPT ![handler[b].sw] = @ + 1]
      <3>1. /\ kv' \in [Switches -> KeyValues]
            /\ inbox' \in [Backends -> Seq(WatchEvents)]
            /\ \A x \in Backends : inbox'[x] # <<>>
            /\ leaseKey' \in [Switches -> Nat]
        BY <1>0, <2>3, PutWithLeaseType
      <3>2. led' \in [Switches -> Nat]
        BY <1>0, <2>3 DEF TypeInv, TypeOK
      <3> QED BY <1>5, <2>2, <3>1, <3>2 DEF HandleTxn, TypeInv, TypeOK, Working
    <2>4. CASE UNCHANGED <<kv, leaseKey, inbox, led>>
      <3>1. Working'
        BY <1>0, <1>5, <2>4 DEF HandleTxn, TypeInv, TypeOK, Working
      <3> QED BY <1>5, <2>2, <2>4, <3>1 DEF HandleTxn, TypeInv, TypeOK
    <2> QED BY <1>5, <2>3, <2>4 DEF HandleTxn, TakeOver
  <1>6. CASE HandleTxnRefused(b) \/ HandleFail(b)
    <2>1. inbox[b] # <<>> /\ inbox' = [inbox EXCEPT ![b] = Tail(@)]
      BY <1>0, <1>6 DEF HandleTxnRefused, HandleFail
    <2>2. inbox' \in [Backends -> Seq(WatchEvents)]
      BY <2>1, InboxHead
    <2>3. Working'
      BY <1>0, <1>6 DEF HandleTxnRefused, HandleFail, TypeInv, TypeOK, Working
    <2>4. /\ handler' = [handler EXCEPT ![b] = IdleCall]
          /\ missed' = [missed EXCEPT ![b] = TRUE]
          /\ faults' = faults \/ faults' = faults + 1
      BY <1>6 DEF HandleTxnRefused, HandleFail
    <2>5. UNCHANGED <<etcd, events, runner, client, ops, expiries, born, led, deleted,
                      gone, lastCb>>
      BY <1>6 DEF HandleTxnRefused, HandleFail
    <2> QED BY <2>2, <2>3, <2>4, <2>5 DEF TypeInv, TypeOK
  <1>7. CASE HandleNotify(b)
    <2> DEFINE e == Head(inbox[b])
               cb == [kind |-> "dead", sw |-> handler[b].sw, prev |-> prevState(e),
                      leader |-> handler[b].leader]
    <2>1. inbox' \in [Backends -> Seq(WatchEvents)]
      BY <1>0, <1>7, InboxHead DEF HandleNotify
    <2>2. cb \in Callbacks
      BY <1>0 DEF Calls, Callbacks, prevState
    <2>3. events' = [events EXCEPT ![b] = Append(@, cb)]
      BY <1>7 DEF HandleNotify
    <2> HIDE DEF cb
    <2>4. events' \in [Backends -> Seq(Callbacks)]
      BY <1>0, <2>2, <2>3
    <2>5. Working'
      BY <1>7 DEF HandleNotify, TypeInv, TypeOK, Working
    <2> QED BY <1>7, <2>1, <2>4, <2>5 DEF HandleNotify, TypeInv, TypeOK
  <1>8. CASE Rewatch(b)
    BY <1>8 DEF Rewatch, TypeInv, TypeOK, Working
  <1> QED BY <1>1, <1>2, <1>3, <1>4, <1>5, <1>6, <1>7, <1>8 DEF MonitorStep

\* No step of a callback goroutine, and no crash, breaks the type invariant.
LEMMA RunnerType ==
    ASSUME TypeInv, NEW b \in Backends,
           RunnerStep(b) \/ RunnerFail(b) \/ Crash(b)
    PROVE  TypeInv'
  <1> USE IdleCallType DEF etcd, bounds, history
  <1>0. /\ runner \in [Backends -> Calls] /\ runner[b] \in Calls
        /\ runner[b].sw \in Switches
        /\ events \in [Backends -> Seq(Callbacks)] /\ events[b] \in Seq(Callbacks)
    BY DEF TypeInv, TypeOK, Calls
  <1>1. ASSUME NEW bury \in BOOLEAN, RunCallback(b, bury)
        PROVE  TypeInv'
    <2> DEFINE cb == Head(events[b])
               new == [IdleCall EXCEPT !.stage = "bury", !.sw = cb.sw]
    <2>1. cb \in Callbacks /\ Tail(events[b]) \in Seq(Callbacks)
      <3> HIDE DEF Callbacks
      <3> QED BY <1>0, <1>1 DEF RunCallback
    <2>2. cb.sw \in Switches /\ cb.kind \in {"alive", "dead"}
      BY <2>1 DEF Callbacks
    <2>3. new \in Calls
      BY <2>2 DEF Calls
    <2>4. /\ events' = [events EXCEPT ![b] = Tail(@)]
          /\ runner' = [runner EXCEPT ![b] = new] \/ runner' = runner
          /\ lastCb' = [lastCb EXCEPT ![b][cb.sw] = cb.kind]
          /\ ops' = ops + 1 \/ ops' = ops
          /\ UNCHANGED <<etcd, inbox, handler, client, expiries, faults, born, led,
                         deleted, gone, missed>>
      BY <1>1 DEF RunCallback
    <2> HIDE DEF cb, new
    <2>5. events' \in [Backends -> Seq(Callbacks)] /\ runner' \in [Backends -> Calls]
      BY <1>0, <2>1, <2>3, <2>4
    <2>6. lastCb' \in [Backends -> [Switches -> {"none", "alive", "dead"}]]
      BY <2>2, <2>4 DEF TypeInv, TypeOK
    <2> QED BY <2>4, <2>5, <2>6 DEF TypeInv, TypeOK, Working
  <1>2. CASE RunnerBuryPut(b)
    <2>1. /\ kv' \in [Switches -> KeyValues]
          /\ inbox' \in [Backends -> Seq(WatchEvents)]
          /\ \A x \in Backends : inbox'[x] # <<>>
      <3>1. PutKey(runner[b].sw, Buried, NoLease)
        BY <1>2 DEF RunnerBuryPut, BuryPut
      <3> QED BY <1>0, <3>1, PutKeyType DEF Buried, NoLease
    <2>2. born' \in [Switches -> Nat]
      BY <1>0, <1>2, BornType DEF RunnerBuryPut, BuryPut
    <2>3. runner' \in [Backends -> Calls]
      <3>1. [runner[b] EXCEPT !.stage = "buried"] \in Calls
        BY <1>0 DEF Calls
      <3> QED BY <1>0, <1>2, <3>1 DEF RunnerBuryPut
    <2>4. UNCHANGED <<leaseKey, live, nextLease, handler, events, client, bounds,
                      led, deleted, gone, lastCb, missed>>
      BY <1>2 DEF RunnerBuryPut
    <2> QED BY <2>1, <2>2, <2>3, <2>4 DEF TypeInv, TypeOK, Working
  <1>3. CASE RunnerBuryDelete(b)
    <2>1. runner' = [runner EXCEPT ![b] = IdleCall]
      BY <1>3 DEF RunnerBuryDelete
    <2>2. CASE DeleteKey(runner[b].sw)
      <3>1. /\ kv' \in [Switches -> KeyValues]
            /\ inbox' \in [Backends -> Seq(WatchEvents)]
            /\ \A x \in Backends : inbox'[x] # <<>>
            /\ deleted' \in [Switches -> Nat]
            /\ gone' \in [Switches -> Int]
        BY <1>0, <2>2, DeleteKeyType
      <3> QED BY <1>3, <2>1, <3>1 DEF RunnerBuryDelete, TypeInv, TypeOK, Working
    <2>3. CASE UNCHANGED <<kv, inbox, deleted, gone>>
      BY <1>3, <2>1, <2>3 DEF RunnerBuryDelete, TypeInv, TypeOK, Working
    <2> QED BY <1>3, <2>2, <2>3 DEF RunnerBuryDelete, BuryDelete
  <1>4. CASE RunnerFail(b)
    BY <1>4 DEF RunnerFail, TypeInv, TypeOK, Working
  <1>5. CASE Crash(b)
    BY <1>5 DEF Crash, TypeInv, TypeOK, Working
  <1> QED BY <1>1, <1>2, <1>3, <1>4, <1>5 DEF RunnerStep

\* The expiry of a lease does not break the type invariant.
LEMMA ExpireType ==
    ASSUME TypeInv, NEW s \in Switches, NEW l \in live[s], LeaseExpire(s, l)
    PROVE  TypeInv'
  <1>1. /\ live' = [live EXCEPT ![s] = @ \ {l}] /\ expiries' = expiries + 1
        /\ UNCHANGED <<leaseKey, nextLease, handler, events, runner, client, ops,
                       faults, born, led, lastCb, missed>>
    BY DEF LeaseExpire
  <1>2. live' \in [Switches -> SUBSET Nat]
    BY <1>1 DEF TypeInv, TypeOK
  <1>3. CASE DeleteKey(s)
    <2>1. /\ kv' \in [Switches -> KeyValues]
          /\ inbox' \in [Backends -> Seq(WatchEvents)]
          /\ \A b \in Backends : inbox'[b] # <<>>
          /\ deleted' \in [Switches -> Nat]
          /\ gone' \in [Switches -> Int]
      BY <1>3, DeleteKeyType
    <2> QED BY <1>1, <1>2, <2>1 DEF TypeInv, TypeOK, Working
  <1>4. CASE UNCHANGED <<kv, inbox, deleted, gone>>
    BY <1>1, <1>2, <1>4 DEF TypeInv, TypeOK, Working
  <1> QED BY <1>3, <1>4 DEF LeaseExpire

\* The initial state satisfies the type invariant.
LEMMA InitType == Init => TypeInv
  <1> SUFFICES ASSUME Init PROVE TypeInv
    OBVIOUS
  <1> USE IdleCallType DEF Init
  <1>1. Absent \in KeyValues
    BY DEF KeyValues, Absent, NoLease
  <1>2. /\ kv \in [Switches -> KeyValues]
        /\ handler \in [Backends -> Calls] /\ runner \in [Backends -> Calls]
        /\ client \in [Clients -> Calls]
    BY <1>1
  <1>3. /\ inbox \in [Backends -> Seq(WatchEvents)]
        /\ events \in [Backends -> Seq(Callbacks)]
    OBVIOUS
  <1>4. Working
    BY DEF Working
  <1> QED BY <1>2, <1>3, <1>4 DEF TypeInv, TypeOK, NoLease, Buried

\* Every step of clients, monitors, callback goroutines and etcd keeps the types.
LEMMA NextType == TypeInv /\ [Next]_vars => TypeInv'
  <1> SUFFICES ASSUME TypeInv, [Next]_vars PROVE TypeInv'
    OBVIOUS
  <1>1. CASE UNCHANGED vars
    BY <1>1 DEF vars, etcd, bounds, history, TypeInv, TypeOK, Working
  <1> QED BY <1>1, ClientType, MonitorType, RunnerType, ExpireType DEF Next, Finished

\* Every reachable state of the switch set is well typed: every value that
\* liveness.go writes to etcd, queues or passes to a callback is of its kind.
THEOREM TypeCorrect == Spec => []TypeOK
  <1>1. TypeInv => TypeOK
    BY DEF TypeInv
  <1> QED BY InitType, NextType, <1>1, PTL DEF Spec

-----------------------------------------------------------------------------
(* Safety.  LeadersBounded does not hold by induction as it stands: a       *)
(* handler that wins makes one more leader, and that is only right because  *)
(* an earlier deletion is still unaccounted for.  The books below say so:   *)
(* keys created by clients and by leaders are the keys that vanished plus   *)
(* the one that is there, and the first creator is always a client, since a *)
(* handler works only on a deletion it was told of.                         *)

Present(s) == IF kv[s].exists THEN 1 ELSE 0

Balance == \A s \in Switches : led[s] + born[s] = deleted[s] + Present(s)

BornFirst == \A s \in Switches : deleted[s] > 0 \/ kv[s].exists => born[s] > 0

DeletionsHappened ==
    /\ \A b \in Backends : \A i \in 1..Len(inbox[b]) :
         inbox[b][i].type = "DELETE" => deleted[inbox[b][i].sw] > 0
    /\ \A b \in Backends : handler[b].stage # "idle" => deleted[handler[b].sw] > 0

\* No ping or handler carries the value that stands for "buried".
NotBuried ==
    /\ \A c \in Clients : client[c].stage \in {"lease", "txn"} => client[c].val # Buried
    /\ \A b \in Backends : handler[b].stage \in {"lease", "txn"} => handler[b].val # Buried

SafetyInv == /\ Balance /\ BornFirst /\ DeletionsHappened /\ NotBuried
             /\ CountdownRuns /\ BuriedIsTransient

\* A write to one key keeps what the invariant says of the inboxes.
LEMMA AppendKeeps ==
    ASSUME TypeInv, DeletionsHappened, NEW e \in WatchEvents,
           inbox' = [b \in Backends |-> Append(inbox[b], e)],
           deleted' \in [Switches -> Nat],
           \A s \in Switches : deleted'[s] >= deleted[s],
           e.type = "DELETE" => deleted'[e.sw] > 0
    PROVE  \A b \in Backends : \A i \in 1..Len(inbox'[b]) :
             inbox'[b][i].type = "DELETE" => deleted'[inbox'[b][i].sw] > 0
  <1> SUFFICES ASSUME NEW b \in Backends, NEW i \in 1..Len(inbox'[b]),
                      inbox'[b][i].type = "DELETE"
               PROVE  deleted'[inbox'[b][i].sw] > 0
    OBVIOUS
  <1>1. inbox[b] \in Seq(WatchEvents) /\ deleted \in [Switches -> Nat]
    BY DEF TypeInv, TypeOK
  <1>2. inbox'[b] = Append(inbox[b], e)
    OBVIOUS
  <1>3. CASE i = Len(inbox[b]) + 1
    <2>1. inbox'[b][i] = e
      BY <1>1, <1>2, <1>3
    <2> QED BY <2>1
  <1>4. CASE i \in 1..Len(inbox[b])
    <2>1. inbox'[b][i] = inbox[b][i] /\ inbox[b][i] \in WatchEvents
      BY <1>1, <1>2, <1>4
    <2>2. inbox[b][i].sw \in Switches
      BY <2>1 DEF WatchEvents
    <2>3. deleted[inbox[b][i].sw] > 0
      BY <1>4, <2>1 DEF DeletionsHappened
    <2> QED BY <1>1, <2>1, <2>2, <2>3
  <1> QED BY <1>1, <1>2, <1>3, <1>4

\* Removing the first event keeps it too.
LEMMA TailKeeps ==
    ASSUME TypeInv, DeletionsHappened, NEW b \in Backends, inbox[b] # <<>>,
           inbox' = [inbox EXCEPT ![b] = Tail(@)], UNCHANGED deleted
    PROVE  \A x \in Backends : \A i \in 1..Len(inbox'[x]) :
             inbox'[x][i].type = "DELETE" => deleted'[inbox'[x][i].sw] > 0
  <1> SUFFICES ASSUME NEW x \in Backends, NEW i \in 1..Len(inbox'[x]),
                      inbox'[x][i].type = "DELETE"
               PROVE  deleted[inbox'[x][i].sw] > 0
    OBVIOUS
  <1>1. inbox \in [Backends -> Seq(WatchEvents)] /\ inbox[x] \in Seq(WatchEvents)
    BY DEF TypeInv, TypeOK
  <1>2. CASE x = b
    <2>1. inbox'[x] = Tail(inbox[x])
      BY <1>1, <1>2
    <2>2. i + 1 \in 1..Len(inbox[x]) /\ inbox'[x][i] = inbox[x][i + 1]
      BY <1>1, <1>2, <2>1
    <2> QED BY <2>2 DEF DeletionsHappened
  <1>3. CASE x # b
    BY <1>1, <1>3 DEF DeletionsHappened
  <1> QED BY <1>2, <1>3

\* The books stay balanced when a client puts a key, for a ping or a burial.
LEMMA BornBooks ==
    ASSUME TypeInv, SafetyInv, NEW s \in Switches, NEW v \in Int, NEW l \in Nat,
           PutKey(s, v, l), UNCHANGED <<led, deleted>>,
           born' = IF kv[s].exists THEN born ELSE [born EXCEPT ![s] = @ + 1]
    PROVE  /\ Balance' /\ BornFirst'
           /\ \A b \in Backends : \A i \in 1..Len(inbox'[b]) :
                inbox'[b][i].type = "DELETE" => deleted'[inbox'[b][i].sw] > 0
  <1>1. /\ kv' = [kv EXCEPT ![s] = [exists |-> TRUE, val |-> v, lease |-> l]]
        /\ inbox' = [b \in Backends |-> Append(inbox[b],
                       [type |-> "PUT", sw |-> s, val |-> v, prev |-> kv[s].val])]
    BY DEF PutKey
  <1>2. /\ kv \in [Switches -> KeyValues] /\ led \in [Switches -> Nat]
        /\ born \in [Switches -> Nat] /\ deleted \in [Switches -> Nat]
    BY DEF TypeInv, TypeOK
  <1>3. kv'[s].exists = TRUE /\ \A x \in Switches : x # s => kv'[x] = kv[x]
    BY <1>1, <1>2
  <1>4. ASSUME NEW x \in Switches
        PROVE  /\ led'[x] + born'[x] = deleted'[x] + Present(x)'
               /\ deleted'[x] > 0 \/ kv'[x].exists => born'[x] > 0
    <2>1. /\ led[x] + born[x] = deleted[x] + Present(x)
          /\ (deleted[x] > 0 \/ kv[x].exists => born[x] > 0)
          /\ led[x] \in Nat /\ born[x] \in Nat /\ deleted[x] \in Nat
      BY <1>2 DEF SafetyInv, Balance, BornFirst
    <2>2. CASE x # s
      <3>1. kv'[x] = kv[x] /\ born'[x] = born[x]
        BY <1>2, <1>3, <2>2
      <3> QED BY <2>1, <3>1 DEF Present
    <2>3. CASE x = s /\ kv[s].exists
      <3>1. born' = born
        BY <2>3
      <3> QED BY <1>3, <2>1, <2>3, <3>1 DEF Present
    <2>4. CASE x = s /\ ~kv[s].exists
      <3>1. born'[x] = born[x] + 1
        BY <1>2, <2>4
      <3> QED BY <1>3, <2>1, <2>4, <3>1 DEF Present
    <2> QED BY <2>2, <2>3, <2>4
  <1>5. Balance' /\ BornFirst'
    BY <1>4 DEF Balance, BornFirst
  <1>6. kv[s].val \in Int
    BY <1>2 DEF KeyValues
  <1> DEFINE e == [type |-> "PUT", sw |-> s, val |-> v, prev |-> kv[s].val]
  <1>7. e \in WatchEvents /\ e.type # "DELETE"
    BY <1>6 DEF WatchEvents
  <1>8. inbox' = [b \in Backends |-> Append(inbox[b], e)]
    BY <1>1
  <1> HIDE DEF e
  <1>9. DeletionsHappened /\ deleted' \in [Switches -> Nat]
        /\ \A x \in Switches : deleted'[x] >= deleted[x]
    BY <1>2 DEF SafetyInv
  <1>10. \A b \in Backends : \A i \in 1..Len(inbox'[b]) :
                inbox'[b][i].type = "DELETE" => deleted'[inbox'[b][i].sw] > 0
    BY <1>7, <1>8, <1>9, AppendKeeps
  <1> QED BY <1>5, <1>10

\* They stay balanced when a key vanishes.
LEMMA DeleteBooks ==
    ASSUME TypeInv, SafetyInv, NEW s \in Switches, kv[s].exists,
           DeleteKey(s), UNCHANGED <<led, born>>
    PROVE  /\ Balance' /\ BornFirst'
           /\ \A b \in Backends : \A i \in 1..Len(inbox'[b]) :
                inbox'[b][i].type = "DELETE" => deleted'[inbox'[b][i].sw] > 0
           /\ deleted' \in [Switches -> Nat]
           /\ \A x \in Switches : deleted'[x] >= deleted[x]
           /\ ~kv'[s].exists /\ \A x \in Switches : x # s => kv'[x] = kv[x]
  <1> DEFINE e == [type |-> "DELETE", sw |-> s, val |-> 0, prev |-> kv[s].val]
  <1>1. /\ kv' = [kv EXCEPT ![s] = Absent]
        /\ inbox' = [b \in Backends |-> Append(inbox[b], e)]
        /\ deleted' = [deleted EXCEPT ![s] = @ + 1]
    BY DEF DeleteKey
  <1>2. /\ kv \in [Switches -> KeyValues] /\ led \in [Switches -> Nat]
        /\ born \in [Switches -> Nat] /\ deleted \in [Switches -> Nat]
    BY DEF TypeInv, TypeOK
  <1>3. ~kv'[s].exists /\ \A x \in Switches : x # s => kv'[x] = kv[x]
    BY <1>1, <1>2 DEF Absent
  <1>4. Balance' /\ BornFirst'
    <2>1. ASSUME NEW x \in Switches
          PROVE  /\ led'[x] + born'[x] = deleted'[x] + Present(x)'
                 /\ deleted'[x] > 0 \/ kv'[x].exists => born'[x] > 0
      <3>1. /\ led[x] + born[x] = deleted[x] + Present(x)
            /\ (deleted[x] > 0 \/ kv[x].exists => born[x] > 0)
            /\ led[x] \in Nat /\ born[x] \in Nat /\ deleted[x] \in Nat
        BY <1>2 DEF SafetyInv, Balance, BornFirst
      <3>2. CASE x # s
        <4>1. kv'[x] = kv[x] /\ deleted'[x] = deleted[x]
          BY <1>1, <1>2, <1>3, <3>2
        <4> QED BY <3>1, <4>1 DEF Present
      <3>3. CASE x = s
        <4>1. deleted'[x] = deleted[x] + 1
          BY <1>1, <1>2, <3>3
        <4> QED BY <1>3, <3>1, <3>3, <4>1 DEF Present
      <3> QED BY <3>2, <3>3
    <2> QED BY <2>1 DEF Balance, BornFirst
  <1>5. e \in WatchEvents /\ e.sw = s
    BY <1>2 DEF WatchEvents, KeyValues
  <1>6. deleted' \in [Switches -> Nat] /\ deleted'[s] > 0
        /\ \A x \in Switches : deleted'[x] >= deleted[x]
    BY <1>1, <1>2
  <1> HIDE DEF e
  <1>7. \A b \in Backends : \A i \in 1..Len(inbox'[b]) :
                inbox'[b][i].type = "DELETE" => deleted'[inbox'[b][i].sw] > 0
    BY <1>1, <1>5, <1>6, AppendKeeps DEF SafetyInv
  <1> QED BY <1>3, <1>4, <1>6, <1>7

\* A handler that is busy with a switch that vanished still is after another
\* deletion.
LEMMA DeletedGrows ==
    ASSUME TypeInv, DeletionsHappened, UNCHANGED handler,
           deleted' \in [Switches -> Nat],
           \A s \in Switches : deleted'[s] >= deleted[s]
    PROVE  \A b \in Backends : handler'[b].stage # "idle" => deleted'[handler'[b].sw] > 0
  <1>1. deleted \in [Switches -> Nat] /\ \A b \in Backends : handler[b].sw \in Switches
    BY DEF TypeInv, TypeOK, Calls
  <1> QED BY <1>1 DEF DeletionsHappened

\* The steps of a client keep the safety invariant.
LEMMA ClientSafety ==
    ASSUME TypeInv, SafetyInv, NEW c \in Clients,
           \/ \E s \in Switches, ttl \in TTLs, alive \in BOOLEAN : PingGet(c, s, ttl, alive)
           \/ \E s \in Switches : ClientBuryPut(c, s)
           \/ ClientStep(c)
           \/ ClientFail(c)
    PROVE  SafetyInv'
  <1> USE IdleCallType DEF etcd, bounds, history
  <1>0. /\ client \in [Clients -> Calls] /\ client[c] \in Calls
        /\ client[c].sw \in Switches /\ client[c].val \in Int /\ client[c].lease \in Nat
        /\ kv \in [Switches -> KeyValues] /\ live \in [Switches -> SUBSET Nat]
        /\ handler \in [Backends -> Calls] /\ faults \in Nat
    BY DEF TypeInv, TypeOK, Calls
  <1>1. ASSUME NEW s \in Switches, NEW ttl \in TTLs, NEW alive \in BOOLEAN,
               PingGet(c, s, ttl, alive)
        PROVE  SafetyInv'
    <2>1. /\ UNCHANGED <<kv, live, inbox, handler, runner, faults, born, led, deleted>>
          /\ client[c].stage = "idle"
          /\ \A x \in Clients : x # c => client'[x] = client[x]
          /\ client'[c].val # Buried
      <3>1. /\ UNCHANGED <<kv, live, inbox, handler, runner, faults, born, led, deleted>>
            /\ client[c].stage = "idle" /\ ttl >= FallbackTTL
        BY <1>1 DEF PingGet
      <3>2. \A x \in Clients : x # c => client'[x] = client[x]
        BY <1>0, <1>1 DEF PingGet
      <3>3. client'[c].val = IF alive THEN ttl ELSE -ttl
        BY <1>0, <1>1 DEF PingGet, Calls
      <3>4. (IF alive THEN ttl ELSE -ttl) # 0
        BY <3>1, TTLAssumption
      <3> QED BY <3>1, <3>2, <3>3, <3>4 DEF Buried
    <2>2. BuriedIsTransient'
      BY <2>1 DEF SafetyInv, BuriedIsTransient
    <2>3. NotBuried'
      BY <2>1 DEF SafetyInv, NotBuried
    <2> QED BY <2>1, <2>2, <2>3
            DEF SafetyInv, Balance, BornFirst, Present, DeletionsHappened, CountdownRuns
  <1>2. ASSUME NEW s \in Switches, ClientBuryPut(c, s)
        PROVE  SafetyInv'
    <2>1. /\ PutKey(s, Buried, NoLease)
          /\ born' = IF kv[s].exists THEN born ELSE [born EXCEPT ![s] = @ + 1]
          /\ UNCHANGED <<live, handler, runner, faults, led, deleted>>
          /\ client[c].stage = "idle"
          /\ client' = [client EXCEPT ![c] = [IdleCall EXCEPT !.stage = "buried", !.sw = s]]
      BY <1>2 DEF ClientBuryPut, BuryPut
    <2>2. /\ Balance' /\ BornFirst'
          /\ \A b \in Backends : \A i \in 1..Len(inbox'[b]) :
                inbox'[b][i].type = "DELETE" => deleted'[inbox'[b][i].sw] > 0
      <3>1. Buried \in Int /\ NoLease \in Nat
        BY DEF Buried, NoLease
      <3> QED BY <2>1, <3>1, BornBooks
    <2>3. /\ client'[c].stage = "buried" /\ client'[c].sw = s
          /\ \A x \in Clients : x # c => client'[x] = client[x]
      BY <1>0, <2>1 DEF Calls
    <2>4. kv'[s].val = Buried /\ \A x \in Switches : x # s => kv'[x] = kv[x]
      BY <1>0, <2>1 DEF PutKey
    <2>5. BuriedIsTransient'
      BY <2>1, <2>3, <2>4 DEF SafetyInv, BuriedIsTransient
    <2>6. NotBuried'
      BY <2>1, <2>3 DEF SafetyInv, NotBuried
    <2>7. CountdownRuns'
      BY <2>1, <2>4 DEF SafetyInv, CountdownRuns
    <2>8. DeletionsHappened'
      BY <2>1, <2>2 DEF SafetyInv, DeletionsHappened
    <2> QED BY <2>2, <2>5, <2>6, <2>7, <2>8 DEF SafetyInv
  <1>3. CASE PingLease(c)
    <2>1. /\ UNCHANGED <<kv, inbox, handler, runner, faults, born, led, deleted>>
          /\ client[c].stage = "lease"
          /\ client'[c].stage = "txn" /\ client'[c].val = client[c].val
          /\ \A x \in Clients : x # c => client'[x] = client[x]
      BY <1>0, <1>3 DEF PingLease, Calls
    <2>2. \A s \in Switches : live[s] \subseteq live'[s]
      BY <1>0, <1>3 DEF PingLease, GetLease
    <2>3. BuriedIsTransient'
      BY <2>1 DEF SafetyInv, BuriedIsTransient
    <2>4. NotBuried'
      BY <2>1 DEF SafetyInv, NotBuried
    <2> QED BY <2>1, <2>2, <2>3, <2>4
            DEF SafetyInv, Balance, BornFirst, Present, DeletionsHappened, CountdownRuns
  <1>4. CASE PingTxn(c)
    <2> DEFINE s == client[c].sw
    <2>1. /\ UNCHANGED <<live, handler, runner, faults, led, deleted>>
          /\ client[c].stage = "txn" /\ client'[c].stage = "idle"
          /\ \A x \in Clients : x # c => client'[x] = client[x]
      BY <1>0, <1>4 DEF PingTxn
    <2>2. NotBuried'
      BY <2>1 DEF SafetyInv, NotBuried
    <2>3. CASE client[c].lease \in live[s]
      <3>1. /\ PutKey(s, client[c].val, client[c].lease)
            /\ born' = IF kv[s].exists THEN born ELSE [born EXCEPT ![s] = @ + 1]
        BY <1>4, <2>3 DEF PingTxn, PutWithLease
      <3>2. /\ Balance' /\ BornFirst'
            /\ \A b \in Backends : \A i \in 1..Len(inbox'[b]) :
                  inbox'[b][i].type = "DELETE" => deleted'[inbox'[b][i].sw] > 0
        BY <1>0, <2>1, <3>1, BornBooks
      <3>3. /\ kv'[s].val = client[c].val /\ kv'[s].lease = client[c].lease
            /\ \A x \in Switches : x # s => kv'[x] = kv[x]
        BY <1>0, <3>1 DEF PutKey
      <3>4. client[c].val # Buried
        BY <2>1 DEF SafetyInv, NotBuried
      <3>5. BuriedIsTransient'
        BY <2>1, <3>3, <3>4 DEF SafetyInv, BuriedIsTransient
      <3>6. CountdownRuns'
        BY <2>1, <2>3, <3>3 DEF SafetyInv, CountdownRuns
      <3>7. DeletionsHappened'
        BY <2>1, <3>2 DEF SafetyInv, DeletionsHappened
      <3> QED BY <2>2, <3>2, <3>5, <3>6, <3>7 DEF SafetyInv
    <2>4. CASE client[c].lease \notin live[s]
      <3>1. UNCHANGED <<kv, inbox, born>>
        BY <1>4, <2>4 DEF PingTxn
      <3>2. BuriedIsTransient'
        BY <2>1, <3>1 DEF SafetyInv, BuriedIsTransient
      <3> QED BY <2>1, <2>2, <3>1, <3>2
              DEF SafetyInv, Balance, BornFirst, Present, DeletionsHappened, CountdownRuns
    <2> QED BY <2>3, <2>4
  <1>5. CASE ClientBuryDelete(c)
    <2> DEFINE s == client[c].sw
    <2>1. /\ UNCHANGED <<live, handler, runner, faults, led, born>>
          /\ BuryDelete(s)
          /\ client'[c].stage = "idle"
          /\ \A x \in Clients : x # c => client'[x] = client[x]
      BY <1>0, <1>5 DEF ClientBuryDelete
    <2>2. NotBuried'
      BY <2>1 DEF SafetyInv, NotBuried
    <2>3. CASE kv[s].exists /\ DeleteKey(s)
      <3>1. /\ Balance' /\ BornFirst'
            /\ \A b \in Backends : \A i \in 1..Len(inbox'[b]) :
                  inbox'[b][i].type = "DELETE" => deleted'[inbox'[b][i].sw] > 0
            /\ deleted' \in [Switches -> Nat]
            /\ \A x \in Switches : deleted'[x] >= deleted[x]
            /\ ~kv'[s].exists /\ \A x \in Switches : x # s => kv'[x] = kv[x]
        BY <1>0, <2>1, <2>3, DeleteBooks
      <3>2. BuriedIsTransient'
        BY <2>1, <3>1 DEF SafetyInv, BuriedIsTransient
      <3>3. CountdownRuns'
        BY <2>1, <3>1 DEF SafetyInv, CountdownRuns
      <3>4. DeletionsHappened'
        BY <1>0, <2>1, <3>1, DeletedGrows DEF SafetyInv, DeletionsHappened
      <3> QED BY <2>2, <3>1, <3>2, <3>3, <3>4 DEF SafetyInv
    <2>4. CASE ~kv[s].exists /\ UNCHANGED <<kv, inbox, deleted, gone>>
      <3>1. BuriedIsTransient'
        BY <2>1, <2>4 DEF SafetyInv, BuriedIsTransient
      <3> QED BY <2>1, <2>2, <2>4, <3>1
              DEF SafetyInv, Balance, BornFirst, Present, DeletionsHappened, CountdownRuns
    <2> QED BY <2>1, <2>3, <2>4 DEF BuryDelete
  <1>6. CASE ClientFail(c)
    <2>1. /\ UNCHANGED <<kv, live, inbox, handler, runner, born, led, deleted>>
          /\ faults' > 0
          /\ client'[c].stage = "idle"
          /\ \A x \in Clients : x # c => client'[x] = client[x]
      BY <1>0, <1>6 DEF ClientFail
    <2>2. NotBuried'
      BY <2>1 DEF SafetyInv, NotBuried
    <2> QED BY <2>1, <2>2 DEF SafetyInv, Balance, BornFirst, Present, DeletionsHappened,
                              CountdownRuns, BuriedIsTransient
  <1> QED BY <1>1, <1>2, <1>3, <1>4, <1>5, <1>6 DEF ClientStep

\* The books when a handler puts a key back: it was told of a deletion, so a
\* client created the key before.
LEMMA LedBooks ==
    ASSUME TypeInv, SafetyInv, NEW s \in Switches, NEW v \in Int, NEW l \in Nat,
           ~kv[s].exists, deleted[s] > 0,
           PutKey(s, v, l), led' = [led EXCEPT ![s] = @ + 1], UNCHANGED <<born, deleted>>
    PROVE  /\ Balance' /\ BornFirst'
           /\ \A b \in Backends : \A i \in 1..Len(inbox'[b]) :
                inbox'[b][i].type = "DELETE" => deleted'[inbox'[b][i].sw] > 0
  <1> DEFINE e == [type |-> "PUT", sw |-> s, val |-> v, prev |-> kv[s].val]
  <1>1. /\ kv' = [kv EXCEPT ![s] = [exists |-> TRUE, val |-> v, lease |-> l]]
        /\ inbox' = [b \in Backends |-> Append(inbox[b], e)]
    BY DEF PutKey
  <1>2. /\ kv \in [Switches -> KeyValues] /\ led \in [Switches -> Nat]
        /\ born \in [Switches -> Nat] /\ deleted \in [Switches -> Nat]
    BY DEF TypeInv, TypeOK
  <1>3. kv'[s].exists = TRUE /\ \A x \in Switches : x # s => kv'[x] = kv[x]
    BY <1>1, <1>2
  <1>4. ASSUME NEW x \in Switches
        PROVE  /\ led'[x] + born'[x] = deleted'[x] + Present(x)'
               /\ deleted'[x] > 0 \/ kv'[x].exists => born'[x] > 0
    <2>1. /\ led[x] + born[x] = deleted[x] + Present(x)
          /\ (deleted[x] > 0 \/ kv[x].exists => born[x] > 0)
          /\ led[x] \in Nat /\ born[x] \in Nat /\ deleted[x] \in Nat
      BY <1>2 DEF SafetyInv, Balance, BornFirst
    <2>2. CASE x # s
      <3>1. kv'[x] = kv[x] /\ led'[x] = led[x]
        BY <1>2, <1>3, <2>2
      <3> QED BY <2>1, <3>1 DEF Present
    <2>3. CASE x = s
      <3>1. led'[x] = led[x] + 1
        BY <1>2, <2>3
      <3> QED BY <1>3, <2>1, <2>3, <3>1 DEF Present
    <2> QED BY <2>2, <2>3
  <1>5. Balance' /\ BornFirst'
    BY <1>4 DEF Balance, BornFirst
  <1>6. e \in WatchEvents /\ e.type # "DELETE"
    BY <1>2 DEF WatchEvents, KeyValues
  <1> HIDE DEF e
  <1>7. DeletionsHappened /\ deleted' \in [Switches -> Nat]
        /\ \A x \in Switches : deleted'[x] >= deleted[x]
    BY <1>2 DEF SafetyInv
  <1>8. \A b \in Backends : \A i \in 1..Len(inbox'[b]) :
                inbox'[b][i].type = "DELETE" => deleted'[inbox'[b][i].sw] > 0
    BY <1>1, <1>6, <1>7, AppendKeeps
  <1> QED BY <1>5, <1>8

\* A step that only takes the first event of an inbox, or all of them, and
\* leaves the handler idle, keeps the safety invariant.
LEMMA DropSafety ==
    ASSUME TypeInv, SafetyInv, NEW b \in Backends,
           UNCHANGED <<kv, live, client, runner, born, led, deleted>>,
           faults' = faults \/ faults' = faults + 1,
           \/ inbox[b] # <<>> /\ inbox' = [inbox EXCEPT ![b] = Tail(@)]
           \/ inbox' = [inbox EXCEPT ![b] = <<>>],
           handler'[b].stage = "idle",
           \A x \in Backends : x # b => handler'[x] = handler[x]
    PROVE  SafetyInv'
  <1>0. inbox \in [Backends -> Seq(WatchEvents)] /\ faults \in Nat
    BY DEF TypeInv, TypeOK
  <1>1. \A x \in Backends : \A i \in 1..Len(inbox'[x]) :
             inbox'[x][i].type = "DELETE" => deleted'[inbox'[x][i].sw] > 0
    <2>1. CASE inbox[b] # <<>> /\ inbox' = [inbox EXCEPT ![b] = Tail(@)]
      BY <2>1, TailKeeps DEF SafetyInv
    <2>2. CASE inbox' = [inbox EXCEPT ![b] = <<>>]
      BY <1>0, <2>2 DEF SafetyInv, DeletionsHappened
    <2> QED BY <2>1, <2>2
  <1>2. DeletionsHappened'
    BY <1>1 DEF SafetyInv, DeletionsHappened
  <1>3. NotBuried'
    BY DEF SafetyInv, NotBuried
  <1>4. BuriedIsTransient'
    BY <1>0 DEF SafetyInv, BuriedIsTransient
  <1> QED BY <1>2, <1>3, <1>4 DEF SafetyInv, Balance, BornFirst, Present, CountdownRuns

\* The steps of a monitor keep the safety invariant.
LEMMA MonitorSafety ==
    ASSUME TypeInv, SafetyInv, NEW b \in Backends,
           MonitorStep(b) \/ HandleFail(b) \/ Rewatch(b)
    PROVE  SafetyInv'
  <1> USE IdleCallType DEF etcd, bounds, history
  <1>0. /\ handler \in [Backends -> Calls] /\ handler[b] \in Calls
        /\ handler[b].sw \in Switches /\ handler[b].val \in Int /\ handler[b].lease \in Nat
        /\ (handler[b].stage # "idle" => inbox[b] # <<>>)
        /\ kv \in [Switches -> KeyValues] /\ live \in [Switches -> SUBSET Nat]
        /\ faults \in Nat
    BY DEF TypeInv, TypeOK, Working, Calls
  <1>1. CASE HandleIgnored(b) \/ HandleAlive(b)
    BY <1>0, <1>1, DropSafety DEF HandleIgnored, HandleAlive, Ready
  <1>2. CASE HandleGet(b)
    <2> DEFINE e == Head(inbox[b])
    <2>1. /\ UNCHANGED <<kv, live, inbox, client, runner, faults, born, led, deleted>>
          /\ inbox[b] # <<>> /\ e.type = "DELETE" /\ ~isBuried(e)
          /\ handler'[b].sw = e.sw
          /\ handler'[b].val = IF e.prev < 0 THEN e.prev ELSE -e.prev
          /\ \A x \in Backends : x # b => handler'[x] = handler[x]
      BY <1>0, <1>2 DEF HandleGet, Ready, Calls
    <2>2. e \in WatchEvents /\ 1 \in 1..Len(inbox[b]) /\ inbox[b][1] = e
      <3>1. inbox[b] \in Seq(WatchEvents)
        BY DEF TypeInv, TypeOK
      <3> HIDE DEF WatchEvents
      <3> QED BY <2>1, <3>1
    <2>3. deleted[e.sw] > 0
      BY <2>1, <2>2 DEF SafetyInv, DeletionsHappened
    <2>4. e.prev \in Int /\ e.prev # 0
      BY <2>1, <2>2 DEF isBuried, Buried, WatchEvents
    <2>5. handler'[b].val # Buried
      BY <2>1, <2>4 DEF Buried
    <2> HIDE DEF e
    <2>6. DeletionsHappened'
      BY <2>1, <2>3 DEF SafetyInv, DeletionsHappened
    <2>7. NotBuried'
      BY <2>1, <2>5 DEF SafetyInv, NotBuried
    <2> QED BY <2>1, <2>6, <2>7
            DEF SafetyInv, Balance, BornFirst, Present, CountdownRuns, BuriedIsTransient
  <1>3. CASE HandleLease(b)
    <2>1. /\ UNCHANGED <<kv, inbox, client, runner, faults, born, led, deleted>>
          /\ handler[b].stage = "lease"
          /\ handler'[b].stage = "txn" /\ handler'[b].val = handler[b].val
          /\ handler'[b].sw = handler[b].sw
          /\ \A x \in Backends : x # b => handler'[x] = handler[x]
      BY <1>0, <1>3 DEF HandleLease, Calls
    <2>2. \A s \in Switches : live[s] \subseteq live'[s]
      BY <1>0, <1>3 DEF HandleLease, GetLease
    <2>3. DeletionsHappened' /\ NotBuried'
      BY <2>1 DEF SafetyInv, DeletionsHappened, NotBuried
    <2> QED BY <2>1, <2>2, <2>3
            DEF SafetyInv, Balance, BornFirst, Present, CountdownRuns, BuriedIsTransient
  <1>4. CASE HandleTxn(b)
    <2> DEFINE s == handler[b].sw
    <2>1. /\ UNCHANGED <<live, client, runner, faults, born, deleted>>
          /\ handler[b].stage = "txn"
          /\ handler[b].lease \in live[s] \/ kv[s].exists
          /\ TakeOver(b)
      BY <1>4 DEF HandleTxn
    <2>2. /\ handler'[b].stage = "notify" /\ handler'[b].sw = s
          /\ \A x \in Backends : x # b => handler'[x] = handler[x]
      BY <1>0, <1>4 DEF HandleTxn, Calls
    <2>3. deleted[s] > 0 /\ handler[b].val # Buried
      BY <2>1 DEF SafetyInv, DeletionsHappened, NotBuried
    <2>4. NotBuried'
      BY <2>1, <2>2 DEF SafetyInv, NotBuried
    <2>5. CASE ~kv[s].exists
      <3>1. /\ PutKey(s, handler[b].val, handler[b].lease)
            /\ led' = [led EXCEPT ![s] = @ + 1]
        BY <2>1, <2>5 DEF TakeOver, PutWithLease
      <3>2. /\ Balance' /\ BornFirst'
            /\ \A x \in Backends : \A i \in 1..Len(inbox'[x]) :
                  inbox'[x][i].type = "DELETE" => deleted'[inbox'[x][i].sw] > 0
        BY <1>0, <2>1, <2>3, <2>5, <3>1, LedBooks
      <3>3. /\ kv'[s].val = handler[b].val /\ kv'[s].lease = handler[b].lease
            /\ \A x \in Switches : x # s => kv'[x] = kv[x]
        BY <1>0, <3>1 DEF PutKey
      <3>4. BuriedIsTransient'
        BY <2>1, <2>3, <3>3 DEF SafetyInv, BuriedIsTransient
      <3>5. CountdownRuns'
        BY <2>1, <2>5, <3>3 DEF SafetyInv, CountdownRuns
      <3>6. DeletionsHappened'
        BY <2>1, <2>2, <2>3, <3>2 DEF SafetyInv, DeletionsHappened
      <3> QED BY <2>4, <3>2, <3>4, <3>5, <3>6 DEF SafetyInv
    <2>6. CASE kv[s].exists
      <3>1. UNCHANGED <<kv, inbox, led>>
        BY <2>1, <2>6 DEF TakeOver
      <3>2. DeletionsHappened'
        BY <2>1, <2>2, <2>3, <3>1 DEF SafetyInv, DeletionsHappened
      <3> QED BY <2>1, <2>4, <3>1, <3>2
              DEF SafetyInv, Balance, BornFirst, Present, CountdownRuns, BuriedIsTransient
    <2> QED BY <2>5, <2>6
  <1>5. CASE HandleTxnRefused(b) \/ HandleNotify(b) \/ HandleFail(b) \/ Rewatch(b)
    <2>1. /\ UNCHANGED <<kv, live, client, runner, born, led, deleted>>
          /\ faults' = faults \/ faults' = faults + 1
          /\ \/ inbox[b] # <<>> /\ inbox' = [inbox EXCEPT ![b] = Tail(@)]
             \/ inbox' = [inbox EXCEPT ![b] = <<>>]
      BY <1>0, <1>5 DEF HandleTxnRefused, HandleNotify, HandleFail, Rewatch
    <2>2. /\ handler'[b].stage = "idle"
          /\ \A x \in Backends : x # b => handler'[x] = handler[x]
      BY <1>0, <1>5 DEF HandleTxnRefused, HandleNotify, HandleFail, Rewatch
    <2> QED BY <2>1, <2>2, DropSafety
  <1> QED BY <1>1, <1>2, <1>3, <1>4, <1>5 DEF MonitorStep

\* The steps of a callback goroutine, and a crash, keep the safety invariant.
LEMMA RunnerSafety ==
    ASSUME TypeInv, SafetyInv, NEW b \in Backends,
           RunnerStep(b) \/ RunnerFail(b) \/ Crash(b)
    PROVE  SafetyInv'
  <1> USE IdleCallType DEF etcd, bounds, history
  <1>0. /\ runner \in [Backends -> Calls] /\ runner[b] \in Calls
        /\ runner[b].sw \in Switches
        /\ kv \in [Switches -> KeyValues] /\ live \in [Switches -> SUBSET Nat]
        /\ handler \in [Backends -> Calls] /\ inbox \in [Backends -> Seq(WatchEvents)]
        /\ faults \in Nat
    BY DEF TypeInv, TypeOK, Calls
  <1>1. ASSUME NEW bury \in BOOLEAN, RunCallback(b, bury)
        PROVE  SafetyInv'
    <2>1. /\ UNCHANGED <<kv, live, inbox, handler, client, faults, born, led, deleted>>
          /\ runner[b].stage = "idle"
      BY <1>1 DEF RunCallback
    <2>2. \A x \in Backends : x # b => runner'[x] = runner[x]
      BY <1>0, <1>1 DEF RunCallback
    <2>3. BuriedIsTransient'
      BY <2>1, <2>2 DEF SafetyInv, BuriedIsTransient
    <2> QED BY <2>1, <2>3 DEF SafetyInv, Balance, BornFirst, Present, DeletionsHappened,
                              NotBuried, CountdownRuns
  <1>2. CASE RunnerBuryPut(b)
    <2> DEFINE s == runner[b].sw
    <2>1. /\ PutKey(s, Buried, NoLease)
          /\ born' = IF kv[s].exists THEN born ELSE [born EXCEPT ![s] = @ + 1]
          /\ UNCHANGED <<live, handler, client, faults, led, deleted>>
          /\ runner' = [runner EXCEPT ![b].stage = "buried"]
      BY <1>2 DEF RunnerBuryPut, BuryPut
    <2>2. /\ Balance' /\ BornFirst'
          /\ \A x \in Backends : \A i \in 1..Len(inbox'[x]) :
                inbox'[x][i].type = "DELETE" => deleted'[inbox'[x][i].sw] > 0
      <3>1. Buried \in Int /\ NoLease \in Nat
        BY DEF Buried, NoLease
      <3> QED BY <1>0, <2>1, <3>1, BornBooks
    <2>3. /\ runner'[b].stage = "buried" /\ runner'[b].sw = s
          /\ \A x \in Backends : x # b => runner'[x] = runner[x]
      BY <1>0, <2>1 DEF Calls
    <2>4. kv'[s].val = Buried /\ \A x \in Switches : x # s => kv'[x] = kv[x]
      BY <1>0, <2>1 DEF PutKey
    <2>5. BuriedIsTransient'
      BY <2>1, <2>3, <2>4 DEF SafetyInv, BuriedIsTransient
    <2>6. CountdownRuns'
      BY <2>1, <2>4 DEF SafetyInv, CountdownRuns
    <2>7. DeletionsHappened' /\ NotBuried'
      BY <2>1, <2>2 DEF SafetyInv, DeletionsHappened, NotBuried
    <2> QED BY <2>2, <2>5, <2>6, <2>7 DEF SafetyInv
  <1>3. CASE RunnerBuryDelete(b)
    <2> DEFINE s == runner[b].sw
    <2>1. /\ UNCHANGED <<live, handler, client, faults, led, born>>
          /\ BuryDelete(s)
          /\ runner'[b].stage = "idle"
          /\ \A x \in Backends : x # b => runner'[x] = runner[x]
      BY <1>0, <1>3 DEF RunnerBuryDelete
    <2>2. NotBuried'
      BY <2>1 DEF SafetyInv, NotBuried
    <2>3. CASE kv[s].exists /\ DeleteKey(s)
      <3>1. /\ Balance' /\ BornFirst'
            /\ \A x \in Backends : \A i \in 1..Len(inbox'[x]) :
                  inbox'[x][i].type = "DELETE" => deleted'[inbox'[x][i].sw] > 0
            /\ deleted' \in [Switches -> Nat]
            /\ \A x \in Switches : deleted'[x] >= deleted[x]
            /\ ~kv'[s].exists /\ \A x \in Switches : x # s => kv'[x] = kv[x]
        BY <1>0, <2>1, <2>3, DeleteBooks
      <3>2. BuriedIsTransient'
        BY <2>1, <3>1 DEF SafetyInv, BuriedIsTransient
      <3>3. CountdownRuns'
        BY <2>1, <3>1 DEF SafetyInv, CountdownRuns
      <3>4. DeletionsHappened'
        BY <1>0, <2>1, <3>1, DeletedGrows DEF SafetyInv, DeletionsHappened
      <3> QED BY <2>2, <3>1, <3>2, <3>3, <3>4 DEF SafetyInv
    <2>4. CASE ~kv[s].exists /\ UNCHANGED <<kv, inbox, deleted, gone>>
      <3>1. BuriedIsTransient'
        BY <2>1, <2>4 DEF SafetyInv, BuriedIsTransient
      <3> QED BY <2>1, <2>2, <2>4, <3>1
              DEF SafetyInv, Balance, BornFirst, Present, DeletionsHappened, CountdownRuns
    <2> QED BY <2>1, <2>3, <2>4 DEF BuryDelete
  <1>4. CASE RunnerFail(b)
    BY <1>0, <1>4 DEF RunnerFail, SafetyInv, Balance, BornFirst, Present,
                      DeletionsHappened, NotBuried, CountdownRuns, BuriedIsTransient
  <1>5. CASE Crash(b)
    <2>1. /\ UNCHANGED <<kv, live, client, born, led, deleted>>
          /\ faults' > 0
          /\ inbox' = [inbox EXCEPT ![b] = <<>>]
          /\ handler'[b].stage = "idle"
          /\ \A x \in Backends : x # b => handler'[x] = handler[x]
      BY <1>0, <1>5 DEF Crash
    <2>2. NotBuried'
      BY <2>1 DEF SafetyInv, NotBuried
    <2>3. \A x \in Backends : x # b => inbox'[x] = inbox[x]
      BY <1>0, <2>1
    <2>4. Len(inbox'[b]) = 0
      BY <1>0, <2>1
    <2>5. DeletionsHappened'
      BY <2>1, <2>3, <2>4 DEF SafetyInv, DeletionsHappened
    <2> QED BY <2>1, <2>2, <2>5 DEF SafetyInv, Balance, BornFirst, Present, CountdownRuns,
                              BuriedIsTransient
  <1> QED BY <1>1, <1>2, <1>3, <1>4, <1>5 DEF RunnerStep

\* The expiry of a lease keeps the safety invariant.
LEMMA ExpireSafety ==
    ASSUME TypeInv, SafetyInv, NEW s \in Switches, NEW l \in live[s], LeaseExpire(s, l)
    PROVE  SafetyInv'
  <1>1. /\ live' = [live EXCEPT ![s] = @ \ {l}]
        /\ UNCHANGED <<handler, runner, client, faults, born, led>>
        /\ live \in [Switches -> SUBSET Nat]
    BY DEF LeaseExpire, TypeInv, TypeOK
  <1>2. CASE kv[s].exists /\ kv[s].lease = l /\ DeleteKey(s)
    <2>1. /\ Balance' /\ BornFirst'
          /\ \A x \in Backends : \A i \in 1..Len(inbox'[x]) :
                inbox'[x][i].type = "DELETE" => deleted'[inbox'[x][i].sw] > 0
          /\ deleted' \in [Switches -> Nat]
          /\ \A x \in Switches : deleted'[x] >= deleted[x]
          /\ ~kv'[s].exists /\ \A x \in Switches : x # s => kv'[x] = kv[x]
      BY <1>1, <1>2, DeleteBooks
    <2>2. BuriedIsTransient'
      BY <1>1, <2>1 DEF SafetyInv, BuriedIsTransient
    <2>3. CountdownRuns'
      BY <1>1, <2>1 DEF SafetyInv, CountdownRuns
    <2>4. DeletionsHappened'
      BY <1>1, <2>1, DeletedGrows DEF SafetyInv, DeletionsHappened
    <2>5. NotBuried'
      BY <1>1 DEF SafetyInv, NotBuried
    <2> QED BY <2>1, <2>2, <2>3, <2>4, <2>5 DEF SafetyInv
  <1>3. CASE ~(kv[s].exists /\ kv[s].lease = l) /\ UNCHANGED <<kv, inbox, deleted, gone>>
    <2>1. CountdownRuns'
      BY <1>1, <1>3 DEF SafetyInv, CountdownRuns
    <2> QED BY <1>1, <1>3, <2>1 DEF SafetyInv, Balance, BornFirst, Present,
                                    DeletionsHappened, NotBuried, BuriedIsTransient
  <1> QED BY <1>2, <1>3 DEF LeaseExpire

\* With no key and nothing under way, the safety invariant holds.
LEMMA InitSafety == Init => SafetyInv
  <1> SUFFICES ASSUME Init PROVE SafetyInv
    OBVIOUS
  <1>1. Balance /\ BornFirst /\ CountdownRuns /\ BuriedIsTransient
    BY DEF Init, Absent, Balance, BornFirst, Present, CountdownRuns, BuriedIsTransient
  <1>2. DeletionsHappened /\ NotBuried
    BY IdleCallType DEF Init, DeletionsHappened, NotBuried
  <1> QED BY <1>1, <1>2 DEF SafetyInv

\* Every step preserves the safety invariant.
LEMMA NextSafety == TypeInv /\ SafetyInv /\ [Next]_vars => SafetyInv'
  <1> SUFFICES ASSUME TypeInv, SafetyInv, [Next]_vars PROVE SafetyInv'
    OBVIOUS
  <1>1. CASE UNCHANGED vars
    BY <1>1 DEF vars, etcd, bounds, history, SafetyInv, Balance, BornFirst, Present,
                DeletionsHappened, NotBuried, CountdownRuns, BuriedIsTransient
  <1> QED BY <1>1, ClientSafety, MonitorSafety, RunnerSafety, ExpireSafety
          DEF Next, Finished

\* Both invariants hold in every behaviour of the switch set.
LEMMA AlwaysSafe == Spec => [](TypeInv /\ SafetyInv)
  BY InitType, NextType, InitSafety, NextSafety, PTL DEF Spec

\* However many backends race to replace an expired switch, and however late
\* some of them are, no more of them become leader than switches have vanished.
THEOREM LeadersAreBounded == Spec => []LeadersBounded
  <1>1. TypeInv /\ SafetyInv => LeadersBounded
    <2> SUFFICES ASSUME TypeInv, SafetyInv, NEW s \in Switches
                 PROVE  led[s] <= deleted[s]
      BY DEF LeadersBounded
    <2>1. /\ led[s] + born[s] = deleted[s] + Present(s)
          /\ (deleted[s] > 0 \/ kv[s].exists => born[s] > 0)
          /\ led[s] \in Nat /\ born[s] \in Nat /\ deleted[s] \in Nat
      BY DEF TypeInv, TypeOK, SafetyInv, Balance, BornFirst
    <2> QED BY <2>1 DEF Present
  <1> QED BY AlwaysSafe, <1>1, PTL

\* A member that is tracked as alive or dead always hangs on a live lease.
THEOREM CountdownAlwaysRuns == Spec => []CountdownRuns
  <1>1. TypeInv /\ SafetyInv => CountdownRuns
    BY DEF SafetyInv
  <1> QED BY AlwaysSafe, <1>1, PTL

\* A buried key is on its way out, unless a fault came in between.
THEOREM BuriedKeysAreTransient == Spec => []BuriedIsTransient
  <1>1. TypeInv /\ SafetyInv => BuriedIsTransient
    BY DEF SafetyInv
  <1> QED BY AlwaysSafe, <1>1, PTL

\* No handler turns a live member into a dead one: only a call of Dead does.
THEOREM HandlersSpareTheLiving == Spec => NeverKillsTheLiving
  <1> DEFINE Kill(s) == kv[s].exists /\ kv[s].val > 0 /\ kv'[s].exists /\ kv'[s].val < 0
             ByClient(s) == \E c \in Clients : /\ client[c].stage = "txn" /\ client[c].sw = s
                                               /\ client'[c].stage = "idle"
  <1>1. TypeInv /\ [Next]_vars => [\A s \in Switches : Kill(s) => ByClient(s)]_vars
    <2> SUFFICES ASSUME TypeInv, Next, NEW s \in Switches, Kill(s)
                 PROVE  ByClient(s)
      OBVIOUS
    <2> USE IdleCallType DEF etcd, bounds, history
    <2>0. /\ kv \in [Switches -> KeyValues] /\ client \in [Clients -> Calls]
          /\ kv'[s] # kv[s]
      <3>1. kv[s].val \in Int
        BY DEF TypeInv, TypeOK, KeyValues
      <3> QED BY <3>1 DEF TypeInv, TypeOK
    <2>1. ASSUME NEW c \in Clients, PingTxn(c)
          PROVE  ByClient(s)
      BY <2>0, <2>1 DEF PingTxn, PutWithLease, PutKey
    <2>2. ASSUME NEW x \in Switches, DeleteKey(x)
          PROVE  FALSE
      BY <2>0, <2>2 DEF DeleteKey, Absent
    <2>3. ASSUME NEW x \in Switches, PutKey(x, Buried, NoLease)
          PROVE  FALSE
      BY <2>0, <2>3 DEF PutKey, Buried
    <2>4. ASSUME NEW b \in Backends, HandleTxn(b)
          PROVE  FALSE
      BY <2>0, <2>4 DEF HandleTxn, TakeOver, PutWithLease, PutKey
    <2>5. /\ \A c \in Clients : client[c].sw \in Switches
          /\ \A b \in Backends : runner[b].sw \in Switches
      BY DEF TypeInv, TypeOK, Calls
    <2>6. ASSUME NEW x \in Switches, NEW l \in live[x], LeaseExpire(x, l)
          PROVE  FALSE
      BY <2>0, <2>2, <2>6 DEF LeaseExpire
    <2>7. ASSUME NEW c \in Clients,
                 \/ \E x \in Switches, ttl \in TTLs, alive \in BOOLEAN : PingGet(c, x, ttl, alive)
                 \/ \E x \in Switches : ClientBuryPut(c, x)
                 \/ PingLease(c) \/ ClientBuryDelete(c) \/ ClientFail(c)
          PROVE  FALSE
      BY <2>0, <2>2, <2>3, <2>5, <2>7
         DEF PingGet, PingLease, ClientBuryPut, BuryPut, ClientBuryDelete, BuryDelete, ClientFail
    <2>8. ASSUME NEW b \in Backends,
                 \/ HandleIgnored(b) \/ HandleAlive(b) \/ HandleGet(b) \/ HandleLease(b)
                 \/ HandleTxnRefused(b) \/ HandleNotify(b)
                 \/ HandleFail(b) \/ Rewatch(b) \/ RunnerFail(b) \/ Crash(b)
          PROVE  FALSE
      BY <2>0, <2>8 DEF HandleIgnored, HandleAlive, HandleGet, HandleLease,
                        HandleTxnRefused, HandleNotify, HandleFail, Rewatch, RunnerFail, Crash
    <2>9. ASSUME NEW b \in Backends, RunnerStep(b)
          PROVE  FALSE
      BY <2>0, <2>2, <2>3, <2>5, <2>9
         DEF RunnerStep, RunCallback, RunnerBuryPut, BuryPut, RunnerBuryDelete, BuryDelete
    <2>10. ~Finished
      BY <2>0 DEF Finished, vars
    <2> QED BY <2>1, <2>4, <2>6, <2>7, <2>8, <2>9, <2>10 DEF Next, ClientStep, MonitorStep
  <1>2. TypeInv /\ SafetyInv => TypeInv
    OBVIOUS
  <1> QED BY AlwaysSafe, <1>1, <1>2, PTL DEF Spec, NeverKillsTheLiving

-----------------------------------------------------------------------------
(* SwitchSet implements Switch.                                             *)

\* A handler only ever carries the value of a dead member.
HandlersCarryDeath ==
    \A b \in Backends : handler[b].stage \in {"lease", "txn"} => handler[b].val < 0

\* Every step of a handler keeps the sign of what it carries: it is made negative
\* when the handler begins, and an event that says "buried" is not handled.
LEMMA CarryStep ==
    ASSUME TypeInv, HandlersCarryDeath, [Next]_vars
    PROVE  HandlersCarryDeath'
  <1> USE IdleCallType
  <1>0. handler \in [Backends -> Calls]
    BY DEF TypeInv, TypeOK
  <1>1. ASSUME UNCHANGED handler PROVE HandlersCarryDeath'
    BY <1>1 DEF HandlersCarryDeath
  <1>2. ASSUME NEW b \in Backends, handler' = [handler EXCEPT ![b] = IdleCall]
        PROVE  HandlersCarryDeath'
    BY <1>0, <1>2 DEF HandlersCarryDeath
  <1>3. ASSUME NEW b \in Backends, HandleGet(b)
        PROVE  HandlersCarryDeath'
    <2> DEFINE e == Head(inbox[b])
               v == IF e.prev < 0 THEN e.prev ELSE -e.prev
    <2>1. e \in WatchEvents
      BY <1>3, InboxHead DEF HandleGet, Ready
    <2>2. e.prev \in Int /\ e.prev # 0
      BY <1>3, <2>1 DEF HandleGet, isBuried, Buried, WatchEvents
    <2>3. v < 0
      BY <2>2
    <2>4. handler' = [handler EXCEPT ![b] = [IdleCall EXCEPT !.stage = "lease", !.sw = e.sw,
                                               !.val = v, !.read = leaseKey[e.sw]]]
      BY <1>3 DEF HandleGet
    <2> HIDE DEF v, e
    <2>5. handler'[b].val = v /\ \A x \in Backends : x # b => handler'[x] = handler[x]
      BY <1>0, <2>4 DEF Calls
    <2> QED BY <2>3, <2>5 DEF HandlersCarryDeath
  <1>4. ASSUME NEW b \in Backends, HandleLease(b)
        PROVE  HandlersCarryDeath'
    <2>1. /\ handler[b].stage = "lease" /\ handler'[b].val = handler[b].val
          /\ \A x \in Backends : x # b => handler'[x] = handler[x]
      BY <1>0, <1>4 DEF HandleLease, Calls
    <2> QED BY <2>1 DEF HandlersCarryDeath
  <1>5. ASSUME NEW b \in Backends, HandleTxn(b)
        PROVE  HandlersCarryDeath'
    <2>1. handler'[b].stage = "notify" /\ \A x \in Backends : x # b => handler'[x] = handler[x]
      BY <1>0, <1>5 DEF HandleTxn, Calls
    <2> QED BY <2>1 DEF HandlersCarryDeath
  <1>6. ASSUME NEW b \in Backends, MonitorStep(b) \/ HandleFail(b) \/ Rewatch(b) \/ Crash(b)
        PROVE  HandlersCarryDeath'
    BY <1>1, <1>2, <1>3, <1>4, <1>5, <1>6
       DEF MonitorStep, HandleIgnored, HandleAlive, HandleTxnRefused, HandleNotify,
           HandleFail, Rewatch, Crash
  <1>7. ASSUME NEW b \in Backends, RunnerStep(b) \/ RunnerFail(b)
        PROVE  UNCHANGED handler
    BY <1>7 DEF RunnerStep, RunCallback, RunnerBuryPut, RunnerBuryDelete, RunnerFail
  <1>8. ASSUME NEW c \in Clients,
               \/ \E s \in Switches, ttl \in TTLs, alive \in BOOLEAN : PingGet(c, s, ttl, alive)
               \/ \E s \in Switches : ClientBuryPut(c, s)
               \/ ClientStep(c) \/ ClientFail(c)
        PROVE  UNCHANGED handler
    BY <1>8, Zenon DEF PingGet, ClientBuryPut, ClientStep, PingLease, PingTxn,
                       ClientBuryDelete, ClientFail
  <1>9. ASSUME NEW s \in Switches, NEW l \in live[s], LeaseExpire(s, l)
        PROVE  UNCHANGED handler
    BY <1>9 DEF LeaseExpire
  <1>10. Finished \/ UNCHANGED vars => UNCHANGED handler
    BY DEF Finished, vars
  <1> QED BY <1>1, <1>6, <1>7, <1>8, <1>9, <1>10 DEF Next

\* What a step does to the switch that Switch describes.
AbsState == [s \in Switches |-> StateOf(s)]
AbsDeaths == [s \in Switches |-> deleted[s] - led[s]]

\* Two functions that differ at one place.
LEMMA Pointwise ==
    ASSUME NEW D, NEW f, NEW g, NEW d \in D, NEW v,
           f = [x \in D |-> f[x]], g = [x \in D |-> g[x]],
           g[d] = v, \A x \in D : x # d => g[x] = f[x]
    PROVE  g = [f EXCEPT ![d] = v]
  OBVIOUS

\* A key that is put is a Put of Switch.
LEMMA PutIsPut ==
    ASSUME TypeInv, NEW s \in Switches, NEW v \in Int, NEW l \in Nat, PutKey(s, v, l),
           UNCHANGED <<deleted, led>>
    PROVE  Abs!Next
  <1> DEFINE new == IF v = Buried THEN "buried" ELSE IF v > 0 THEN "alive" ELSE "dead"
  <1>1. kv' = [kv EXCEPT ![s] = [exists |-> TRUE, val |-> v, lease |-> l]]
    BY DEF PutKey
  <1>2. kv \in [Switches -> KeyValues]
    BY DEF TypeInv, TypeOK
  <1>3. AbsState' = [AbsState EXCEPT ![s] = new]
    BY <1>1, <1>2 DEF AbsState, StateOf
  <1>4. new \in Abs!States \ {"absent"}
    BY DEF Abs!States
  <1>5. AbsDeaths' = AbsDeaths
    BY DEF AbsDeaths
  <1>6. Abs!Put(s, new)
    BY <1>3, <1>5 DEF Abs!Put, AbsState, AbsDeaths
  <1> QED BY <1>4, <1>6 DEF Abs!Next

\* A key that is deleted vanishes from Switch.
LEMMA DeleteIsVanish ==
    ASSUME TypeInv, NEW s \in Switches, DeleteKey(s), kv[s].exists, UNCHANGED led
    PROVE  Abs!Next
  <1>1. kv' = [kv EXCEPT ![s] = Absent] /\ deleted' = [deleted EXCEPT ![s] = @ + 1]
    BY DEF DeleteKey
  <1>2. /\ kv \in [Switches -> KeyValues] /\ deleted \in [Switches -> Nat]
        /\ led \in [Switches -> Nat]
    BY DEF TypeInv, TypeOK
  <1>3. AbsState' = [AbsState EXCEPT ![s] = "absent"]
    BY <1>1, <1>2 DEF AbsState, StateOf, Absent
  <1>4. AbsState[s] # "absent"
    BY DEF AbsState, StateOf
  <1>5. AbsDeaths' = [AbsDeaths EXCEPT ![s] = @ + 1]
    <2>1. \A x \in Switches : deleted'[x] = IF x = s THEN deleted[x] + 1 ELSE deleted[x]
      BY <1>1, <1>2
    <2>2. \A x \in Switches : x # s => AbsDeaths'[x] = AbsDeaths[x]
      BY <2>1 DEF AbsDeaths
    <2>3. (deleted[s] + 1) - led[s] = (deleted[s] - led[s]) + 1
      BY <1>2
    <2>4. AbsDeaths'[s] = AbsDeaths[s] + 1
      BY <2>1, <2>3 DEF AbsDeaths
    <2>5. /\ AbsDeaths = [x \in Switches |-> AbsDeaths[x]]
          /\ AbsDeaths' = [x \in Switches |-> AbsDeaths'[x]]
      BY DEF AbsDeaths
    <2> QED BY <2>2, <2>4, <2>5, Pointwise
  <1>6. Abs!Vanish(s)
    BY <1>3, <1>4, <1>5 DEF Abs!Vanish, AbsState, AbsDeaths
  <1> QED BY <1>6 DEF Abs!Next

\* A handler that puts a switch back is the leader of a death that had none.
LEMMA TxnIsTakeOver ==
    ASSUME TypeInv, SafetyInv, HandlersCarryDeath, NEW b \in Backends, HandleTxn(b),
           ~kv[handler[b].sw].exists
    PROVE  Abs!Next
  <1> DEFINE v == handler[b].val
             l == handler[b].lease
  <1>0. handler[b].sw \in Switches
    BY DEF TypeInv, TypeOK, Calls
  <1>1. PICK s \in Switches : s = handler[b].sw
    BY <1>0
  <1>2. /\ PutKey(s, v, l) /\ led' = [led EXCEPT ![s] = @ + 1] /\ UNCHANGED deleted
        /\ handler[b].stage = "txn"
    BY <1>1 DEF HandleTxn, TakeOver, PutWithLease
  <1>3. deleted[s] > 0 /\ v \in Int /\ v < 0
    BY <1>1, <1>2 DEF SafetyInv, DeletionsHappened, TypeInv, TypeOK, Calls, HandlersCarryDeath
  <1> HIDE DEF v, l
  <1>4. ~kv[s].exists
    BY <1>1
  <1>5. /\ kv \in [Switches -> KeyValues] /\ deleted \in [Switches -> Nat]
        /\ led \in [Switches -> Nat] /\ born \in [Switches -> Nat]
    BY DEF TypeInv, TypeOK
  <1>6. kv' = [kv EXCEPT ![s] = [exists |-> TRUE, val |-> v, lease |-> l]]
    BY <1>2 DEF PutKey
  <1>7. AbsState' = [AbsState EXCEPT ![s] = "dead"]
    <2>1. \A x \in Switches : kv'[x] = IF x = s THEN [exists |-> TRUE, val |-> v, lease |-> l]
                                                ELSE kv[x]
      BY <1>5, <1>6
    <2>2. v # Buried /\ ~(v > 0)
      BY <1>3 DEF Buried
    <2>3. \A x \in Switches : x # s => AbsState'[x] = AbsState[x]
      BY <2>1 DEF AbsState, StateOf
    <2>4. kv'[s].exists /\ kv'[s].val = v
      BY <1>1, <2>1
    <2>5. AbsState'[s] = "dead"
      BY <1>1, <2>2, <2>4 DEF AbsState, StateOf
    <2>6. /\ AbsState = [x \in Switches |-> AbsState[x]]
          /\ AbsState' = [x \in Switches |-> AbsState'[x]]
      BY DEF AbsState
    <2> QED BY <1>1, <2>3, <2>5, <2>6, Pointwise
  <1>8. AbsState[s] = "absent"
    BY <1>1, <1>4 DEF AbsState, StateOf
  <1>9. AbsDeaths[s] > 0
    <2>1. /\ led[s] + born[s] = deleted[s] + 0 /\ born[s] > 0
          /\ led[s] \in Nat /\ deleted[s] \in Nat /\ born[s] \in Nat
      BY <1>1, <1>3, <1>4, <1>5 DEF SafetyInv, Balance, BornFirst, Present
    <2>2. deleted[s] - led[s] > 0
      BY <2>1
    <2> QED BY <1>1, <2>2 DEF AbsDeaths
  <1>10. AbsDeaths' = [AbsDeaths EXCEPT ![s] = @ - 1]
    <2>1. \A x \in Switches : led'[x] = IF x = s THEN led[x] + 1 ELSE led[x]
      BY <1>2, <1>5
    <2>2. \A x \in Switches : x # s => AbsDeaths'[x] = AbsDeaths[x]
      BY <1>2, <2>1 DEF AbsDeaths
    <2>3. deleted[s] - (led[s] + 1) = (deleted[s] - led[s]) - 1
      BY <1>1, <1>5
    <2>4. AbsDeaths'[s] = AbsDeaths[s] - 1
      BY <1>1, <1>2, <2>1, <2>3 DEF AbsDeaths
    <2>5. /\ AbsDeaths = [x \in Switches |-> AbsDeaths[x]]
          /\ AbsDeaths' = [x \in Switches |-> AbsDeaths'[x]]
      BY DEF AbsDeaths
    <2> QED BY <1>1, <2>2, <2>4, <2>5, Pointwise
  <1>11. Abs!TakeOver(s)
    BY <1>7, <1>8, <1>9, <1>10 DEF Abs!TakeOver, AbsState, AbsDeaths
  <1> QED BY <1>1, <1>11 DEF Abs!Next

\* A step that leaves the keys and the deaths alone is not seen.
LEMMA OthersStutter ==
    ASSUME UNCHANGED <<kv, deleted, led>>
    PROVE  UNCHANGED <<AbsState, AbsDeaths>>
  BY DEF AbsState, AbsDeaths, StateOf

\* Every step of the switch set is a step of Switch, or is not seen.
LEMMA StepSimulates ==
    ASSUME TypeInv, SafetyInv, HandlersCarryDeath, [Next]_vars
    PROVE  Abs!Next \/ UNCHANGED <<AbsState, AbsDeaths>>
  <1> USE DEF etcd, bounds, history
  <1>0. /\ \A c \in Clients : client[c] \in Calls
        /\ \A b \in Backends : runner[b] \in Calls /\ handler[b] \in Calls
    BY DEF TypeInv, TypeOK
  <1>1. ASSUME NEW s \in Switches, NEW l \in live[s], LeaseExpire(s, l)
        PROVE  Abs!Next \/ UNCHANGED <<AbsState, AbsDeaths>>
    BY <1>1, DeleteIsVanish, OthersStutter DEF LeaseExpire
  <1>2. ASSUME NEW c \in Clients, PingTxn(c)
        PROVE  Abs!Next \/ UNCHANGED <<AbsState, AbsDeaths>>
    <2>1. client[c].sw \in Switches /\ client[c].val \in Int /\ client[c].lease \in Nat
      BY <1>0 DEF Calls
    <2>2. CASE PutKey(client[c].sw, client[c].val, client[c].lease)
      BY <1>2, <2>1, <2>2, PutIsPut DEF PingTxn
    <2>3. CASE UNCHANGED kv
      BY <1>2, <2>3, OthersStutter DEF PingTxn
    <2> QED BY <1>2, <2>2, <2>3 DEF PingTxn, PutWithLease
  <1>3. ASSUME NEW s \in Switches, BuryPut(s), UNCHANGED <<deleted, led>>
        PROVE  Abs!Next
    <2>1. PutKey(s, Buried, NoLease) /\ Buried \in Int /\ NoLease \in Nat
      BY <1>3 DEF BuryPut, Buried, NoLease
    <2> QED BY <1>3, <2>1, PutIsPut
  <1>4. ASSUME NEW s \in Switches, BuryDelete(s), UNCHANGED led
        PROVE  Abs!Next \/ UNCHANGED <<AbsState, AbsDeaths>>
    BY <1>4, DeleteIsVanish, OthersStutter DEF BuryDelete
  <1>5. ASSUME NEW b \in Backends, HandleTxn(b)
        PROVE  Abs!Next \/ UNCHANGED <<AbsState, AbsDeaths>>
    <2>1. CASE kv[handler[b].sw].exists
      BY <1>5, <2>1, OthersStutter DEF HandleTxn, TakeOver
    <2> QED BY <1>5, <2>1, TxnIsTakeOver
  <1>6. ASSUME NEW c \in Clients,
               \/ \E s \in Switches, ttl \in TTLs, alive \in BOOLEAN : PingGet(c, s, ttl, alive)
               \/ PingLease(c) \/ ClientFail(c)
        PROVE  UNCHANGED <<kv, deleted, led>>
    BY <1>6, Zenon DEF PingGet, PingLease, ClientFail
  <1>7. ASSUME NEW c \in Clients, NEW s \in Switches, ClientBuryPut(c, s)
        PROVE  Abs!Next
    BY <1>3, <1>7 DEF ClientBuryPut
  <1>8. ASSUME NEW c \in Clients, ClientBuryDelete(c)
        PROVE  Abs!Next \/ UNCHANGED <<AbsState, AbsDeaths>>
    BY <1>0, <1>4, <1>8 DEF ClientBuryDelete, Calls
  <1>9. ASSUME NEW b \in Backends,
               \/ HandleIgnored(b) \/ HandleAlive(b) \/ HandleGet(b) \/ HandleLease(b)
               \/ HandleTxnRefused(b) \/ HandleNotify(b)
               \/ HandleFail(b) \/ Rewatch(b) \/ RunnerFail(b) \/ Crash(b)
               \/ \E bury \in BOOLEAN : RunCallback(b, bury)
        PROVE  UNCHANGED <<kv, deleted, led>>
    BY <1>9, Zenon DEF HandleIgnored, HandleAlive, HandleGet, HandleLease, HandleTxnRefused,
                       HandleNotify, HandleFail, Rewatch, RunnerFail, Crash, RunCallback
  <1>10. ASSUME NEW b \in Backends, RunnerBuryPut(b)
         PROVE  Abs!Next
    BY <1>0, <1>3, <1>10 DEF RunnerBuryPut, Calls
  <1>11. ASSUME NEW b \in Backends, RunnerBuryDelete(b)
         PROVE  Abs!Next \/ UNCHANGED <<AbsState, AbsDeaths>>
    BY <1>0, <1>4, <1>11 DEF RunnerBuryDelete, Calls
  <1>12. Finished \/ UNCHANGED vars => UNCHANGED <<kv, deleted, led>>
    BY DEF Finished, vars
  <1> QED BY <1>1, <1>2, <1>5, <1>6, <1>7, <1>8, <1>9, <1>10, <1>11, <1>12, OthersStutter
          DEF Next, ClientStep, MonitorStep, RunnerStep

\* What all the backends and clients do together is what Switch allows: a switch
\* comes to life through Alive, Dead or Bury only, or is put back as dead by one
\* leader for a time that it vanished.
THEOREM SwitchSetImplementsSwitch == Spec => ImplementsSwitch
  <1>1. Init => Abs!Init
    <2> SUFFICES ASSUME Init PROVE Abs!Init
      OBVIOUS
    <2>1. AbsState = [s \in Switches |-> "absent"]
      BY DEF Init, AbsState, StateOf, Absent
    <2>2. AbsDeaths = [s \in Switches |-> 0]
      BY DEF Init, AbsDeaths
    <2> QED BY <2>1, <2>2 DEF Abs!Init, AbsState, AbsDeaths
  <1>2. Init => HandlersCarryDeath
    BY IdleCallType DEF Init, HandlersCarryDeath
  <1>3. TypeInv /\ HandlersCarryDeath /\ [Next]_vars => HandlersCarryDeath'
    BY CarryStep
  <1>4. TypeInv /\ SafetyInv /\ HandlersCarryDeath /\ [Next]_vars
            => [Abs!Next]_<<[s \in Switches |-> StateOf(s)],
                            [s \in Switches |-> deleted[s] - led[s]]>>
    BY StepSimulates DEF AbsState, AbsDeaths
  <1> QED BY AlwaysSafe, <1>1, <1>2, <1>3, <1>4, PTL DEF Spec, ImplementsSwitch, Abs!Spec

-----------------------------------------------------------------------------
(* The order of callbacks.                                                  *)

\* i is the place in q of the last entry about s; there is none in q.
LastIn(q, s, i) == /\ i \in 1 .. Len(q) /\ q[i].sw = s
                   /\ \A j \in 1 .. Len(q) : j > i => q[j].sw # s
NoneIn(q, s) == \A i \in 1 .. Len(q) : q[i].sw # s

Alive(s) == kv[s].exists /\ kv[s].val > 0

\* The key is as the event says.
Reflects(e, s) == IF e.type = "PUT" THEN kv[s].exists /\ kv[s].val = e.val
                                    ELSE ~kv[s].exists

\* The last callback of b about s, run or still to run, is the alive one.
Announced(b, s) ==
    /\ \A i \in 1 .. Len(events[b]) : LastIn(events[b], s, i) => events[b][i].kind = "alive"
    /\ NoneIn(events[b], s) => lastCb[b][s] = "alive"

\* The last event in the inbox of a backend that missed nothing tells how the key
\* is; when there is none left, a live member has been announced.
Followed == \A b \in Backends, s \in Switches : ~missed[b] =>
    /\ \A i \in 1 .. Len(inbox[b]) : LastIn(inbox[b], s, i) => Reflects(inbox[b][i], s)
    /\ NoneIn(inbox[b], s) /\ Alive(s) => Announced(b, s)

\* A handler works on the deletion at the head of the inbox.
Handling == \A b \in Backends : handler[b].stage # "idle" =>
    Head(inbox[b]).type = "DELETE" /\ Head(inbox[b]).sw = handler[b].sw

\* r is q with x at the end; r is q without its head.
Longer(q, r, x) == /\ Len(q) \in Nat /\ Len(r) = Len(q) + 1 /\ r[Len(q) + 1] = x
                   /\ \A i \in 1 .. Len(q) : r[i] = q[i]
Shorter(q, r) == /\ Len(q) \in Nat /\ Len(q) >= 1 /\ Len(r) = Len(q) - 1
                 /\ \A i \in 1 .. Len(r) : r[i] = q[i + 1]

\* After an entry about s is appended there is one, ...
LEMMA AppendSome ==
    ASSUME NEW q, NEW x, NEW r, Longer(q, r, x), NEW s, NoneIn(r, s)
    PROVE  x.sw # s
  BY DEF Longer, NoneIn

\* ... and leaves the last entry about any other switch what it was.
LEMMA AppendOther ==
    ASSUME NEW q, NEW x, NEW r, Longer(q, r, x), NEW s, x.sw # s
    PROVE  /\ \A i \in 1 .. Len(r) : LastIn(r, s, i) =>
                i \in 1 .. Len(q) /\ r[i] = q[i] /\ LastIn(q, s, i)
           /\ NoneIn(r, s) => NoneIn(q, s)
  <1>1. /\ Len(q) \in Nat /\ Len(r) = Len(q) + 1 /\ r[Len(q) + 1] = x
        /\ \A i \in 1 .. Len(q) : r[i] = q[i] /\ i \in 1 .. Len(r)
    BY DEF Longer
  <1>2. \A i \in 1 .. Len(r) : i \in 1 .. Len(q) \/ i = Len(q) + 1
    BY <1>1
  <1> QED BY <1>1, <1>2 DEF LastIn, NoneIn

\* Removing the head of a queue.
LEMMA TailShorter ==
    ASSUME NEW S, NEW q \in Seq(S), q # <<>>
    PROVE  Shorter(q, Tail(q)) /\ q[1] = Head(q)
  <1>1. /\ Len(q) \in Nat /\ Len(q) >= 1 /\ Len(Tail(q)) = Len(q) - 1 /\ Head(q) = q[1]
        /\ \A i \in 1 .. Len(Tail(q)) : Tail(q)[i] = q[i + 1]
    OBVIOUS
  <1> QED BY <1>1 DEF Shorter

\* The last entry about s is the last one when the head is removed ...
LEMMA TailLast ==
    ASSUME NEW q, NEW r, Shorter(q, r), NEW s, NEW i \in 1 .. Len(r), LastIn(r, s, i)
    PROVE  i + 1 \in 1 .. Len(q) /\ r[i] = q[i + 1] /\ LastIn(q, s, i + 1)
  <1>1. /\ Len(q) \in Nat /\ Len(q) >= 1 /\ Len(r) = Len(q) - 1
        /\ \A j \in 1 .. Len(r) : r[j] = q[j + 1]
    BY DEF Shorter
  <1>2. i + 1 \in 1 .. Len(q)
    BY <1>1
  <1>3. q[i + 1].sw = s
    BY <1>1 DEF LastIn
  <1>4. ASSUME NEW j \in 1 .. Len(q), j > i + 1
        PROVE  q[j].sw # s
    <2>1. j - 1 \in 1 .. Len(r) /\ r[j - 1] = q[j] /\ j - 1 > i
      BY <1>1, <1>4
    <2> QED BY <2>1 DEF LastIn
  <1> QED BY <1>1, <1>2, <1>3, <1>4 DEF LastIn

\* ... unless it was the head, and nothing is left.
LEMMA TailNone ==
    ASSUME NEW q, NEW r, Shorter(q, r), NEW s, NoneIn(r, s), NEW x, q[1] = x
    PROVE  /\ x.sw = s => 1 \in 1 .. Len(q) /\ LastIn(q, s, 1)
           /\ x.sw # s => NoneIn(q, s)
  <1>1. /\ Len(q) \in Nat /\ Len(q) >= 1 /\ Len(r) = Len(q) - 1
        /\ \A j \in 1 .. Len(r) : r[j] = q[j + 1]
    BY DEF Shorter
  <1>2. \A j \in 1 .. Len(q) : j = 1 \/ (j - 1 \in 1 .. Len(r) /\ r[j - 1] = q[j])
    BY <1>1
  <1>3. \A j \in 1 .. Len(q) : j # 1 => q[j].sw # s
    BY <1>2 DEF NoneIn
  <1>4. 1 \in 1 .. Len(q) /\ \A j \in 1 .. Len(q) : j > 1 => j # 1
    BY <1>1
  <1> QED BY <1>3, <1>4 DEF NoneIn, LastIn

\* A write to a key tells of it in every inbox.
LEMMA WriteFollowed ==
    ASSUME TypeInv, Followed, NEW e \in WatchEvents, Reflects(e, e.sw)',
           inbox' = [b \in Backends |-> Append(inbox[b], e)],
           \A x \in Switches : x # e.sw => kv'[x] = kv[x],
           UNCHANGED <<events, lastCb, missed>>
    PROVE  Followed'
  <1> SUFFICES ASSUME NEW b \in Backends, NEW s \in Switches, ~missed'[b]
               PROVE  /\ \A i \in 1 .. Len(inbox'[b]) : LastIn(inbox'[b], s, i) =>
                             Reflects(inbox[b][i], s)'
                      /\ NoneIn(inbox'[b], s) /\ Alive(s)' => Announced(b, s)'
    BY DEF Followed, LastIn, NoneIn
  <1>0. inbox[b] \in Seq(WatchEvents) /\ inbox'[b] = Append(inbox[b], e)
    BY DEF TypeInv, TypeOK
  <1>1. Longer(inbox[b], inbox'[b], e)
    BY <1>0 DEF Longer
  <1>2. CASE e.sw = s
    <2>1. ASSUME NEW i \in 1 .. Len(inbox'[b]), LastIn(inbox'[b], s, i)
          PROVE  inbox'[b][i] = e
      BY <1>1, <1>2, <2>1 DEF Longer, LastIn
    <2>2. ~NoneIn(inbox'[b], s)
      BY <1>1, <1>2, AppendSome
    <2> QED BY <1>2, <2>1, <2>2 DEF Reflects
  <1>3. CASE e.sw # s
    <2>1. /\ \A i \in 1 .. Len(inbox'[b]) : LastIn(inbox'[b], s, i) =>
                i \in 1 .. Len(inbox[b]) /\ inbox'[b][i] = inbox[b][i] /\ LastIn(inbox[b], s, i)
          /\ NoneIn(inbox'[b], s) => NoneIn(inbox[b], s)
      BY <1>1, <1>3, AppendOther
    <2>2. kv'[s] = kv[s] /\ ~missed[b]
      BY <1>3
    <2>3. /\ \A i \in 1 .. Len(inbox[b]) : LastIn(inbox[b], s, i) => Reflects(inbox[b][i], s)
          /\ NoneIn(inbox[b], s) /\ Alive(s) => Announced(b, s)
      BY <2>2 DEF Followed
    <2>4. \A i \in 1 .. Len(inbox'[b]) : LastIn(inbox'[b], s, i) => Reflects(inbox[b][i], s)'
      BY <2>1, <2>2, <2>3 DEF Reflects
    <2>5. Announced(b, s)' = Announced(b, s) /\ Alive(s)' = Alive(s)
      BY <2>2 DEF Announced, Alive, LastIn, NoneIn
    <2> QED BY <2>1, <2>3, <2>4, <2>5
  <1> QED BY <1>2, <1>3

\* An event is taken off an inbox.  Either it does not tell of a live member, or
\* the callback that is queued does.
LEMMA TakenFollowed ==
    ASSUME TypeInv, Followed, NEW b \in Backends, inbox[b] # <<>>,
           inbox' = [inbox EXCEPT ![b] = Tail(@)], UNCHANGED <<kv, lastCb, missed>>,
           NEW e, e = Head(inbox[b]),
           \/ events' = events /\ (Reflects(e, e.sw) => ~Alive(e.sw))
           \/ \E cb \in Callbacks : /\ events' = [events EXCEPT ![b] = Append(@, cb)]
                                    /\ cb.sw = e.sw
                                    /\ cb.kind = "alive" \/ (Reflects(e, e.sw) => ~Alive(e.sw))
    PROVE  Followed'
  <1>0. inbox \in [Backends -> Seq(WatchEvents)] /\ events \in [Backends -> Seq(Callbacks)]
    BY DEF TypeInv, TypeOK
  <1> SUFFICES ASSUME NEW x \in Backends, NEW s \in Switches, ~missed'[x]
               PROVE  /\ \A i \in 1 .. Len(inbox'[x]) : LastIn(inbox'[x], s, i) =>
                             Reflects(inbox'[x][i], s)
                      /\ NoneIn(inbox'[x], s) /\ Alive(s) => Announced(x, s)'
    <2>1. \A x \in Backends, s \in Switches :
              /\ Alive(s)' = Alive(s)
              /\ \A i \in 1 .. Len(inbox'[x]) : Reflects(inbox[x][i], s)' = Reflects(inbox'[x][i], s)
      BY DEF Reflects, Alive
    <2>2. \A x \in Backends, s \in Switches :
              /\ \A i \in 1 .. Len(inbox'[x]) : LastIn(inbox[x], s, i)' = LastIn(inbox'[x], s, i)
              /\ NoneIn(inbox[x], s)' = NoneIn(inbox'[x], s)
      BY DEF LastIn, NoneIn
    <2> QED BY <2>1, <2>2 DEF Followed
  <1>1. /\ ~missed[x]
        /\ \A i \in 1 .. Len(inbox[x]) : LastIn(inbox[x], s, i) => Reflects(inbox[x][i], s)
        /\ NoneIn(inbox[x], s) /\ Alive(s) => Announced(x, s)
    BY DEF Followed
  <1>2. CASE x # b
    <2>1. inbox'[x] = inbox[x] /\ events'[x] = events[x]
      BY <1>0, <1>2
    <2>2. Announced(x, s)' = Announced(x, s)
      BY <2>1 DEF Announced, LastIn, NoneIn
    <2> QED BY <1>1, <2>1, <2>2
  <1>3. CASE x = b
    <2>0. inbox'[b] = Tail(inbox[b]) /\ inbox[b] \in Seq(WatchEvents)
      BY <1>0
    <2>1. Shorter(inbox[b], inbox'[b]) /\ inbox[b][1] = e
      BY <2>0, TailShorter
    <2>2. \A i \in 1 .. Len(inbox'[b]) : LastIn(inbox'[b], s, i) =>
              i + 1 \in 1 .. Len(inbox[b]) /\ inbox'[b][i] = inbox[b][i + 1]
              /\ LastIn(inbox[b], s, i + 1)
      BY <2>1, TailLast
    <2>3. \A i \in 1 .. Len(inbox'[b]) : LastIn(inbox'[b], s, i) => Reflects(inbox'[b][i], s)
      BY <1>1, <1>3, <2>2
    <2>4. ASSUME NoneIn(inbox'[b], s), Alive(s)
          PROVE  Announced(b, s)'
      <3>1. CASE e.sw = s
        <4>1. Reflects(e, s)
          <5>1. 1 \in 1 .. Len(inbox[b]) /\ LastIn(inbox[b], s, 1)
            BY <2>1, <2>4, <3>1, TailNone
          <5> QED BY <1>1, <1>3, <2>1, <5>1
        <4>2. PICK cb \in Callbacks : /\ events' = [events EXCEPT ![b] = Append(@, cb)]
                                      /\ cb.sw = s /\ cb.kind = "alive"
          BY <2>4, <3>1, <4>1
        <4>3. Longer(events[b], events'[b], cb)
          <5>1. events'[b] = Append(events[b], cb) /\ events[b] \in Seq(Callbacks)
            BY <1>0, <4>2
          <5> QED BY <5>1 DEF Longer
        <4>4. ASSUME NEW i \in 1 .. Len(events'[b]), LastIn(events'[b], s, i)
              PROVE  events'[b][i] = cb
          <5>1. /\ Len(events[b]) \in Nat /\ Len(events'[b]) = Len(events[b]) + 1
                /\ events'[b][Len(events[b]) + 1].sw = s /\ events'[b][Len(events[b]) + 1] = cb
            BY <4>2, <4>3 DEF Longer
          <5>2. ~(Len(events[b]) + 1 > i)
            BY <4>4, <5>1 DEF LastIn
          <5> QED BY <5>1, <5>2
        <4>5. ~NoneIn(events'[b], s)
          BY <4>2, <4>3, AppendSome
        <4> QED BY <4>2, <4>4, <4>5 DEF Announced, LastIn, NoneIn
      <3>2. CASE e.sw # s
        <4>1. Announced(b, s)
          <5>1. NoneIn(inbox[b], s)
            BY <2>1, <2>4, <3>2, TailNone
          <5> QED BY <1>1, <1>3, <2>4, <5>1
        <4>2. CASE events' = events
          BY <4>1, <4>2 DEF Announced, LastIn, NoneIn
        <4>3. CASE \E cb \in Callbacks : events' = [events EXCEPT ![b] = Append(@, cb)] /\ cb.sw # s
          <5>1. PICK cb \in Callbacks : events' = [events EXCEPT ![b] = Append(@, cb)] /\ cb.sw # s
            BY <4>3
          <5>2. Longer(events[b], events'[b], cb)
            <6>1. events'[b] = Append(events[b], cb) /\ events[b] \in Seq(Callbacks)
              BY <1>0, <5>1
            <6> QED BY <6>1 DEF Longer
          <5>3. /\ \A i \in 1 .. Len(events'[b]) : LastIn(events'[b], s, i) =>
                      i \in 1 .. Len(events[b]) /\ events'[b][i] = events[b][i]
                      /\ LastIn(events[b], s, i)
                /\ NoneIn(events'[b], s) => NoneIn(events[b], s)
            BY <5>1, <5>2, AppendOther
          <5> QED BY <4>1, <5>3 DEF Announced, LastIn, NoneIn
        <4> QED BY <3>2, <4>2, <4>3
      <3> QED BY <3>1, <3>2
    <2> QED BY <1>3, <2>3, <2>4
  <1> QED BY <1>2, <1>3

\* A callback runs.
LEMMA RunFollowed ==
    ASSUME TypeInv, Followed, NEW b \in Backends, NEW bury \in BOOLEAN, RunCallback(b, bury)
    PROVE  Followed'
  <1> DEFINE cb == Head(events[b])
  <1>0. /\ events \in [Backends -> Seq(Callbacks)] /\ events[b] # <<>>
        /\ lastCb \in [Backends -> [Switches -> {"none", "alive", "dead"}]]
        /\ events' = [events EXCEPT ![b] = Tail(@)]
        /\ lastCb' = [lastCb EXCEPT ![b][cb.sw] = cb.kind]
        /\ UNCHANGED <<kv, inbox, missed>>
    BY DEF TypeInv, TypeOK, RunCallback, etcd
  <1> SUFFICES ASSUME NEW x \in Backends, NEW s \in Switches, ~missed[x],
                      NoneIn(inbox[x], s), Alive(s)
               PROVE  Announced(x, s)'
    BY <1>0 DEF Followed, LastIn, NoneIn, Reflects, Alive
  <1>1. Announced(x, s)
    BY DEF Followed
  <1>2. CASE x # b
    <2>1. events'[x] = events[x] /\ lastCb'[x] = lastCb[x]
      BY <1>0, <1>2
    <2> QED BY <1>1, <2>1 DEF Announced, LastIn, NoneIn
  <1>3. CASE x = b
    <2> HIDE DEF cb
    <2>0. events'[b] = Tail(events[b]) /\ events[b] \in Seq(Callbacks)
      BY <1>0
    <2>1. Shorter(events[b], events'[b]) /\ events[b][1] = cb
      BY <2>0, <1>0, TailShorter DEF cb
    <2>2. \A i \in 1 .. Len(events'[b]) : LastIn(events'[b], s, i) =>
              i + 1 \in 1 .. Len(events[b]) /\ events'[b][i] = events[b][i + 1]
              /\ LastIn(events[b], s, i + 1)
      BY <2>1, TailLast
    <2>4. NoneIn(events'[b], s) =>
              /\ cb.sw = s => 1 \in 1 .. Len(events[b]) /\ LastIn(events[b], s, 1)
              /\ cb.sw # s => NoneIn(events[b], s)
      BY <2>1, TailNone
    <2>3. lastCb'[b][s] = IF s = cb.sw THEN cb.kind ELSE lastCb[b][s]
      BY <1>0
    <2>5. NoneIn(events'[b], s) => lastCb'[b][s] = "alive"
      BY <1>1, <1>3, <2>1, <2>3, <2>4 DEF Announced
    <2>6. \A i \in 1 .. Len(events'[b]) : LastIn(events'[b], s, i) => events'[b][i].kind = "alive"
      BY <1>1, <1>3, <2>2 DEF Announced
    <2> QED BY <1>3, <2>5, <2>6 DEF Announced, LastIn, NoneIn
  <1> QED BY <1>2, <1>3

\* Nothing is said of a backend that missed an event.
LEMMA MissedFollowed ==
    ASSUME TypeInv, Followed, NEW b \in Backends, missed' = [missed EXCEPT ![b] = TRUE],
           \A x \in Backends : x # b => inbox'[x] = inbox[x] /\ events'[x] = events[x],
           UNCHANGED <<kv, lastCb>>
    PROVE  Followed'
  <1>1. missed \in [Backends -> BOOLEAN]
    BY DEF TypeInv, TypeOK
  <1>2. missed'[b] /\ \A x \in Backends : x # b => missed'[x] = missed[x]
    BY <1>1
  <1> SUFFICES ASSUME NEW x \in Backends, x # b, NEW s \in Switches, ~missed[x]
               PROVE  /\ \A i \in 1 .. Len(inbox'[x]) : LastIn(inbox'[x], s, i) =>
                             Reflects(inbox'[x][i], s)
                      /\ NoneIn(inbox'[x], s) /\ Alive(s) => Announced(x, s)'
    BY <1>2 DEF Followed, LastIn, NoneIn, Reflects, Alive
  <1>3. Announced(x, s)' = Announced(x, s)
    BY DEF Announced, LastIn, NoneIn
  <1> QED BY <1>3 DEF Followed

\* A write to a key leaves the deletion that is handled at the head.
LEMMA WriteHandling ==
    ASSUME TypeInv, Handling, NEW e \in WatchEvents,
           inbox' = [b \in Backends |-> Append(inbox[b], e)],
           \A b \in Backends : handler'[b].stage # "idle" =>
               handler[b].stage # "idle" /\ handler'[b].sw = handler[b].sw
    PROVE  Handling'
  <1> SUFFICES ASSUME NEW b \in Backends, handler'[b].stage # "idle"
               PROVE  Head(inbox'[b]).type = "DELETE" /\ Head(inbox'[b]).sw = handler'[b].sw
    BY DEF Handling
  <1>1. /\ inbox[b] # <<>> /\ inbox[b] \in Seq(WatchEvents) /\ inbox'[b] = Append(inbox[b], e)
        /\ handler'[b].sw = handler[b].sw
        /\ Head(inbox[b]).type = "DELETE" /\ Head(inbox[b]).sw = handler[b].sw
    BY DEF TypeInv, TypeOK, Working, Handling
  <1>2. Head(inbox'[b]) = Head(inbox[b])
    BY <1>1
  <1> QED BY <1>1, <1>2

\* What the writes have in common.
LEMMA PutFollowed ==
    ASSUME TypeInv, Followed, Handling, NEW s \in Switches, NEW v \in Int, NEW l \in Nat,
           PutKey(s, v, l), UNCHANGED <<events, lastCb, missed>>,
           \A b \in Backends : handler'[b].stage # "idle" =>
               handler[b].stage # "idle" /\ handler'[b].sw = handler[b].sw
    PROVE  Followed' /\ Handling'
  <1> DEFINE e == [type |-> "PUT", sw |-> s, val |-> v, prev |-> kv[s].val]
  <1>1. kv[s].val \in Int /\ kv \in [Switches -> KeyValues]
    BY DEF TypeInv, TypeOK, KeyValues
  <1>2. e \in WatchEvents /\ e.sw = s /\ e.type = "PUT" /\ e.val = v
    BY <1>1 DEF WatchEvents
  <1>3. inbox' = [b \in Backends |-> Append(inbox[b], e)]
    BY DEF PutKey
  <1>4. /\ kv'[s].exists /\ kv'[s].val = v
        /\ \A x \in Switches : x # s => kv'[x] = kv[x]
    BY <1>1 DEF PutKey
  <1>5. PICK f \in WatchEvents : f = e
    BY <1>2
  <1> HIDE DEF e
  <1>6. Reflects(f, f.sw)'
    BY <1>2, <1>4, <1>5 DEF Reflects
  <1>7. inbox' = [b \in Backends |-> Append(inbox[b], f)] /\ f.sw = s
    BY <1>2, <1>3, <1>5
  <1>8. Followed'
    BY <1>4, <1>6, <1>7, WriteFollowed
  <1>9. Handling'
    BY <1>7, WriteHandling
  <1> QED BY <1>8, <1>9

\* A key vanishes.
LEMMA DeleteFollowed ==
    ASSUME TypeInv, Followed, Handling, NEW s \in Switches, DeleteKey(s),
           UNCHANGED <<events, lastCb, missed, handler>>
    PROVE  Followed' /\ Handling'
  <1> DEFINE e == [type |-> "DELETE", sw |-> s, val |-> 0, prev |-> kv[s].val]
  <1>1. kv[s].val \in Int /\ kv \in [Switches -> KeyValues]
    BY DEF TypeInv, TypeOK, KeyValues
  <1>2. e \in WatchEvents /\ e.sw = s /\ e.type = "DELETE"
    BY <1>1 DEF WatchEvents
  <1>3. inbox' = [b \in Backends |-> Append(inbox[b], e)]
    BY DEF DeleteKey
  <1>4. ~kv'[s].exists /\ \A x \in Switches : x # s => kv'[x] = kv[x]
    BY <1>1 DEF DeleteKey, Absent
  <1>5. PICK f \in WatchEvents : f = e
    BY <1>2
  <1> HIDE DEF e
  <1>6. Reflects(f, f.sw)'
    BY <1>2, <1>4, <1>5 DEF Reflects
  <1>7. inbox' = [b \in Backends |-> Append(inbox[b], f)] /\ f.sw = s
    BY <1>2, <1>3, <1>5
  <1>8. Followed'
    BY <1>4, <1>6, <1>7, WriteFollowed
  <1>9. Handling'
    BY <1>7, WriteHandling
  <1> QED BY <1>8, <1>9

\* Nothing that the order depends on changes.
LEMMA SameFollowed ==
    ASSUME Followed, UNCHANGED <<kv, inbox, events, lastCb, missed>>
    PROVE  Followed'
  BY DEF Followed, LastIn, NoneIn, Reflects, Alive, Announced

\* The steps of a monitor keep the order.
LEMMA MonitorFollowed ==
    ASSUME TypeInv, Followed, Handling, NEW b \in Backends,
           MonitorStep(b) \/ HandleFail(b) \/ Rewatch(b) \/ Crash(b)
    PROVE  Followed' /\ Handling'
  <1> USE IdleCallType DEF etcd, bounds, history
  <1>0. /\ handler \in [Backends -> Calls] /\ handler[b] \in Calls
        /\ inbox \in [Backends -> Seq(WatchEvents)]
        /\ events \in [Backends -> Seq(Callbacks)]
    BY DEF TypeInv, TypeOK
  <1>1. CASE HandleIgnored(b)
    <2> DEFINE e == Head(inbox[b])
    <2>1. /\ handler[b].stage = "idle" /\ inbox[b] # <<>>
          /\ inbox' = [inbox EXCEPT ![b] = Tail(@)]
          /\ UNCHANGED <<kv, lastCb, missed, events, handler>>
          /\ isBuried(e) \/ (e.type = "PUT" /\ e.val < 0)
      BY <1>1 DEF HandleIgnored, Ready
    <2>2. e \in WatchEvents
      BY <2>1, InboxHead
    <2>3. e.val \in Int /\ e.type \in {"PUT", "DELETE"}
      BY <2>2 DEF WatchEvents
    <2>4. e.type = "PUT" => ~(e.val > 0)
      BY <2>1, <2>3 DEF isBuried, Buried
    <2>5. Reflects(e, e.sw) => ~Alive(e.sw)
      BY <2>4 DEF Reflects, Alive
    <2>6. Followed'
      BY <2>1, <2>5, TakenFollowed
    <2>7. Handling'
      BY <1>0, <2>1 DEF Handling
    <2> QED BY <2>6, <2>7
  <1>2. CASE HandleAlive(b)
    <2> DEFINE e == Head(inbox[b])
               cb == [kind |-> "alive", sw |-> e.sw, prev |-> prevState(e), leader |-> FALSE]
    <2>1. /\ handler[b].stage = "idle" /\ inbox[b] # <<>>
          /\ inbox' = [inbox EXCEPT ![b] = Tail(@)]
          /\ events' = [events EXCEPT ![b] = Append(@, cb)]
          /\ UNCHANGED <<kv, lastCb, missed, handler>>
      BY <1>2 DEF HandleAlive, Ready
    <2>2. e \in WatchEvents
      BY <2>1, InboxHead
    <2>3. cb \in Callbacks /\ cb.sw = e.sw /\ cb.kind = "alive"
      BY <2>2 DEF WatchEvents, Callbacks, prevState
    <2> HIDE DEF cb
    <2>4. Followed'
      BY <2>1, <2>3, TakenFollowed
    <2>5. Handling'
      BY <1>0, <2>1 DEF Handling
    <2> QED BY <2>4, <2>5
  <1>3. CASE HandleGet(b)
    <2> DEFINE e == Head(inbox[b])
    <2>1. /\ UNCHANGED <<kv, inbox, events, lastCb, missed>> /\ e.type = "DELETE"
          /\ handler'[b].sw = e.sw /\ \A x \in Backends : x # b => handler'[x] = handler[x]
      BY <1>0, <1>3 DEF HandleGet, Calls
    <2>2. Handling'
      BY <2>1 DEF Handling
    <2> QED BY <2>1, <2>2, SameFollowed
  <1>4. CASE HandleLease(b)
    <2>1. /\ UNCHANGED <<kv, inbox, events, lastCb, missed>> /\ handler[b].stage = "lease"
          /\ handler'[b].sw = handler[b].sw
          /\ \A x \in Backends : x # b => handler'[x] = handler[x]
      BY <1>0, <1>4 DEF HandleLease, Calls
    <2>2. Handling'
      BY <2>1 DEF Handling
    <2> QED BY <2>1, <2>2, SameFollowed
  <1>5. CASE HandleTxn(b)
    <2>1. /\ UNCHANGED <<events, lastCb, missed>> /\ handler[b].stage = "txn"
          /\ handler'[b].sw = handler[b].sw
          /\ \A x \in Backends : x # b => handler'[x] = handler[x]
      BY <1>0, <1>5 DEF HandleTxn, Calls
    <2>2. handler[b].sw \in Switches /\ handler[b].val \in Int /\ handler[b].lease \in Nat
      BY <1>0 DEF Calls
    <2>3. CASE PutKey(handler[b].sw, handler[b].val, handler[b].lease)
      <3>1. \A x \in Backends : handler'[x].stage # "idle" =>
                handler[x].stage # "idle" /\ handler'[x].sw = handler[x].sw
        BY <2>1
      <3> QED BY <2>1, <2>2, <2>3, <3>1, PutFollowed
    <2>4. CASE UNCHANGED <<kv, inbox>>
      <3>1. Handling'
        BY <2>1, <2>4 DEF Handling
      <3> QED BY <2>1, <2>4, <3>1, SameFollowed
    <2> QED BY <1>5, <2>3, <2>4 DEF HandleTxn, TakeOver, PutWithLease
  <1>6. CASE HandleNotify(b)
    <2> DEFINE e == Head(inbox[b])
               cb == [kind |-> "dead", sw |-> handler[b].sw, prev |-> prevState(e),
                      leader |-> handler[b].leader]
    <2>1. /\ inbox[b] # <<>> /\ e.type = "DELETE" /\ e.sw = handler[b].sw
          /\ inbox' = [inbox EXCEPT ![b] = Tail(@)]
          /\ events' = [events EXCEPT ![b] = Append(@, cb)]
          /\ handler' = [handler EXCEPT ![b] = IdleCall]
          /\ UNCHANGED <<kv, lastCb, missed>>
      BY <1>6 DEF HandleNotify, TypeInv, Working, Handling
    <2>2. cb \in Callbacks /\ cb.sw = e.sw
      BY <1>0, <2>1 DEF Calls, Callbacks, prevState
    <2>3. Reflects(e, e.sw) => ~Alive(e.sw)
      BY <2>1 DEF Reflects, Alive
    <2> HIDE DEF cb
    <2>4. Followed'
      BY <2>1, <2>2, <2>3, TakenFollowed
    <2>5. Handling'
      BY <1>0, <2>1 DEF Handling
    <2> QED BY <2>4, <2>5
  <1>7. CASE HandleTxnRefused(b) \/ HandleFail(b) \/ Rewatch(b) \/ Crash(b)
    <2>1. /\ missed' = [missed EXCEPT ![b] = TRUE]
          /\ \A x \in Backends : x # b => inbox'[x] = inbox[x] /\ events'[x] = events[x]
          /\ UNCHANGED <<kv, lastCb>>
      BY <1>0, <1>7 DEF HandleTxnRefused, HandleFail, Rewatch, Crash
    <2>2. /\ handler'[b].stage = "idle"
          /\ \A x \in Backends : x # b => handler'[x] = handler[x]
      BY <1>0, <1>7 DEF HandleTxnRefused, HandleFail, Rewatch, Crash
    <2>3. Handling'
      BY <2>1, <2>2 DEF Handling
    <2> QED BY <2>1, <2>3, MissedFollowed
  <1> QED BY <1>1, <1>2, <1>3, <1>4, <1>5, <1>6, <1>7 DEF MonitorStep

\* Every step keeps the order.
LEMMA NextFollowed ==
    ASSUME TypeInv, Followed, Handling, [Next]_vars
    PROVE  Followed' /\ Handling'
  <1> USE DEF etcd, bounds, history
  <1>0. /\ \A c \in Clients : client[c] \in Calls
        /\ \A b \in Backends : runner[b] \in Calls
    BY DEF TypeInv, TypeOK
  <1>1. ASSUME UNCHANGED <<kv, inbox, events, lastCb, missed, handler>>
        PROVE  Followed' /\ Handling'
    BY <1>1, SameFollowed DEF Handling
  <1>2. ASSUME NEW s \in Switches, BuryPut(s), UNCHANGED <<events, lastCb, missed, handler>>
        PROVE  Followed' /\ Handling'
    <2>1. PutKey(s, Buried, NoLease) /\ Buried \in Int /\ NoLease \in Nat
      BY <1>2 DEF BuryPut, Buried, NoLease
    <2> QED BY <1>2, <2>1, PutFollowed
  <1>3. ASSUME NEW s \in Switches, BuryDelete(s), UNCHANGED <<events, lastCb, missed, handler>>
        PROVE  Followed' /\ Handling'
    BY <1>1, <1>3, DeleteFollowed DEF BuryDelete
  <1>4. ASSUME NEW s \in Switches, NEW l \in live[s], LeaseExpire(s, l)
        PROVE  Followed' /\ Handling'
    <2>1. UNCHANGED <<events, lastCb, missed, handler>>
      BY <1>4 DEF LeaseExpire
    <2> QED BY <1>1, <1>4, <2>1, DeleteFollowed DEF LeaseExpire
  <1>5. ASSUME NEW c \in Clients, PingTxn(c)
        PROVE  Followed' /\ Handling'
    <2>1. /\ client[c].sw \in Switches /\ client[c].val \in Int /\ client[c].lease \in Nat
          /\ UNCHANGED <<events, lastCb, missed, handler>>
      BY <1>0, <1>5 DEF Calls, PingTxn
    <2>2. CASE PutKey(client[c].sw, client[c].val, client[c].lease)
      BY <2>1, <2>2, PutFollowed
    <2>3. CASE UNCHANGED <<kv, inbox>>
      BY <1>1, <2>1, <2>3
    <2> QED BY <1>5, <2>2, <2>3 DEF PingTxn, PutWithLease
  <1>6. ASSUME NEW c \in Clients,
               \/ \E s \in Switches, ttl \in TTLs, alive \in BOOLEAN : PingGet(c, s, ttl, alive)
               \/ PingLease(c) \/ ClientFail(c)
        PROVE  UNCHANGED <<kv, inbox, events, lastCb, missed, handler>>
    BY <1>6, Zenon DEF PingGet, PingLease, ClientFail
  <1>7. ASSUME NEW c \in Clients, NEW s \in Switches, ClientBuryPut(c, s)
        PROVE  Followed' /\ Handling'
    BY <1>2, <1>7 DEF ClientBuryPut
  <1>8. ASSUME NEW c \in Clients, ClientBuryDelete(c)
        PROVE  Followed' /\ Handling'
    BY <1>0, <1>3, <1>8 DEF ClientBuryDelete, Calls
  <1>9. ASSUME NEW b \in Backends, RunnerBuryPut(b)
        PROVE  Followed' /\ Handling'
    BY <1>0, <1>2, <1>9 DEF RunnerBuryPut, Calls
  <1>10. ASSUME NEW b \in Backends, RunnerBuryDelete(b)
         PROVE  Followed' /\ Handling'
    BY <1>0, <1>3, <1>10 DEF RunnerBuryDelete, Calls
  <1>11. ASSUME NEW b \in Backends, NEW bury \in BOOLEAN, RunCallback(b, bury)
         PROVE  Followed' /\ Handling'
    <2>1. UNCHANGED <<inbox, handler>>
      BY <1>11 DEF RunCallback
    <2>2. Handling'
      BY <2>1 DEF Handling
    <2> QED BY <1>11, <2>2, RunFollowed
  <1>12. ASSUME NEW b \in Backends, RunnerFail(b)
         PROVE  UNCHANGED <<kv, inbox, events, lastCb, missed, handler>>
    BY <1>12 DEF RunnerFail
  <1>13. Finished \/ UNCHANGED vars => UNCHANGED <<kv, inbox, events, lastCb, missed, handler>>
    BY DEF Finished, vars
  <1> QED BY <1>1, <1>4, <1>5, <1>6, <1>7, <1>8, <1>9, <1>10, <1>11, <1>12, <1>13,
             MonitorFollowed DEF Next, ClientStep, RunnerStep

\* Once a backend that missed nothing has caught up, the last callback that it ran
\* for a live member is the alive one, however the writes of clients, burials and
\* handlers interleave with its callbacks.
THEOREM AliveComesLast == Spec => []AliveIsLast
  <1>1. Init => Followed /\ Handling
    BY IdleCallType DEF Init, Followed, Handling, LastIn, Alive, Absent
  <1>2. TypeInv /\ Followed /\ Handling /\ [Next]_vars => Followed' /\ Handling'
    BY NextFollowed
  <1>3. TypeInv /\ Followed => AliveIsLast
    <2> SUFFICES ASSUME Followed, NEW b \in Backends, NEW s \in Switches,
                        inbox[b] = <<>>, events[b] = <<>>, ~missed[b], Alive(s)
                 PROVE  lastCb[b][s] = "alive"
      BY DEF AliveIsLast, Alive
    <2>1. Len(inbox[b]) = 0 /\ Len(events[b]) = 0
      OBVIOUS
    <2>2. NoneIn(inbox[b], s) /\ NoneIn(events[b], s)
      BY <2>1 DEF NoneIn
    <2> QED BY <2>2 DEF Followed, Announced
  <1>4. TypeInv /\ SafetyInv => TypeInv
    OBVIOUS
  <1> QED BY AlwaysSafe, <1>1, <1>2, <1>3, <1>4, PTL DEF Spec


-----------------------------------------------------------------------------
(* Who puts an expired switch back.                                         *)

\* The last entry about s in q is the deletion of a key that had value v.
Due(q, s, v) == \E i \in 1 .. Len(q) :
    LastIn(q, s, i) /\ q[i].type = "DELETE" /\ q[i].prev = v

\* While a switch that ran out is absent, the last event about it in the inbox of
\* every backend that missed nothing is the deletion that took it away.
Owed == \A b \in Backends, s \in Switches : ~missed[b] /\ Expired(s) =>
    Due(inbox[b], s, gone[s])

\* A handler whose transaction is over works on a deletion that is out of date.
Outdated == \A b \in Backends : ~missed[b] /\ handler[b].stage = "notify" =>
    ~LastIn(inbox[b], handler[b].sw, 1)

\* Entry i in the inbox of b is a deletion of s that handleEvent does not ignore.  Its
\* handler has still to run, or is on its way to the transaction that puts s back.
StillToHandle(b, s, i) ==
    /\ inbox[b][i].sw = s /\ inbox[b][i].type = "DELETE" /\ ~isBuried(inbox[b][i])
    /\ i = 1 /\ handler[b].stage # "idle" => handler[b].stage # "notify" /\ handler[b].sw = s

\* A backend that missed nothing has the death of every absent member to handle.
DeathIsOwed == \A b \in Backends, s \in Switches : ~missed[b] /\ Expired(s) =>
    \E i \in 1 .. Len(inbox[b]) : StillToHandle(b, s, i)

\* The last entry about s stays the last one when another switch's is appended, ...
LEMMA AppendStays ==
    ASSUME NEW q, NEW x, NEW r, Longer(q, r, x), NEW s, x.sw # s,
           NEW i \in 1 .. Len(q), LastIn(q, s, i)
    PROVE  i \in 1 .. Len(r) /\ r[i] = q[i] /\ LastIn(r, s, i)
  <1>1. /\ Len(q) \in Nat /\ Len(r) = Len(q) + 1 /\ r[Len(q) + 1] = x
        /\ \A j \in 1 .. Len(q) : r[j] = q[j] /\ j \in 1 .. Len(r)
    BY DEF Longer
  <1>2. \A j \in 1 .. Len(r) : j \in 1 .. Len(q) \/ j = Len(q) + 1
    BY <1>1
  <1> QED BY <1>1, <1>2 DEF LastIn

\* ... a deletion that is appended is the last entry about its switch, ...
LEMMA AppendDue ==
    ASSUME NEW q, NEW x, NEW r, Longer(q, r, x), x.type = "DELETE"
    PROVE  Due(r, x.sw, x.prev)
  <1>1. PICK n : n = Len(q) + 1
    OBVIOUS
  <1>2. Len(r) = n /\ n \in Nat /\ n >= 1 /\ r[n] = x
    BY <1>1 DEF Longer
  <1>3. n \in 1 .. Len(r) /\ \A j \in 1 .. Len(r) : ~(j > n)
    BY <1>2
  <1> QED BY <1>2, <1>3 DEF LastIn, Due

\* ... and what was not the last one does not become it.
LEMMA AppendLate ==
    ASSUME NEW q, NEW x, NEW r, Longer(q, r, x), NEW s, Len(q) >= 1, LastIn(r, s, 1)
    PROVE  LastIn(q, s, 1) /\ x.sw # s
  <1>1. /\ Len(q) \in Nat /\ Len(r) = Len(q) + 1 /\ r[Len(q) + 1] = x
        /\ \A j \in 1 .. Len(q) : r[j] = q[j] /\ j \in 1 .. Len(r)
    BY DEF Longer
  <1>2. 1 \in 1 .. Len(q) /\ Len(q) + 1 > 1 /\ Len(q) + 1 \in 1 .. Len(r)
    BY <1>1
  <1> QED BY <1>1, <1>2 DEF LastIn

\* The last entry about s stays the last one when the head before it is removed.
LEMMA TailStays ==
    ASSUME NEW q, NEW r, Shorter(q, r), NEW s, NEW i \in 1 .. Len(q), i # 1, LastIn(q, s, i)
    PROVE  i - 1 \in 1 .. Len(r) /\ r[i - 1] = q[i] /\ LastIn(r, s, i - 1)
  <1>1. /\ Len(q) \in Nat /\ Len(q) >= 1 /\ Len(r) = Len(q) - 1
        /\ \A j \in 1 .. Len(r) : r[j] = q[j + 1]
    BY DEF Shorter
  <1>2. i - 1 \in 1 .. Len(r) /\ (i - 1) + 1 = i
    BY <1>1
  <1>3. r[i - 1] = q[i]
    BY <1>1, <1>2
  <1>4. ASSUME NEW j \in 1 .. Len(r), j > i - 1
        PROVE  r[j].sw # s
    <2>1. j + 1 \in 1 .. Len(q) /\ j + 1 > i /\ r[j] = q[j + 1]
      BY <1>1, <1>4
    <2> QED BY <2>1 DEF LastIn
  <1> QED BY <1>2, <1>3, <1>4 DEF LastIn

\* What is due in the next state.
LEMMA DueNext ==
    ASSUME NEW b \in Backends, NEW s \in Switches, Due(inbox'[b], s, gone'[s])
    PROVE  Due(inbox[b], s, gone[s])'
  BY DEF Due, LastIn

\* A write to a key tells of it in every inbox.
LEMMA WriteOwed ==
    ASSUME TypeInv, Owed, NEW e \in WatchEvents, Expired(e.sw)' => e.type = "DELETE" /\ e.prev = gone'[e.sw],
           inbox' = [b \in Backends |-> Append(inbox[b], e)],
           \A x \in Switches : x # e.sw => kv'[x] = kv[x] /\ gone'[x] = gone[x],
           UNCHANGED missed
    PROVE  Owed'
  <1> SUFFICES ASSUME NEW b \in Backends, NEW s \in Switches, ~missed'[b], Expired(s)'
               PROVE  Due(inbox'[b], s, gone'[s])
    BY DueNext DEF Owed
  <1>0. inbox[b] \in Seq(WatchEvents) /\ inbox'[b] = Append(inbox[b], e)
    BY DEF TypeInv, TypeOK
  <1>1. Longer(inbox[b], inbox'[b], e)
    BY <1>0 DEF Longer
  <1>2. CASE e.sw = s
    <2>1. e.type = "DELETE" /\ e.prev = gone'[s]
      BY <1>2
    <2>2. Due(inbox'[b], e.sw, e.prev)
      BY <1>1, <2>1, AppendDue
    <2> QED BY <1>2, <2>1, <2>2
  <1>3. CASE e.sw # s
    <2>1. kv'[s] = kv[s] /\ gone'[s] = gone[s] /\ ~missed[b]
      BY <1>3
    <2>2. Expired(s)
      BY <2>1 DEF Expired
    <2>3. PICK i \in 1 .. Len(inbox[b]) : /\ LastIn(inbox[b], s, i) /\ inbox[b][i].type = "DELETE"
                                          /\ inbox[b][i].prev = gone[s]
      BY <2>1, <2>2 DEF Owed, Due
    <2>4. i \in 1 .. Len(inbox'[b]) /\ inbox'[b][i] = inbox[b][i] /\ LastIn(inbox'[b], s, i)
      BY <1>1, <1>3, <2>3, AppendStays
    <2> QED BY <2>1, <2>3, <2>4 DEF Due
  <1> QED BY <1>2, <1>3

\* It makes no deletion that is out of date the last one.  The handler whose
\* transaction it was is held up by its own write.
LEMMA WriteOutdated ==
    ASSUME TypeInv, Outdated, NEW e \in WatchEvents,
           inbox' = [b \in Backends |-> Append(inbox[b], e)], UNCHANGED missed,
           \A b \in Backends : handler'[b].stage = "notify" =>
               /\ handler[b].stage # "idle"
               /\ \/ handler[b].stage = "notify" /\ handler'[b].sw = handler[b].sw
                  \/ handler'[b].sw = e.sw
    PROVE  Outdated'
  <1> SUFFICES ASSUME NEW b \in Backends, ~missed[b], handler'[b].stage = "notify",
                      LastIn(inbox'[b], handler'[b].sw, 1)
               PROVE  FALSE
    BY DEF Outdated, LastIn
  <1>1. /\ inbox[b] # <<>> /\ inbox[b] \in Seq(WatchEvents) /\ inbox'[b] = Append(inbox[b], e)
    BY DEF TypeInv, TypeOK, Working
  <1>2. Longer(inbox[b], inbox'[b], e) /\ Len(inbox[b]) >= 1
    BY <1>1 DEF Longer
  <1>3. PICK s : s = handler'[b].sw
    OBVIOUS
  <1>4. LastIn(inbox[b], s, 1) /\ e.sw # s
    BY <1>2, <1>3, AppendLate
  <1> QED BY <1>3, <1>4 DEF Outdated

\* An event is taken off an inbox that was not owed.
LEMMA TakenOwed ==
    ASSUME TypeInv, Owed, NEW b \in Backends, inbox[b] # <<>>,
           inbox' = [inbox EXCEPT ![b] = Tail(@)], UNCHANGED <<kv, gone, missed>>,
           NEW e, e = Head(inbox[b]),
           ~missed[b] /\ LastIn(inbox[b], e.sw, 1) /\ Expired(e.sw) =>
               ~(e.type = "DELETE" /\ e.prev = gone[e.sw])
    PROVE  Owed'
  <1> SUFFICES ASSUME NEW x \in Backends, NEW s \in Switches, ~missed[x], Expired(s)
               PROVE  Due(inbox'[x], s, gone[s])
    <2>1. gone' = gone
      OBVIOUS
    <2>3. \A x \in Backends, s \in Switches :
              Due(inbox'[x], s, gone[s]) => Due(inbox[x], s, gone[s])'
      BY <2>1, DueNext
    <2>2. \A s \in Switches : Expired(s)' => Expired(s)
      BY DEF Expired
    <2> QED BY <2>2, <2>3 DEF Owed
  <1>0. inbox \in [Backends -> Seq(WatchEvents)]
    BY DEF TypeInv, TypeOK
  <1>1. PICK i \in 1 .. Len(inbox[x]) : /\ LastIn(inbox[x], s, i) /\ inbox[x][i].type = "DELETE"
                                        /\ inbox[x][i].prev = gone[s]
    BY DEF Owed, Due
  <1>2. CASE x # b
    <2>1. inbox'[x] = inbox[x]
      BY <1>0, <1>2
    <2> QED BY <1>1, <2>1 DEF Due
  <1>3. CASE x = b
    <2>1. inbox'[b] = Tail(inbox[b]) /\ inbox[b] \in Seq(WatchEvents)
      BY <1>0
    <2>2. Shorter(inbox[b], inbox'[b]) /\ inbox[b][1] = e
      BY <2>1, TailShorter
    <2>3. i # 1
      <3>1. ASSUME i = 1 PROVE e.sw = s
        BY <1>1, <1>3, <2>2, <3>1 DEF LastIn
      <3> QED BY <1>1, <1>3, <2>2, <3>1
    <2>4. i - 1 \in 1 .. Len(inbox'[b]) /\ inbox'[b][i - 1] = inbox[b][i] /\ LastIn(inbox'[b], s, i - 1)
      BY <1>1, <1>3, <2>2, <2>3, TailStays
    <2> QED BY <1>1, <1>3, <2>4 DEF Due
  <1> QED BY <1>2, <1>3

\* Nothing is owed by a backend that missed an event.
LEMMA MissedOwed ==
    ASSUME TypeInv, Owed, Outdated, NEW b \in Backends, missed' = [missed EXCEPT ![b] = TRUE],
           \A x \in Backends : x # b => inbox'[x] = inbox[x] /\ handler'[x] = handler[x],
           UNCHANGED <<kv, gone>>
    PROVE  Owed' /\ Outdated'
  <1>1. missed \in [Backends -> BOOLEAN]
    BY DEF TypeInv, TypeOK
  <1>2. missed'[b] /\ \A x \in Backends : x # b => missed'[x] = missed[x]
    BY <1>1
  <1>3. Owed'
    <2> SUFFICES ASSUME NEW x \in Backends, x # b, NEW s \in Switches, ~missed[x], Expired(s)
                 PROVE  Due(inbox'[x], s, gone[s])
      BY <1>2 DEF Owed, Due, LastIn, Expired
    <2> QED BY DEF Owed
  <1>4. Outdated'
    BY <1>2 DEF Outdated, LastIn
  <1> QED BY <1>3, <1>4


\* What the writes have in common.
LEMMA PutOwed ==
    ASSUME TypeInv, Owed, Outdated, NEW s \in Switches, NEW v \in Int, NEW l \in Nat,
           PutKey(s, v, l), UNCHANGED <<gone, missed>>,
           \A b \in Backends : handler'[b].stage = "notify" =>
               /\ handler[b].stage # "idle"
               /\ \/ handler[b].stage = "notify" /\ handler'[b].sw = handler[b].sw
                  \/ handler'[b].sw = s
    PROVE  Owed' /\ Outdated'
  <1> DEFINE e == [type |-> "PUT", sw |-> s, val |-> v, prev |-> kv[s].val]
  <1>1. kv[s].val \in Int /\ kv \in [Switches -> KeyValues]
    BY DEF TypeInv, TypeOK, KeyValues
  <1>2. e \in WatchEvents /\ e.sw = s
    BY <1>1 DEF WatchEvents
  <1>3. inbox' = [b \in Backends |-> Append(inbox[b], e)]
    BY DEF PutKey
  <1>4. kv'[s].exists /\ \A x \in Switches : x # s => kv'[x] = kv[x] /\ gone'[x] = gone[x]
    BY <1>1 DEF PutKey
  <1>5. PICK f \in WatchEvents : f = e
    BY <1>2
  <1> HIDE DEF e
  <1>6. inbox' = [b \in Backends |-> Append(inbox[b], f)] /\ f.sw = s
    BY <1>2, <1>3, <1>5
  <1>7. ~Expired(f.sw)'
    BY <1>4, <1>6 DEF Expired
  <1>8. Owed'
    BY <1>4, <1>6, <1>7, WriteOwed
  <1>9. Outdated'
    BY <1>6, WriteOutdated
  <1> QED BY <1>8, <1>9

\* A key vanishes.
LEMMA DeleteOwed ==
    ASSUME TypeInv, Owed, Outdated, NEW s \in Switches, DeleteKey(s), UNCHANGED <<missed, handler>>
    PROVE  Owed' /\ Outdated'
  <1> DEFINE e == [type |-> "DELETE", sw |-> s, val |-> 0, prev |-> kv[s].val]
  <1>1. /\ kv[s].val \in Int /\ kv \in [Switches -> KeyValues] /\ gone \in [Switches -> Int]
    BY DEF TypeInv, TypeOK, KeyValues
  <1>2. e \in WatchEvents /\ e.sw = s /\ e.type = "DELETE" /\ e.prev = kv[s].val
    BY <1>1 DEF WatchEvents
  <1>3. inbox' = [b \in Backends |-> Append(inbox[b], e)]
    BY DEF DeleteKey
  <1>4. gone'[s] = kv[s].val /\ \A x \in Switches : x # s => kv'[x] = kv[x] /\ gone'[x] = gone[x]
    BY <1>1 DEF DeleteKey
  <1>5. PICK f \in WatchEvents : f = e
    BY <1>2
  <1> HIDE DEF e
  <1>6. inbox' = [b \in Backends |-> Append(inbox[b], f)] /\ f.sw = s
    BY <1>2, <1>3, <1>5
  <1>7. f.type = "DELETE" /\ f.prev = gone'[f.sw]
    BY <1>2, <1>4, <1>5
  <1>8. Owed'
    BY <1>4, <1>6, <1>7, WriteOwed
  <1>9. \A b \in Backends : handler'[b].stage = "notify" =>
            handler[b].stage # "idle" /\ handler[b].stage = "notify" /\ handler'[b].sw = handler[b].sw
    OBVIOUS
  <1>10. Outdated'
    BY <1>6, <1>9, WriteOutdated
  <1> QED BY <1>8, <1>10

\* Nothing that the debt depends on changes.
LEMMA SameOwed ==
    ASSUME Owed, UNCHANGED <<kv, gone, inbox, missed>>
    PROVE  Owed'
  BY DEF Owed, Due, LastIn, Expired

\* The steps of a monitor keep the debt.
LEMMA MonitorOwed ==
    ASSUME TypeInv, Followed, Handling, Owed, Outdated, NEW b \in Backends,
           MonitorStep(b) \/ HandleFail(b) \/ Rewatch(b) \/ Crash(b)
    PROVE  Owed' /\ Outdated'
  <1> USE IdleCallType DEF etcd, bounds, history
  <1>0. /\ handler \in [Backends -> Calls] /\ handler[b] \in Calls
        /\ inbox \in [Backends -> Seq(WatchEvents)]
    BY DEF TypeInv, TypeOK
  <1>1. ASSUME UNCHANGED missed, handler'[b].stage = "idle",
               inbox' = [inbox EXCEPT ![b] = Tail(@)],
               \A x \in Backends : x # b => handler'[x] = handler[x]
        PROVE  Outdated'
    BY <1>0, <1>1 DEF Outdated, LastIn
  <1>2. CASE HandleIgnored(b) \/ HandleAlive(b)
    <2> DEFINE e == Head(inbox[b])
    <2>1. /\ handler[b].stage = "idle" /\ inbox[b] # <<>>
          /\ inbox' = [inbox EXCEPT ![b] = Tail(@)]
          /\ UNCHANGED <<kv, gone, missed, handler>>
          /\ isBuried(e) \/ e.type = "PUT"
      BY <1>2 DEF HandleIgnored, HandleAlive, Ready
    <2>2. Expired(e.sw) => ~(e.type = "DELETE" /\ e.prev = gone[e.sw])
      BY <2>1 DEF isBuried, Expired
    <2>3. Owed'
      BY <2>1, <2>2, TakenOwed
    <2> QED BY <1>1, <2>1, <2>3
  <1>3. CASE HandleGet(b) \/ HandleLease(b)
    <2>1. /\ UNCHANGED <<kv, gone, inbox, missed>> /\ handler'[b].stage # "notify"
          /\ \A x \in Backends : x # b => handler'[x] = handler[x]
      <3>1. CASE HandleGet(b)
        BY <1>0, <3>1 DEF HandleGet, Calls
      <3>2. CASE HandleLease(b)
        BY <1>0, <3>2 DEF HandleLease, Calls
      <3> QED BY <1>3, <3>1, <3>2
    <2>2. Outdated'
      BY <2>1 DEF Outdated, LastIn
    <2> QED BY <2>1, <2>2, SameOwed
  <1>4. CASE HandleTxn(b)
    <2>1. /\ UNCHANGED <<gone, missed>> /\ handler[b].stage = "txn"
          /\ handler'[b].sw = handler[b].sw
          /\ \A x \in Backends : x # b => handler'[x] = handler[x]
      BY <1>0, <1>4 DEF HandleTxn, Calls
    <2>2. handler[b].sw \in Switches /\ handler[b].val \in Int /\ handler[b].lease \in Nat
      BY <1>0 DEF Calls
    <2>3. CASE PutKey(handler[b].sw, handler[b].val, handler[b].lease)
      <3>1. \A x \in Backends : handler'[x].stage = "notify" =>
                /\ handler[x].stage # "idle"
                /\ \/ handler[x].stage = "notify" /\ handler'[x].sw = handler[x].sw
                   \/ handler'[x].sw = handler[b].sw
        BY <2>1
      <3> QED BY <2>1, <2>2, <2>3, <3>1, PutOwed
    <2>4. CASE kv[handler[b].sw].exists /\ UNCHANGED <<kv, inbox>>
      <3>1. ASSUME ~missed[b] PROVE ~LastIn(inbox[b], handler[b].sw, 1)
        <4>1. inbox[b] # <<>> /\ Head(inbox[b]).type = "DELETE" /\ inbox[b] \in Seq(WatchEvents)
          BY <1>0, <2>1 DEF TypeInv, Working, Handling
        <4>2. inbox[b][1].type = "DELETE" /\ 1 \in 1 .. Len(inbox[b])
          BY <4>1
        <4>3. LastIn(inbox[b], handler[b].sw, 1) => Reflects(inbox[b][1], handler[b].sw)
          BY <2>2, <3>1, <4>2 DEF Followed
        <4> QED BY <2>4, <4>2, <4>3 DEF Reflects
      <3>2. Outdated'
        BY <2>1, <2>4, <3>1 DEF Outdated, LastIn
      <3> QED BY <2>1, <2>4, <3>2, SameOwed
    <2> QED BY <1>4, <2>3, <2>4 DEF HandleTxn, TakeOver, PutWithLease
  <1>5. CASE HandleNotify(b)
    <2> DEFINE e == Head(inbox[b])
    <2>1. /\ inbox[b] # <<>> /\ e.sw = handler[b].sw /\ handler[b].stage = "notify"
          /\ inbox' = [inbox EXCEPT ![b] = Tail(@)]
          /\ handler' = [handler EXCEPT ![b] = IdleCall]
          /\ UNCHANGED <<kv, gone, missed>>
      BY <1>5 DEF HandleNotify, TypeInv, Working, Handling
    <2>2. ~missed[b] => ~LastIn(inbox[b], e.sw, 1)
      BY <2>1 DEF Outdated
    <2>3. Owed'
      BY <2>1, <2>2, TakenOwed
    <2>4. handler'[b].stage = "idle" /\ \A x \in Backends : x # b => handler'[x] = handler[x]
      BY <1>0, <2>1
    <2> QED BY <1>1, <2>1, <2>3, <2>4
  <1>6. CASE HandleTxnRefused(b) \/ HandleFail(b) \/ Rewatch(b) \/ Crash(b)
    <2>1. /\ missed' = [missed EXCEPT ![b] = TRUE] /\ UNCHANGED <<kv, gone>>
          /\ \A x \in Backends : x # b => inbox'[x] = inbox[x] /\ handler'[x] = handler[x]
      BY <1>0, <1>6 DEF HandleTxnRefused, HandleFail, Rewatch, Crash
    <2> QED BY <2>1, MissedOwed
  <1> QED BY <1>2, <1>3, <1>4, <1>5, <1>6 DEF MonitorStep

\* Every step keeps the debt.
LEMMA NextOwed ==
    ASSUME TypeInv, Followed, Handling, Owed, Outdated, [Next]_vars
    PROVE  Owed' /\ Outdated'
  <1> USE DEF etcd, bounds, history
  <1>0. /\ \A c \in Clients : client[c] \in Calls
        /\ \A b \in Backends : runner[b] \in Calls
    BY DEF TypeInv, TypeOK
  <1>1. ASSUME UNCHANGED <<kv, inbox, gone, missed, handler>>
        PROVE  Owed' /\ Outdated'
    BY <1>1, SameOwed DEF Outdated, LastIn
  <1>2. ASSUME NEW s \in Switches, BuryPut(s), UNCHANGED <<gone, missed, handler>>
        PROVE  Owed' /\ Outdated'
    <2>1. PutKey(s, Buried, NoLease) /\ Buried \in Int /\ NoLease \in Nat
      BY <1>2 DEF BuryPut, Buried, NoLease
    <2> QED BY <1>2, <2>1, PutOwed
  <1>3. ASSUME NEW s \in Switches, BuryDelete(s), UNCHANGED <<missed, handler>>
        PROVE  Owed' /\ Outdated'
    BY <1>1, <1>3, DeleteOwed DEF BuryDelete
  <1>4. ASSUME NEW s \in Switches, NEW l \in live[s], LeaseExpire(s, l)
        PROVE  Owed' /\ Outdated'
    <2>1. UNCHANGED <<missed, handler>>
      BY <1>4 DEF LeaseExpire
    <2> QED BY <1>1, <1>4, <2>1, DeleteOwed DEF LeaseExpire
  <1>5. ASSUME NEW c \in Clients, PingTxn(c)
        PROVE  Owed' /\ Outdated'
    <2>1. /\ client[c].sw \in Switches /\ client[c].val \in Int /\ client[c].lease \in Nat
          /\ UNCHANGED <<gone, missed, handler>>
      BY <1>0, <1>5 DEF Calls, PingTxn
    <2>2. CASE PutKey(client[c].sw, client[c].val, client[c].lease)
      BY <2>1, <2>2, PutOwed
    <2>3. CASE UNCHANGED <<kv, inbox>>
      BY <1>1, <2>1, <2>3
    <2> QED BY <1>5, <2>2, <2>3 DEF PingTxn, PutWithLease
  <1>6. ASSUME NEW c \in Clients,
               \/ \E s \in Switches, ttl \in TTLs, alive \in BOOLEAN : PingGet(c, s, ttl, alive)
               \/ PingLease(c) \/ ClientFail(c)
        PROVE  UNCHANGED <<kv, inbox, gone, missed, handler>>
    BY <1>6, Zenon DEF PingGet, PingLease, ClientFail
  <1>7. ASSUME NEW c \in Clients, NEW s \in Switches, ClientBuryPut(c, s)
        PROVE  Owed' /\ Outdated'
    BY <1>2, <1>7 DEF ClientBuryPut
  <1>8. ASSUME NEW c \in Clients, ClientBuryDelete(c)
        PROVE  Owed' /\ Outdated'
    BY <1>0, <1>3, <1>8 DEF ClientBuryDelete, Calls
  <1>9. ASSUME NEW b \in Backends, RunnerBuryPut(b)
        PROVE  Owed' /\ Outdated'
    BY <1>0, <1>2, <1>9 DEF RunnerBuryPut, Calls
  <1>10. ASSUME NEW b \in Backends, RunnerBuryDelete(b)
         PROVE  Owed' /\ Outdated'
    BY <1>0, <1>3, <1>10 DEF RunnerBuryDelete, Calls
  <1>11. ASSUME NEW b \in Backends,
                RunnerFail(b) \/ \E bury \in BOOLEAN : RunCallback(b, bury)
         PROVE  UNCHANGED <<kv, inbox, gone, missed, handler>>
    BY <1>11 DEF RunnerFail, RunCallback
  <1>12. Finished \/ UNCHANGED vars => UNCHANGED <<kv, inbox, gone, missed, handler>>
    BY DEF Finished, vars
  <1> QED BY <1>1, <1>4, <1>5, <1>6, <1>7, <1>8, <1>9, <1>10, <1>11, <1>12,
             MonitorOwed DEF Next, ClientStep, RunnerStep

\* As long as the switch of a member that died is absent, every backend that missed
\* nothing still has its deletion to handle, and has not been past the transaction
\* that puts the switch back.  So no interleaving of clients, burials and handlers
\* of other backends makes a backend drop a death that nobody has taken over.
THEOREM DeathsAreOwed == Spec => []DeathIsOwed
  <1>1. Init => Followed /\ Handling
    BY IdleCallType DEF Init, Followed, Handling, LastIn, Alive, Absent
  <1>2. TypeInv /\ Followed /\ Handling /\ [Next]_vars => Followed' /\ Handling'
    BY NextFollowed
  <1>3. Init => Owed /\ Outdated
    BY IdleCallType DEF Init, Owed, Outdated, Expired
  <1>4. TypeInv /\ Followed /\ Handling /\ Owed /\ Outdated /\ [Next]_vars => Owed' /\ Outdated'
    BY NextOwed
  <1>5. TypeInv /\ Handling /\ Owed /\ Outdated => DeathIsOwed
    <2> SUFFICES ASSUME TypeInv, Handling, Owed, Outdated, NEW b \in Backends, NEW s \in Switches,
                        ~missed[b], Expired(s)
                 PROVE  \E i \in 1 .. Len(inbox[b]) : StillToHandle(b, s, i)
      BY DEF DeathIsOwed
    <2>1. PICK i \in 1 .. Len(inbox[b]) : /\ LastIn(inbox[b], s, i) /\ inbox[b][i].type = "DELETE"
                                          /\ inbox[b][i].prev = gone[s]
      BY DEF Owed, Due
    <2>2. inbox[b][i].sw = s /\ ~isBuried(inbox[b][i])
      BY <2>1 DEF LastIn, isBuried, Expired
    <2>3. ASSUME i = 1, handler[b].stage # "idle"
          PROVE  handler[b].sw = s /\ handler[b].stage # "notify"
      <3>1. inbox[b] \in Seq(WatchEvents) /\ inbox[b] # <<>> /\ Head(inbox[b]).sw = handler[b].sw
        BY <2>3 DEF TypeInv, TypeOK, Working, Handling
      <3>2. Head(inbox[b]) = inbox[b][1]
        BY <3>1
      <3>3. handler[b].sw = s
        BY <2>2, <2>3, <3>1, <3>2
      <3> QED BY <2>1, <2>3, <3>3 DEF Outdated
    <2>4. StillToHandle(b, s, i)
      BY <2>1, <2>2, <2>3 DEF StillToHandle
    <2> QED BY <2>4
  <1>6. TypeInv /\ SafetyInv => TypeInv
    OBVIOUS
  <1> QED BY AlwaysSafe, <1>1, <1>2, <1>3, <1>4, <1>5, <1>6, PTL DEF Spec

=============================================================================
