# Verification of sensu-go

TLA+ models of the parts of sensu-go whose correctness depends on the order in
which goroutines, backends and etcd requests happen to run. Modules are
translated from the Go source; `PROJECT.json` maps every definition to the
lines it stands for, and lists the runs, mutants, findings, hazards and
theorems.

## The system

A sensu cluster is a number of **backends** that share an etcd store, and
**agents** that hold a websocket connection to one backend each. Within a
backend, daemons exchange messages over an in-process bus; between backends,
everything goes through etcd: keys under leases, transactions and watches.

| Component | State | Operations | Hard behaviour | What makes it correct |
|---|---|---|---|---|
| `backend/liveness` switch sets | one key per member under a lease; a callback queue per backend | Alive, Dead, Bury; monitor, handleEvent, callback goroutine | all backends handle every deletion; two-request Bury; restarted watches; leases running out between requests | one leader per death, no live member killed, countdown always running, callbacks in order, the dead come back at every TTL, the buried do not |
| `backend/messaging` WizardBus | topic map, bindings, done channels | Subscribe, Publish, Cancel, Stop | check-then-act on closed topics, sends without a lock, blocking sends | consumers of an open topic get every message, Publish and Cancel return |
| `backend/queue` and the ad hoc executor in `backend/schedulerd` | a work and an in-flight lane per backend | Enqueue, Dequeue, Ack, Nack; listenQueue | leases expiring with the copies, requests applied without an answer, read-then-watch, clocks that disagree | each addressed backend runs a request at most once and does not lose it |
| `backend/etcd` backend ID | lease and key of a backend | getLease, keepAliveLease | losing the lease | lanes exist only with the lease |
| `backend/ringv2` | ring members, trigger key, watchers | Add, Remove, Watch, advanceRing | every backend sees the trigger expire; sends under a mutex | the rotation advances once per interval, nobody is skipped |
| `backend/keepalived` | keepalive switches, failing keepalive records, entities | processKeepalives, dead, alive, handleUpdate, initFromStore | callbacks racing keepalives | an entity that reports is not left failing, and the other way round |
| `backend/eventd`, event store | events, check TTL switches | handleMessage, dead, UpdateEvent | read-merge-write without a transaction | occurrences and history follow the order of results |
| `backend/schedulerd` | check schedulers | check watcher, interval and cron schedulers | list-then-watch, blocking sends under a mutex | exactly the published checks are scheduled |
| `backend/agentd` | sessions | Start, Stop, sender, receiver | stop waits for the receiver, late ring removal | a session ends, and leaves nothing behind on bus and rings |
| `agent` | connection, send queue, checks in progress | connectionManager, sendLoop, handleCheck | reconnect, two-step in-progress test | a check runs once at a time, results survive reconnects |
| store watcher, resource cache | watch revision, cached resources | watch, rebuild | restart between revision and event | the cache converges to the store |
| `backend/pipelined`, `backend/pipeline` | none of its own | filter, mutate, handle | external commands | |
| `backend/apid`, `backend/api`, GraphQL, `backend/authentication`, `backend/authorization`, `backend/dashboardd`, `backend/tessend`, `asset`, `transport`, `command`, `cli` | stored resources | request handlers, I/O | | |

Interaction: `agentd` sessions subscribe to bus topics and add their agent to
rings; schedulers publish check requests to bus topics or take members from
rings; the executor does the same for ad hoc requests from the queue; results
and keepalives arrive through `agentd`, go over the bus to `eventd` and
`keepalived`, which use switch sets for TTLs and publish events, which
`pipelined` consumes.

## Modules

| Module | Models |
|---|---|
| `Switch` | what `backend/liveness` promises: an abstract switch, with no leases, requests or watches |
| `SwitchSet`, `SwitchSetProofs` | `backend/liveness/liveness.go`, any number of backends and callers; it implements `Switch` |
| `WizardBus`, `WizardBusProofs` | `backend/messaging/wizard_bus.go`, `wizard_topic.go`, one topic |
| `AdhocQueue`, `AdhocQueueProofs` | `backend/queue/queue.go`, `AdhocRequestExecutor` of `backend/schedulerd/executor.go`, the lease of `backend/etcd/id.go` |
| `Ring`, `RingProofs` | `backend/ringv2/ringv2.go`, one ring and one watch name, any number of backends |
| `Keepalived` | `backend/keepalived` for one entity, built on `Switch`, with the deletions of `backend/apid/actions` and the deregistration adapter |
| `Eventd`, `EventdProofs` | `backend/eventd` and `UpdateEvent` of `backend/store/etcd/event_store.go` for one entity, built on `Switch`, with the deletions of `backend/apid/actions` |
| `Session`, `SessionProofs` | `backend/agentd/session.go` with `transport`, the bus and the ring as the session uses them |
| `CheckWatcher`, `CheckWatcherProofs` | `backend/schedulerd/check_watcher.go`, the interval and round robin schedulers, `backend/store/etcd/watcher.go` |
| `Agent`, `AgentProofs` | `agent/agent.go`, `api.go`, `queue.go`, `check_handler.go` |
| `MC...` | small instances of these for TLC |

`Keepalived` and `Eventd` compose the daemon with the switches it uses by
`INSTANCE Switch`; that `SwitchSet` implements `Switch` is what justifies the
abstract switch there. `Session` does the same by hand for the bus and the
rings: of each it keeps what one agent's sessions can see.

Operators whose comment begins with "Mutant of" are deliberately wrong forms
of the definition that follows; no specification uses them. Each property of a
passing run has one that breaks it.

### Switch

`state` is what the key of a member says, `deaths` how often it vanished
without having been put back. `Put` is Alive, Dead or the first request of
Bury, `Vanish` a TTL that runs out (or a deletion that backends take for one),
`Forget` the deletion of a buried key, `TakeOver` a backend that puts the key
back and so leads that death, `Forgo` a death that nobody takes over any more:
the member came back first, or the watch missed it. `SwitchSet` maps `state` to
the value of its key and `deaths` to its deletions minus the deaths that were
led; `ImplementsSwitch` says that each of its steps is one of these or none.

### SwitchSet

`kv`, `leaseKey` and `live` are what etcd stores: the switch keys with value
and lease, the lease keys, and the leases that have not run out. A value is
the number the code formats and scans back: positive alive, negative dead, and
0 for the word "buried", which is what `Sscanf("%d")` leaves of it. `inbox[b]`
is what the watch of backend `b` has still to deliver, and the event that is
being handled. `handler`, `runner` and `client` are calls in progress in the
monitor, in the callback goroutine and in the workers that use the switch set.

Every etcd request is a step of its own. `PingGet`, `PingLease`, `PingTxn` are
the requests of `ping` (Alive and Dead; `getLeaseID` is the first two of
them). `ClientBuryPut`, `ClientBuryDelete` are those of `Bury`, and
`RunnerBury...` the same made for a callback. `HandleIgnored`, `HandleAlive`,
`HandleGet`, `HandleLease`, `HandleTxn`, `HandleTxnRefused`, `HandleNotify` are
the paths through `handleEvent`. `Rewatch` is the new watch after a
cancellation, `Crash` the end of a process and its restart, and `...Fail` a
request that returns an error. There is no clock: a lease may run out at any
time. What the callbacks of keepalived and eventd do is reduced to whether
they ask for a burial.

Not modelled: a watch event without its previous value (after a compaction),
for which the code falls back to 5 s; an error of `KeepAliveOnce` other than
that the lease is gone, which makes the code grant a second lease; a TTL
change, where the lease keeps its old duration.

### WizardBus

`topic` is the entry of the topic map, `done` and `leaked` the topics whose
done channel is closed and whose mutex was left locked, `bindings` who is bound
to which topic. A topic is named after the consumer whose `Subscribe` made it.
The steps are cut where the code holds no lock: reading `running`, looking the
topic up, binding, taking the snapshot of `Send`, each `safeSend`, each half of
`Stop`. `safeSend` chooses freely between a channel with room and a closed
`done` (`SendDelivered`, `SendDropped`), as `select` does. Consumers behave
like agent sessions: they receive until they quit, then `Cancel`, then close
the channel. Messages are counted, not named.

### AdhocQueue

`work[b]` and `inFlight[b]` are the two lanes of a backend, as sets of
requests; their order is that of the stamps that `Enqueue` takes before its
transaction. `exec[b]` is where `listenQueue` of backend `b` is: reading the
lane, opening its watch, waiting, moving the copy, publishing, acknowledging,
blocked, or gone. `enq[i]` is the `Enqueue` call for request `i`. A backend
that starts again has a new lease and is another member of `Backends`. An
error anywhere blocks the executor for ever, because the channel it reports to
is never made; so `Nack`, which comes after that, is never reached and is not
an action. A request that fails may have been applied all the same.

A stamp is whatever the clock of the calling backend says: the stamps of two
requests may be in any order, or equal, in which case the compare of the second
transaction fails and `Enqueue` tries the same keys again until the first copy
is gone (`Clash`). One stamp stands for those of all the copies of a request.

### Ring

`items` and `trigger` are the ring's keys in etcd; names of members are
numbers, because the order of the keys is all that matters of them. `inbox[b]`
holds the expired triggers that the watch of backend `b` has still to tell of,
`watch[b]` is where its watcher is, `notes[b]` the notifications that `Add`
left for it, `add[b]` a call of `Add`. `startWatchers`, `EnsureGet`,
`EnsureTxn` are the start of a watcher with `ensureActiveTrigger`; `HandleGet`,
`HandleAgain`, `HandleMore` the up to three reads of `nextInRing`; `HandleTxn`
the transaction of `advanceRing` and the message to the scheduler.
`WatchCancelled` replaces the watcher, `Crash` ends it, and `...Fail` is a
request that returns an error, having been applied or not. There is no clock:
the trigger may expire at any time.

`epoch`, `stable`, `told` and `lost` are history: the number of the last
expiry, whether the ring has changed since, what schedulers were told of it,
and whether a turn was given up because of an error.

Not modelled: the mutex of the ring, the capacities of notifiers and event
channels and `EventAdd`, `EventRemove`; the computation of cron intervals; the
pool of rings; a watch event without its previous value.

### Keepalived

One entity. `switch`, `deaths` are its abstract switch and `swAge` the time
since it was put. `entity`, `event`, `failing`, `inRing` are the stored entity
with the age of its last seen time, the status of its keepalive event, its
failing keepalive record, and its membership in the rings. `config` is what the
agent asks for: whether it is to be deregistered, and its critical timeout,
which is `Critical` or 0 (none, the default). Every request is a step: `Send`,
`WorkerAlive`, `DeleteFailing`, `UpdateEntity`, `RingAdd`, `PublishOK` are
`processKeepalives` with `handleUpdate`, in their order; `DeadGetEntity`,
`DeadGetEvent`, `DeadPublish`, `UpdateFailing`, `RingRemove` and the
deregistration and burial steps are `dead`; `InitList`, `InitEvent`, `InitDead`
and the burial are `initFromStore`, after a `Restart`, or in the beginning,
where the store may be empty or hold a failing record whose event is gone. The
API deletes the event (telling keepalived first, which buries the switch) or
the entity (events first). `WorkerFail` and `RunnerFail` are requests that
return an error; one of `RingAdd` is logged and the worker goes on.

The clock is a number of ages that stop at the timeouts: no comparison in the
code tells larger ones apart. A TTL never runs out early. Left out: what
eventd does with the published event (it is stored at once), registration
events, entities without keepalive configuration, more than one subscription.
The arguments of `livenessFactory` at `keepalived.go:237` are swapped; that has
no effect, since the factory returns the switch set that `initFromStore` made,
and is not modelled.

### Eventd

The events of one entity. A stored event has a status, whether it has a TTL,
its history, its occurrences and its watermark. `UpdateGet` and `UpdatePut` are
the read with its merge, and the write, of `UpdateEvent`: there is no
transaction around them. `Found` is the prefix read of
`GetEventByEntityCheck`; `Longer` says which check's name begins with which.
`MergeWith`, `Truncate` and `updateOccurrences` are the functions of those
names. After the write a worker asserts the switch of a check with a TTL or
buries the switch of one that had one. `DeadEntity`, `DeadKeepalive`,
`DeadEvent`, `DeadCreate`, `DeadGet`, `DeadPut` are the dead callback, which
runs on every backend and writes on the leader's; `DeadPanic` is its
dereference of an event that was deleted since it was read. `APIGet`,
`APIPublish`, `APIDelete` delete an event, and `APIDeleteEvents`,
`APIDeleteEntity` an entity. `Keepalive` and `UpdateEntity` stand for
keepalived: the record of a failing entity comes and goes, and the entity of a
deleted agent that still sends keepalives is stored again.

Left out: silencing, flapping (`state` is not kept), output truncation,
metrics; the key without an entity that `eventKey` makes for a round robin
check, whose switch `dead` buries (`eventd.go:207-209`, `330-333`); and the
keepalive check, for which `handleFailure` returns early (`eventd.go:410-414`).

### Session

Two sessions of one agent, the second opened when the first has lost its
connection and does not know yet. `Subscribe` and `SubscribeFail` are the loop
of `Start`; `ReceiverLoop`, `ReceiveMessage`, `ReceiveError`,
`ReceiveUndecodable`, `HandleFail` the receiver; `SenderCancelled`, `SendOK`,
`SendError` the select of the sender; `StopWait`, `StopUnsubscribe`,
`StopClose`, `StopRing`, `StopConn` the goroutine that tears the session down.
`PublishBegin` takes the copy of a topic's bindings and `PublishSend`,
`PublishSkip` go through it, as `safeSend` does. `Keepalived` is the part of
keepalived that adds the agent to its rings.

### CheckWatcher

One check. `log` is what etcd recorded of its changes, `stream` where the etcd
watch is, `revision` what the `Watcher` remembers of it, `results` its channel.
`WatchStart`, `WatchBreak`, `WatchCompacted`, `WatchDeliver` are the watcher;
`List` and `Schedule` the start of the `CheckWatcher`; `HandleCreate`,
`HandleUpdate`, `HandleDelete` and `Interrupt` its `handleWatchEvent`; the
`Loop...` actions the goroutine of a scheduler. A scheduler's `timer` is the
interval it really runs at: that of its timer, or of the ring watcher it made.
`missed` is history: a change that no event told of.

### Agent

`ready` and `unacked` are the durable queue of the agent's API; `held`, `sendq`
and `sending` what is on its way to the connection. `AddEvent`,
`QueueReceive`, `QueueSend` are `addEvent` and `handleAPIQueue`; `Connect`,
`Keepalive`, `LoopDone`, `LoopTake`, `SendOK`, `SendFail`, `CallbackAck`,
`CallbackNack` are `connectionManager` and `sendLoop` with `SendCallback`;
`ReceiveError` is `receiveLoop`. `Request`, `HandleCheck`, `SendFailure`,
`ExecuteCheck`, `SendResult` are `handleCheck` and `executeCheck` for one
check, `EscapeZombie` the timer of a command that cannot be killed. `Break`
loses the connection without notice, `Crash` ends the process and starts it
again. The queue in memory that `newQueue` makes for `/dev/null`
(`queue.go:68-70`), which promises nothing after a crash, is left out.

## Runs

| Run | Instance | Result |
|---|---|---|
| `switchset` | 2 backends, 2 callers, 1 member, TTLs 4 (refused) and 5, callback channel of 1, 2 calls, 1 lease runs out, 1 fault of any kind | all 8 properties hold, the refinement of `Switch` among them |
| `wizardbus` | 2 consumers, 2 publishers with 1 message each, channels of 1 | all 5 properties hold |
| `adhocqueue` | 2 backends, 2 requests with stamps 1 or 2, 1 error, death or lost lease | all 6 properties hold |
| `ring` | 2 backends, up to 3 members, 2 due at a time, 1 change of the ring, 2 expiries, 1 fault of any kind | all 4 properties hold |
| `keepalived` | 1 entity with or without deregistration, 1 worker, a warning timeout of 1 tick, a critical one of 2 or none, 1 death in handling, 1 incident | all 3 properties hold |
| `eventd` | 1 check, 1 worker, 1 backend, histories of 2, 2 results, 1 incident; agent or proxy entity | all 3 properties hold |
| `eventd_prefix` | 2 checks, the name of one begins with that of the other, 1 worker | `OwnHistory` violated |
| `session` | 2 sessions, 2 topics, check channel of 1, 1 fault | all 5 properties hold |
| `checkwatcher` | interval 1 or 2, round robin or not; 3 changes, 1 broken watch, result channel of 1 | all 3 properties hold |
| `checkwatcher_roundrobin` | the same without broken watches | `ScheduleIsRecalculated` violated |
| `agent` | 2 events, 2 requests, channel of 1, 1 broken connection, 1 crash | all 3 properties hold |
| `agent_format` | the same without faults | `BackendCanDecode` violated |

Why the bounds are enough. One member suffices because switches share nothing
but the queues of a backend; two backends are what a race for leadership
needs; a second call makes a member come back or be buried while the first
one's consequences are still being handled; a channel of one place makes the
monitor, or a publisher, wait. Two consumers give the topic a last subscriber
and a new one; two publishers can both hold snapshots. Two requests give a
lane an order, and two stamps let the clocks agree with it, contradict it or
clash; the one error may hit any request of any caller. Three members of which
two are due make a turn wrap around, with rings that are too small (1 member),
just large enough and larger; a second expiry finds watchers that are an
interval late.

In `keepalived` the worker, the dead callback, the API and `initFromStore` are
four goroutines on the same entity, each between any two requests of the
others; the agent may stop and come back any number of times, time has no
bound, and the incident may be a restart, a failed request, a missed expiry or
a deletion. The three classes of ages that the code distinguishes (fresh,
warning, critical) all occur. In `eventd` a history of 2 entries is the
shortest in which `updateOccurrences` sees both a change and a repetition, and
in which an entry is dropped; a count of 3 can exceed the history; expiries are
not bounded, so neither are the entries. One worker, the dead callback and the
API already come between each other's reads and writes; two workers are out of
TLC's reach here, and several workers and backends are left to the theorems.
Two sessions are a session and its successor; three changes with a break in
between make a check be created, retyped and deleted, and an update wait in the
result channel while the watch is down. Two events fill the agent's channel of
one and keep one waiting behind it.

Deadlock is not checked where the bounds let a system come to rest (results,
sessions or changes used up, nothing left to do).

### What the violations show

* **`OwnHistory`.** `GetEventByEntityCheck` reads with `WithPrefix` and takes
  the first key. For a check that has no event yet, the event of a check whose
  name begins with the same letters (`cpu` and `cpu2`) is found, and the first
  result is stored with the history, the occurrences and the watermark of that
  other check.
* **`BackendCanDecode`.** `addEvent` serializes an event with the format of the
  last connection and stores the bytes. What was accepted before the agent
  first connected, or before it connected to another kind of backend, is sent
  as it is over a connection for which another format was agreed on, and is
  acknowledged when it was written.
* **`ScheduleIsRecalculated`.** "When Interrupt is called, the schedule will be
  recalculated" (`schedulerd/interface.go:8-9`). A round robin scheduler that is
  interrupted keeps the watcher of a ring that needs as many agents as before
  (`roundrobin_interval.go:77-82`), and with it the interval that the watcher
  was created with.

### Where a comment says otherwise

Three comments do not agree with what the passing runs show:

* `messaging/message_bus.go:70-72` says that the bus makes a non-blocking send,
  and that a message is lost if the receiver is not ready. `safeSend` blocks: by
  `MissedOnlyIfClosed` only a closed topic makes a consumer miss a message, and
  a full channel holds the publisher up instead.
* `queue/queue.go:46` calls the queue FIFO. Its order is that of the clocks of
  several backends, and a request that `Dequeue` waited for is taken ahead of
  one that was put between the read and the watch. `ReadInOrder` is what holds.
* `store/etcd/event_store.go:320` says that occurrences are always incremented
  when the status is that of the previous result, and `TestCheckOccurrences`
  (`event_store_test.go:245-246`) expects 2 for a second OK. A first result is
  stored without a history, so a second one has a history of one entry and
  occurrences 1. `CountersAgree` counts the run in the history. The test starts
  from a fixture with a full history, and does not meet the case.

### What the models show without a run of its own

Behaviour of the code that the models contain, that the properties are stated
around, and that a reader should know of:

* A backend with an older deletion still to handle finds a buried switch gone
  and puts it back as dead (`liveness.go:368`). A new watch begins at the
  current revision, so a death before it is announced by nobody.
* A consumer that subscribes while the last one leaves may be bound to a
  closed topic, and messages for it may be dropped.
* A request put between the read and the watch of `Dequeue` wakes nobody, and
  is taken after the next one. A request whose stamp clashes with that of one in
  a lane keeps its `Enqueue` trying, without a pause, until that one is taken.
* When a request of `advanceRing` fails and no other backend puts the trigger,
  the ring stands still until a member is added or a watch is opened again.
* An agent without a critical timeout, which is the default
  (`agent/cmd/start.go:233`), never makes its silent entity worse than a warning:
  `SilentIsFailing` says "the worst status that its timeouts allow".
* `Delete` of an event with a TTL publishes it with the TTL disabled; a worker
  that stores that message after the deletion brings the event back. A
  deletion between the two reads of a dead callback ends the process
  (`DeadPanic`). The switch of a check is buried when it runs out while the
  keepalive is failing: if the agent returns and the check does not run again,
  its silence is not noticed. Of two results that are merged with the same
  event, the one stored first is lost; what is stored agrees with itself.
* Two requests for a check may both run, since the mark is tested and set in
  two steps; the first to finish removes it.
* A session whose `Start` fails never ends: its channel of subscriptions is
  not closed, the stop goroutine waits for it, and a publisher may wait for its
  check channel. An event that was written to a connection that is gone counts
  as sent.

### Fairness

Weak fairness for each goroutine that has begun something: a call goes on to
its next request, a monitor handles the next event, a callback goroutine runs
the next callback, an executor takes its next step, a ring's watcher and a call
of `Add` go on, a bound consumer keeps receiving, Stop finishes, workers, dead
callbacks and `initFromStore` go on, a session's goroutines and a scheduler's
loop do. Go's scheduler and etcd's answers (or errors) justify that. A `select`
with several ready cases chooses at random, so a case that is ready again and
again is taken: strong fairness for `SenderCancelled`, `Interrupt` and
`LoopEnd`. In `Keepalived` time passes, leases run out, and an agent that is up
sends keepalives; in `Session` a blocked read returns, because the heartbeat or
the operating system finds the connection gone; in `Agent` a backend can be
reached in the end, and the command of a check is assumed to end: a check with
`Timeout` 0 has nothing that would see to it (`command.go:166`). Nothing is
assumed of what may never happen: callers starting calls, results arriving,
agents stopping or returning, operators deleting, faults, consumers coming or
leaving, Stop. In `SwitchSet`, `Ring` and `WizardBus` leases need not run out.

## Proofs

Proved with TLAPS for every number of backends, callers, members, consumers,
publishers, sessions, topics, checks, workers, requests, events and faults, and
for every length of histories and capacity of channels, from the assumptions on
constants stated in the modules: positive fallback TTL and capacities, TTLs
natural numbers, `NoOne`, `NoItem`, `NoCheck` and the agent's `"none"` not in
the sets they complement, at least two results in a history and a bound on
counters above it. TLC evaluates them on every run. Every theorem
`Spec => []P` comes from an invariant that `Init` establishes, every action
keeps (one lemma per action or group of actions) and that implies `P`. The
bounds of the models (`Max...`) are constants like the others: the proofs do
not depend on their values.

* `SwitchSetProofs`: `TypeOK`, `LeadersBounded`, `CountdownRuns`,
  `BuriedIsTransient`, `NeverKillsTheLiving`, `AliveIsLast`, and
  `ImplementsSwitch`. None but the first is inductive.
  `LeadersBounded` follows from a balance: keys created by pings and burials
  plus keys put back, minus keys deleted, is the number of keys that exist, and
  a member's first key comes from a caller. `NeverKillsTheLiving` needs that a
  monitor acts on deletions that did happen, and that what it puts is not
  "buried". The refinement goes action by action: each step of `SwitchSet` is
  one of `Switch` on one member and leaves the others alone, or changes neither
  the keys' values nor the deaths; the balance shows that a handler that puts a
  key back takes over a death that is still open. `AliveIsLast` follows what a
  live key has caused in a backend from its watch event to the callback: the
  event is in the inbox, being handled, in the channel, or was run last.
  `DeathIsOwed` (theorem `DeathsAreOwed`): while a member that died is absent,
  every backend that missed nothing still has the deletion to handle. The
  invariant is about the last entry for a switch in each inbox, which is that
  deletion, and says that a handler past its transaction works on one that is
  out of date.
* `WizardBusProofs`: `TypeOK`, `OpenTopicIsCurrent`, `MissedOnlyIfClosed`,
  `GoneIsUnbound`. The invariant says who may hold `topicsMu` and where, that a
  consumer past `Subscribe` is bound to the topic it remembers, and that what a
  publisher still owes is owed to consumers in its snapshot or of a topic that
  is closed. `NobodyIsStuck` (theorem `NobodyGetsStuck`): whoever holds
  `topicsMu` does not wait for the mutex that `Close` leaves locked, and a
  `Send` waits only for a consumer that can receive or leave. It needs that only
  closed topics have their mutex left locked, that a topic that is looked up
  under `topicsMu` is not one of them, and that a publisher's list holds
  subscribers of its own topic.
* `AdhocQueueProofs`: `TypeOK`, `AtMostOnce`, `NothingLost`,
  `InFlightIsHeld`, `ReadInOrder`. The invariant places the copy of a request at
  every point: in no lane before the transaction, out of the work lane and
  unpublished when it is about to be published, nothing in flight before
  `tryDelete`. For the order nothing is known of the clocks. No two copies in a
  lane have the same stamp, because the transaction compares (`Distinct`);
  whatever was enqueued before a request has been put when that one is
  (`Past`); so what an executor has read has an earlier stamp than any of those
  that still wait in the lane (`FoundFirst`), and none of them is put later.
* `RingProofs`: `TypeOK`, `SchedulersAgree`, `TurnGoesOn`. Two watchers that
  handle the same expiry have read parts of the same rotation: what a watcher
  has in hand is the beginning of the members from the trigger's on, as far as
  it has read, and whole when it comes to the transaction. The members from a
  given one on are counted by rank; that ranks exist, grow with the members and
  have no gaps is shown by taking least elements of sets of natural numbers,
  where one would otherwise use induction. `TurnGoesOn` then follows from the
  cases of `nextInRing`: the turn is within the ring's end, or wraps around once.
  `TriggerIsDue` (theorem `TriggerIsSeenTo`): a ring with members and no trigger
  has a backend that has yet to start its watcher, or has an expiry or a new
  member to handle, unless a request has failed.
* `SessionProofs`: `TypeOK`, `NothingLeftBound`, and `EndedIsClean`, a
  stronger statement about a session whose `Stop` is done. The invariant relates
  the stages of the four goroutines: stop unsubscribes after the channel of
  subscriptions is closed, which `Start` does last. `AgentIsServed` (theorem
  `ConnectedIsServed`, also checked by the run) and `PublishIsLetGo` (theorem
  `PublishIsNeverLeft`): the session of a connected agent reads or has its
  connection still to close, and one that a `Publish` waits for has a sender or
  a stop that is to close its channel. They need that a goroutine that ends
  cancels the context. They do not say that stop gets there: after a `Start`
  that failed it waits for ever.
* `CheckWatcherProofs`: `TypeOK`, `NoOrphan`. The invariant says that the watch
  never goes back (what waits in the result channel is in order, and older than
  what comes next), that the registered scheduler was not told to stop, and that
  there is none before the first list. That there is always a name for a new
  scheduler follows from names not outrunning revisions. `CaughtUp` (theorem
  `SettledFollowsStore`): when all that is known is handled and nothing was
  missed, the check is scheduled as it is stored. The invariant says what the
  scheduler should be at any revision, from the history of the store
  (`History`), that the watch leaves no gap unless `missed` says so
  (`Unbroken`), that the scheduler is that of the last revision handled
  (`Follows`), and how the timer of an interval scheduler lags behind (`Timed`).
* `AgentProofs`: `TypeOK`, `KeptUntilSent`. An event is in one place: not
  accepted, in the queue, or taken from it and then exactly once in the hands of
  one goroutine or in one channel; what was taken is what is on its way. This
  needs that no event is twice in a channel, which the lemmas on queues carry.
  `NothingHangs` (theorem `NothingIsLeftHanging`): a check is marked as in
  progress only while one runs, although two may and the first to end takes the
  mark away; and `connectionManager` connects with nothing in its hands, while a
  sender whose context is done has a lost connection, on which its write fails.
* `EventdProofs`: `TypeOK`, `CountersAgree`. Between a read and a write of
  `UpdateEvent` anything may be stored, so the invariant does not compare a
  record on its way with the event it replaces. It says of each record by itself
  what it is: fresh, to be counted, or counted; counted records agree with
  themselves, exactly unless something was deleted or one status fills a full
  history. The lemmas on `MergeWith` and `updateOccurrences` carry this from
  record to record; those on `Run` say what appending a result and dropping the
  oldest do to the run at the end of a history of any length. Most delicate is
  the failure of a dead callback, which is merged with the event twice
  (`createFailedCheckEvent`, then `UpdateEvent`): its counter is right only
  because the event it was merged with is still there.
  `ApartKeepTheirHistory` says when `OwnHistory`, which a run refutes, does
  hold: if no check's name extends another's and nothing is deleted.
  `TTLIsWatched` (theorem `EventsAreWatched`): an event with a TTL has a switch
  that runs, an expiry to be handled or a worker about to assert it, unless the
  switch was buried or an expiry missed since it was last put. It needs the same
  of the failure that a dead callback is about to store (`FailureIsWatched`).

Only model-checked: the temporal properties (`ExpiredComesBack`,
`CallsReturn`, `BacklogDrains`, `TriggerComesBack`, `SilentIsFailing`,
`ReturnIsResolved`, `SilenceIsFound`, `SessionEnds`, `PublishReturns`,
`StaysInRing`, `FollowsStore`, `SentInTheEnd`), which rest on fairness and are
out of the prover's reach; and `TypeOK` of `Keepalived`, whose other properties
are temporal. For most of the temporal ones the safety they rest on is proved:
that in every state where something has yet to happen, somebody has a step ahead
that leads to it. That these steps are taken is the fairness that TLC's runs
assume.

| temporal property                          | proved                             |
|--------------------------------------------|------------------------------------|
| `ExpiredComesBack`                         | `DeathsAreOwed`                    |
| `CallsReturn`                              | `NobodyGetsStuck`                  |
| `TriggerComesBack`                         | `TriggerIsSeenTo`                  |
| `SessionEnds`, `StaysInRing`               | `ConnectedIsServed`                |
| `PublishReturns`                           | `PublishIsNeverLeft`               |
| `FollowsStore`                             | `SettledFollowsStore`              |
| `SentInTheEnd`                             | `NothingIsLeftHanging`             |
| `SilenceIsFound`                           | `EventsAreWatched`                 |
| `BacklogDrains`, `SilentIsFailing`, `ReturnIsResolved` | only model-checked     |

## Plan

1. All safety properties that the runs check are proved, but for `TypeOK` of
   `Keepalived`. Left are two safety statements of the kind in the table: that a
   failing keepalive record has a switch or an incident behind it, and that a
   request in the work lane has an executor that has yet to read the lane.
2. If time allows, models of what is missing: the watchers of a ring within one
   backend (mutex, notifiers, channels), the resource cache, the cron
   schedulers.

## Not modelled

The models cover the code in which the order of events decides: the liveness,
queue, ring, bus, keepalive, event, session, scheduler and agent code, a small
part of the repository's lines. The rest is not state machines:

* generated code, nearly half of the lines: protobuf (`*.pb.go`), GraphQL
  schemas (`*.gql.go`), embedded assets;
* request handlers (`backend/apid`, `backend/api`), GraphQL resolvers,
  `sensuctl`: each a read or a write of a stored value, with formatting. The
  two handlers that race daemons, the deletions of events and entities, are
  actions of `Eventd` and `Keepalived`;
* `backend/store/etcd` but for the event store and the watcher: single requests;
* authentication, authorization, token substitution, validation, filters and
  mutators: functions of one value;
* assets, command execution (but for `escapeZombie`), sockets, statsd,
  websockets, dashboards, telemetry: I/O;
* `backend` start and stop: a fixed list of daemons, with no protocol.

Of the components that are modelled in part: the mutex, notifiers and channels
of one backend's ring watchers (`ringv2.go:245` sends with the mutex held); the
resource cache, which lists and watches as the check watcher does; cron
schedulers, whose loop is that of the interval schedulers with another timer;
proxy check requests; hooks and assets of a check.
