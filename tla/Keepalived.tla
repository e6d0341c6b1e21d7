----------------------------- MODULE Keepalived -----------------------------
(****************************************************************************)
(* How the backend watches one agent entity: backend/keepalived, over the   *)
(* abstract switch.  Keepalives of the agent go to the workers (one that    *)
(* waits in the channel waits at its worker here), which assert the switch, *)
(* update the entity in the store and publish an OK event.  When the switch *)
(* runs out, the dead callback reads the entity and its keepalive event and *)
(* publishes a warning or a critical event.  Operators delete the entity or *)
(* its keepalive event through the API.  Every store request is one step;   *)
(* what eventd does with a published event is the subject of Eventd, and it *)
(* is stored at once here.                                                  *)
(*                                                                          *)
(* Time is kept as ages, which stop growing at the timeouts: nothing tells  *)
(* larger ages apart.                                                       *)
(****************************************************************************)
EXTENDS Integers, Sequences

CONSTANTS Entity,       \* the entity
          Workers,      \* the goroutines of processKeepalives
          Warning,      \* keepalive timeout, and TTL of the switch
          Critical,     \* keepalive TTL, of an agent that sets one
          MaxDeaths,    \* bound: expiries being handled, and callbacks queued
          MaxIncidents  \* bound: API requests, failed requests, missed
                        \* expiries and restarts

ASSUME TimeoutAssumption == /\ Warning \in Nat \ {0}
                            /\ Critical \in Nat /\ Critical >= Warning
ASSUME BoundAssumption == /\ MaxDeaths \in Nat \ {0}
                          /\ MaxIncidents \in Nat

VARIABLES switch, deaths, \* the abstract switch
          swAge,      \* time since the switch was put
          up,         \* whether the agent sends keepalives
          worker,     \* worker -> progress with one message
          entity,     \* the stored entity: whether it exists, the age of its
                      \* last seen time
          config,     \* the agent's configuration: whether it is deregistered
                      \* when it dies, and its keepalive TTL (0, the default: none)
          event,      \* status of the stored keepalive event, or None
          failing,    \* whether there is a failing keepalive record
          inRing,     \* whether the entity is in the rings of its subscriptions
          callbacks,  \* dead callbacks that wait to run
          runner,     \* progress of the dead callback
          init,       \* progress of initFromStore
          api,        \* progress of an API request
          incidents,  \* incidents so far
          lost        \* history: it was buried, or an expiry was missed, since
                      \* the switch was last put

SW == INSTANCE Switch WITH Members <- {Entity}, state <- switch

store == <<entity, config, event, failing, inRing>>
vars == <<switch, deaths, swAge, up, worker, store, callbacks, runner,
          init, api, incidents, lost>>

None == -1
Statuses == 0 .. 2

\* The age of a timestamp, or Timeless where there is none.
Timeless == -1
Ages == 0 .. Critical
Aged(r) == [r EXCEPT !.age = IF @ \in 0 .. Critical - 1 THEN @ + 1 ELSE @]

Configs == [deregister : BOOLEAN, critical : {0, Critical}]
NoEntity == [exists |-> FALSE, age |-> Timeless]
IdleWorker == [stage |-> "idle", age |-> Timeless]
IdleRunner == [stage |-> "idle", age |-> Timeless]

\* The backend starts with an empty store, or again with one from which the
\* keepalive event of a failing entity was deleted while its record was left.
Init == /\ SW!Init
        /\ swAge = 0 /\ up = TRUE
        /\ worker = [w \in Workers |-> IdleWorker]
        /\ config \in Configs
        /\ \/ /\ entity = NoEntity /\ failing = FALSE
              /\ init = "done" /\ lost = FALSE
           \/ /\ entity = [exists |-> TRUE, age |-> Critical]
              /\ ~config.deregister /\ failing = TRUE
              /\ init = "list" /\ lost = TRUE
        /\ event = None /\ inRing = FALSE
        /\ callbacks = 0
        /\ runner = IdleRunner
        /\ api = "idle"
        /\ incidents = 0

-----------------------------------------------------------------------------
(* The agent, the clock and the API.                                        *)

At(w, stage) == worker[w].stage = stage
GoTo(w, stage) == worker' = [worker EXCEPT ![w].stage = stage]

Tick ==
    /\ swAge' = IF swAge < Warning THEN swAge + 1 ELSE swAge
    /\ worker' = [w \in Workers |-> Aged(worker[w])]
    /\ entity' = Aged(entity)
    /\ runner' = Aged(runner)
    /\ UNCHANGED <<switch, deaths, up, config, event, failing, inRing,
                   callbacks, init, api, incidents, lost>>

\* The session of the agent publishes a keepalive, and a worker takes it.  It
\* reads the entity, and publishes a registration event if there is none.
Send(w) ==
    /\ up /\ init = "done"
    /\ At(w, "idle")
    /\ worker' = [worker EXCEPT ![w] = [stage |-> "alive", age |-> 0]]
    /\ UNCHANGED <<switch, deaths, swAge, up, store, callbacks, runner, init,
                   api, incidents, lost>>

AgentStops ==
    /\ up
    /\ up' = FALSE
    /\ UNCHANGED <<switch, deaths, swAge, worker, store, callbacks,
                   runner, init, api, incidents, lost>>

AgentStarts ==
    /\ ~up
    /\ up' = TRUE
    /\ UNCHANGED <<switch, deaths, swAge, worker, store, callbacks,
                   runner, init, api, incidents, lost>>

\* Delete of the keepalive event: keepalived is told first, and a worker takes
\* that up.
DeleteEventBegin(w) ==
    /\ api = "idle" /\ incidents < MaxIncidents
    /\ event # None
    /\ At(w, "idle") /\ init = "done"
    /\ incidents' = incidents + 1
    /\ api' = "event"
    /\ worker' = [worker EXCEPT ![w].stage = "bury"]
    /\ UNCHANGED <<switch, deaths, swAge, up, store, callbacks,
                   runner, init, lost>>

DeleteEventEnd ==
    /\ api = "event"
    /\ api' = "idle"
    /\ event' = None
    /\ UNCHANGED <<switch, deaths, swAge, up, worker, entity, config, failing,
                   inRing, callbacks, runner, init, incidents, lost>>

\* Delete of the entity: its events go first.
DeleteEntityBegin ==
    /\ api = "idle" /\ incidents < MaxIncidents
    /\ entity.exists
    /\ incidents' = incidents + 1
    /\ api' = "entity"
    /\ event' = None
    /\ UNCHANGED <<switch, deaths, swAge, up, worker, entity, config, failing,
                   inRing, callbacks, runner, init, lost>>

DeleteEntityEnd ==
    /\ api = "entity"
    /\ api' = "idle"
    /\ entity' = NoEntity
    /\ UNCHANGED <<switch, deaths, swAge, up, worker, config, event, failing,
                   inRing, callbacks, runner, init, incidents, lost>>

-----------------------------------------------------------------------------
(* The switch.                                                              *)

\* The TTL of the switch is the keepalive timeout; it never runs out early.
Expire ==
    /\ switch[Entity] \in {"alive", "dead"}
    /\ swAge >= Warning
    /\ deaths[Entity] < MaxDeaths
    /\ SW!Vanish(Entity)
    /\ UNCHANGED <<swAge, up, worker, store, callbacks, runner, init,
                   api, incidents, lost>>

\* The monitor puts the switch back, and queues the dead callback.
TakeOver ==
    /\ init = "done"
    /\ callbacks < MaxDeaths
    /\ SW!TakeOver(Entity)
    /\ swAge' = 0
    /\ callbacks' = callbacks + 1
    /\ lost' = FALSE
    /\ UNCHANGED <<up, worker, store, runner, init, api, incidents>>

\* The switch was asserted before the monitor saw it vanish.
Passed ==
    /\ switch[Entity] # "absent"
    /\ SW!Forgo(Entity)
    /\ UNCHANGED <<swAge, up, worker, store, callbacks, runner, init,
                   api, incidents, lost>>

\* The monitor misses that the switch vanished.
Missed ==
    /\ switch[Entity] = "absent"
    /\ incidents < MaxIncidents
    /\ SW!Forgo(Entity)
    /\ incidents' = incidents + 1
    /\ lost' = (deaths[Entity] = 1)
    /\ UNCHANGED <<swAge, up, worker, store, callbacks, runner, init,
                   api>>

\* Alive and Dead.
Assert(s) ==
    /\ SW!Put(Entity, s)
    /\ swAge' = 0
    /\ lost' = FALSE

BuryPut == /\ SW!Put(Entity, "buried")
           /\ lost' = TRUE

\* The switch goes away.  If it was asserted since BuryPut, that is a death.
BuryDelete ==
    \/ SW!Forget(Entity)
    \/ switch[Entity] # "buried" /\ deaths[Entity] < MaxDeaths /\ SW!Vanish(Entity)
    \/ switch[Entity] = "absent" /\ UNCHANGED <<switch, deaths>>

-----------------------------------------------------------------------------
(* processKeepalives, one message at a time.                                *)

WorkerBuryPut(w) ==
    /\ At(w, "bury")
    /\ BuryPut
    /\ GoTo(w, "buried")
    /\ UNCHANGED <<swAge, up, store, callbacks, runner, init, api, incidents>>

WorkerBuryDelete(w) ==
    /\ At(w, "buried")
    /\ BuryDelete
    /\ worker' = [worker EXCEPT ![w] = IdleWorker]
    /\ UNCHANGED <<swAge, up, store, callbacks, runner, init, api, incidents, lost>>

WorkerAlive(w) ==
    /\ At(w, "alive")
    /\ Assert("alive")
    /\ GoTo(w, "failing")
    /\ UNCHANGED <<up, store, callbacks, runner, init, api, incidents>>

\* Mutant of DeleteFailing: only an entity whose event is failing has a record.
DeleteFailingIfFailing(w) ==
    /\ At(w, "failing")
    /\ failing' = (failing /\ event = 0)
    /\ GoTo(w, "entity")
    /\ UNCHANGED <<switch, deaths, swAge, up, entity, config, event, inRing,
                   callbacks, runner, init, api, incidents, lost>>

\* handleUpdate: the failing record, the entity, the rings, the event.
DeleteFailing(w) ==
    /\ At(w, "failing")
    /\ failing' = FALSE
    /\ GoTo(w, "entity")
    /\ UNCHANGED <<switch, deaths, swAge, up, entity, config, event, inRing,
                   callbacks, runner, init, api, incidents, lost>>

UpdateEntity(w) ==
    /\ At(w, "entity")
    /\ entity' = [exists |-> TRUE, age |-> worker[w].age]
    /\ worker' = [worker EXCEPT ![w] = [stage |-> "ring", age |-> Timeless]]
    /\ UNCHANGED <<switch, deaths, swAge, up, config, event, failing, inRing,
                   callbacks, runner, init, api, incidents, lost>>

\* An error of the ring is logged, and the event is published all the same.  (A
\* fatal one ends the process: Restart.)
RingAdd(w) ==
    /\ At(w, "ring")
    /\ \/ inRing' = TRUE /\ UNCHANGED incidents
       \/ /\ incidents < MaxIncidents
          /\ incidents' = incidents + 1
          /\ UNCHANGED inRing
    /\ GoTo(w, "publish")
    /\ UNCHANGED <<switch, deaths, swAge, up, entity, config, event, failing,
                   callbacks, runner, init, api, lost>>

PublishOK(w) ==
    /\ At(w, "publish")
    /\ event' = 0
    /\ worker' = [worker EXCEPT ![w] = IdleWorker]
    /\ UNCHANGED <<switch, deaths, swAge, up, entity, config, failing, inRing, callbacks, runner, init, api,
                   incidents, lost>>

\* A request fails without being fatal: the rest of the message's work is left.
WorkerFail(w) ==
    /\ worker[w].stage \in {"bury", "buried", "alive", "failing", "entity"}
    /\ incidents < MaxIncidents
    /\ incidents' = incidents + 1
    /\ worker' = [worker EXCEPT ![w] = IdleWorker]
    /\ UNCHANGED <<switch, deaths, swAge, up, store, callbacks, runner, init,
                   api, lost>>

-----------------------------------------------------------------------------
(* The dead callback, for the leader of the death.                          *)

Runs(stage) == runner.stage = stage
RunnerGoTo(stage) == runner' = [runner EXCEPT !.stage = stage]

\* Mutant of DeadGetEntity: there is no check for an entity that is gone.
DeadGetEntityUnchecked ==
    /\ Runs("idle") /\ callbacks > 0
    /\ callbacks' = callbacks - 1
    /\ runner' = [stage |-> IF config.deregister THEN "deregister" ELSE "event",
                  age |-> IF config.deregister THEN Timeless ELSE entity.age]
    /\ UNCHANGED <<switch, deaths, swAge, up, worker, store, init, api, incidents, lost>>

\* It reads the entity.  One that is gone is buried, one that is to be
\* deregistered is.
DeadGetEntity ==
    /\ Runs("idle") /\ callbacks > 0
    /\ callbacks' = callbacks - 1
    /\ runner' = [stage |-> IF ~entity.exists THEN "bury"
                            ELSE IF config.deregister THEN "deregister" ELSE "event",
                  age |-> IF config.deregister THEN Timeless ELSE entity.age]
    /\ UNCHANGED <<switch, deaths, swAge, up, worker, store, init, api,
                   incidents, lost>>

\* Deregister deletes the entity, then its events.
DeregisterEntity ==
    /\ Runs("deregister")
    /\ entity' = NoEntity
    /\ RunnerGoTo("deregister events")
    /\ UNCHANGED <<switch, deaths, swAge, up, worker, config, event, failing,
                   inRing, callbacks, init, api, incidents, lost>>

DeregisterEvents ==
    /\ Runs("deregister events")
    /\ event' = None
    /\ RunnerGoTo("bury")
    /\ UNCHANGED <<switch, deaths, swAge, up, worker, entity, config, failing,
                   inRing, callbacks, init, api, incidents, lost>>

DeadGetEvent ==
    /\ Runs("event")
    /\ runner' = IF event = None THEN [stage |-> "bury", age |-> Timeless]
                                 ELSE [runner EXCEPT !.stage = "publish"]
    /\ UNCHANGED <<switch, deaths, swAge, up, worker, store, callbacks,
                   init, api, incidents, lost>>

\* The status follows from the last seen time that was read.
StatusOf(age) == IF config.critical # 0 /\ age >= config.critical THEN 2
                 ELSE IF Warning # 0 /\ age >= Warning THEN 1 ELSE 0

DeadPublish ==
    /\ Runs("publish")
    /\ event' = StatusOf(runner.age)
    /\ runner' = [stage |-> "record", age |-> Timeless]
    /\ UNCHANGED <<switch, deaths, swAge, up, worker, entity, config, failing, inRing, callbacks, init,
                   api, incidents, lost>>

UpdateFailing ==
    /\ Runs("record")
    /\ failing' = TRUE
    /\ RunnerGoTo("ring")
    /\ UNCHANGED <<switch, deaths, swAge, up, worker, entity, config, event,
                   inRing, callbacks, init, api, incidents, lost>>

RingRemove ==
    /\ Runs("ring")
    /\ inRing' = FALSE
    /\ runner' = IdleRunner
    /\ UNCHANGED <<switch, deaths, swAge, up, worker, entity, config, event,
                   failing, callbacks, init, api, incidents, lost>>

RunnerBuryPut ==
    /\ Runs("bury")
    /\ BuryPut
    /\ RunnerGoTo("buried")
    /\ UNCHANGED <<swAge, up, worker, store, callbacks, init, api, incidents>>

RunnerBuryDelete ==
    /\ Runs("buried")
    /\ BuryDelete
    /\ runner' = IdleRunner
    /\ UNCHANGED <<swAge, up, worker, store, callbacks, init, api, incidents, lost>>

\* A request fails.  A failed deregistration is logged and the switch is buried
\* all the same; any other error ends the callback.
RunnerFail ==
    /\ ~Runs("idle")
    /\ incidents < MaxIncidents
    /\ incidents' = incidents + 1
    /\ runner' = IF runner.stage \in {"deregister", "deregister events"}
                    THEN [runner EXCEPT !.stage = "bury"] ELSE IdleRunner
    /\ UNCHANGED <<switch, deaths, swAge, up, worker, store, callbacks, init,
                   api, lost>>

-----------------------------------------------------------------------------
(* A restart of the backend, and initFromStore.                             *)

\* The process ends: after a fatal error of the store, or for another reason.
Restart ==
    /\ incidents < MaxIncidents
    /\ incidents' = incidents + 1
    /\ worker' = [w \in Workers |-> IdleWorker]
    /\ callbacks' = 0
    /\ runner' = IdleRunner
    /\ init' = "list" /\ api' = "idle"
    /\ UNCHANGED <<switch, deaths, swAge, up, store, lost>>

\* The failing records are listed, and the watch of the switches is opened:
\* what vanished before is not seen any more.
InitList ==
    /\ init = "list"
    /\ init' = IF failing THEN "event" ELSE "done"
    /\ deaths' = [deaths EXCEPT ![Entity] = 0]
    /\ lost' = (lost \/ switch[Entity] = "absent")
    /\ UNCHANGED <<switch, swAge, up, worker, store, callbacks, runner,
                   api, incidents>>

\* Mutant of InitEvent: a keepalive that is failing is left to its switch.
InitEventSkip ==
    /\ init = "event"
    /\ init' = IF event = None THEN "bury" ELSE "done"
    /\ lost' = (lost /\ event \in {None, 0})
    /\ UNCHANGED <<switch, deaths, swAge, up, worker, store, callbacks,
                   runner, api, incidents>>

\* The keepalive event of a failing record: from here on it is up to
\* initFromStore that a failing entity is watched.
InitEvent ==
    /\ init = "event"
    /\ init' = IF event = None THEN "bury" ELSE IF event = 0 THEN "done" ELSE "dead"
    /\ lost' = (lost /\ event \in {None, 0})
    /\ UNCHANGED <<switch, deaths, swAge, up, worker, store, callbacks,
                   runner, api, incidents>>

InitDead ==
    /\ init = "dead"
    /\ Assert("dead")
    /\ init' = "done"
    /\ UNCHANGED <<up, worker, store, callbacks, runner, api, incidents>>

InitBuryPut ==
    /\ init = "bury"
    /\ BuryPut
    /\ init' = "buried"
    /\ UNCHANGED <<swAge, up, worker, store, callbacks, runner, api, incidents>>

InitBuryDelete ==
    /\ init = "buried"
    /\ BuryDelete
    /\ init' = "done"
    /\ UNCHANGED <<swAge, up, worker, store, callbacks, runner, api, incidents, lost>>

-----------------------------------------------------------------------------
WorkerStep(w) == \/ WorkerBuryPut(w) \/ WorkerBuryDelete(w)
                 \/ WorkerAlive(w) \/ DeleteFailing(w) \/ UpdateEntity(w)
                 \/ RingAdd(w) \/ PublishOK(w)

RunnerStep == \/ DeadGetEntity \/ DeregisterEntity \/ DeregisterEvents \/ DeadGetEvent
              \/ DeadPublish \/ UpdateFailing \/ RingRemove
              \/ RunnerBuryPut \/ RunnerBuryDelete

InitStep == InitList \/ InitEvent \/ InitDead \/ InitBuryPut \/ InitBuryDelete

SwitchStep == Expire \/ TakeOver \/ Passed

APIStep == DeleteEventEnd \/ DeleteEntityEnd

Next ==
    \/ Tick \/ AgentStops \/ AgentStarts
    \/ \E w \in Workers : Send(w) \/ DeleteEventBegin(w)
    \/ DeleteEntityBegin \/ APIStep
    \/ SwitchStep \/ Missed
    \/ \E w \in Workers : WorkerStep(w) \/ WorkerFail(w)
    \/ RunnerStep \/ RunnerFail
    \/ Restart \/ InitStep

\* Time passes, leases run out and are seen to, goroutines go on, and an agent
\* that is up sends keepalives.  Nothing makes it stop or come back, operators
\* delete, or requests fail.
Fairness ==
    /\ WF_vars(Tick) /\ \A w \in Workers : WF_vars(Send(w))
    /\ WF_vars(Expire) /\ WF_vars(TakeOver) /\ WF_vars(Passed)
    /\ \A w \in Workers : WF_vars(WorkerStep(w))
    /\ WF_vars(RunnerStep) /\ WF_vars(InitStep) /\ WF_vars(APIStep)

Spec == Init /\ [][Next]_vars
FairSpec == Spec /\ Fairness

-----------------------------------------------------------------------------
(* Properties.                                                              *)

\* Every variable has its type.
TypeOK ==
    /\ switch \in [{Entity} -> SW!States] /\ deaths \in [{Entity} -> 0 .. MaxDeaths]
    /\ swAge \in 0 .. Warning /\ up \in BOOLEAN
    /\ worker \in [Workers -> [stage : {"idle", "bury", "buried", "ring", "publish"},
                               age : {Timeless}]
                         \cup [stage : {"alive", "failing", "entity"}, age : Ages]]
    /\ entity \in [exists : BOOLEAN, age : Ages \cup {Timeless}]
    /\ config \in Configs /\ event \in Statuses \cup {None}
    /\ failing \in BOOLEAN /\ inRing \in BOOLEAN
    /\ callbacks \in 0 .. MaxDeaths
    /\ runner \in [stage : {"idle", "deregister", "deregister events", "record", "ring",
                            "bury", "buried"}, age : {Timeless}]
                 \cup [stage : {"event", "publish"}, age : Ages]
    /\ init \in {"list", "event", "dead", "bury", "buried", "done"}
    /\ api \in {"idle", "event", "entity"}
    /\ incidents \in 0 .. MaxIncidents
    /\ lost \in BOOLEAN

\* The worst that becomes of a silent entity: an agent without a critical timeout,
\* which is the default (agent/cmd/start.go:233), never gets beyond a warning.
Worst == IF config.critical = 0 THEN 1 ELSE 2

\* An entity whose agent has fallen silent ends up with the worst status that its
\* timeouts allow, with a failing record and out of its rings, whatever keepalives,
\* callbacks and restarts were under way (keepalived.go:441-552, 167-218): unless
\* the agent comes back, the entity is gone, or the switch was buried or lost
\* since it was last put.
SilentIsFailing ==
    ~up /\ entity.exists ~> \/ up \/ ~entity.exists \/ lost
                             \/ (event = Worst /\ failing /\ ~inRing)

\* An agent whose keepalives keep its switch alive again is resolved for good:
\* its OK event is stored, its failing record is gone and it is in its rings,
\* although dead callbacks that read older data ran on (keepalived.go:564-613).
ReturnIsResolved ==
    <>[](up /\ switch[Entity] = "alive")
        => <>[](entity.exists /\ event = 0 /\ ~failing /\ inRing)

=============================================================================
