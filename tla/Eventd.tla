------------------------------- MODULE Eventd -------------------------------
(****************************************************************************)
(* How the events of one entity are kept: backend/eventd over the abstract  *)
(* switch, and UpdateEvent of the event store.  Workers merge each check    *)
(* result into the stored event, in a read and a write, and assert or bury  *)
(* the switch of a check with a TTL.  When a switch runs out, the dead      *)
(* callback of every backend reads the entity, its keepalive event and the  *)
(* check's event; the leader merges a failure into the latter.  Operators   *)
(* delete events and the entity through the API.                            *)
(****************************************************************************)
EXTENDS Integers, Sequences

CONSTANTS Checks,       \* names of checks
          Longer,       \* check -> the check whose name extends it, or NoCheck
          NoCheck,
          Workers,      \* eventd's handler goroutines
          Backends,     \* the callback goroutines of the backends
          Home,         \* worker -> its backend
          HistoryLimit, \* results that an event remembers
          MaxCount,     \* bound: occurrences are counted no further
          MaxDeaths,    \* bound: expiries being handled
          MaxResults,   \* bound: results that arrive
          MaxIncidents  \* bound: API requests, failed requests, missed expiries

ASSUME NameAssumption == /\ NoCheck \notin Checks
                         /\ Longer \in [Checks -> Checks \cup {NoCheck}]
ASSUME HomeAssumption == Home \in [Workers -> Backends]
ASSUME BoundAssumption == /\ HistoryLimit \in Nat \ {0, 1} /\ MaxCount \in Nat
                          /\ MaxCount > HistoryLimit /\ MaxDeaths \in Nat \ {0}
                          /\ MaxResults \in Nat /\ MaxIncidents \in Nat

VARIABLES switch, deaths, \* the abstract switches of the checks
          events,     \* check -> the stored event, or None
          ent,        \* whether the entity exists
          proxy,      \* whether it is a proxy entity
          kaFailing,  \* whether its keepalive event is failing
          worker,     \* worker -> progress with one message
          runner,     \* backend -> progress of its dead callback
          api,        \* progress of an API request
          results, incidents,  \* used up so far, against the bounds
          deleted,    \* history: whether anything was deleted
          lost        \* history: check -> its switch was buried, or an expiry
                      \* missed, since it was last put

SW == INSTANCE Switch WITH Members <- Checks, state <- switch

bounds == <<results, incidents, deleted>>
vars == <<switch, deaths, events, ent, proxy, kaFailing, worker, runner, api,
          bounds, lost>>

Statuses == 0 .. 1
TTLs == {"ttl", "no ttl", "deleted"}   \* positive, zero, deletedEventSentinel

Records == [status : Statuses, ttl : TTLs, hist : Seq(Statuses),
            occ : 0 .. MaxCount, wm : 0 .. MaxCount]
Result(status, ttl) == [status |-> status, ttl |-> ttl, hist |-> <<>>, occ |-> 0, wm |-> 0]
None == Result(0, "no ttl")   \* a stored event has occurred at least once

IdleWorker == [stage |-> "idle", check |-> NoCheck, rec |-> None, prevTTL |-> FALSE]
IdleRunner == [stage |-> "idle", check |-> NoCheck, rec |-> None, leader |-> FALSE]
IdleAPI == [stage |-> "idle", check |-> NoCheck, found |-> NoCheck, rec |-> None]

Init == /\ SW!Init
        /\ events = [c \in Checks |-> None]
        /\ ent = TRUE /\ proxy \in BOOLEAN /\ kaFailing = FALSE
        /\ worker = [w \in Workers |-> IdleWorker]
        /\ runner = [b \in Backends |-> IdleRunner]
        /\ api = IdleAPI
        /\ results = 0 /\ incidents = 0 /\ deleted = FALSE
        /\ lost = [c \in Checks |-> FALSE]

-----------------------------------------------------------------------------
(* The event store.                                                         *)

\* GetEventByEntityCheck reads with the name as a prefix: without an event of
\* its own, a check gets the event of one whose name is longer.
Found(c) == IF events[c] # None THEN c
            ELSE IF Longer[c] # NoCheck /\ events[Longer[c]] # None THEN Longer[c]
            ELSE NoCheck

\* Mutant of Truncate: the limit is checked before the result is added.
TruncateLate(h) == IF Len(h) > HistoryLimit + 1 THEN Tail(h) ELSE h

Truncate(h) == IF Len(h) > HistoryLimit THEN Tail(h) ELSE h

\* MergeWith: the history and the counters of the previous event are carried on.
MergeWith(r, prev) == [r EXCEPT !.hist = Truncate(Append(prev.hist, r.status)),
                                !.occ = prev.occ, !.wm = prev.wm]

Inc(n) == IF n < MaxCount THEN n + 1 ELSE n

\* Mutant of updateOccurrences: a change of status does not start over.
updateOccurrencesNoReset(r) ==
    [r EXCEPT !.occ = Inc(@), !.wm = IF r.occ < @ THEN @ ELSE Inc(@)]

updateOccurrences(r) ==
    LET n == Len(r.hist)
        same == n > 1 /\ r.hist[n] = r.hist[n - 1]
        incident == n > 1 /\ r.hist[n] # 0 /\ r.hist[n - 1] = 0
        occ == IF same THEN Inc(r.occ) ELSE 1
    IN  [r EXCEPT !.occ = occ,
                  !.wm = IF incident THEN 1 ELSE IF occ <= @ THEN @ ELSE Inc(@)]

\* What UpdateEvent is going to write, once it has read the previous event.
Updated(r, c) == updateOccurrences(IF Found(c) = NoCheck THEN r
                                   ELSE MergeWith(r, events[Found(c)]))

Store(c, r) == events' = [events EXCEPT ![c] = r]

-----------------------------------------------------------------------------
(* Switches.                                                                *)

Alive(c) == SW!Put(c, "alive") /\ lost' = [lost EXCEPT ![c] = FALSE]
BuryPut(c) == SW!Put(c, "buried") /\ lost' = [lost EXCEPT ![c] = TRUE]
BuryDelete(c) == \/ SW!Forget(c)
                 \/ switch[c] # "buried" /\ deaths[c] < MaxDeaths /\ SW!Vanish(c)
                 \/ switch[c] = "absent" /\ UNCHANGED <<switch, deaths>>

Expire(c) ==
    /\ switch[c] \in {"alive", "dead"} /\ deaths[c] < MaxDeaths
    /\ SW!Vanish(c)
    /\ UNCHANGED <<events, ent, proxy, kaFailing, worker, runner, api, bounds, lost>>

\* Backend b puts the switch back.  Every backend runs the dead callback, when
\* it is done with the one before.
TakeOver(b, c) ==
    /\ \A x \in Backends : runner[x].stage = "idle"
    /\ SW!TakeOver(c)
    /\ runner' = [x \in Backends |-> [IdleRunner EXCEPT !.stage = "entity", !.check = c,
                                                        !.leader = (x = b)]]
    /\ lost' = [lost EXCEPT ![c] = FALSE]
    /\ UNCHANGED <<events, ent, proxy, kaFailing, worker, api, bounds>>

\* The switch was asserted before anybody saw it vanish.
Passed(c) ==
    /\ switch[c] # "absent"
    /\ SW!Forgo(c)
    /\ UNCHANGED <<events, ent, proxy, kaFailing, worker, runner, api, bounds, lost>>

\* Nobody sees it vanish.
Missed(c) ==
    /\ switch[c] = "absent"
    /\ incidents < MaxIncidents /\ incidents' = incidents + 1
    /\ SW!Forgo(c)
    /\ lost' = [lost EXCEPT ![c] = TRUE]
    /\ UNCHANGED <<events, ent, proxy, kaFailing, worker, runner, api, results, deleted>>

-----------------------------------------------------------------------------
(* handleMessage.                                                           *)

At(w, stage) == worker[w].stage = stage
GoTo(w, stage) == worker' = [worker EXCEPT ![w].stage = stage]

\* A check result arrives.  A proxy entity is created if there is none; the event
\* of an agent is accepted whether its entity exists or not.
Receive(w, c, status, ttl) ==
    /\ At(w, "idle") /\ ttl # "deleted"
    /\ results < MaxResults /\ results' = results + 1
    /\ ent' = (ent \/ proxy)
    /\ worker' = [worker EXCEPT ![w] = [IdleWorker EXCEPT !.stage = "get", !.check = c,
                                                          !.rec = Result(status, ttl)]]
    /\ UNCHANGED <<switch, deaths, events, proxy, kaFailing, runner, api, incidents, deleted, lost>>

UpdateGet(w) ==
    LET c == worker[w].check IN
    /\ At(w, "get")
    /\ worker' = [worker EXCEPT ![w].stage = "put", ![w].rec = Updated(@, c),
                    ![w].prevTTL = Found(c) # NoCheck /\ events[Found(c)].ttl = "ttl"]
    /\ UNCHANGED <<switch, deaths, events, ent, proxy, kaFailing, runner, api, bounds, lost>>

\* What the switch needs after the event was stored.
AfterPut(m) == IF m.rec.ttl = "ttl" THEN "alive"
               ELSE IF m.prevTTL \/ m.rec.ttl = "deleted" THEN "bury" ELSE "idle"

UpdatePut(w) ==
    LET m == worker[w] IN
    /\ At(w, "put")
    /\ Store(m.check, m.rec)
    /\ worker' = [worker EXCEPT ![w] =
                    IF AfterPut(m) = "idle" THEN IdleWorker
                    ELSE [IdleWorker EXCEPT !.stage = AfterPut(m), !.check = m.check]]
    /\ UNCHANGED <<switch, deaths, ent, proxy, kaFailing, runner, api, bounds, lost>>

WorkerAlive(w) ==
    /\ At(w, "alive")
    /\ Alive(worker[w].check)
    /\ worker' = [worker EXCEPT ![w] = IdleWorker]
    /\ UNCHANGED <<events, ent, proxy, kaFailing, runner, api, bounds>>

WorkerBuryPut(w) ==
    /\ At(w, "bury")
    /\ BuryPut(worker[w].check)
    /\ GoTo(w, "buried")
    /\ UNCHANGED <<events, ent, proxy, kaFailing, runner, api, bounds>>

WorkerBuryDelete(w) ==
    /\ At(w, "buried")
    /\ BuryDelete(worker[w].check)
    /\ worker' = [worker EXCEPT ![w] = IdleWorker]
    /\ UNCHANGED <<events, ent, proxy, kaFailing, runner, api, bounds, lost>>

\* A request fails, and the rest of the message's work is left.  If that was the
\* request of Alive, the stored event is not watched.
WorkerFail(w) ==
    /\ ~At(w, "idle")
    /\ incidents < MaxIncidents /\ incidents' = incidents + 1
    /\ lost' = IF At(w, "alive") THEN [lost EXCEPT ![worker[w].check] = TRUE] ELSE lost
    /\ worker' = [worker EXCEPT ![w] = IdleWorker]
    /\ UNCHANGED <<switch, deaths, events, ent, proxy, kaFailing, runner, api, results, deleted>>

-----------------------------------------------------------------------------
(* The dead callback.                                                       *)

Runs(b, stage) == runner[b].stage = stage
RunnerGoTo(b, stage) == runner' = [runner EXCEPT ![b].stage = stage]

\* The switch of an entity that is gone is buried.  A key without an entity, which
\* eventd makes for a round robin check and which dead buries when it runs out
\* (eventd.go:207-209, 330-333), is left out.
DeadEntity(b) ==
    /\ Runs(b, "entity")
    /\ RunnerGoTo(b, IF ent THEN "keepalive" ELSE "bury")
    /\ UNCHANGED <<switch, deaths, events, ent, proxy, kaFailing, worker, api, bounds, lost>>

\* A failing keepalive says enough.
DeadKeepalive(b) ==
    /\ Runs(b, "keepalive")
    /\ RunnerGoTo(b, IF kaFailing THEN "bury" ELSE "event")
    /\ UNCHANGED <<switch, deaths, events, ent, proxy, kaFailing, worker, api, bounds, lost>>

\* Without an event the switch is buried; with one, the leader fails it, under
\* the name that the event carries.
DeadEvent(b) ==
    LET f == Found(runner[b].check) IN
    /\ Runs(b, "event")
    /\ runner' = [runner EXCEPT ![b] =
                    IF f = NoCheck THEN [@ EXCEPT !.stage = "bury"]
                    ELSE IF @.leader THEN [@ EXCEPT !.stage = "create", !.check = f]
                    ELSE IdleRunner]
    /\ UNCHANGED <<switch, deaths, events, ent, proxy, kaFailing, worker, api, bounds, lost>>

\* Mutant of DeadCreate: the failed event keeps the status of the last result.
DeadCreateKeepStatus(b) ==
    LET f == Found(runner[b].check) IN
    /\ Runs(b, "create") /\ f # NoCheck
    /\ runner' = [runner EXCEPT ![b].stage = "get", ![b].check = f,
                    ![b].rec = MergeWith(Result(events[f].status, events[f].ttl), events[f])]
    /\ UNCHANGED <<switch, deaths, events, ent, proxy, kaFailing, worker, api, bounds, lost>>

\* createFailedCheckEvent reads the event once more, and merges a failure.  The
\* keepalive check, which handleFailure leaves to keepalived (eventd.go:410-414),
\* is none of Checks.
DeadCreate(b) ==
    LET f == Found(runner[b].check) IN
    /\ Runs(b, "create") /\ f # NoCheck
    /\ runner' = [runner EXCEPT ![b].stage = "get", ![b].check = f,
                    ![b].rec = MergeWith(Result(1, events[f].ttl), events[f])]
    /\ UNCHANGED <<switch, deaths, events, ent, proxy, kaFailing, worker, api, bounds, lost>>

\* The event was deleted since it was read: createFailedCheckEvent dereferences
\* it, and the process ends with all that it had under way.
DeadPanic(b) ==
    /\ Runs(b, "create") /\ Found(runner[b].check) = NoCheck
    /\ runner' = [runner EXCEPT ![b] = IdleRunner]
    /\ lost' = [c \in Checks |-> lost[c] \/ \E w \in Workers :
                    Home[w] = b /\ At(w, "alive") /\ worker[w].check = c]
    /\ worker' = [w \in Workers |-> IF Home[w] = b THEN IdleWorker ELSE worker[w]]
    /\ UNCHANGED <<switch, deaths, events, ent, proxy, kaFailing, api, bounds>>

\* UpdateEvent of the failure.
DeadGet(b) ==
    /\ Runs(b, "get")
    /\ runner' = [runner EXCEPT ![b].stage = "put",
                                ![b].rec = Updated(@, runner[b].check)]
    /\ UNCHANGED <<switch, deaths, events, ent, proxy, kaFailing, worker, api, bounds, lost>>

DeadPut(b) ==
    /\ Runs(b, "put")
    /\ Store(runner[b].check, runner[b].rec)
    /\ runner' = [runner EXCEPT ![b] = IdleRunner]
    /\ UNCHANGED <<switch, deaths, ent, proxy, kaFailing, worker, api, bounds, lost>>

RunnerBuryPut(b) ==
    /\ Runs(b, "bury")
    /\ BuryPut(runner[b].check)
    /\ RunnerGoTo(b, "buried")
    /\ UNCHANGED <<events, ent, proxy, kaFailing, worker, api, bounds>>

RunnerBuryDelete(b) ==
    /\ Runs(b, "buried")
    /\ BuryDelete(runner[b].check)
    /\ runner' = [runner EXCEPT ![b] = IdleRunner]
    /\ UNCHANGED <<events, ent, proxy, kaFailing, worker, api, bounds, lost>>

RunnerFail(b) ==
    /\ ~Runs(b, "idle")
    /\ incidents < MaxIncidents /\ incidents' = incidents + 1
    /\ runner' = [runner EXCEPT ![b] = IdleRunner]
    /\ UNCHANGED <<switch, deaths, events, ent, proxy, kaFailing, worker, api, results, deleted, lost>>

-----------------------------------------------------------------------------
(* The API, and keepalived.                                                 *)

\* Delete reads the event.
APIGet(c) ==
    /\ api.stage = "idle" /\ incidents < MaxIncidents
    /\ Found(c) # NoCheck
    /\ incidents' = incidents + 1 /\ deleted' = TRUE
    /\ api' = [stage |-> IF events[Found(c)].ttl = "ttl" THEN "publish" ELSE "delete",
               check |-> c, found |-> Found(c), rec |-> events[Found(c)]]
    /\ UNCHANGED <<switch, deaths, events, ent, proxy, kaFailing, worker, runner, results, lost>>

\* It publishes the event with its TTL disabled; a worker of eventd takes it.
APIPublish(w) ==
    /\ api.stage = "publish" /\ At(w, "idle")
    /\ worker' = [worker EXCEPT ![w] = [IdleWorker EXCEPT !.stage = "get", !.check = api.found,
                                           !.rec = [api.rec EXCEPT !.ttl = "deleted"]]]
    /\ api' = [api EXCEPT !.stage = "delete"]
    /\ UNCHANGED <<switch, deaths, events, ent, proxy, kaFailing, runner, bounds, lost>>

APIDelete ==
    /\ api.stage = "delete"
    /\ Store(api.check, None)
    /\ api' = IdleAPI
    /\ UNCHANGED <<switch, deaths, ent, proxy, kaFailing, worker, runner, bounds, lost>>

\* Delete of the entity: its events go first.
APIDeleteEvents ==
    /\ api.stage = "idle" /\ incidents < MaxIncidents
    /\ ent
    /\ incidents' = incidents + 1 /\ deleted' = TRUE
    /\ events' = [c \in Checks |-> None]
    /\ api' = [IdleAPI EXCEPT !.stage = "entity"]
    /\ UNCHANGED <<switch, deaths, ent, proxy, kaFailing, worker, runner, results, lost>>

APIDeleteEntity ==
    /\ api.stage = "entity"
    /\ ent' = FALSE
    /\ api' = IdleAPI
    /\ UNCHANGED <<switch, deaths, events, proxy, kaFailing, worker, runner, bounds, lost>>

\* keepalived finds the agent silent, or hears from it again.
Keepalive ==
    /\ ~proxy
    /\ kaFailing' = ~kaFailing
    /\ UNCHANGED <<switch, deaths, events, ent, proxy, worker, runner, api, bounds, lost>>

\* keepalived stores the entity of an agent that was deleted, when it hears from it.
UpdateEntity ==
    /\ ~proxy /\ ~ent
    /\ ent' = TRUE
    /\ UNCHANGED <<switch, deaths, events, proxy, kaFailing, worker, runner, api, bounds, lost>>

-----------------------------------------------------------------------------
WorkerStep(w) == \/ UpdateGet(w) \/ UpdatePut(w) \/ WorkerAlive(w)
                 \/ WorkerBuryPut(w) \/ WorkerBuryDelete(w)

RunnerStep(b) == \/ DeadEntity(b) \/ DeadKeepalive(b) \/ DeadEvent(b) \/ DeadCreate(b)
                 \/ DeadPanic(b) \/ DeadGet(b) \/ DeadPut(b)
                 \/ RunnerBuryPut(b) \/ RunnerBuryDelete(b)

SwitchStep(c) == Expire(c) \/ Passed(c) \/ \E b \in Backends : TakeOver(b, c)

APIStep == APIDelete \/ APIDeleteEntity \/ \E w \in Workers : APIPublish(w)

Next ==
    \/ \E w \in Workers :
         \/ \E c \in Checks, s \in Statuses, t \in TTLs : Receive(w, c, s, t)
         \/ WorkerStep(w) \/ WorkerFail(w)
    \/ \E b \in Backends : RunnerStep(b) \/ RunnerFail(b)
    \/ \E c \in Checks : SwitchStep(c) \/ Missed(c) \/ APIGet(c)
    \/ APIStep \/ APIDeleteEvents
    \/ Keepalive \/ UpdateEntity

\* Goroutines go on, leases run out and are seen to.  Nothing makes results
\* arrive, operators delete, keepalives change or requests fail.
Fairness ==
    /\ \A w \in Workers : WF_vars(WorkerStep(w))
    /\ \A b \in Backends : WF_vars(RunnerStep(b))
    /\ \A c \in Checks : WF_vars(SwitchStep(c))
    /\ WF_vars(APIStep)

Spec == Init /\ [][Next]_vars
FairSpec == Spec /\ Fairness

-----------------------------------------------------------------------------
(* Properties.                                                              *)

Stages == {"idle", "get", "put", "alive", "entity", "keepalive", "event", "create",
           "bury", "buried", "publish", "delete"}

\* Every variable has its type, and a history has at most HistoryLimit entries.
TypeOK ==
    /\ switch \in [Checks -> SW!States] /\ deaths \in [Checks -> 0 .. MaxDeaths]
    /\ events \in [Checks -> Records]
    /\ \A c \in Checks : Len(events[c].hist) <= HistoryLimit
    /\ ent \in BOOLEAN /\ proxy \in BOOLEAN /\ kaFailing \in BOOLEAN
    /\ worker \in [Workers -> [stage : Stages, check : Checks \cup {NoCheck}, rec : Records,
                               prevTTL : BOOLEAN]]
    /\ runner \in [Backends -> [stage : Stages, check : Checks \cup {NoCheck}, rec : Records,
                                leader : BOOLEAN]]
    /\ api \in [stage : Stages, check : Checks \cup {NoCheck}, found : Checks \cup {NoCheck},
                rec : Records]
    /\ results \in 0 .. MaxResults /\ incidents \in 0 .. MaxIncidents
    /\ deleted \in BOOLEAN
    /\ lost \in [Checks -> BOOLEAN]

\* The number of results at the end of a history that are the same.
Run(h) == CHOOSE n \in 0 .. Len(h) :
    /\ \A i \in Len(h) - n + 1 .. Len(h) : h[i] = h[Len(h)]
    /\ n < Len(h) => h[Len(h) - n] # h[Len(h)]

\* However results, failures of the TTL and deletions overtake each other between
\* the read and the write of UpdateEvent, a stored event agrees with itself: its
\* last history entry is its status, its occurrences are the run of that status
\* in the history, and the watermark is no lower (event_store.go:313-337,
\* check.go:244-268).  Only a history that is full of one status may hide part of
\* its run; an event that outlived its deletion counts it.  A first result enters
\* no history, so the second one has occurrences 1 even if it repeats the first:
\* "Occurrences should always be incremented if the current Check status is the
\* same as the previous status" (event_store.go:320) does not hold of it.
CountersAgree == \A c \in Checks : LET e == events[c] IN
    e # None =>
        /\ e.hist # <<>> => e.hist[Len(e.hist)] = e.status
        /\ e.occ >= 1 /\ e.occ <= e.wm
        /\ e.occ >= Run(e.hist)
        /\ ~deleted /\ e.hist # <<>> /\ Run(e.hist) < HistoryLimit => e.occ = Run(e.hist)

\* A check with a TTL that falls silent is found out: its event is failing in the
\* end, whatever results were being merged, unless its TTL was disabled, its event
\* deleted, or its switch buried or missed since it was last put
\* (eventd.go:310-394).
SilenceIsFound == \A c \in Checks :
    events[c].ttl = "ttl" ~> events[c].ttl # "ttl" \/ events[c].status = 1 \/ lost[c]

\* "GetEventByEntityCheck gets an event by entity and check name"
\* (store/etcd/event_store.go:179): the first event of a check, which has no event
\* of its own to be merged with, does not begin with the history of another check.
OwnHistory ==
    [][\A c \in Checks : events[c] = None /\ events'[c] # None => events'[c].hist = <<>>]_vars

=============================================================================
