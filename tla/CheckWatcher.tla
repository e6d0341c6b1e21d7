---------------------------- MODULE CheckWatcher ----------------------------
(****************************************************************************)
(* One check from the store to its scheduler: the Watcher over an etcd watch*)
(* (backend/store/etcd/watcher.go, watchers.go), the CheckWatcher that      *)
(* handles its events (backend/schedulerd/check_watcher.go) and the         *)
(* schedulers it starts, interrupts and stops (interval_scheduler.go,       *)
(* roundrobin_interval.go).  The check changes all the time; the watch      *)
(* breaks, starts late and runs into compactions.                           *)
(****************************************************************************)
EXTENDS Naturals, Sequences

CONSTANTS Configs,      \* what the check may be configured as: type and interval
          ResultCap,    \* events buffered between the watch and its consumer
          MaxChanges,   \* bound: changes of the check
          MaxBreaks     \* bound: broken watches

ASSUME CheckWatcherAssumption == /\ Configs \subseteq [type : {"interval", "roundrobin"},
                                                    interval : Nat \ {0}]
                                 /\ ResultCap \in Nat \ {0}
                                 /\ MaxChanges \in Nat /\ MaxBreaks \in Nat

VARIABLES stored,     \* the check in the store, or None
          log,        \* its changes so far, by revision
          compacted,  \* revisions below are compacted
          stream,     \* next revision of the etcd watch, 0: broken, not yet begun
          revision,   \* Watcher.revision: the revision to go on from, 0: unknown
          results,    \* revisions of the events on the way to the consumer
          breaks,     \* broken watches so far
          pc,         \* progress of the CheckWatcher
          check,      \* the check that is listed or handled
          item,       \* the scheduler registered for the check, 0: none
          sched,      \* the schedulers started so far
          known,      \* last revision that was listed, delivered or given up
          missed      \* last change that was missed and not made good for, 0: none

store == <<stored, log, compacted>>
watch == <<stream, revision, results, breaks>>
vars == <<store, watch, pc, check, item, sched, known, missed>>

None == [type |-> "none", interval |-> 0]
Intervals == {c.interval : c \in Configs}
Ids == 1 .. MaxChanges + 1
Unused == [check |-> None, last |-> 0, timer |-> 0, loop |-> "none", cancelled |-> FALSE]

Init == /\ stored \in Configs \cup {None}
        /\ log = <<>> /\ compacted = 1
        /\ stream = 0 /\ revision = 0 /\ results = <<>> /\ breaks = 0
        /\ pc = "list" /\ check = None
        /\ item = 0 /\ sched = [i \in Ids |-> Unused]
        /\ known = 0 /\ missed = 0

-----------------------------------------------------------------------------
(* The store.                                                               *)

\* What etcd reports when the check changes from old to new.
ChangeOf(old, new) ==
    IF old = None THEN [action |-> "create", check |-> new]
    ELSE IF new = None THEN [action |-> "delete", check |-> old]
    ELSE [action |-> "update", check |-> new]

\* The API creates, updates or deletes the check.
Change(new) ==
    /\ Len(log) < MaxChanges /\ new # stored
    /\ stored' = new
    /\ log' = Append(log, ChangeOf(stored, new))
    /\ UNCHANGED <<compacted, watch, pc, check, item, sched, known, missed>>

\* etcd forgets the revisions before r.
Compact(r) ==
    /\ r \in compacted + 1 .. Len(log)
    /\ compacted' = r
    /\ UNCHANGED <<stored, log, watch, pc, check, item, sched, known, missed>>

-----------------------------------------------------------------------------
(* The Watcher.                                                             *)

\* Where a watch begins.
From == IF revision = 0 THEN Len(log) + 1 ELSE revision

Watching == pc \in {"watch", "run", "interrupt"}

\* A watch is started, or started again.  Without a revision the changes since
\* the list, or since the broken watch began, are missed.
WatchStart ==
    /\ Watching /\ stream = 0
    /\ From >= compacted
    /\ stream' = From
    /\ pc' = IF pc = "watch" THEN "run" ELSE pc
    /\ missed' = IF From > known + 1 THEN From - 1 ELSE missed
    /\ UNCHANGED <<store, revision, results, breaks, check, item, sched, known>>

\* The revision to go on from is compacted: the Watcher goes on from the oldest
\* that is left, and GetCheckConfigWatcher drops its WatchError.
WatchCompacted ==
    /\ Watching /\ stream = 0
    /\ From < compacted
    /\ revision' = compacted
    /\ UNCHANGED <<store, stream, results, breaks, pc, check, item, sched, known,
                   missed>>

\* etcd has no leader, or the connection is lost.
WatchBreak ==
    /\ Watching /\ stream # 0 /\ breaks < MaxBreaks
    /\ stream' = 0 /\ breaks' = breaks + 1
    /\ UNCHANGED <<store, revision, results, pc, check, item, sched, known, missed>>

\* A deletion whose previous value is compacted becomes a WatchError, and is
\* dropped.
Parsed(r) == log[r].action = "delete" => r > compacted

\* The next event.  The revision is noted before the event is queued; a watch that
\* breaks in between still queues it, as the next one waits for its goroutine.
WatchDeliver ==
    /\ Watching /\ stream \in 1 .. Len(log)
    /\ Len(results) < ResultCap
    /\ stream' = stream + 1 /\ revision' = stream + 1 /\ known' = stream
    /\ results' = IF Parsed(stream) THEN Append(results, stream) ELSE results
    /\ missed' = IF Parsed(stream) THEN missed ELSE stream
    /\ UNCHANGED <<store, breaks, pc, check, item, sched>>

-----------------------------------------------------------------------------
(* The CheckWatcher.                                                        *)

\* A scheduler for check c is created, registered and started; its context is
\* that of schedulerd, and startScheduler refuses when that is done.
NewScheduler(c, s) ==
    LET i == CHOOSE x \in Ids : s[x] = Unused /\ \A y \in Ids : s[y] = Unused => x <= y
    IN  /\ item' = i
        /\ sched' = [s EXCEPT ![i] = [Unused EXCEPT !.check = c, !.last = c.interval,
                                                    !.loop = "start"]]

Stopped(i) == [sched EXCEPT ![i].cancelled = TRUE]

\* Mutant of startScheduler: a scheduler of another type is replaced, not stopped.
startSchedulerOver(c) ==
    IF item # 0 /\ sched[item].check.type = c.type
       THEN UNCHANGED <<item, sched>>
       ELSE NewScheduler(c, sched)

startScheduler(c) ==
    IF item # 0 /\ sched[item].check.type = c.type
       THEN UNCHANGED <<item, sched>>
       ELSE NewScheduler(c, IF item = 0 THEN sched ELSE Stopped(item))

\* Start: the checks are listed, ...
List ==
    /\ pc = "list"
    /\ check' = stored
    /\ known' = Len(log)
    /\ pc' = "schedule"
    /\ UNCHANGED <<store, watch, item, sched, missed>>

\* ... a scheduler is started for each, and the goroutine of the watcher begins.
Schedule ==
    /\ pc = "schedule"
    /\ IF check = None THEN UNCHANGED <<item, sched>> ELSE startScheduler(check)
    /\ pc' = "watch"
    /\ UNCHANGED <<store, watch, check, known, missed>>

\* handleWatchEvent takes the next event.
Take(action) ==
    /\ pc = "run"
    /\ results # <<>> /\ log[Head(results)].action = action
    /\ check' = log[Head(results)].check
    /\ results' = Tail(results)

\* A later change that is handled makes good for those that were missed.
MadeGood == missed' = IF Head(results) > missed THEN 0 ELSE missed

\* A create leaves a scheduler of the same type with the check it has.
HandleCreate ==
    /\ Take("create")
    /\ startScheduler(check')
    /\ UNCHANGED <<store, stream, revision, breaks, pc, known, missed>>

\* Mutant of HandleUpdate: an update of a check without a scheduler is dropped.
HandleUpdateKnown ==
    /\ Take("update")
    /\ IF item # 0 /\ sched[item].check.type = check'.type
          THEN pc' = "interrupt" /\ UNCHANGED <<item, sched>>
          ELSE pc' = pc /\ IF item = 0 THEN UNCHANGED <<item, sched>> ELSE startScheduler(check')
    /\ MadeGood
    /\ UNCHANGED <<store, stream, revision, breaks, known>>

\* Mutant of HandleUpdate: an update interrupts the scheduler whether or not there
\* is one.
HandleUpdateAlways ==
    /\ Take("update")
    /\ pc' = "interrupt"
    /\ MadeGood
    /\ UNCHANGED <<store, stream, revision, breaks, item, sched, known>>

HandleUpdate ==
    /\ Take("update")
    /\ IF item # 0 /\ sched[item].check.type = check'.type
          THEN pc' = "interrupt" /\ UNCHANGED <<item, sched>>
          ELSE pc' = pc /\ startScheduler(check')
    /\ MadeGood
    /\ UNCHANGED <<store, stream, revision, breaks, known>>

HandleDelete ==
    /\ Take("delete")
    /\ item' = 0
    /\ sched' = IF item = 0 THEN sched ELSE Stopped(item)
    /\ MadeGood
    /\ UNCHANGED <<store, stream, revision, breaks, pc, known>>

\* Interrupt hands the check to the loop of the scheduler, which must be there to
\* take it.  A timer is started again when the interval changed; a round robin
\* scheduler calls updateRings, which keeps the watcher of the ring, with the
\* interval it has.
Interrupt ==
    /\ pc = "interrupt" /\ sched[item].loop = "select"
    /\ sched' = [sched EXCEPT ![item].check = check, ![item].last = check.interval,
           ![item].loop = IF check.type = "interval" /\ check.interval # sched[item].last
                             THEN "start" ELSE "select"]
    /\ pc' = "run"
    /\ UNCHANGED <<store, watch, check, item, known, missed>>

-----------------------------------------------------------------------------
(* The loop of scheduler i.                                                 *)

\* The timer, or the watcher of the ring, gets the interval of the check.
LoopStart(i) ==
    /\ sched[i].loop = "start"
    /\ sched' = [sched EXCEPT ![i].loop = "select", ![i].timer = sched[i].check.interval]
    /\ UNCHANGED <<store, watch, pc, check, item, known, missed>>

\* The timer fires, is set to the interval of the check, and the check is
\* published.  A round robin scheduler publishes beside its loop.
LoopFire(i) ==
    /\ sched[i].loop = "select" /\ sched[i].check.type = "interval"
    /\ sched' = [sched EXCEPT ![i].loop = "publish", ![i].timer = sched[i].check.interval]
    /\ UNCHANGED <<store, watch, pc, check, item, known, missed>>

LoopPublished(i) ==
    /\ sched[i].loop = "publish"
    /\ sched' = [sched EXCEPT ![i].loop = "select"]
    /\ UNCHANGED <<store, watch, pc, check, item, known, missed>>

\* A scheduler that ended is forgotten.
LoopEnd(i) ==
    /\ sched[i].loop = "select" /\ sched[i].cancelled
    /\ sched' = [sched EXCEPT ![i] = Unused]
    /\ UNCHANGED <<store, watch, pc, check, item, known, missed>>

-----------------------------------------------------------------------------
LoopStep(i) == LoopStart(i) \/ LoopPublished(i) \/ LoopEnd(i)
HandleStep == HandleCreate \/ HandleUpdate \/ HandleDelete
WatchStep == WatchStart \/ WatchCompacted \/ WatchDeliver

Next ==
    \/ \E new \in Configs \cup {None} : Change(new)
    \/ \E r \in 1 .. MaxChanges : Compact(r)
    \/ WatchBreak \/ WatchStep
    \/ List \/ Schedule \/ HandleStep \/ Interrupt
    \/ \E i \in Ids : LoopStep(i) \/ LoopFire(i)

\* Goroutines go on.  A select with several cases ready takes each of them in the
\* end, hence SF for the end of a loop and for an interrupt.
Fairness ==
    /\ WF_vars(List) /\ WF_vars(Schedule) /\ WF_vars(WatchStep) /\ WF_vars(HandleStep)
    /\ SF_vars(Interrupt)
    /\ \A i \in Ids : WF_vars(LoopStep(i)) /\ SF_vars(LoopEnd(i))

Spec == Init /\ [][Next]_vars
FairSpec == Spec /\ Fairness

-----------------------------------------------------------------------------
(* Properties.                                                              *)

Schedulers == [check : Configs \cup {None}, last : Intervals \cup {0},
               timer : Intervals \cup {0}, cancelled : BOOLEAN,
               loop : {"none", "start", "select", "publish"}]

\* Every variable has its type; what is handled never runs ahead of the store, and
\* there is a scheduler to interrupt when one is interrupted.
TypeOK ==
    /\ stored \in Configs \cup {None} /\ check \in Configs \cup {None}
    /\ log \in Seq([action : {"create", "update", "delete"}, check : Configs])
    /\ compacted \in 1 .. MaxChanges + 1 /\ known \in 0 .. Len(log)
    /\ stream \in 0 .. Len(log) + 1 /\ revision \in 0 .. Len(log) + 1
    /\ results \in Seq(1 .. Len(log)) /\ Len(results) <= ResultCap
    /\ breaks \in 0 .. MaxBreaks /\ missed \in 0 .. Len(log)
    /\ pc \in {"list", "schedule", "watch", "run", "interrupt"}
    /\ item \in {0} \cup Ids /\ sched \in [Ids -> Schedulers]
    /\ pc = "interrupt" => item # 0

\* A scheduler that runs and was not told to stop is the one that is registered:
\* whatever is created, updated, retyped and deleted, no check is scheduled by a
\* scheduler that nobody can stop any more (check_watcher.go:46-84, 130-176).
NoOrphan == \A i \in Ids :
    sched[i] # Unused /\ ~sched[i].cancelled => item = i

\* What the registered scheduler schedules.
Scheduled == IF item = 0 THEN None ELSE sched[item].check

\* The scheduler comes to have the check as it is stored, although the watch breaks,
\* events wait and an update waits for the loop, and the timer of an interval
\* scheduler comes to have its interval.  (The watcher of the ring of a round robin
\* scheduler need not: see ScheduleIsRecalculated.)  A change is missed only between
\* the list and the watch, when a watch breaks before its first event, or by
\* compaction (check_watcher.go:88-110, watcher.go:72-108, 155-183); the next
\* update or deletion makes good for it.
FollowsStore == <>[](\/ missed # 0
                     \/ /\ Scheduled = stored
                        /\ stored.type = "interval" => sched[item].timer = stored.interval)

\* What interface.go:7-9 says of every Scheduler: "When Interrupt is called, the
\* schedule will be recalculated."  A scheduler that is back in its select runs at
\* the interval of its check.  It does not hold: updateRings keeps the watcher of a
\* ring that needs as many agents as before (roundrobin_interval.go:77-82), and
\* with it the interval the watcher was created with.
ScheduleIsRecalculated == \A i \in Ids :
    sched[i].loop = "select" => sched[i].timer = sched[i].check.interval

=============================================================================
