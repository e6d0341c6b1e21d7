--------------------------------- MODULE Ring ---------------------------------
(****************************************************************************)
(* The round-robin rings of the cluster: backend/ringv2, one ring and one   *)
(* watch name.                                                              *)
(*                                                                          *)
(* The members of a ring are etcd keys under leases, in the order of their  *)
(* names.  A trigger key holds the member whose turn is next; it is under a *)
(* lease as long as the interval.  When it runs out, the watcher of every   *)
(* backend reads the members that follow, tries to put the next trigger in  *)
(* a transaction that only the first one wins, and tells its scheduler the  *)
(* members it read.  Each etcd request is a step.                           *)
(*                                                                          *)
(* A watcher's channels, and the mutex of the ring, are not modelled here:  *)
(* a scheduler takes what it is told at once.                               *)
(****************************************************************************)
EXTENDS Integers, Sequences, FiniteSets

CONSTANTS Backends,     \* the backends that run schedulers and sessions
          Items,        \* names of members, as numbers in their order
          Values,       \* how many members are due at each interval
          MaxOps,       \* bound: members added, again added or gone
          MaxExpiries,  \* bound: triggers that run out
          FaultKinds,   \* which of "request", "watch" and "crash" can happen
          MaxFaults     \* bound: failed requests, cancelled watches, crashes

ASSUME RingAssumption == /\ Items \subseteq Nat \ {0}
                         /\ IsFiniteSet(Items)
                         /\ Values \in Nat \ {0}
ASSUME RingBounds == MaxOps \in Nat /\ MaxExpiries \in Nat /\ MaxFaults \in Nat

VARIABLES items,    \* the members of the ring
          trigger,  \* the member whose turn is next, 0 if there is no trigger
          inbox,    \* backend -> triggers that ran out, as its watch tells them
          watch,    \* backend -> progress of its watcher
          notes,    \* backend -> notifications its watcher has not taken
          add,      \* backend -> progress of Add
          ops, faults,  \* used up so far, against the bounds
          epoch,    \* history: how many triggers have run out
          stable,   \* history: the ring has not changed since the last one did
          told,     \* history: what schedulers were told of it meanwhile
          lost      \* history: a handler gave a turn up

ring == <<items, trigger>>
history == <<epoch, stable, told, lost>>
vars == <<ring, inbox, watch, notes, add, ops, faults, history>>

None == 0

\* prev is the trigger that ran out, epoch the number of that event, got the
\* members that were read.
Watches == [pc : {"down", "ensure", "ensureTxn", "idle", "again", "more", "txn"},
            prev : Items \cup {None}, epoch : Nat, got : Seq(Items)]
Down == [pc |-> "down", prev |-> None, epoch |-> 0, got |-> <<>>]
Idle == [Down EXCEPT !.pc = "idle"]
Adds == [pc : {"idle", "put", "notify"}, item : Items \cup {None}]
NoAdd == [pc |-> "idle", item |-> None]

\* The members outlive the backends.
Init == /\ items \in SUBSET Items
        /\ trigger = None
        /\ inbox = [b \in Backends |-> <<>>]
        /\ watch = [b \in Backends |-> Down]
        /\ notes = [b \in Backends |-> 0]
        /\ add = [b \in Backends |-> NoAdd]
        /\ ops = 0 /\ faults = 0
        /\ epoch = 0 /\ stable = FALSE /\ told = {} /\ lost = FALSE

-----------------------------------------------------------------------------
(* etcd.                                                                    *)

\* A Get of at most n keys, from k on, in the order of the keys.
Get(k, n) ==
    LET S == {x \in items : x >= k}
        m == IF n < Cardinality(S) THEN n ELSE Cardinality(S) IN
    [i \in 1..m |-> CHOOSE x \in S : Cardinality({y \in S : y < x}) = i - 1]

\* The lease of the trigger runs out: every open watch tells of it.
TriggerExpire ==
    /\ trigger # None
    /\ epoch < MaxExpiries
    /\ epoch' = epoch + 1
    /\ stable' = TRUE
    /\ told' = {}
    /\ trigger' = None
    /\ inbox' = [b \in Backends |->
                   IF watch[b].pc = "down" THEN inbox[b]
                     ELSE Append(inbox[b], [prev |-> trigger, epoch |-> epoch + 1])]
    /\ UNCHANGED <<items, watch, notes, add, ops, faults, lost>>

-----------------------------------------------------------------------------
(* Add and Remove.                                                          *)

\* A member goes: Remove was called, or its lease ran out.
Remove(v) ==
    /\ v \in items
    /\ ops < MaxOps
    /\ ops' = ops + 1
    /\ items' = items \ {v}
    /\ stable' = FALSE
    /\ UNCHANGED <<trigger, inbox, watch, notes, add, faults, epoch, told, lost>>

\* Add of a member that is there with the same keepalive does nothing; with
\* another one its lease is revoked, and the member is gone for a while, unless
\* the Revoke fails (or the KeepAliveOnce before it), which Add ignores.
AddBegin(b, v) ==
    /\ add[b].pc = "idle"
    /\ ops < MaxOps
    /\ ops' = ops + 1
    /\ add' = [add EXCEPT ![b] = [pc |-> "put", item |-> v]]
    /\ items' \in {items, items \ {v}}
    /\ stable' = (stable /\ items' = items)
    /\ UNCHANGED <<trigger, inbox, watch, notes, faults, epoch, told, lost>>

AddPut(b) ==
    /\ add[b].pc = "put"
    /\ items' = items \cup {add[b].item}
    /\ add' = [add EXCEPT ![b].pc = "notify"]
    /\ stable' = FALSE
    /\ UNCHANGED <<trigger, inbox, watch, notes, ops, faults, epoch, told, lost>>

\* Add returns an error, and notifies nobody.  If it was its Put that was applied
\* without an answer, the lease it revokes may outlive that as well.
AddFail(b) ==
    /\ add[b].pc = "put"
    /\ "request" \in FaultKinds /\ faults < MaxFaults
    /\ faults' = faults + 1
    /\ items' \in {items, items \ {add[b].item}, items \cup {add[b].item}}
    /\ add' = [add EXCEPT ![b] = NoAdd]
    /\ stable' = (stable /\ items' = items)
    /\ lost' = (lost \/ add[b].item \in items')
    /\ UNCHANGED <<trigger, inbox, watch, notes, ops, epoch, told>>

\* Mutant of notifyWatchers: the watcher learns of a new member from its watch.
notifyNobody(b) ==
    /\ add[b].pc = "notify"
    /\ add' = [add EXCEPT ![b] = NoAdd]
    /\ UNCHANGED <<ring, inbox, watch, notes, ops, faults, history>>

\* notifyWatchers reaches the watcher of this backend only.
notifyWatchers(b) ==
    /\ add[b].pc = "notify"
    /\ notes' = IF watch[b].pc = "down" THEN notes ELSE [notes EXCEPT ![b] = @ + 1]
    /\ add' = [add EXCEPT ![b] = NoAdd]
    /\ UNCHANGED <<ring, inbox, watch, ops, faults, history>>

-----------------------------------------------------------------------------
(* The watcher: startWatchers, ensureActiveTrigger.                         *)

startWatchers(b) ==
    /\ watch[b].pc = "down"
    /\ watch' = [watch EXCEPT ![b] = [Down EXCEPT !.pc = "ensure"]]
    /\ UNCHANGED <<ring, inbox, notes, add, ops, faults, history>>

\* The select takes a notification.
TakeNote(b) ==
    /\ watch[b].pc = "idle"
    /\ notes[b] > 0
    /\ notes' = [notes EXCEPT ![b] = @ - 1]
    /\ watch' = [watch EXCEPT ![b].pc = "ensure"]
    /\ UNCHANGED <<ring, inbox, add, ops, faults, history>>

\* hasTrigger.  Nothing is to be done if there is a trigger, or no member.
EnsureGet(b) ==
    /\ watch[b].pc = "ensure"
    /\ watch' = [watch EXCEPT ![b] = IF trigger # None \/ items = {} THEN Idle
                                       ELSE [Idle EXCEPT !.pc = "ensureTxn", !.got = Get(1, 1)]]
    /\ UNCHANGED <<ring, inbox, notes, add, ops, faults, history>>

\* The transaction puts the trigger if its version is 0.
PutTrigger(v) == trigger' = IF trigger = None THEN v ELSE trigger

EnsureTxn(b) ==
    /\ watch[b].pc = "ensureTxn"
    /\ PutTrigger(watch[b].got[1])
    /\ watch' = [watch EXCEPT ![b] = Idle]
    /\ UNCHANGED <<items, inbox, notes, add, ops, faults, history>>

\* A request of ensureActiveTrigger fails, and it begins again; the transaction
\* may have been applied.
EnsureFail(b) ==
    /\ watch[b].pc = "ensureTxn"
    /\ "request" \in FaultKinds /\ faults < MaxFaults
    /\ faults' = faults + 1
    /\ PutTrigger(watch[b].got[1]) \/ UNCHANGED trigger
    /\ watch' = [watch EXCEPT ![b] = [Idle EXCEPT !.pc = "ensure"]]
    /\ UNCHANGED <<items, inbox, notes, add, ops, history>>

\* A watch was cancelled: a new watcher, with a notifier of its own, takes the
\* place of the old one, and opens both watches at the current revision.
WatchCancelled(b) ==
    /\ watch[b].pc = "idle"
    /\ "watch" \in FaultKinds /\ faults < MaxFaults
    /\ faults' = faults + 1
    /\ inbox' = [inbox EXCEPT ![b] = <<>>]
    /\ watch' = [watch EXCEPT ![b].pc = "ensure"]
    /\ notes' = [notes EXCEPT ![b] = 0]
    /\ UNCHANGED <<ring, add, ops, history>>

-----------------------------------------------------------------------------
(* handleRingTrigger, advanceRing, nextInRing.                              *)

\* What nextInRing does with the keys a Get returned, if there were any: if they
\* are fewer than it asked for, it asks for more from the beginning.
GotSome(b, e, got) ==
    watch' = [watch EXCEPT ![b] = [pc |-> IF Len(got) < Values + 1 THEN "more" ELSE "txn",
                                   prev |-> e.prev, epoch |-> e.epoch, got |-> got]]

\* Mutant of HandleGet: the trigger is read again, and not taken from the event.
HandleGetCurrent(b) ==
    LET e == Head(inbox[b])
        got == Get(IF trigger # None THEN trigger ELSE e.prev, Values + 1) IN
    /\ watch[b].pc = "idle"
    /\ inbox[b] # <<>>
    /\ inbox' = [inbox EXCEPT ![b] = Tail(@)]
    /\ \/ got # <<>> /\ GotSome(b, e, got)
       \/ got = <<>> /\ watch' = [watch EXCEPT ![b] = [pc |-> "again", prev |-> e.prev,
                                                       epoch |-> e.epoch, got |-> <<>>]]
    /\ UNCHANGED <<ring, notes, add, ops, faults, history>>

\* nextInRing reads from the trigger on.
HandleGet(b) ==
    LET e == Head(inbox[b])
        got == Get(e.prev, Values + 1) IN
    /\ watch[b].pc = "idle"
    /\ inbox[b] # <<>>
    /\ inbox' = [inbox EXCEPT ![b] = Tail(@)]
    /\ \/ got # <<>> /\ GotSome(b, e, got)
       \/ got = <<>> /\ watch' = [watch EXCEPT ![b] = [pc |-> "again", prev |-> e.prev,
                                                       epoch |-> e.epoch, got |-> <<>>]]
    /\ UNCHANGED <<ring, notes, add, ops, faults, history>>

\* Mutant of HandleAgain: an empty ring is taken for a short one.
HandleAgainUnchecked(b) ==
    /\ watch[b].pc = "again"
    /\ GotSome(b, watch[b], Get(1, Values + 1))
    /\ UNCHANGED <<ring, inbox, notes, add, ops, faults, history>>

\* There was nothing: it reads from the beginning.  An empty ring has no turn.
HandleAgain(b) ==
    LET got == Get(1, Values + 1) IN
    /\ watch[b].pc = "again"
    /\ \/ got # <<>> /\ GotSome(b, watch[b], got)
       \/ got = <<>> /\ watch' = [watch EXCEPT ![b] = Idle]
    /\ UNCHANGED <<ring, inbox, notes, add, ops, faults, history>>

\* Mutant of HandleMore: the second read asks for as many as the first.
HandleMoreUnlimited(b) ==
    /\ watch[b].pc = "more"
    /\ watch' = [watch EXCEPT ![b].pc = "txn", ![b].got = @ \o Get(1, Values + 1)]
    /\ UNCHANGED <<ring, inbox, notes, add, ops, faults, history>>

\* What is missing is read from the beginning.
HandleMore(b) ==
    /\ watch[b].pc = "more"
    /\ watch' = [watch EXCEPT ![b].pc = "txn",
                              ![b].got = @ \o Get(1, Values + 1 - Len(@))]
    /\ UNCHANGED <<ring, inbox, notes, add, ops, faults, history>>

\* The first n of the keys, repeated as often as need be.
repeatKVs(kvs, n) == [i \in 1..n |-> kvs[((i - 1) % Len(kvs)) + 1]]

nextItem(got) == IF Len(got) < Values + 1 THEN got[1] ELSE got[Len(got)]

\* The transaction of advanceRing; then the scheduler is told, whoever won.
HandleTxn(b) ==
    LET w == watch[b] IN
    /\ w.pc = "txn"
    /\ PutTrigger(nextItem(w.got))
    /\ told' = IF w.epoch = epoch /\ stable THEN told \cup {repeatKVs(w.got, Values)} ELSE told
    /\ watch' = [watch EXCEPT ![b] = Idle]
    /\ UNCHANGED <<items, inbox, notes, add, ops, faults, epoch, stable, lost>>

\* A request of the handler fails: it reports the error, and its scheduler is
\* told nothing.  There is no trigger, unless the transaction was applied and its
\* lease, which is then revoked, outlives that for a while.
HandleFail(b) ==
    /\ watch[b].pc \in {"again", "more", "txn"}
    /\ "request" \in FaultKinds /\ faults < MaxFaults
    /\ faults' = faults + 1
    /\ watch' = [watch EXCEPT ![b] = Idle]
    /\ \/ UNCHANGED trigger /\ lost' = TRUE
       \/ watch[b].pc = "txn" /\ PutTrigger(nextItem(watch[b].got)) /\ UNCHANGED lost
    /\ UNCHANGED <<items, inbox, notes, add, ops, epoch, stable, told>>

\* The scheduler stops, or the whole process ends.
Crash(b) ==
    /\ watch[b].pc # "down"
    /\ "crash" \in FaultKinds /\ faults < MaxFaults
    /\ faults' = faults + 1
    /\ watch' = [watch EXCEPT ![b] = Down]
    /\ inbox' = [inbox EXCEPT ![b] = <<>>]
    /\ notes' = [notes EXCEPT ![b] = 0]
    /\ add' = [add EXCEPT ![b] = NoAdd]
    /\ UNCHANGED <<ring, ops, history>>

-----------------------------------------------------------------------------
WatcherStep(b) == \/ TakeNote(b) \/ EnsureGet(b) \/ EnsureTxn(b) \/ HandleGet(b)
                  \/ HandleAgain(b) \/ HandleMore(b) \/ HandleTxn(b)

AddStep(b) == AddPut(b) \/ notifyWatchers(b)

\* Nothing is under way, and the bounds leave nothing to begin.
Finished == /\ ops = MaxOps
            /\ trigger = None \/ epoch = MaxExpiries
            /\ \A b \in Backends : /\ watch[b].pc = "idle" /\ inbox[b] = <<>>
                                   /\ notes[b] = 0 /\ add[b].pc = "idle"
            /\ UNCHANGED vars

Next == \/ TriggerExpire
        \/ \E v \in Items : Remove(v)
        \/ \E b \in Backends :
             \/ \E v \in Items : AddBegin(b, v)
             \/ startWatchers(b) \/ WatcherStep(b) \/ AddStep(b)
             \/ AddFail(b) \/ EnsureFail(b) \/ HandleFail(b)
             \/ WatchCancelled(b) \/ Crash(b)
        \/ Finished

\* Watchers and callers of Add go on once they have begun.
Fairness == \A b \in Backends : WF_vars(WatcherStep(b)) /\ WF_vars(AddStep(b))

Spec == Init /\ [][Next]_vars
FairSpec == Spec /\ Fairness

-----------------------------------------------------------------------------
(* Properties.                                                              *)

\* Every variable has its type, and a handler that is about to put a trigger
\* has read a member.
TypeOK == /\ items \subseteq Items
          /\ trigger \in Items \cup {None}
          /\ inbox \in [Backends -> Seq([prev : Items, epoch : 1..MaxExpiries])]
          /\ watch \in [Backends -> Watches]
          /\ \A b \in Backends :
               watch[b].pc \in {"ensureTxn", "more", "txn"} => watch[b].got # <<>>
          /\ notes \in [Backends -> Nat]
          /\ add \in [Backends -> Adds]
          /\ ops \in 0..MaxOps /\ faults \in 0..MaxFaults
          /\ epoch \in 0..MaxExpiries
          /\ stable \in BOOLEAN /\ lost \in BOOLEAN
          /\ told \subseteq Seq(Items)

\* As long as no member comes or goes, the schedulers of all backends are told
\* the same members for the same turn, whoever wins the transaction and however
\* late they read: a check runs on each of them once, not once per backend.
SchedulersAgree == Cardinality(told) <= 1

\* The member that follows x in the circle.
Following(x) == IF \E y \in items : y > x THEN CHOOSE y \in items : y > x /\ \A z \in items : z > x => y <= z
                                          ELSE CHOOSE y \in items : \A z \in items : y <= z

\* The watcher of b puts the trigger for the turn that the last expiry began,
\* and the ring has not changed since.
Advances(b) == /\ watch[b].pc = "txn" /\ watch'[b].pc = "idle" /\ watch[b].epoch = epoch
               /\ trigger = None /\ trigger' # None /\ stable

\* The turn goes on after the last member that was told, while the ring has as
\* many members as are due: the pieces that nextInRing puts together from two
\* reads skip nobody and serve nobody twice (ringv2.go:445-508).
TurnGoesOn ==
    [][\A b \in Backends :
         Advances(b) /\ Values <= Cardinality(items)
             => /\ trigger' = Following(repeatKVs(watch[b].got, Values)[Values])
                /\ Cardinality({watch[b].got[i] : i \in 1..Values}) = Values]_vars

\* A ring with members has a trigger before long, so that the interval goes on,
\* as long as the backends' watchers run and no request fails: the transaction,
\* the notes that Add leaves for its own backend and the check that comes with
\* every new watch see to it (ringv2.go:336-378, 401-437).
TriggerComesBack ==
    (trigger = None /\ items # {})
        ~> trigger # None \/ items = {} \/ lost \/ \E b \in Backends : watch[b].pc = "down"

=============================================================================
