-------------------------- MODULE CheckWatcherProofs --------------------------
(****************************************************************************)
(* Proofs about CheckWatcher, for any configurations of the check, any      *)
(* capacity of the result channel and any number of changes and breaks.     *)
(****************************************************************************)
EXTENDS CheckWatcher, WellFoundedInduction, TLAPS

\* The revision that the watch tells of next.
NextRevision == IF stream # 0 THEN stream ELSE From

\* The watch never goes back: what is on its way to the consumer is older than
\* what it tells of next, and in order.
Forward ==
    /\ Len(log) <= MaxChanges /\ compacted <= Len(log) + 1
    /\ stream # 0 /\ revision # 0 => stream = revision
    /\ \A j \in 1 .. Len(results) : results[j] < NextRevision
    /\ \A j, k \in 1 .. Len(results) : j < k => results[j] < results[k]
    /\ pc \in {"list", "schedule"} => stream = 0 /\ results = <<>>

\* The oldest revision that has not been handled.
Oldest == IF results = <<>> THEN NextRevision ELSE results[1]

\* The registered scheduler runs and was not told to stop; a name is taken again
\* before a new one is used, so that names do not outrun revisions.
Registered ==
    /\ \A i \in Ids : sched[i].loop = "none" => sched[i] = Unused
    /\ \A i \in Ids : sched[i] # Unused => i <= Oldest
    /\ item # 0 => sched[item] # Unused /\ sched[item].cancelled = FALSE
    /\ pc \in {"list", "schedule"} => item = 0 /\ \A i \in Ids : sched[i] = Unused

\* The inductive invariant.
Inv == TypeOK /\ Forward /\ Registered /\ NoOrphan

\* No configuration is None, and None is a scheduler's check before it has one.
LEMMA Types ==
    /\ None \notin Configs /\ Unused \in Schedulers
    /\ \A c \in Configs : c.interval \in Intervals /\ c.type \in {"interval", "roundrobin"}
    /\ None.interval = 0 /\ 0 \notin Ids /\ Ids \subseteq Nat
  BY CheckWatcherAssumption DEF None, Unused, Schedulers, Intervals, Ids

\* A new scheduler takes the least name that is free.
LEMMA LeastFree ==
    ASSUME NEW s \in [Ids -> Schedulers], NEW k \in Nat, k < MaxChanges + 1,
           \A i \in Ids : s[i] # Unused => i <= k
    PROVE  LET i == CHOOSE x \in Ids : s[x] = Unused /\ \A y \in Ids : s[y] = Unused => x <= y
           IN  i \in Ids /\ s[i] = Unused /\ i <= k + 1
  <1> DEFINE T == {x \in Ids : s[x] = Unused}
  <1>1. k + 1 \in T
    BY CheckWatcherAssumption DEF Ids
  <1>2. PICK n \in T : \A m \in T : n <= m
    <2>1. T \subseteq Nat /\ T # {}
      BY <1>1, Types
    <2>2. PICK n \in T : \A m \in T : ~(<<m, n>> \in OpToRel(<, Nat))
      BY <2>1, NatLessThanWellFounded, WFMin, Zenon
    <2>3. \A m \in T : ~(m < n)
      BY <2>1, <2>2 DEF OpToRel
    <2> QED BY <2>1, <2>3
  <1>3. \E x \in Ids : s[x] = Unused /\ \A y \in Ids : s[y] = Unused => x <= y
    BY <1>2
  <1> QED BY <1>1, <1>3

\* The initial states satisfy the invariant.
LEMMA InitInv == Init => Inv
  <1> SUFFICES ASSUME Init PROVE Inv
    OBVIOUS
  <1> USE DEF Init
  <1>1. log = <<>> /\ results = <<>> /\ Len(log) = 0 /\ Len(results) = 0
    OBVIOUS
  <1>2. /\ log \in Seq([action : {"create", "update", "delete"}, check : Configs])
        /\ results \in Seq(1 .. Len(log))
    BY <1>1
  <1>3. sched \in [Ids -> Schedulers]
    BY Types
  <1>4. TypeOK
    BY <1>1, <1>2, <1>3, Types, CheckWatcherAssumption DEF TypeOK
  <1>5. Forward
    BY <1>1, CheckWatcherAssumption DEF Forward
  <1>6. Registered /\ NoOrphan
    BY Types DEF Registered, NoOrphan
  <1> QED BY <1>4, <1>5, <1>6 DEF Inv

\* The revisions are numbers within the log.
LEMMA Revisions ==
    ASSUME Inv
    PROVE  /\ Len(log) \in Nat /\ Len(results) \in Nat /\ compacted \in Nat /\ known \in Nat
           /\ From \in 1 .. Len(log) + 1
           /\ NextRevision \in 1 .. Len(log) + 1 /\ Oldest \in 1 .. Len(log) + 1
           /\ MaxChanges \in Nat /\ Len(log) <= MaxChanges
           /\ \A j \in 1 .. Len(results) : results[j] \in 1 .. Len(log)
           /\ results # <<>> => Len(results) >= 1
  <1> USE DEF Inv, TypeOK, Forward
  <1>1. Len(log) \in Nat /\ Len(results) \in Nat /\ known \in Nat /\ compacted \in Nat
    OBVIOUS
  <1>2. From \in 1 .. Len(log) + 1
    BY <1>1 DEF From
  <1>3. NextRevision \in 1 .. Len(log) + 1
    BY <1>1, <1>2 DEF NextRevision
  <1>4. \A j \in 1 .. Len(results) : results[j] \in 1 .. Len(log)
    OBVIOUS
  <1>5. results # <<>> => Len(results) >= 1
    OBVIOUS
  <1>6. Oldest \in 1 .. Len(log) + 1
    BY <1>1, <1>3, <1>4, <1>5 DEF Oldest
  <1> QED BY <1>1, <1>2, <1>3, <1>4, <1>5, <1>6, CheckWatcherAssumption

\* A step of the store or of the watch leaves the schedulers as they are, and does
\* not go back behind what is handled next.
LEMMA SameSchedulers ==
    ASSUME Inv, UNCHANGED <<item, sched>>, Oldest' \in Nat, Oldest <= Oldest',
           pc' \in {"list", "schedule", "interrupt"} => pc' = pc
    PROVE  Registered' /\ NoOrphan'
  <1>1. \A i \in Ids : i \in Nat
    BY Types
  <1>2. Oldest \in Nat
    BY Revisions
  <1>3. \A i \in Ids : sched'[i] # Unused => i <= Oldest'
    BY <1>1, <1>2 DEF Inv, Registered
  <1>4. NoOrphan'
    BY DEF Inv, NoOrphan
  <1> QED BY <1>3, <1>4 DEF Inv, Registered

\* A change is appended to the log.
LEMMA ChangeInv == ASSUME Inv, NEW new \in Configs \cup {None}, Change(new) PROVE Inv'
  <1> DEFINE E == [action : {"create", "update", "delete"}, check : Configs]
             e == ChangeOf(stored, new)
  <1> USE DEF Change, watch
  <1>1. e \in E
    BY Types DEF Inv, TypeOK, ChangeOf
  <1>2. log' = Append(log, e) /\ log \in Seq(E)
    BY DEF Inv, TypeOK
  <1> HIDE DEF e
  <1>3. log' \in Seq(E) /\ Len(log') = Len(log) + 1 /\ Len(log) + 1 <= MaxChanges
    BY <1>1, <1>2, Revisions
  <1>4. results' \in Seq(1 .. Len(log'))
    <2>1. results \in Seq(1 .. Len(log)) /\ results' = results
      BY DEF Inv, TypeOK
    <2>2. 1 .. Len(log) \subseteq 1 .. Len(log')
      BY <1>3, Revisions
    <2> QED BY <2>1, <2>2
  <1>5. TypeOK'
    <2>1. /\ known' \in 0 .. Len(log') /\ missed' \in 0 .. Len(log')
          /\ stream' \in 0 .. Len(log') + 1 /\ revision' \in 0 .. Len(log') + 1
      BY <1>3, Revisions DEF Inv, TypeOK
    <2> QED BY <1>3, <1>4, <2>1 DEF Inv, TypeOK
  <1>6. /\ From' \in Nat /\ From <= From' /\ NextRevision <= NextRevision' /\ NextRevision' \in Nat
        /\ Oldest <= Oldest' /\ Oldest' \in Nat
    <2>1. From' \in Nat /\ From <= From'
      BY <1>3, Revisions DEF From, Inv, TypeOK
    <2>2. NextRevision' \in Nat /\ NextRevision <= NextRevision'
      BY <2>1, Revisions DEF NextRevision, Inv, TypeOK
    <2>3. Oldest' \in Nat /\ Oldest <= Oldest'
      BY <2>2, Revisions DEF Oldest
    <2> QED BY <2>1, <2>2, <2>3
  <1>7. Forward'
    <2>1. \A j \in 1 .. Len(results) : results[j] < NextRevision'
      BY <1>6, Revisions DEF Inv, Forward
    <2> QED BY <1>3, <2>1, Revisions DEF Inv, Forward
  <1>8. Registered' /\ NoOrphan'
    BY <1>6, SameSchedulers
  <1> QED BY <1>5, <1>7, <1>8 DEF Inv

\* Compaction touches nothing else.
LEMMA CompactInv == ASSUME Inv, NEW r \in 1 .. MaxChanges, Compact(r) PROVE Inv'
  <1> USE DEF Compact, watch
  <1>1. TypeOK'
    BY Revisions DEF Inv, TypeOK
  <1>2. From' = From /\ NextRevision' = NextRevision /\ Oldest' = Oldest
    BY DEF From, NextRevision, Oldest
  <1>3. Forward'
    BY <1>2, Revisions DEF Inv, Forward
  <1>4. Registered' /\ NoOrphan'
    BY <1>2, Revisions, SameSchedulers
  <1> QED BY <1>1, <1>3, <1>4 DEF Inv

\* A watch that starts goes on where From says.
LEMMA WatchStartInv == ASSUME Inv, WatchStart PROVE Inv'
  <1> USE DEF WatchStart, store, Watching
  <1>1. From \in 1 .. Len(log) + 1 /\ From = NextRevision
    BY Revisions DEF NextRevision
  <1>2. TypeOK'
    BY <1>1, Revisions DEF Inv, TypeOK
  <1>3. NextRevision' = NextRevision /\ Oldest' = Oldest
    BY <1>1 DEF NextRevision, Oldest
  <1>4. Forward'
    BY <1>1, <1>3, Revisions DEF Inv, Forward, From
  <1>5. Registered' /\ NoOrphan'
    BY <1>3, Revisions, SameSchedulers
  <1> QED BY <1>2, <1>4, <1>5 DEF Inv

\* A compacted revision is passed over.
LEMMA WatchCompactedInv == ASSUME Inv, WatchCompacted PROVE Inv'
  <1> USE DEF WatchCompacted, store, Watching
  <1>1. /\ NextRevision = From /\ From' = compacted /\ NextRevision' = compacted
        /\ compacted \in 1 .. Len(log) + 1
    BY Revisions DEF NextRevision, From, Inv, TypeOK, Forward
  <1>2. TypeOK'
    BY <1>1, Revisions DEF Inv, TypeOK
  <1>3. NextRevision < NextRevision' /\ Oldest <= Oldest' /\ Oldest' \in Nat
    BY <1>1, Revisions DEF Oldest
  <1>4. Forward'
    BY <1>1, <1>3, Revisions DEF Inv, Forward
  <1>5. Registered' /\ NoOrphan'
    BY <1>3, Revisions, SameSchedulers
  <1> QED BY <1>2, <1>4, <1>5 DEF Inv

\* A broken watch does not go back when it starts again.
LEMMA WatchBreakInv == ASSUME Inv, WatchBreak PROVE Inv'
  <1> USE DEF WatchBreak, store, Watching
  <1>1. NextRevision = stream /\ NextRevision' = From /\ stream <= From
    BY Revisions DEF NextRevision, From, Inv, TypeOK, Forward
  <1>2. TypeOK'
    BY CheckWatcherAssumption DEF Inv, TypeOK
  <1>3. NextRevision <= NextRevision' /\ Oldest <= Oldest' /\ Oldest' \in Nat /\ NextRevision' \in Nat
    BY <1>1, Revisions DEF Oldest
  <1>4. Forward'
    <2>1. \A j \in 1 .. Len(results) : results[j] < NextRevision'
      BY <1>3, Revisions DEF Inv, Forward
    <2> QED BY <2>1 DEF Inv, Forward
  <1>5. Registered' /\ NoOrphan'
    BY <1>3, SameSchedulers
  <1> QED BY <1>2, <1>4, <1>5 DEF Inv

\* An event that is delivered is newer than all that wait.
LEMMA WatchDeliverInv == ASSUME Inv, WatchDeliver PROVE Inv'
  <1> USE DEF WatchDeliver, store, Watching
  <1>1. /\ NextRevision = stream /\ NextRevision' = stream + 1 /\ From' = stream + 1
        /\ stream \in 1 .. Len(log)
    BY Revisions DEF NextRevision, From, Inv, TypeOK
  <1>2. results \in Seq(1 .. Len(log)) /\ Len(results) < ResultCap
    BY DEF Inv, TypeOK
  <1>3. CASE Parsed(stream)
    <2>1. results' = Append(results, stream)
      BY <1>3
    <2>2. results' \in Seq(1 .. Len(log)) /\ Len(results') = Len(results) + 1 /\ results' # <<>>
      <3> HIDE DEF WatchDeliver
      <3>1. results' \in Seq(1 .. Len(log)) /\ Len(results') = Len(results) + 1
        BY <1>1, <1>2, <2>1
      <3> QED BY <3>1, Revisions
    <2>3. \A j \in 1 .. Len(results') : results'[j] = IF j = Len(results') THEN stream ELSE results[j]
      BY <1>1, <1>2, <2>1
    <2>4. TypeOK'
      <3>1. Len(results') <= ResultCap
        BY <1>2, <2>2, Revisions, CheckWatcherAssumption
      <3>2. /\ stream' \in 0 .. Len(log) + 1 /\ revision' \in 0 .. Len(log) + 1
            /\ known' \in 0 .. Len(log) /\ missed' = missed
        BY <1>1, <1>3, Revisions
      <3> QED BY <2>2, <3>1, <3>2 DEF Inv, TypeOK
    <2>5. Forward'
      <3>1. \A j \in 1 .. Len(results) : results[j] < stream /\ results[j] \in Nat
        BY <1>1, Revisions DEF Inv, Forward
      <3>2. \A j \in 1 .. Len(results') : results'[j] < NextRevision'
        BY <1>1, <2>2, <2>3, <3>1, Revisions
      <3>3. \A j, l \in 1 .. Len(results') : j < l => results'[j] < results'[l]
        <4> SUFFICES ASSUME NEW j \in 1 .. Len(results'), NEW l \in 1 .. Len(results'), j < l
                     PROVE  results'[j] < results'[l]
          OBVIOUS
        <4>1. j \in 1 .. Len(results) /\ results'[j] = results[j]
          BY <2>2, <2>3, Revisions
        <4>2. CASE l = Len(results')
          BY <4>1, <4>2, <2>3, <3>1
        <4>3. CASE l # Len(results')
          <5>1. l \in 1 .. Len(results) /\ results'[l] = results[l]
            BY <4>3, <2>2, <2>3, Revisions
          <5> QED BY <4>1, <5>1 DEF Inv, Forward
        <4> QED BY <4>2, <4>3
      <3>4. stream' = revision' /\ UNCHANGED <<log, compacted, pc>>
        OBVIOUS
      <3> QED BY <3>2, <3>3, <3>4 DEF Inv, Forward
    <2>6. Oldest' \in Nat /\ Oldest <= Oldest'
      BY <1>1, <2>2, <2>3, Revisions DEF Oldest
    <2> QED BY <2>4, <2>5, <2>6, SameSchedulers DEF Inv
  <1>4. CASE ~Parsed(stream)
    <2>1. results' = results
      BY <1>4
    <2>2. TypeOK'
      BY <1>1, <2>1, Revisions DEF Inv, TypeOK
    <2>3. Forward'
      BY <1>1, <2>1, Revisions DEF Inv, Forward
    <2>4. Oldest' \in Nat /\ Oldest <= Oldest'
      BY <1>1, <2>1, Revisions DEF Oldest
    <2> QED BY <2>2, <2>3, <2>4, SameSchedulers DEF Inv
  <1> QED BY <1>3, <1>4

-----------------------------------------------------------------------------
(* The CheckWatcher.                                                        *)

\* What a scheduler that is told to stop is.
LEMMA StoppedType ==
    ASSUME Inv, item # 0
    PROVE  /\ item \in Ids /\ Stopped(item) \in [Ids -> Schedulers]
           /\ Stopped(item)[item] # Unused /\ Stopped(item)[item].cancelled = TRUE
           /\ Stopped(item)[item].loop = sched[item].loop
           /\ \A i \in Ids \ {item} : Stopped(item)[i] = sched[i]
  <1>1. item \in Ids /\ sched[item] \in Schedulers /\ sched \in [Ids -> Schedulers]
    BY DEF Inv, TypeOK
  <1>2. [sched[item] EXCEPT !.cancelled = TRUE] \in Schedulers
    BY <1>1 DEF Schedulers
  <1>3. Stopped(item)[item] = [sched[item] EXCEPT !.cancelled = TRUE]
    BY <1>1 DEF Stopped
  <1>4. /\ Stopped(item)[item].cancelled = TRUE
        /\ Stopped(item)[item].loop = sched[item].loop
    BY <1>1, <1>3 DEF Schedulers
  <1>5. Stopped(item)[item] # Unused
    BY <1>4 DEF Unused
  <1>6. Stopped(item) \in [Ids -> Schedulers]
    BY <1>1, <1>2 DEF Stopped
  <1> QED BY <1>1, <1>4, <1>5, <1>6 DEF Stopped

\* Starting a scheduler stops the one there was.
LEMMA StartScheduler ==
    ASSUME Inv, NEW c \in Configs, startScheduler(c), NEW k \in Nat, k < MaxChanges + 1,
           \A i \in Ids : sched[i] # Unused => i <= k,
           Oldest' \in Nat, k + 1 <= Oldest'
    PROVE  /\ item' \in Ids /\ sched' \in [Ids -> Schedulers]
           /\ \A i \in Ids : sched'[i].loop = "none" => sched'[i] = Unused
           /\ \A i \in Ids : sched'[i] # Unused => i <= Oldest'
           /\ sched'[item'] # Unused /\ sched'[item'].cancelled = FALSE
           /\ NoOrphan'
  <1> DEFINE s == IF item = 0 THEN sched ELSE Stopped(item)
             new == [Unused EXCEPT !.check = c, !.last = c.interval, !.loop = "start"]
             n == CHOOSE x \in Ids : s[x] = Unused /\ \A y \in Ids : s[y] = Unused => x <= y
  <1>0. \A i \in Ids : i \in Nat
    BY Types
  <1>1. CASE item # 0 /\ sched[item].check.type = c.type
    <2>1. UNCHANGED <<item, sched>>
      BY <1>1 DEF startScheduler
    <2> QED BY <1>0, <1>1, <2>1 DEF Inv, TypeOK, Registered, NoOrphan
  <1>2. CASE ~(item # 0 /\ sched[item].check.type = c.type)
    <2>1. /\ s \in [Ids -> Schedulers]
          /\ \A i \in Ids : s[i] # Unused => i <= k /\ s[i].cancelled = TRUE
          /\ \A i \in Ids : s[i].loop = "none" => s[i] = Unused
      <3>1. CASE item = 0
        <4>1. \A i \in Ids : sched[i] # Unused => sched[i].cancelled
          BY <3>1, Types DEF Inv, NoOrphan
        <4>2. \A i \in Ids : sched[i].cancelled \in BOOLEAN
          BY DEF Inv, TypeOK, Schedulers
        <4> QED BY <3>1, <4>1, <4>2 DEF Inv, TypeOK, Registered
      <3>2. CASE item # 0
        <4>1. \A i \in Ids \ {item} : sched[i] # Unused => sched[i].cancelled
          BY <3>2 DEF Inv, NoOrphan
        <4>2. \A i \in Ids : sched[i].cancelled \in BOOLEAN
          BY DEF Inv, TypeOK, Schedulers
        <4>3. sched[item] # Unused
          BY <3>2 DEF Inv, Registered
        <4> QED BY <3>2, <4>1, <4>2, <4>3, StoppedType DEF Inv, Registered
      <3> QED BY <3>1, <3>2
    <2>2. item' = n /\ sched' = [s EXCEPT ![n] = new]
      BY <1>2 DEF startScheduler, NewScheduler
    <2> HIDE DEF s
    <2>3. n \in Ids /\ s[n] = Unused /\ n <= k + 1
      BY <2>1, LeastFree
    <2>4. /\ new \in Schedulers /\ new # Unused /\ new.loop = "start" /\ new.cancelled = FALSE
      BY Types DEF Unused, Schedulers
    <2> HIDE DEF n, new
    <2>5. sched' \in [Ids -> Schedulers] /\ sched'[n] = new /\ \A i \in Ids \ {n} : sched'[i] = s[i]
      BY <2>1, <2>2, <2>3, <2>4
    <2>6. \A i \in Ids : sched'[i].loop = "none" => sched'[i] = Unused
      BY <2>1, <2>4, <2>5
    <2>7. \A i \in Ids : sched'[i] # Unused => i <= Oldest'
      BY <1>0, <2>1, <2>3, <2>5
    <2>8. NoOrphan'
      BY <2>1, <2>2, <2>5 DEF NoOrphan
    <2> QED BY <2>2, <2>3, <2>4, <2>5, <2>6, <2>7, <2>8
  <1> QED BY <1>1, <1>2

\* The list is read; nothing is scheduled yet.
LEMMA ListInv == ASSUME Inv, List PROVE Inv'
  <1> USE DEF List, store, watch
  <1>1. TypeOK'
    BY Revisions DEF Inv, TypeOK
  <1>2. From' = From /\ NextRevision' = NextRevision /\ Oldest' = Oldest
    BY DEF From, NextRevision, Oldest
  <1>3. Forward'
    BY <1>2 DEF Inv, Forward
  <1>4. Registered' /\ NoOrphan'
    BY <1>2, Revisions DEF Inv, Registered, NoOrphan
  <1> QED BY <1>1, <1>3, <1>4 DEF Inv

\* The scheduler of the listed check is the first.
LEMMA ScheduleInv == ASSUME Inv, Schedule PROVE Inv'
  <1> USE DEF Schedule, store, watch
  <1>1. From' = From /\ NextRevision' = NextRevision /\ Oldest' = Oldest
    BY DEF From, NextRevision, Oldest
  <1>2. Forward'
    BY <1>1 DEF Inv, Forward
  <1>3. CASE check = None
    <2>1. TypeOK'
      BY <1>3 DEF Inv, TypeOK
    <2> QED BY <1>1, <1>2, <1>3, <2>1, Revisions, SameSchedulers DEF Inv
  <1>4. CASE check # None
    <2>1. check \in Configs /\ startScheduler(check)
      BY <1>4 DEF Inv, TypeOK
    <2>2. /\ \A i \in Ids : sched[i] # Unused => i <= 0
          /\ Oldest' \in Nat /\ 0 + 1 <= Oldest' /\ 0 < MaxChanges + 1
      BY <1>1, Revisions DEF Inv, Registered
    <2>3. /\ item' \in Ids /\ sched' \in [Ids -> Schedulers]
          /\ \A i \in Ids : sched'[i].loop = "none" => sched'[i] = Unused
          /\ \A i \in Ids : sched'[i] # Unused => i <= Oldest'
          /\ sched'[item'] # Unused /\ sched'[item'].cancelled = FALSE
          /\ NoOrphan'
      BY <2>1, <2>2, StartScheduler
    <2> HIDE DEF Schedule
    <2>4. TypeOK'
      BY <2>3 DEF Inv, TypeOK, Schedule, store, watch
    <2>5. Registered'
      BY <2>3 DEF Registered, Schedule
    <2> QED BY <1>2, <2>3, <2>4, <2>5 DEF Inv
  <1> QED BY <1>3, <1>4

\* Taking an event goes on to the next revision.
LEMMA TakeEvent ==
    ASSUME Inv, NEW a, Take(a), UNCHANGED <<store, stream, revision, breaks, known>>,
           pc' \in {"run", "interrupt"}
    PROVE  /\ check' \in Configs /\ Forward'
           /\ results' \in Seq(1 .. Len(log)) /\ Len(results') <= ResultCap
           /\ Oldest = Head(results) /\ Oldest \in 1 .. Len(log)
           /\ Oldest' \in Nat /\ Oldest + 1 <= Oldest'
  <1> USE DEF Take, store
  <1>1. results \in Seq(1 .. Len(log)) /\ results # <<>> /\ Len(results) <= ResultCap
    BY DEF Inv, TypeOK
  <1>2. /\ results' = Tail(results) /\ results' \in Seq(1 .. Len(log))
        /\ Len(results') = Len(results) - 1 /\ Head(results) = results[1]
        /\ 1 \in 1 .. Len(results) /\ Len(results) \in Nat
    BY <1>1
  <1>3. \A j \in 1 .. Len(results') : results'[j] = results[j + 1] /\ j + 1 \in 1 .. Len(results)
    BY <1>1, <1>2
  <1>4. Oldest = Head(results) /\ Oldest \in 1 .. Len(log)
    BY <1>1, <1>2 DEF Oldest
  <1>5. check' \in Configs
    <2> DEFINE Changes == [action : {"create", "update", "delete"}, check : Configs]
    <2>1. log \in Seq(Changes)
      BY DEF Inv, TypeOK
    <2> HIDE DEF Changes
    <2>2. \A r \in 1 .. Len(log) : log[r] \in Changes
      BY <2>1
    <2>3. log[Oldest] \in Changes
      BY <1>4, <2>2
    <2> QED BY <1>4, <2>3 DEF Changes
  <1>6. NextRevision' = NextRevision
    BY DEF NextRevision, From
  <1>7. Forward'
    <2>1. \A j \in 1 .. Len(results') : results'[j] < NextRevision'
      BY <1>3, <1>6 DEF Inv, Forward
    <2>2. \A j, k \in 1 .. Len(results') : j < k => results'[j] < results'[k]
      <3> SUFFICES ASSUME NEW j \in 1 .. Len(results'), NEW k \in 1 .. Len(results'), j < k
                   PROVE  results'[j] < results'[k]
        OBVIOUS
      <3>1. j + 1 < k + 1
        BY <1>2
      <3> QED BY <1>3, <3>1 DEF Inv, Forward
    <2> QED BY <2>1, <2>2 DEF Inv, Forward
  <1>8. Oldest' \in Nat /\ Oldest + 1 <= Oldest'
    <2>1. CASE results' = <<>>
      <3>1. results[1] < NextRevision /\ NextRevision \in Nat /\ results[1] \in Nat
        BY <1>2, Revisions DEF Inv, Forward
      <3> QED BY <2>1, <3>1, <1>2, <1>4, <1>6 DEF Oldest
    <2>2. CASE results' # <<>>
      <3>1. 1 \in 1 .. Len(results')
        BY <2>2, <1>2
      <3>2. results'[1] = results[2] /\ 2 \in 1 .. Len(results)
        BY <3>1, <1>3
      <3>3. results[1] < results[2] /\ results[1] \in Nat /\ results[2] \in Nat
        BY <3>2, <1>2, Revisions DEF Inv, Forward
      <3> QED BY <2>2, <3>2, <3>3, <1>2, <1>4 DEF Oldest
    <2> QED BY <2>1, <2>2
  <1>9. Len(results') <= ResultCap
    BY <1>1, <1>2, CheckWatcherAssumption
  <1> QED BY <1>2, <1>4, <1>5, <1>7, <1>8, <1>9

\* A scheduler that is started for an event.
LEMMA StartForEvent ==
    ASSUME Inv, NEW a, Take(a), UNCHANGED <<store, stream, revision, breaks, known>>,
           pc' = "run", startScheduler(check'), missed' \in {0, missed}
    PROVE  Inv'
  <1>1. /\ check' \in Configs /\ Forward'
        /\ results' \in Seq(1 .. Len(log)) /\ Len(results') <= ResultCap
        /\ Oldest \in 1 .. Len(log) /\ Oldest' \in Nat /\ Oldest + 1 <= Oldest'
    BY TakeEvent
  <1>2. /\ Oldest \in Nat /\ Oldest < MaxChanges + 1
        /\ \A i \in Ids : sched[i] # Unused => i <= Oldest
    <2>1. Oldest \in Nat /\ Oldest < MaxChanges + 1
      BY <1>1, Revisions
    <2> QED BY <2>1 DEF Inv, Registered
  <1>3. /\ item' \in Ids /\ sched' \in [Ids -> Schedulers]
        /\ \A i \in Ids : sched'[i].loop = "none" => sched'[i] = Unused
        /\ \A i \in Ids : sched'[i] # Unused => i <= Oldest'
        /\ sched'[item'] # Unused /\ sched'[item'].cancelled = FALSE
        /\ NoOrphan'
    BY <1>1, <1>2, StartScheduler
  <1>4. TypeOK'
    <2>1. missed' \in 0 .. Len(log)
      BY Revisions DEF Inv, TypeOK
    <2> QED BY <1>1, <1>3, <2>1 DEF Inv, TypeOK, store
  <1>5. Registered'
    BY <1>3 DEF Registered
  <1> QED BY <1>1, <1>3, <1>4, <1>5 DEF Inv

\* A create starts a scheduler, if there is none of the type.
LEMMA HandleCreateInv == ASSUME Inv, HandleCreate PROVE Inv'
  BY StartForEvent DEF HandleCreate, Take

\* An update interrupts a scheduler, or starts one.
LEMMA HandleUpdateInv == ASSUME Inv, HandleUpdate PROVE Inv'
  <1> USE DEF HandleUpdate, MadeGood
  <1>1. CASE item # 0 /\ sched[item].check.type = check'.type
    <2>1. /\ check' \in Configs /\ Forward'
          /\ results' \in Seq(1 .. Len(log)) /\ Len(results') <= ResultCap
          /\ Oldest \in 1 .. Len(log) /\ Oldest' \in Nat /\ Oldest + 1 <= Oldest'
      BY <1>1, TakeEvent
    <2>2. UNCHANGED <<item, sched, store, stream, revision, breaks, known>> /\ pc' = "interrupt"
      BY <1>1
    <2>3. missed' \in 0 .. Len(log)
      BY Revisions DEF Inv, TypeOK
    <2>4. TypeOK'
      BY <2>1, <2>2, <2>3 DEF Inv, TypeOK, store
    <2>5. \A i \in Ids : sched'[i] # Unused => i <= Oldest'
      BY <2>1, <2>2, Types, Revisions DEF Inv, Registered
    <2>6. Registered' /\ NoOrphan'
      BY <1>1, <2>2, <2>5 DEF Inv, Registered, NoOrphan
    <2> QED BY <2>1, <2>4, <2>6 DEF Inv
  <1>2. CASE ~(item # 0 /\ sched[item].check.type = check'.type)
    BY <1>2, StartForEvent DEF Take
  <1> QED BY <1>1, <1>2

\* A deletion stops the scheduler.
LEMMA HandleDeleteInv == ASSUME Inv, HandleDelete PROVE Inv'
  <1> USE DEF HandleDelete, MadeGood
  <1>1. /\ check' \in Configs /\ Forward' /\ pc' = "run"
        /\ results' \in Seq(1 .. Len(log)) /\ Len(results') <= ResultCap
        /\ Oldest \in 1 .. Len(log) /\ Oldest' \in Nat /\ Oldest + 1 <= Oldest'
    BY TakeEvent DEF Take
  <1>2. /\ sched' \in [Ids -> Schedulers]
        /\ \A i \in Ids : sched'[i].loop = sched[i].loop
        /\ \A i \in Ids : sched'[i] = sched[i] \/ i = item
        /\ \A i \in Ids : sched'[i] # Unused => sched'[i].cancelled = TRUE
    <2>1. \A i \in Ids : sched[i].cancelled \in BOOLEAN
      BY DEF Inv, TypeOK, Schedulers
    <2>2. CASE item = 0
      BY <2>1, <2>2, Types DEF Inv, TypeOK, NoOrphan
    <2>3. CASE item # 0
      <3>1. sched' = Stopped(item)
        BY <2>3
      <3>2. \A i \in Ids \ {item} : sched[i] # Unused => sched[i].cancelled
        BY DEF Inv, NoOrphan
      <3> HIDE DEF HandleDelete
      <3> QED BY <2>1, <2>3, <3>1, <3>2, StoppedType
    <2> QED BY <2>2, <2>3
  <1>3. missed' \in 0 .. Len(log)
    BY Revisions DEF Inv, TypeOK
  <1>4. TypeOK'
    BY <1>1, <1>2, <1>3 DEF Inv, TypeOK, store
  <1>5. NoOrphan'
    BY <1>2 DEF NoOrphan
  <1>6. Registered'
    <2>1. \A i \in Ids : sched'[i].loop = "none" => sched'[i] = Unused
      BY <1>2 DEF Inv, Registered
    <2>2. \A i \in Ids : sched'[i] # Unused => i <= Oldest'
      BY <1>1, <1>2, Types, Revisions DEF Inv, Registered
    <2> QED BY <1>1, <2>1, <2>2 DEF Registered
  <1> QED BY <1>1, <1>4, <1>5, <1>6 DEF Inv

\* A step of one scheduler's loop that neither ends it nor tells it to stop.
LEMMA LoopGoesOn ==
    ASSUME Inv, NEW i \in Ids, NEW new \in Schedulers, new.loop # "none",
           sched[i].loop # "none", new.cancelled = sched[i].cancelled,
           sched' = [sched EXCEPT ![i] = new],
           UNCHANGED <<store, watch, check, item, known, missed>>,
           pc' = pc \/ (pc' = "run" /\ pc = "interrupt")
    PROVE  Inv'
  <1> USE DEF store, watch
  <1>1. sched \in [Ids -> Schedulers] /\ sched[i] # Unused /\ new # Unused
    BY DEF Inv, TypeOK, Unused
  <1>2. sched' \in [Ids -> Schedulers] /\ sched'[i] = new /\ \A x \in Ids \ {i} : sched'[x] = sched[x]
    BY <1>1
  <1>3. TypeOK'
    BY <1>2 DEF Inv, TypeOK
  <1>4. From' = From /\ NextRevision' = NextRevision /\ Oldest' = Oldest
    BY DEF From, NextRevision, Oldest
  <1>5. Forward'
    BY <1>4 DEF Inv, Forward
  <1>6. NoOrphan'
    BY <1>1, <1>2 DEF Inv, NoOrphan
  <1>7. Registered'
    BY <1>1, <1>2, <1>4 DEF Inv, Registered
  <1> QED BY <1>3, <1>5, <1>6, <1>7 DEF Inv

\* The loop takes the check that it was interrupted with.
LEMMA InterruptInv == ASSUME Inv, Interrupt PROVE Inv'
  <1> DEFINE new == [sched[item] EXCEPT !.check = check, !.last = check.interval,
                        !.loop = IF check.type = "interval" /\ check.interval # sched[item].last
                                    THEN "start" ELSE "select"]
  <1>1. item \in Ids /\ sched \in [Ids -> Schedulers] /\ sched[item] \in Schedulers
    BY DEF Inv, TypeOK, Registered, Interrupt
  <1>2. check \in Configs \cup {None} /\ check.interval \in Intervals \cup {0}
    BY Types DEF Inv, TypeOK
  <1>3. /\ new \in Schedulers /\ new.loop # "none" /\ new.cancelled = sched[item].cancelled
    BY <1>1, <1>2 DEF Schedulers
  <1>4. sched' = [sched EXCEPT ![item] = new]
    BY <1>1 DEF Interrupt, Schedulers
  <1> HIDE DEF new
  <1> QED BY <1>1, <1>3, <1>4, LoopGoesOn DEF Interrupt

\* A timer is set.
LEMMA LoopStartInv == ASSUME Inv, NEW i \in Ids, LoopStart(i) PROVE Inv'
  <1> DEFINE new == [sched[i] EXCEPT !.loop = "select", !.timer = sched[i].check.interval]
  <1> USE DEF LoopStart
  <1>1. sched \in [Ids -> Schedulers] /\ sched[i] \in Schedulers
    BY DEF Inv, TypeOK
  <1>2. \A c \in Configs \cup {None} : c.interval \in Intervals \cup {0}
    BY Types
  <1>3. /\ new \in Schedulers /\ new.loop # "none" /\ new.cancelled = sched[i].cancelled
        /\ sched' = [sched EXCEPT ![i] = new]
    BY <1>1, <1>2 DEF Schedulers
  <1> HIDE DEF LoopStart, new
  <1>4. /\ UNCHANGED <<store, watch, check, item, known, missed>> /\ pc' = pc
        /\ sched[i].loop # "none"
    BY DEF LoopStart
  <1> QED BY <1>3, <1>4, LoopGoesOn

\* A timer fires.
LEMMA LoopFireInv == ASSUME Inv, NEW i \in Ids, LoopFire(i) PROVE Inv'
  <1> DEFINE new == [sched[i] EXCEPT !.loop = "publish", !.timer = sched[i].check.interval]
  <1> USE DEF LoopFire
  <1>1. sched \in [Ids -> Schedulers] /\ sched[i] \in Schedulers
    BY DEF Inv, TypeOK
  <1>2. \A c \in Configs \cup {None} : c.interval \in Intervals \cup {0}
    BY Types
  <1>3. /\ new \in Schedulers /\ new.loop # "none" /\ new.cancelled = sched[i].cancelled
        /\ sched' = [sched EXCEPT ![i] = new]
    BY <1>1, <1>2 DEF Schedulers
  <1> HIDE DEF LoopFire, new
  <1>4. /\ UNCHANGED <<store, watch, check, item, known, missed>> /\ pc' = pc
        /\ sched[i].loop # "none"
    BY DEF LoopFire
  <1> QED BY <1>3, <1>4, LoopGoesOn

\* A check was published.
LEMMA LoopPublishedInv == ASSUME Inv, NEW i \in Ids, LoopPublished(i) PROVE Inv'
  <1> DEFINE new == [sched[i] EXCEPT !.loop = "select"]
  <1> USE DEF LoopPublished
  <1>1. sched \in [Ids -> Schedulers] /\ sched[i] \in Schedulers
    BY DEF Inv, TypeOK
  <1>2. \A c \in Configs \cup {None} : c.interval \in Intervals \cup {0}
    BY Types
  <1>3. /\ new \in Schedulers /\ new.loop # "none" /\ new.cancelled = sched[i].cancelled
        /\ sched' = [sched EXCEPT ![i] = new]
    BY <1>1, <1>2 DEF Schedulers
  <1> HIDE DEF LoopPublished, new
  <1>4. /\ UNCHANGED <<store, watch, check, item, known, missed>> /\ pc' = pc
        /\ sched[i].loop # "none"
    BY DEF LoopPublished
  <1> QED BY <1>3, <1>4, LoopGoesOn

\* Only a scheduler that was told to stop ends.
LEMMA LoopEndInv == ASSUME Inv, NEW i \in Ids, LoopEnd(i) PROVE Inv'
  <1> USE DEF LoopEnd, store, watch
  <1>1. sched \in [Ids -> Schedulers] /\ item # i
    <2>1. item # 0 => sched[item].cancelled = FALSE
      BY DEF Inv, Registered
    <2> QED BY <2>1, Types DEF Inv, TypeOK
  <1>2. sched' \in [Ids -> Schedulers] /\ sched'[i] = Unused /\ \A x \in Ids \ {i} : sched'[x] = sched[x]
    BY <1>1, Types
  <1> HIDE DEF LoopEnd
  <1>3. TypeOK'
    BY <1>2 DEF Inv, TypeOK, LoopEnd
  <1>4. From' = From /\ NextRevision' = NextRevision /\ Oldest' = Oldest
    BY DEF From, NextRevision, Oldest, LoopEnd
  <1>5. Forward'
    BY <1>4 DEF Inv, Forward, LoopEnd
  <1>6. NoOrphan'
    BY <1>2 DEF Inv, NoOrphan, LoopEnd
  <1>7. Registered'
    <2>1. item' = item /\ pc' = pc /\ item \in Ids \cup {0}
      BY DEF LoopEnd, Inv, TypeOK
    <2> QED BY <1>1, <1>2, <1>4, <2>1 DEF Inv, Registered
  <1> QED BY <1>3, <1>5, <1>6, <1>7 DEF Inv

-----------------------------------------------------------------------------
\* Every step preserves the invariant.
LEMMA NextInv == Inv /\ [Next]_vars => Inv'
  <1> SUFFICES ASSUME Inv, [Next]_vars PROVE Inv'
    OBVIOUS
  <1>1. CASE \E new \in Configs \cup {None} : Change(new)
    BY <1>1, ChangeInv
  <1>2. CASE \E r \in 1 .. MaxChanges : Compact(r)
    BY <1>2, CompactInv
  <1>3. CASE WatchBreak \/ WatchStep
    BY <1>3, WatchBreakInv, WatchStartInv, WatchCompactedInv, WatchDeliverInv DEF WatchStep
  <1>4. CASE List \/ Schedule \/ HandleStep \/ Interrupt
    BY <1>4, ListInv, ScheduleInv, HandleCreateInv, HandleUpdateInv, HandleDeleteInv, InterruptInv
    DEF HandleStep
  <1>5. CASE \E i \in Ids : LoopStep(i) \/ LoopFire(i)
    BY <1>5, LoopStartInv, LoopPublishedInv, LoopEndInv, LoopFireInv DEF LoopStep
  <1>6. CASE UNCHANGED vars
    BY <1>6 DEF Inv, TypeOK, Forward, Registered, NoOrphan, vars, store, watch, From,
                NextRevision, Oldest
  <1> QED BY <1>1, <1>2, <1>3, <1>4, <1>5, <1>6 DEF Next

\* The invariant holds.
LEMMA Invariance == Spec => []Inv
  BY InitInv, NextInv, PTL DEF Spec

\* Every variable of the watcher and its schedulers keeps its type: what is
\* handled never runs ahead of the store, and there is a name for each scheduler.
THEOREM TypeCorrect == Spec => []TypeOK
  BY Invariance, PTL DEF Inv

\* A scheduler that runs and was not told to stop is the registered one: whatever
\* is created, updated, retyped and deleted, whatever breaks, no check is
\* scheduled by a scheduler that nobody can stop.
THEOREM SchedulersAreOwned == Spec => []NoOrphan
  BY Invariance, PTL DEF Inv

-----------------------------------------------------------------------------
(* What is scheduled once every change has been handled.                    *)

\* What the check is after change e, and what it can have been before.
After(e) == IF e.action = "delete" THEN None ELSE e.check

Fits(c, e) == e.action = "create" => c = None

\* Configuration c is what revision r of history l, which ends in s, leaves.
Holds(c, r, l, s) ==
    /\ r = Len(l) => c = s
    /\ r < Len(l) => Fits(c, l[r + 1])

\* The history tells one change after the other, up to what is stored.
History == \A r \in 1 .. Len(log) : Holds(After(log[r]), r, log, stored)

\* No revision after the last one that was missed is left out on the way.
Unbroken ==
    /\ \A j \in 1 .. Len(results) : results[j] > missed => results[j] = known - Len(results) + j
    /\ stream # 0 => stream = known + 1 \/ (stream > known + 1 /\ missed = stream - 1)
    /\ revision # 0 => revision > known
    /\ pc \in {"list", "schedule"} => revision = 0

\* The last revision that was handled, and what is to be scheduled after it.
Handled == IF results = <<>> THEN known ELSE results[1] - 1

Intended == IF pc \in {"schedule", "interrupt"} THEN check ELSE Scheduled

\* As long as nothing is missed the schedulers follow the history.
Follows == pc # "list" /\ missed = 0 => Holds(Intended, Handled, log, stored)

\* A scheduler has a check, and its timer the interval of the check.
TimerOf(s) ==
    s.loop # "none" =>
        /\ s.check \in Configs /\ s.last = s.check.interval
        /\ s.loop # "start" /\ s.check.type = "interval" => s.timer = s.check.interval

Timed ==
    /\ \A i \in Ids : TimerOf(sched[i])
    /\ pc = "interrupt" => sched[item].check.type = check.type

FollowInv == History /\ Unbroken /\ Follows /\ Timed

\* A watch that missed nothing, and whose events are all handled, leaves the check
\* scheduled as it is stored, and if it is an interval check with its interval
\* (check_watcher.go:130-176, interval_scheduler.go:74-118).
CaughtUp ==
    pc = "run" /\ results = <<>> /\ known = Len(log) /\ missed = 0 =>
        /\ Scheduled = stored
        /\ stored.type = "interval" /\ sched[item].loop # "start" =>
               sched[item].timer = stored.interval

\* Nothing is scheduled in the beginning, and nothing has to be.
LEMMA InitFollow == Init => FollowInv
  <1> SUFFICES ASSUME Init PROVE FollowInv
    OBVIOUS
  <1> USE DEF Init
  <1>1. Len(log) = 0 /\ Len(results) = 0
    OBVIOUS
  <1>2. History /\ Unbroken
    BY <1>1 DEF History, Unbroken
  <1>3. Follows /\ Timed
    BY DEF Follows, Timed, TimerOf, Unused
  <1> QED BY <1>2, <1>3 DEF FollowInv

\* What is handled, and the elements of the history.
LEMMA HandledRevision ==
    ASSUME Inv
    PROVE  /\ Handled \in 0 .. Len(log) /\ Len(log) \in Nat
           /\ \A r \in 1 .. Len(log) : log[r].check \in Configs
  <1>1. Handled \in 0 .. Len(log)
    <2>1. known \in 0 .. Len(log)
      BY DEF Inv, TypeOK
    <2>2. results # <<>> => results[1] \in 1 .. Len(log)
      BY Revisions
    <2> QED BY <2>1, <2>2, Revisions DEF Handled
  <1>2. \A r \in 1 .. Len(log) : log[r].check \in Configs
    <2> DEFINE Changes == [action : {"create", "update", "delete"}, check : Configs]
    <2>1. log \in Seq(Changes)
      BY DEF Inv, TypeOK
    <2> HIDE DEF Changes
    <2>2. \A r \in 1 .. Len(log) : log[r] \in Changes
      BY <2>1
    <2> QED BY <2>2 DEF Changes
  <1> QED BY <1>1, <1>2, Revisions

\* A change goes on from what is stored.
LEMMA ChangeFollow ==
    ASSUME Inv, FollowInv, NEW new \in Configs \cup {None}, Change(new) PROVE FollowInv'
  <1> DEFINE e == ChangeOf(stored, new)
  <1>1. /\ new # stored /\ stored' = new /\ log' = Append(log, e)
        /\ UNCHANGED <<compacted, watch, pc, check, item, sched, known, missed>>
    BY DEF Change
  <1>2. Fits(stored, e) /\ After(e) = new
    BY <1>1 DEF Fits, After, ChangeOf
  <1> HIDE DEF e
  <1>3. /\ Len(log') = Len(log) + 1 /\ log'[Len(log) + 1] = e /\ Len(log) \in Nat
        /\ \A r \in 1 .. Len(log) : log'[r] = log[r]
    <2>1. log \in Seq([action : {"create", "update", "delete"}, check : Configs])
      BY DEF Inv, TypeOK
    <2>2. Len(log) \in Nat
      BY <2>1
    <2> QED BY <2>1, <2>2, <1>1
  <1>4. ASSUME NEW c, NEW r \in 0 .. Len(log), Holds(c, r, log, stored)
        PROVE  Holds(c, r, log', stored')
    <2>1. CASE r = Len(log)
      BY <1>2, <1>3, <1>4, <2>1 DEF Holds
    <2>2. CASE r # Len(log)
      <3>1. r < Len(log) /\ r + 1 \in 1 .. Len(log) /\ r # Len(log')
        BY <1>3, <2>2
      <3>2. log'[r + 1] = log[r + 1]
        BY <1>3, <3>1
      <3> QED BY <1>4, <3>1, <3>2 DEF Holds
    <2> QED BY <2>1, <2>2
  <1>5. History'
    <2> SUFFICES ASSUME NEW r \in 1 .. Len(log') PROVE Holds(After(log'[r]), r, log', stored')
      BY DEF History
    <2>1. CASE r = Len(log) + 1
      BY <1>1, <1>2, <1>3, <2>1 DEF Holds
    <2>2. CASE r # Len(log) + 1
      <3>1. r \in 1 .. Len(log) /\ r \in 0 .. Len(log)
        BY <1>3, <2>2
      <3>2. Holds(After(log[r]), r, log, stored) /\ log'[r] = log[r]
        BY <3>1, <1>3 DEF FollowInv, History
      <3> QED BY <3>1, <3>2, <1>4
    <2> QED BY <2>1, <2>2
  <1>6. Follows'
    <2>1. Handled' = Handled /\ Intended' = Intended
      BY <1>1 DEF Handled, Intended, Scheduled, watch
    <2> QED BY <1>1, <1>4, <2>1, HandledRevision DEF FollowInv, Follows
  <1> QED BY <1>1, <1>5, <1>6 DEF FollowInv, Unbroken, Timed, watch

\* The history stays as it is when the check does.
LEMMA HistoryKept ==
    ASSUME FollowInv, UNCHANGED <<stored, log>> PROVE History'
  BY DEF FollowInv, History

\* Compaction touches neither the watch nor the schedulers.
LEMMA CompactFollow ==
    ASSUME FollowInv, NEW r \in 1 .. MaxChanges, Compact(r) PROVE FollowInv'
  BY HistoryKept DEF FollowInv, Compact, watch, Unbroken, Follows, Handled, Intended, Scheduled,
                     Timed

\* A watch that starts behind what is known has missed something.
LEMMA WatchStartFollow ==
    ASSUME Inv, FollowInv, WatchStart PROVE FollowInv'
  <1> USE DEF WatchStart, store
  <1>1. /\ UNCHANGED <<stored, log, revision, results, check, item, sched, known>>
        /\ stream' = From /\ pc' \notin {"list", "schedule"}
    BY DEF Watching
  <1>2. /\ known \in Nat /\ missed \in Nat /\ From \in Nat /\ From > known /\ Len(results) \in Nat
        /\ \A j \in 1 .. Len(results) : results[j] \in Nat /\ results[j] < From
    <2>1. From > known
      BY Revisions DEF From, FollowInv, Unbroken, Inv, TypeOK
    <2>2. missed \in Nat
      BY Revisions DEF Inv, TypeOK
    <2>3. NextRevision = From
      BY DEF NextRevision
    <2> QED BY <2>1, <2>2, <2>3, Revisions DEF Inv, Forward
  <1>3. \/ missed' = missed /\ From = known + 1
        \/ missed' = From - 1 /\ From > known + 1
    <2>1. missed' = IF From > known + 1 THEN From - 1 ELSE missed
      OBVIOUS
    <2> HIDE DEF WatchStart
    <2> QED BY <1>2, <2>1
  <1>4. Unbroken'
    <2>1. stream' # 0 => stream' = known' + 1 \/ (stream' > known' + 1 /\ missed' = stream' - 1)
      BY <1>1, <1>3
    <2>2. ASSUME NEW j \in 1 .. Len(results), results[j] > missed'
          PROVE  results[j] = known - Len(results) + j
      <3>1. missed' = missed
        BY <1>2, <1>3, <2>2
      <3> QED BY <2>2, <3>1 DEF FollowInv, Unbroken
    <2> QED BY <1>1, <2>1, <2>2 DEF FollowInv, Unbroken
  <1>5. Follows'
    <2>1. missed' = 0 => missed = 0
      BY <1>2, <1>3
    <2>2. Intended' = Intended /\ Handled' = Handled /\ pc # "list"
      BY <1>1 DEF Intended, Handled, Scheduled, Watching
    <2> QED BY <1>1, <2>1, <2>2 DEF FollowInv, Follows
  <1>6. Timed'
    BY <1>1 DEF FollowInv, Timed
  <1> QED BY <1>1, <1>4, <1>5, <1>6, HistoryKept DEF FollowInv

\* Giving up compacted revisions does not touch what was delivered.
LEMMA WatchCompactedFollow ==
    ASSUME Inv, FollowInv, WatchCompacted PROVE FollowInv'
  <1> USE DEF WatchCompacted, store
  <1>1. revision' > known
    BY Revisions DEF From, FollowInv, Unbroken, Inv, TypeOK
  <1>2. Unbroken'
    BY <1>1 DEF FollowInv, Unbroken, Watching
  <1>3. Follows' /\ Timed'
    BY DEF FollowInv, Follows, Intended, Handled, Scheduled, Timed
  <1> QED BY <1>2, <1>3, HistoryKept DEF FollowInv

\* A broken watch keeps its place.
LEMMA WatchBreakFollow ==
    ASSUME Inv, FollowInv, WatchBreak PROVE FollowInv'
  BY HistoryKept DEF WatchBreak, store, FollowInv, Unbroken, Follows, Intended, Handled,
                     Scheduled, Timed

\* What is delivered is the next revision, or the last one missed.
LEMMA WatchDeliverFollow ==
    ASSUME Inv, FollowInv, WatchDeliver PROVE FollowInv'
  <1> DEFINE n == Len(results)
  <1>1. /\ UNCHANGED <<stored, log, check, item, sched, pc>> /\ pc \notin {"list", "schedule"}
        /\ stream \in 1 .. Len(log) /\ stream' = stream + 1 /\ revision' = stream + 1
        /\ known' = stream
    BY DEF WatchDeliver, store, Watching
  <1>2. \/ results' = results /\ missed' = stream
        \/ results' = Append(results, stream) /\ missed' = missed
    BY DEF WatchDeliver
  <1>3. /\ known \in Nat /\ missed \in Nat /\ stream \in Nat /\ n \in Nat /\ Len(log) \in Nat
        /\ \A j \in 1 .. n : results[j] \in Nat /\ results[j] < stream
    <2>1. NextRevision = stream
      BY <1>1, Revisions DEF NextRevision
    <2>2. missed \in Nat
      BY Revisions DEF Inv, TypeOK
    <2> QED BY <1>1, <2>1, <2>2, Revisions DEF Inv, Forward
  <1>4. stream = known + 1 \/ (stream > known + 1 /\ missed = stream - 1)
    BY <1>1, <1>3 DEF FollowInv, Unbroken
  <1>5. ASSUME results' = Append(results, stream)
        PROVE  /\ Len(results') = n + 1 /\ results'[n + 1] = stream /\ results' # <<>>
               /\ \A j \in 1 .. n : results'[j] = results[j]
    <2>1. results \in Seq(1 .. Len(log))
      BY DEF Inv, TypeOK
    <2> QED BY <1>1, <1>5, <2>1
  <1>6. results \in Seq(1 .. Len(log))
    BY DEF Inv, TypeOK
  <1>7. Unbroken'
    <2>1. \A j \in 1 .. Len(results') :
              results'[j] > missed' => results'[j] = known' - Len(results') + j
      <3>1. CASE results' = results /\ missed' = stream
        BY <1>3, <3>1
      <3>2. CASE results' = Append(results, stream) /\ missed' = missed
        <4> SUFFICES ASSUME NEW j \in 1 .. n + 1, results'[j] > missed
                     PROVE  results'[j] = stream - (n + 1) + j
          BY <1>1, <1>5, <3>2
        <4>1. CASE j = n + 1
          BY <1>3, <1>5, <3>2, <4>1
        <4>2. CASE j # n + 1
          <5>1. j \in 1 .. n /\ results'[j] = results[j]
            BY <1>3, <1>5, <3>2, <4>2
          <5>2. results[j] = known - n + j
            BY <5>1 DEF FollowInv, Unbroken
          <5>3. stream = known + 1
            BY <1>3, <1>4, <5>1
          <5> QED BY <1>3, <5>1, <5>2, <5>3
        <4> QED BY <4>1, <4>2
      <3> QED BY <1>2, <3>1, <3>2
    <2> QED BY <1>1, <1>3, <2>1 DEF Unbroken
  <1>8. Follows'
    <2> SUFFICES ASSUME missed' = 0 PROVE Holds(Intended', Handled', log', stored')
      BY DEF Follows
    <2>1. results' = Append(results, stream) /\ missed = 0
      BY <1>1, <1>2
    <2>2. stream = known + 1
      BY <1>3, <1>4, <2>1, <1>1
    <2>3. Handled' = Handled
      <3>1. CASE results = <<>>
        <4>1. n = 0 /\ results'[1] = stream
          BY <1>5, <2>1, <3>1
        <4> QED BY <1>3, <1>5, <2>1, <2>2, <3>1, <4>1 DEF Handled
      <3>2. CASE results # <<>>
        <4>1. 1 \in 1 .. n
          BY <1>6, <3>2
        <4> QED BY <1>5, <2>1, <3>2, <4>1 DEF Handled
      <3> QED BY <3>1, <3>2
    <2>4. Intended' = Intended
      BY <1>1 DEF Intended, Scheduled
    <2> QED BY <1>1, <2>1, <2>3, <2>4 DEF FollowInv, Follows
  <1>9. Timed'
    BY <1>1 DEF FollowInv, Timed
  <1> QED BY <1>1, <1>7, <1>8, <1>9, HistoryKept DEF FollowInv

\* The list is what is stored.
LEMMA ListFollow == ASSUME Inv, FollowInv, List PROVE FollowInv'
  <1> USE DEF List, store, watch
  <1>1. results = <<>> /\ stream = 0 /\ revision = 0 /\ Len(results) = 0
    BY DEF Inv, Forward, FollowInv, Unbroken
  <1>2. Unbroken'
    BY <1>1 DEF Unbroken
  <1>3. Follows'
    BY <1>1, Revisions DEF Follows, Intended, Handled, Holds
  <1>4. Timed'
    BY DEF FollowInv, Timed
  <1> QED BY <1>2, <1>3, <1>4, HistoryKept DEF FollowInv

\* A scheduler that is started has the check; the others keep theirs.
LEMMA Started ==
    ASSUME Inv, FollowInv, NEW c \in Configs, startScheduler(c), item' \in Ids,
           ~(item # 0 /\ sched[item].check.type = c.type)
    PROVE  sched'[item'].check = c /\ \A i \in Ids : TimerOf(sched'[i])
  <1> DEFINE s == IF item = 0 THEN sched ELSE Stopped(item)
             new == [Unused EXCEPT !.check = c, !.last = c.interval, !.loop = "start"]
  <1>1. sched' = [s EXCEPT ![item'] = new]
    BY DEF startScheduler, NewScheduler
  <1>2. s \in [Ids -> Schedulers] /\ \A i \in Ids : TimerOf(s[i])
    <2>1. sched \in [Ids -> Schedulers] /\ \A i \in Ids : TimerOf(sched[i])
      BY DEF Inv, TypeOK, FollowInv, Timed
    <2>2. CASE item = 0
      BY <2>1, <2>2
    <2>3. CASE item # 0
      <3>1. Stopped(item)[item] = [sched[item] EXCEPT !.cancelled = TRUE] /\ item \in Ids
        BY <2>1, <2>3, StoppedType DEF Stopped
      <3>2. TimerOf(Stopped(item)[item])
        <4>1. sched[item] \in Schedulers /\ TimerOf(sched[item])
          BY <2>1, <3>1
        <4> QED BY <3>1, <4>1 DEF TimerOf, Schedulers
      <3> QED BY <2>1, <2>3, <3>2, StoppedType
    <2> QED BY <2>2, <2>3
  <1>3. new.check = c /\ TimerOf(new)
    BY DEF Unused, TimerOf
  <1> HIDE DEF s, new
  <1> QED BY <1>1, <1>2, <1>3

\* The listed check is scheduled.
LEMMA ScheduleFollow == ASSUME Inv, FollowInv, Inv', Schedule PROVE FollowInv'
  <1>1. /\ UNCHANGED <<stored, log, stream, revision, results, check, known, missed>>
        /\ pc = "schedule" /\ pc' = "watch" /\ item = 0
    BY DEF Schedule, store, watch, Inv, Registered
  <1>2. Scheduled' = check /\ \A i \in Ids : TimerOf(sched'[i])
    <2>1. CASE check = None
      BY <1>1, <2>1 DEF Schedule, Scheduled, FollowInv, Timed
    <2>2. CASE check # None
      <3>1. check \in Configs /\ startScheduler(check)
        BY <2>2 DEF Inv, TypeOK, Schedule
      <3>2. item' \in Ids
        <4>1. /\ \A i \in Ids : sched[i] # Unused => i <= 0
              /\ Oldest' \in Nat /\ 0 + 1 <= Oldest' /\ 0 < MaxChanges + 1
          <5>1. Oldest' = Oldest
            BY <1>1 DEF Oldest, NextRevision, From
          <5> QED BY <1>1, <5>1, Revisions DEF Inv, Registered
        <4> QED BY <3>1, <4>1, StartScheduler
      <3>3. sched'[item'].check = check /\ \A i \in Ids : TimerOf(sched'[i])
        BY <1>1, <3>1, <3>2, Started
      <3> QED BY <3>2, <3>3, Types DEF Scheduled
    <2> QED BY <2>1, <2>2
  <1>3. Unbroken'
    BY <1>1 DEF FollowInv, Unbroken
  <1>4. Follows'
    BY <1>1, <1>2 DEF FollowInv, Follows, Intended, Handled
  <1>5. Timed'
    BY <1>1, <1>2 DEF Timed
  <1> QED BY <1>1, <1>3, <1>4, <1>5, HistoryKept DEF FollowInv

\* After an event the next revision of the history is due.
LEMMA TakeFollow ==
    ASSUME Inv, FollowInv, NEW a, Take(a),
           UNCHANGED <<store, stream, revision, breaks, known>>,
           pc' \in {"run", "interrupt"},
           missed' = missed \/ (missed' = 0 /\ results[1] > missed)
    PROVE  /\ Unbroken'
           /\ results[1] \in 1 .. Len(log) /\ check' = log[results[1]].check
           /\ log[results[1]].action = a
           /\ missed' = 0 => Holds(After(log[results[1]]), Handled', log', stored')
  <1> DEFINE n == Len(results)
             h == results[1]
  <1>1. results \in Seq(1 .. Len(log)) /\ results # <<>>
    BY DEF Inv, TypeOK, Take
  <1>2. /\ results' = Tail(results) /\ Head(results) = h /\ h \in 1 .. Len(log)
        /\ n \in Nat /\ n >= 1 /\ Len(results') = n - 1 /\ Len(log) \in Nat
    BY <1>1, Revisions DEF Take
  <1>3. \A j \in 1 .. Len(results') : results'[j] = results[j + 1] /\ j + 1 \in 1 .. n
    BY <1>1, <1>2
  <1>4. /\ known \in Nat /\ missed \in Nat /\ missed' \in Nat
        /\ \A j \in 1 .. n : results[j] \in Nat
        /\ \A j \in 2 .. n : results[j] > h
    <2>1. missed \in Nat
      BY Revisions DEF Inv, TypeOK
    <2>2. \A j \in 2 .. n : results[j] > h
      <3> SUFFICES ASSUME NEW j \in 2 .. n PROVE results[j] > h
        OBVIOUS
      <3>1. 1 \in 1 .. n /\ j \in 1 .. n /\ 1 < j
        BY <1>2
      <3>2. results[1] < results[j]
        BY <3>1 DEF Inv, Forward
      <3> QED BY <3>1, <3>2, Revisions
    <2> QED BY <2>1, <2>2, Revisions
  <1>5. \A j \in 2 .. n : results[j] > missed' => results[j] > missed
    BY <1>2, <1>4
  <1>6. Unbroken'
    <2>1. ASSUME NEW j \in 1 .. Len(results'), results'[j] > missed'
          PROVE  results'[j] = known' - Len(results') + j
      <3>1. results'[j] = results[j + 1] /\ j + 1 \in 2 .. n /\ j + 1 \in 1 .. n
        BY <1>2, <1>3
      <3>2. results[j + 1] = known - n + (j + 1)
        BY <1>5, <2>1, <3>1 DEF FollowInv, Unbroken
      <3>3. Len(results') = n - 1 /\ n \in Nat /\ known' = known /\ known \in Nat /\ j \in Nat
        BY <1>2, <1>4
      <3>4. known - n + (j + 1) = known - (n - 1) + j
        BY <3>3
      <3> QED BY <3>1, <3>2, <3>3, <3>4
    <2>2. ASSUME stream # 0
          PROVE  stream = known + 1 \/ (stream > known + 1 /\ missed' = stream - 1)
      <3>1. stream \in Nat /\ h < stream
        <4>1. 1 \in 1 .. n /\ NextRevision = stream
          BY <1>2, <2>2 DEF NextRevision
        <4> QED BY <2>2, <4>1, Revisions DEF Inv, Forward, TypeOK
      <3>2. stream = known + 1 \/ (stream > known + 1 /\ missed = stream - 1)
        BY <2>2 DEF FollowInv, Unbroken
      <3> QED BY <1>2, <1>4, <3>1, <3>2
    <2>3. UNCHANGED <<stream, revision, known>>
      OBVIOUS
    <2> QED BY <2>1, <2>2, <2>3 DEF FollowInv, Unbroken
  <1>7. ASSUME missed' = 0 PROVE Handled' = h
    <2>1. h > missed
      BY <1>2, <1>4, <1>7
    <2>2. h = known - n + 1
      BY <1>2, <2>1 DEF FollowInv, Unbroken
    <2>3. CASE results' = <<>>
      <3>0. Len(results') = 0
        BY <2>3
      <3>1. n = 1
        BY <1>2, <3>0
      <3> QED BY <1>2, <1>4, <2>2, <2>3, <3>1 DEF Handled
    <2>4. CASE results' # <<>>
      <3>1. 1 \in 1 .. Len(results')
        <4>1. results' \in Seq(1 .. Len(log))
          BY <1>1, <1>2
        <4> QED BY <2>4, <4>1
      <3>2. results'[1] = results[2] /\ 2 \in 2 .. n /\ 2 \in 1 .. n
        BY <1>2, <1>3, <3>1
      <3>3. results[2] = known - n + 2
        BY <1>5, <1>4, <1>7, <2>1, <3>2 DEF FollowInv, Unbroken
      <3> QED BY <1>2, <1>4, <2>2, <2>4, <3>2, <3>3 DEF Handled
    <2> QED BY <2>3, <2>4
  <1>8. Holds(After(log[h]), h, log, stored) /\ UNCHANGED <<log, stored>>
    BY <1>2 DEF FollowInv, History, store
  <1> QED BY <1>2, <1>6, <1>7, <1>8 DEF Take

\* A scheduler that is started for an event has a name.
LEMMA EventName ==
    ASSUME Inv, NEW a, Take(a), UNCHANGED <<store, stream, revision, breaks, known>>,
           pc' = "run", startScheduler(check')
    PROVE  item' \in Ids /\ check' \in Configs
  <1>1. /\ check' \in Configs /\ Oldest \in 1 .. Len(log)
        /\ Oldest' \in Nat /\ Oldest + 1 <= Oldest'
    BY TakeEvent
  <1>2. /\ Oldest \in Nat /\ Oldest < MaxChanges + 1
        /\ \A i \in Ids : sched[i] # Unused => i <= Oldest
    <2>1. Oldest \in Nat /\ Oldest < MaxChanges + 1
      BY <1>1, Revisions
    <2> QED BY <2>1 DEF Inv, Registered
  <1> QED BY <1>1, <1>2, StartScheduler

\* A create that is not out of order finds no scheduler.
LEMMA HandleCreateFollow == ASSUME Inv, FollowInv, HandleCreate PROVE FollowInv'
  <1> DEFINE h == results[1]
  <1>1. /\ Take("create") /\ startScheduler(check') /\ pc = "run" /\ pc' = "run"
        /\ UNCHANGED <<store, stream, revision, breaks, known, missed>>
    BY DEF HandleCreate, Take
  <1>2. /\ Unbroken' /\ h \in 1 .. Len(log) /\ check' = log[h].check /\ log[h].action = "create"
        /\ missed' = 0 => Holds(After(log[h]), Handled', log', stored')
    BY <1>1, TakeFollow
  <1>3. item' \in Ids /\ check' \in Configs
    BY <1>1, EventName
  <1>4. \A i \in Ids : TimerOf(sched'[i])
    <2>1. CASE item # 0 /\ sched[item].check.type = check'.type
      BY <1>1, <2>1 DEF startScheduler, FollowInv, Timed
    <2>2. CASE ~(item # 0 /\ sched[item].check.type = check'.type)
      BY <1>1, <1>3, <2>2, Started
    <2> QED BY <2>1, <2>2
  <1>5. Follows'
    <2> SUFFICES ASSUME missed' = 0 PROVE Holds(Intended', Handled', log', stored')
      BY DEF Follows
    <2>1. results # <<>> /\ Holds(Scheduled, h - 1, log, stored)
      BY <1>1 DEF FollowInv, Follows, Intended, Handled, Take
    <2>2. Scheduled = None
      <3>1. h - 1 < Len(log) /\ (h - 1) + 1 = h
        BY <1>2, Revisions
      <3> QED BY <1>2, <2>1, <3>1 DEF Holds, Fits
    <2>3. item = 0
      <3> SUFFICES ASSUME item # 0 PROVE FALSE
        OBVIOUS
      <3>1. item \in Ids /\ sched[item].loop # "none"
        BY DEF Inv, TypeOK, Registered
      <3>2. sched[item].check \in Configs
        BY <3>1 DEF FollowInv, Timed, TimerOf
      <3> QED BY <2>2, <3>2, Types DEF Scheduled
    <2>4. sched'[item'].check = check'
      BY <1>1, <1>3, <2>3, Started
    <2>5. Intended' = After(log[h])
      BY <1>1, <1>2, <1>3, <2>4, Types DEF Intended, Scheduled, After
    <2> QED BY <1>2, <2>5
  <1>6. Timed'
    BY <1>1, <1>4 DEF Timed
  <1> QED BY <1>1, <1>2, <1>5, <1>6, HistoryKept DEF FollowInv, store

\* An update is scheduled whatever was before.
LEMMA HandleUpdateFollow == ASSUME Inv, FollowInv, HandleUpdate PROVE FollowInv'
  <1> DEFINE h == results[1]
  <1>1. /\ Take("update") /\ pc = "run" /\ pc' \in {"run", "interrupt"}
        /\ UNCHANGED <<store, stream, revision, breaks, known>>
        /\ missed' = missed \/ (missed' = 0 /\ h > missed)
    <2>1. Head(results) = h
      BY DEF HandleUpdate, Take, Inv, TypeOK
    <2> QED BY <2>1 DEF HandleUpdate, Take, MadeGood
  <1>2. /\ Unbroken' /\ h \in 1 .. Len(log) /\ check' = log[h].check /\ log[h].action = "update"
        /\ missed' = 0 => Holds(After(log[h]), Handled', log', stored')
    BY <1>1, TakeFollow
  <1>3. check' = After(log[h])
    BY <1>2 DEF After
  <1>4. Intended' = check' /\ Timed'
    <2>1. CASE item # 0 /\ sched[item].check.type = check'.type
      <3>1. pc' = "interrupt" /\ UNCHANGED <<item, sched>>
        BY <2>1 DEF HandleUpdate
      <3> QED BY <2>1, <3>1 DEF Intended, FollowInv, Timed
    <2>2. CASE ~(item # 0 /\ sched[item].check.type = check'.type)
      <3>1. pc' = "run" /\ startScheduler(check')
        BY <1>1, <2>2 DEF HandleUpdate
      <3>2. item' \in Ids /\ check' \in Configs
        BY <1>1, <3>1, EventName
      <3>3. sched'[item'].check = check' /\ \A i \in Ids : TimerOf(sched'[i])
        BY <2>2, <3>1, <3>2, Started
      <3> QED BY <3>1, <3>2, <3>3, Types DEF Intended, Scheduled, Timed
    <2> QED BY <2>1, <2>2
  <1>5. Follows'
    BY <1>2, <1>3, <1>4 DEF Follows
  <1> QED BY <1>1, <1>2, <1>4, <1>5, HistoryKept DEF FollowInv, store

\* Nothing is scheduled after a deletion.
LEMMA HandleDeleteFollow == ASSUME Inv, FollowInv, HandleDelete PROVE FollowInv'
  <1> DEFINE h == results[1]
  <1>1. /\ Take("delete") /\ pc = "run" /\ pc' = "run" /\ item' = 0
        /\ UNCHANGED <<store, stream, revision, breaks, known>>
        /\ missed' = missed \/ (missed' = 0 /\ h > missed)
    <2>1. Head(results) = h
      BY DEF HandleDelete, Take, Inv, TypeOK
    <2> QED BY <2>1 DEF HandleDelete, Take, MadeGood
  <1>2. /\ Unbroken' /\ log[h].action = "delete"
        /\ missed' = 0 => Holds(After(log[h]), Handled', log', stored')
    BY <1>1, TakeFollow
  <1>3. Intended' = After(log[h])
    BY <1>1, <1>2 DEF Intended, Scheduled, After
  <1>4. Timed'
    <2>1. \A i \in Ids : TimerOf(sched[i])
      BY DEF FollowInv, Timed
    <2>2. CASE item = 0
      BY <1>1, <2>1, <2>2 DEF HandleDelete, Timed
    <2>3. CASE item # 0
      <3>1. sched' = Stopped(item)
        BY <2>3 DEF HandleDelete
      <3>2. item \in Ids /\ sched[item] \in Schedulers /\ sched \in [Ids -> Schedulers]
        BY <2>3 DEF Inv, TypeOK
      <3>3. sched'[item] = [sched[item] EXCEPT !.cancelled = TRUE]
        BY <3>1, <3>2 DEF Stopped
      <3>4. TimerOf(sched'[item])
        BY <2>1, <3>2, <3>3 DEF TimerOf, Schedulers
      <3> QED BY <1>1, <2>1, <2>3, <3>1, <3>4, StoppedType DEF Timed
    <2> QED BY <2>2, <2>3
  <1>5. Follows'
    BY <1>2, <1>3 DEF Follows
  <1> QED BY <1>1, <1>2, <1>4, <1>5, HistoryKept DEF FollowInv, store

\* A step of a loop that changes neither the check nor what is handled.
LEMMA LoopFollow ==
    ASSUME Inv, FollowInv, NEW i \in Ids, NEW new,
           sched' = [sched EXCEPT ![i] = new], new.check = sched[i].check \/ i # item,
           TimerOf(new), UNCHANGED <<store, watch, pc, check, item, known, missed>>
    PROVE  FollowInv'
  <1> USE DEF store, watch
  <1>1. sched \in [Ids -> Schedulers] /\ item \in {0} \cup Ids
    BY DEF Inv, TypeOK
  <1>2. sched'[i] = new /\ \A x \in Ids \ {i} : sched'[x] = sched[x]
    BY <1>1
  <1>3. item # 0 => sched'[item].check = sched[item].check
    BY <1>1, <1>2
  <1>4. Scheduled' = Scheduled
    BY <1>3 DEF Scheduled
  <1>5. Unbroken' /\ Follows'
    BY <1>4 DEF FollowInv, Unbroken, Follows, Handled, Intended
  <1>6. Timed'
    <2>1. \A x \in Ids : TimerOf(sched'[x])
      BY <1>2 DEF FollowInv, Timed
    <2>2. pc = "interrupt" => item # 0
      BY DEF Inv, TypeOK
    <2> QED BY <1>3, <2>1, <2>2 DEF FollowInv, Timed
  <1> QED BY <1>5, <1>6, HistoryKept DEF FollowInv

\* The loop of the registered scheduler takes the check of the update.
LEMMA InterruptFollow == ASSUME Inv, FollowInv, Interrupt PROVE FollowInv'
  <1> DEFINE new == [sched[item] EXCEPT !.check = check, !.last = check.interval,
                        !.loop = IF check.type = "interval" /\ check.interval # sched[item].last
                                    THEN "start" ELSE "select"]
  <1>1. /\ item \in Ids /\ sched \in [Ids -> Schedulers] /\ sched[item] \in Schedulers
        /\ sched[item].loop = "select" /\ pc = "interrupt" /\ pc' = "run"
        /\ UNCHANGED <<store, watch, check, item, known, missed>>
    BY DEF Inv, TypeOK, Registered, Interrupt
  <1>2. /\ TimerOf(sched[item]) /\ sched[item].check.type = check.type
        /\ \A i \in Ids : TimerOf(sched[i])
    BY <1>1 DEF FollowInv, Timed
  <1>3. check \in Configs
    <2>1. sched[item].check.type # "none"
      BY <1>1, <1>2, Types DEF TimerOf
    <2> QED BY <1>2, <2>1 DEF Inv, TypeOK, None
  <1>4. sched' = [sched EXCEPT ![item] = new]
    BY <1>1 DEF Interrupt, Schedulers
  <1>5. new.check = check /\ TimerOf(new)
    BY <1>1, <1>2, <1>3 DEF TimerOf, Schedulers
  <1> HIDE DEF new
  <1>6. sched'[item] = new /\ \A x \in Ids \ {item} : sched'[x] = sched[x]
    BY <1>1, <1>4
  <1>7. Intended' = Intended
    BY <1>1, <1>5, <1>6, Types DEF Intended, Scheduled
  <1>8. Timed'
    BY <1>1, <1>2, <1>5, <1>6 DEF Timed
  <1>9. Unbroken' /\ Follows'
    BY <1>1, <1>7 DEF FollowInv, Unbroken, Follows, Handled, store, watch
  <1> QED BY <1>1, <1>8, <1>9, HistoryKept DEF FollowInv, store

\* The loops set their timers by the check they have.
LEMMA LoopStepFollow ==
    ASSUME Inv, FollowInv, NEW i \in Ids, LoopStep(i) \/ LoopFire(i) PROVE FollowInv'
  <1>1. sched \in [Ids -> Schedulers] /\ sched[i] \in Schedulers /\ TimerOf(sched[i])
    BY DEF Inv, TypeOK, FollowInv, Timed
  <1>2. CASE LoopStart(i)
    <2> DEFINE new == [sched[i] EXCEPT !.loop = "select", !.timer = sched[i].check.interval]
    <2>1. sched' = [sched EXCEPT ![i] = new] /\ new.check = sched[i].check /\ TimerOf(new)
      BY <1>1, <1>2 DEF LoopStart, TimerOf, Schedulers
    <2> HIDE DEF new
    <2> QED BY <1>2, <2>1, LoopFollow DEF LoopStart
  <1>3. CASE LoopFire(i)
    <2> DEFINE new == [sched[i] EXCEPT !.loop = "publish", !.timer = sched[i].check.interval]
    <2>1. sched' = [sched EXCEPT ![i] = new] /\ new.check = sched[i].check /\ TimerOf(new)
      BY <1>1, <1>3 DEF LoopFire, TimerOf, Schedulers
    <2> HIDE DEF new
    <2> QED BY <1>3, <2>1, LoopFollow DEF LoopFire
  <1>4. CASE LoopPublished(i)
    <2> DEFINE new == [sched[i] EXCEPT !.loop = "select"]
    <2>1. sched' = [sched EXCEPT ![i] = new] /\ new.check = sched[i].check /\ TimerOf(new)
      BY <1>1, <1>4 DEF LoopPublished, TimerOf, Schedulers
    <2> HIDE DEF new
    <2> QED BY <1>4, <2>1, LoopFollow DEF LoopPublished
  <1>5. CASE LoopEnd(i)
    <2>1. i # item
      <3>1. item # 0 => sched[item].cancelled = FALSE
        BY DEF Inv, Registered
      <3> QED BY <1>5, <3>1, Types DEF LoopEnd
    <2>2. TimerOf(Unused)
      BY DEF TimerOf, Unused
    <2> QED BY <1>5, <2>1, <2>2, LoopFollow DEF LoopEnd
  <1> QED BY <1>2, <1>3, <1>4, <1>5 DEF LoopStep

\* Every step keeps the schedulers on the history.
LEMMA NextFollow == Inv /\ Inv' /\ FollowInv /\ [Next]_vars => FollowInv'
  <1> SUFFICES ASSUME Inv, Inv', FollowInv, [Next]_vars PROVE FollowInv'
    OBVIOUS
  <1>1. CASE \E new \in Configs \cup {None} : Change(new)
    BY <1>1, ChangeFollow
  <1>2. CASE \E r \in 1 .. MaxChanges : Compact(r)
    BY <1>2, CompactFollow
  <1>3. CASE WatchBreak \/ WatchStep
    BY <1>3, WatchBreakFollow, WatchStartFollow, WatchCompactedFollow, WatchDeliverFollow
    DEF WatchStep
  <1>4. CASE List \/ Schedule \/ HandleStep \/ Interrupt
    BY <1>4, ListFollow, ScheduleFollow, HandleCreateFollow, HandleUpdateFollow,
       HandleDeleteFollow, InterruptFollow DEF HandleStep
  <1>5. CASE \E i \in Ids : LoopStep(i) \/ LoopFire(i)
    BY <1>5, LoopStepFollow
  <1>6. CASE UNCHANGED vars
    BY <1>6 DEF FollowInv, History, Unbroken, Follows, Timed, Handled, Intended, Scheduled,
                vars, store, watch
  <1> QED BY <1>1, <1>2, <1>3, <1>4, <1>5, <1>6 DEF Next

\* Every scheduler is on the history, and its timer on its check.
LEMMA FollowInvariance == Spec => []FollowInv
  <1>1. Spec => []Inv
    BY Invariance
  <1>2. Inv /\ FollowInv /\ [Next]_vars => FollowInv'
    BY NextInv, NextFollow
  <1> QED BY <1>1, <1>2, InitFollow, PTL DEF Spec

\* The safety behind FollowsStore.  Whatever breaks, is compacted or waits: once
\* everything known is handled, and unless a change was missed and not made good
\* for, the check is scheduled as it is stored, and the timer of an interval
\* scheduler has its interval.
THEOREM SettledFollowsStore == Spec => []CaughtUp
  <1>1. Inv /\ FollowInv => CaughtUp
    <2> SUFFICES ASSUME Inv, FollowInv, pc = "run", results = <<>>, known = Len(log), missed = 0
                 PROVE  /\ Scheduled = stored
                        /\ stored.type = "interval" /\ sched[item].loop # "start" =>
                               sched[item].timer = stored.interval
      BY DEF CaughtUp
    <2>1. Scheduled = stored
      BY DEF FollowInv, Follows, Intended, Handled, Holds
    <2>2. ASSUME stored.type = "interval", sched[item].loop # "start"
          PROVE  sched[item].timer = stored.interval
      <3>1. item # 0
        BY <2>1, <2>2 DEF Scheduled, None
      <3>2. item \in Ids /\ sched[item].loop # "none"
        BY <3>1 DEF Inv, TypeOK, Registered
      <3> QED BY <2>1, <2>2, <3>1, <3>2 DEF FollowInv, Timed, TimerOf, Scheduled
    <2> QED BY <2>1, <2>2
  <1> QED BY <1>1, Invariance, FollowInvariance, PTL

=============================================================================
