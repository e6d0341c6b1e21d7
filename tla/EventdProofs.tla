---------------------------- MODULE EventdProofs ----------------------------
(****************************************************************************)
(* Proofs about Eventd, for any checks, workers and backends, any length of *)
(* the histories and any number of results, failures and API requests.      *)
(*                                                                          *)
(* That a stored event agrees with itself needs to know what every record   *)
(* on its way into the store is: a result that has not been counted, one    *)
(* that has, a failure that was merged already, an event that is published  *)
(* again (Working, Running, Asked).  Each of them may be stored over        *)
(* whatever was stored since it was read.                                   *)
(****************************************************************************)
EXTENDS Eventd, WellFoundedInduction, TLAPS

-----------------------------------------------------------------------------
(* The inductive invariant.                                                 *)

\* n is the length of the run at the end of h.
RunOf(h, n) == /\ n \in 0 .. Len(h)
               /\ \A i \in Len(h) - n + 1 .. Len(h) : h[i] = h[Len(h)]
               /\ n < Len(h) => h[Len(h) - n] # h[Len(h)]

LastIsStatus(r) == r.hist # <<>> => r.hist[Len(r.hist)] = r.status
Repeats(h) == Len(h) > 1 /\ h[Len(h)] = h[Len(h) - 1]

\* A result as it arrives.
Fresh(r) == r.hist = <<>> /\ r.occ = 0 /\ r.wm = 0

\* A record whose last result is still to be counted, and one where it has been.
Uncounted(r) == /\ LastIsStatus(r) /\ r.occ >= 1 /\ r.occ <= r.wm
                /\ Repeats(r.hist) => Inc(r.occ) >= Run(r.hist)
Counted(r) == LastIsStatus(r) /\ r.occ >= 1 /\ r.occ <= r.wm /\ r.occ >= Run(r.hist)

\* The counter is the run, unless the run fills a full history.
Exact(r) == r.hist # <<>> /\ Run(r.hist) < HistoryLimit => r.occ = Run(r.hist)
Sound(r, del) == Counted(r) /\ (del \/ Exact(r))

WorkerRecords == [stage : Stages, check : Checks \cup {NoCheck}, rec : Records, prevTTL : BOOLEAN]
RunnerRecords == [stage : Stages, check : Checks \cup {NoCheck}, rec : Records, leader : BOOLEAN]
APIRecords == [stage : Stages, check : Checks \cup {NoCheck}, found : Checks \cup {NoCheck},
               rec : Records]

\* The records in the store, and on their way into it.  Whoever is busy is busy
\* with a check; a record that is still to be counted is a result that has just
\* arrived, a failure merged with an event that is still there unless something
\* was deleted, or an event whose deletion was asked for.
Stored(ev, del) ==
    /\ ev \in [Checks -> Records]
    /\ \A c \in Checks : /\ Len(ev[c].hist) <= HistoryLimit
                         /\ ev[c] # None => Sound(ev[c], del)
Working(m, del) ==
    /\ m \in WorkerRecords /\ Len(m.rec.hist) <= HistoryLimit
    /\ m.stage # "idle" => m.check \in Checks
    /\ m.stage = "get" => Fresh(m.rec) \/ (del /\ Uncounted(m.rec))
    /\ m.stage = "put" => Sound(m.rec, del)
Running(m, del, ev) ==
    /\ m \in RunnerRecords /\ Len(m.rec.hist) <= HistoryLimit
    /\ m.stage # "idle" => m.check \in Checks
    /\ m.stage = "get" => Uncounted(m.rec) /\ (del \/ ev[m.check] # None)
    /\ m.stage = "put" => Sound(m.rec, del)
Asked(m, del) ==
    /\ m \in APIRecords /\ Len(m.rec.hist) <= HistoryLimit
    /\ m.stage = "publish" => m.found \in Checks /\ Counted(m.rec)
    /\ m.stage # "idle" => del

Switches == /\ switch \in [Checks -> SW!States] /\ deaths \in [Checks -> 0 .. MaxDeaths]
            /\ lost \in [Checks -> BOOLEAN]
Flags == ent \in BOOLEAN /\ proxy \in BOOLEAN /\ kaFailing \in BOOLEAN /\ deleted \in BOOLEAN
Numbers == results \in 0 .. MaxResults /\ incidents \in 0 .. MaxIncidents

Inv == /\ Switches /\ Flags /\ Numbers
       /\ Stored(events, deleted)
       /\ worker \in [Workers -> WorkerRecords] /\ \A w \in Workers : Working(worker[w], deleted)
       /\ runner \in [Backends -> RunnerRecords]
       /\ \A b \in Backends : Running(runner[b], deleted, events)
       /\ Asked(api, deleted)

-----------------------------------------------------------------------------
(* Runs at the end of a history.                                            *)

\* A history has one run at its end.
LEMMA RunUnique == ASSUME NEW h \in Seq(Statuses), NEW m, NEW n, RunOf(h, m), RunOf(h, n)
                   PROVE  m = n
  <1>1. Len(h) \in Nat /\ m \in 0 .. Len(h) /\ n \in 0 .. Len(h)
    BY DEF RunOf
  <1>2. ASSUME NEW k \in 0 .. Len(h), NEW l \in 0 .. Len(h), RunOf(h, k), RunOf(h, l), k < l
        PROVE  FALSE
    <2>1. k < Len(h) /\ Len(h) - k \in Len(h) - l + 1 .. Len(h)
      BY <1>1, <1>2
    <2>2. h[Len(h) - k] # h[Len(h)]
      BY <1>2, <2>1 DEF RunOf
    <2>3. h[Len(h) - k] = h[Len(h)]
      BY <1>2, <2>1 DEF RunOf
    <2> QED BY <2>2, <2>3
  <1>3. ~(m < n) /\ ~(n < m)
    BY <1>1, <1>2
  <1> QED BY <1>1, <1>3

\* There is one.
LEMMA RunExists == ASSUME NEW h \in Seq(Statuses)
                   PROVE  \E n \in 0 .. Len(h) : RunOf(h, n)
  <1> DEFINE T == {n \in 0 .. Len(h) : n < Len(h) => h[Len(h) - n] # h[Len(h)]}
  <1>0. Len(h) \in Nat
    OBVIOUS
  <1>1. T \subseteq Nat /\ Len(h) \in T
    BY <1>0
  <1>2. PICK n \in T : \A m \in T : ~(<<m, n>> \in OpToRel(<, Nat))
    <2>1. T # {}
      BY <1>1
    <2> HIDE DEF T
    <2> QED BY <1>1, <2>1, NatLessThanWellFounded, WFMin, Zenon
  <1>3. \A m \in T : ~(m < n)
    BY <1>1, <1>2 DEF OpToRel
  <1>4. ASSUME NEW i \in Len(h) - n + 1 .. Len(h) PROVE h[i] = h[Len(h)]
    <2>1. n \in 0 .. Len(h) /\ i \in 1 .. Len(h)
      BY <1>0
    <2>2. Len(h) - i \in 0 .. Len(h) /\ Len(h) - i < n /\ Len(h) - i < Len(h)
      BY <1>0, <2>1
    <2>3. Len(h) - i \notin T
      BY <1>3, <2>2
    <2>4. h[Len(h) - (Len(h) - i)] = h[Len(h)]
      BY <2>2, <2>3
    <2>5. Len(h) - (Len(h) - i) = i
      BY <1>0, <2>1
    <2> QED BY <2>4, <2>5
  <1>5. RunOf(h, n)
    BY <1>4 DEF RunOf
  <1> QED BY <1>5

\* Run is it.
LEMMA RunIs == ASSUME NEW h \in Seq(Statuses)
               PROVE  /\ RunOf(h, Run(h)) /\ Run(h) \in 0 .. Len(h) /\ Run(h) \in Nat
                      /\ \A n : RunOf(h, n) => Run(h) = n
  <1>1. \E n \in 0 .. Len(h) : RunOf(h, n)
    BY RunExists
  <1>2. Run(h) = CHOOSE n \in 0 .. Len(h) : RunOf(h, n)
    <2>1. \A n \in 0 .. Len(h) : RunOf(h, n) <=>
             /\ \A i \in Len(h) - n + 1 .. Len(h) : h[i] = h[Len(h)]
             /\ n < Len(h) => h[Len(h) - n] # h[Len(h)]
      BY Zenon DEF RunOf
    <2> QED BY <2>1, Zenon DEF Run
  <1>3. RunOf(h, Run(h)) /\ Run(h) \in 0 .. Len(h)
    BY <1>1, <1>2, Zenon
  <1>4. Run(h) \in Nat
    BY <1>3
  <1>5. ASSUME NEW n, RunOf(h, n) PROVE Run(h) = n
    BY <1>3, <1>5, RunUnique
  <1> QED BY <1>3, <1>4, <1>5

\* A result that is added makes the run longer, or starts a new one.
LEMMA RunAppend ==
    ASSUME NEW h \in Seq(Statuses), NEW v \in Statuses
    PROVE  /\ Append(h, v) \in Seq(Statuses)
           /\ Run(Append(h, v)) = IF h # <<>> /\ h[Len(h)] = v THEN Run(h) + 1 ELSE 1
  <1> DEFINE g == Append(h, v)
  <1>0. Len(h) \in Nat
    OBVIOUS
  <1>1. /\ g \in Seq(Statuses) /\ Len(g) = Len(h) + 1 /\ g[Len(g)] = v
        /\ \A i \in 1 .. Len(h) : g[i] = h[i]
    OBVIOUS
  <1>2. RunOf(h, Run(h)) /\ Run(h) \in 0 .. Len(h)
    BY RunIs
  <1> HIDE DEF g
  <1>3. CASE h # <<>> /\ h[Len(h)] = v
    <2>1. Run(h) + 1 \in 0 .. Len(g)
      BY <1>0, <1>1, <1>2
    <2>2. ASSUME NEW i \in Len(g) - (Run(h) + 1) + 1 .. Len(g) PROVE g[i] = g[Len(g)]
      <3>1. CASE i = Len(g)
        BY <3>1
      <3>2. CASE i # Len(g)
        <4>1. i \in Len(h) - Run(h) + 1 .. Len(h) /\ i \in 1 .. Len(h)
          BY <3>2, <1>0, <1>1, <1>2
        <4> QED BY <4>1, <1>1, <1>2, <1>3 DEF RunOf
      <3> QED BY <3>1, <3>2
    <2>3. ASSUME Run(h) + 1 < Len(g) PROVE g[Len(g) - (Run(h) + 1)] # g[Len(g)]
      <3>1. /\ Len(g) - (Run(h) + 1) = Len(h) - Run(h) /\ Run(h) < Len(h)
            /\ Len(h) - Run(h) \in 1 .. Len(h)
        BY <2>3, <1>0, <1>1, <1>2
      <3>2. h[Len(h) - Run(h)] # h[Len(h)]
        BY <3>1, <1>2 DEF RunOf
      <3> QED BY <3>1, <3>2, <1>1, <1>3
    <2>4. RunOf(g, Run(h) + 1)
      BY <2>1, <2>2, <2>3 DEF RunOf
    <2> QED BY <2>4, <1>1, <1>3, RunIs DEF g
  <1>4. CASE ~(h # <<>> /\ h[Len(h)] = v)
    <2>1. 1 \in 0 .. Len(g) /\ \A i \in Len(g) - 1 + 1 .. Len(g) : i = Len(g)
      BY <1>0, <1>1
    <2>2. ASSUME 1 < Len(g) PROVE g[Len(g) - 1] # g[Len(g)]
      <3>1. Len(g) - 1 = Len(h) /\ Len(h) \in 1 .. Len(h) /\ h # <<>>
        BY <2>2, <1>0, <1>1
      <3> QED BY <3>1, <1>1, <1>4
    <2>3. RunOf(g, 1)
      BY <2>1, <2>2 DEF RunOf
    <2> QED BY <2>3, <1>1, <1>4, RunIs DEF g
  <1> QED BY <1>1, <1>3, <1>4 DEF g

\* The oldest result only counts in a run that reaches back to it.
LEMMA RunTail ==
    ASSUME NEW h \in Seq(Statuses), Len(h) > 1
    PROVE  /\ Tail(h) \in Seq(Statuses) /\ Len(Tail(h)) = Len(h) - 1
           /\ Tail(h)[Len(Tail(h))] = h[Len(h)]
           /\ Run(Tail(h)) = IF Run(h) = Len(h) THEN Len(h) - 1 ELSE Run(h)
  <1> DEFINE g == Tail(h)
  <1>0. Len(h) \in Nat
    OBVIOUS
  <1>1. /\ g \in Seq(Statuses) /\ Len(g) = Len(h) - 1
        /\ \A i \in 1 .. Len(h) - 1 : g[i] = h[i + 1]
    OBVIOUS
  <1>2. RunOf(h, Run(h)) /\ Run(h) \in 0 .. Len(h)
    BY RunIs
  <1>3. g[Len(g)] = h[Len(h)]
    BY <1>0, <1>1
  <1> HIDE DEF g
  <1>4. CASE Run(h) = Len(h)
    <2>1. ASSUME NEW i \in Len(g) - (Len(h) - 1) + 1 .. Len(g) PROVE g[i] = g[Len(g)]
      <3>1. i \in 1 .. Len(h) - 1 /\ i + 1 \in Len(h) - Run(h) + 1 .. Len(h)
        BY <1>0, <1>1, <1>4
      <3> QED BY <3>1, <1>1, <1>2, <1>3 DEF RunOf
    <2>2. Len(h) - 1 \in 0 .. Len(g) /\ ~(Len(h) - 1 < Len(g))
      BY <1>0, <1>1
    <2>3. RunOf(g, Len(h) - 1)
      BY <2>1, <2>2 DEF RunOf
    <2> QED BY <2>3, <1>1, <1>3, <1>4, RunIs DEF g
  <1>5. CASE Run(h) < Len(h)
    <2>1. Run(h) \in 0 .. Len(g)
      BY <1>0, <1>1, <1>2, <1>5
    <2>2. ASSUME NEW i \in Len(g) - Run(h) + 1 .. Len(g) PROVE g[i] = g[Len(g)]
      <3>1. i \in 1 .. Len(h) - 1 /\ i + 1 \in Len(h) - Run(h) + 1 .. Len(h)
        BY <2>1, <1>0, <1>1
      <3> QED BY <3>1, <1>1, <1>2, <1>3 DEF RunOf
    <2>3. ASSUME Run(h) < Len(g) PROVE g[Len(g) - Run(h)] # g[Len(g)]
      <3>1. /\ Len(g) - Run(h) \in 1 .. Len(h) - 1 /\ (Len(g) - Run(h)) + 1 = Len(h) - Run(h)
        BY <2>1, <2>3, <1>0, <1>1
      <3>2. h[Len(h) - Run(h)] # h[Len(h)]
        BY <1>2, <1>5 DEF RunOf
      <3>3. g[Len(g) - Run(h)] = h[(Len(g) - Run(h)) + 1]
        BY <3>1, <1>1
      <3> QED BY <3>1, <3>2, <3>3, <1>3
    <2>4. RunOf(g, Run(h))
      BY <2>1, <2>2, <2>3 DEF RunOf
    <2>5. Run(g) = Run(h)
      BY <2>4, <1>1, RunIs
    <2>6. Run(h) # Len(h)
      BY <1>0, <1>2, <1>5
    <2> QED BY <2>5, <2>6, <1>1, <1>3 DEF g
  <1> QED BY <1>0, <1>2, <1>4, <1>5

-----------------------------------------------------------------------------
(* Records.                                                                 *)

\* The fields of a record.
LEMMA Fields == ASSUME NEW r \in Records
                PROVE  /\ r.status \in Statuses /\ r.ttl \in TTLs /\ r.hist \in Seq(Statuses)
                       /\ r.occ \in 0 .. MaxCount /\ r.wm \in 0 .. MaxCount
                       /\ r.occ \in Nat /\ r.wm \in Nat /\ Len(r.hist) \in Nat
  BY BoundAssumption DEF Records

\* Counting up to the bound.
LEMMA IncIs == ASSUME NEW n \in 0 .. MaxCount
               PROVE  /\ Inc(n) \in 0 .. MaxCount /\ Inc(n) >= n /\ Inc(n) \in Nat
                      /\ Inc(n) = n + 1 \/ (n = MaxCount /\ Inc(n) = n)
  BY BoundAssumption DEF Inc

\* The history that MergeWith makes of the previous one and a result.
LEMMA Extended ==
    ASSUME NEW h \in Seq(Statuses), Len(h) <= HistoryLimit, NEW v \in Statuses
    PROVE  LET g == Truncate(Append(h, v)) IN
           /\ g \in Seq(Statuses) /\ g # <<>> /\ Len(g) \in Nat
           /\ Len(g) <= HistoryLimit /\ g[Len(g)] = v
           /\ Repeats(g) => h # <<>> /\ h[Len(h)] = v
           /\ Repeats(g) => Run(g) <= Run(h) + 1 /\ (Run(g) < HistoryLimit => Run(g) = Run(h) + 1)
           /\ ~Repeats(g) => Run(g) = 1
  <1> DEFINE a == Append(h, v)
             g == Truncate(a)
  <1>0. Len(h) \in Nat /\ HistoryLimit \in Nat /\ HistoryLimit > 1
    BY BoundAssumption
  <1>1. /\ a \in Seq(Statuses) /\ Len(a) = Len(h) + 1 /\ a[Len(a)] = v
        /\ h # <<>> => a[Len(a) - 1] = h[Len(h)] /\ Len(h) > 0
        /\ h = <<>> => Len(h) = 0
    BY <1>0
  <1>2. Run(a) = IF h # <<>> /\ h[Len(h)] = v THEN Run(h) + 1 ELSE 1
    BY RunAppend
  <1>3. Run(h) \in 0 .. Len(h)
    BY RunIs
  <1> HIDE DEF a
  <1>4. CASE Len(a) <= HistoryLimit
    <2>1. g = a
      BY <1>0, <1>1, <1>4 DEF Truncate
    <2>2. Repeats(a) <=> h # <<>> /\ h[Len(h)] = v
      BY <1>0, <1>1 DEF Repeats
    <2>3. Repeats(a) => Run(a) = Run(h) + 1
      BY <2>2, <1>2
    <2>4. ~Repeats(a) => Run(a) = 1
      BY <2>2, <1>2
    <2>6. a # <<>> /\ Len(a) \in Nat
      BY <1>0, <1>1
    <2>7. Repeats(a) => Run(a) <= Run(h) + 1
      BY <2>3, <1>0, <1>3
    <2> HIDE DEF g
    <2> QED BY <2>1, <2>2, <2>3, <2>4, <2>6, <2>7, <1>1, <1>4 DEF g, a
  <1>5. CASE Len(a) > HistoryLimit
    <2>1. g = Tail(a) /\ Len(h) = HistoryLimit /\ Len(a) > 2
      BY <1>0, <1>1, <1>5 DEF Truncate
    <2>2. /\ g \in Seq(Statuses) /\ Len(g) = Len(a) - 1 /\ g[Len(g)] = a[Len(a)]
          /\ Run(g) = IF Run(a) = Len(a) THEN Len(a) - 1 ELSE Run(a)
      BY <2>1, <1>0, <1>1, RunTail
    <2>3. g[Len(g) - 1] = a[Len(a) - 1]
      BY <2>1, <1>0, <1>1
    <2> HIDE DEF g
    <2>4. Repeats(g) <=> h # <<>> /\ h[Len(h)] = v
      BY <2>1, <2>2, <2>3, <1>0, <1>1 DEF Repeats
    <2>5. ~Repeats(g) => Run(g) = 1
      BY <2>1, <2>2, <2>4, <1>0, <1>2
    <2>6. ASSUME Repeats(g)
          PROVE  Run(g) <= Run(h) + 1 /\ (Run(g) < HistoryLimit => Run(g) = Run(h) + 1)
      <3>1. Run(a) = Run(h) + 1
        BY <2>4, <2>6, <1>2
      <3> QED BY <3>1, <2>1, <2>2, <1>0, <1>1, <1>3
    <2>7. g # <<>> /\ Len(g) \in Nat /\ Len(g) <= HistoryLimit
      BY <2>1, <2>2, <1>0, <1>1
    <2> QED BY <2>2, <2>4, <2>5, <2>6, <2>7, <1>1 DEF g, a
  <1> QED BY <1>0, <1>1, <1>4, <1>5

\* What MergeWith returns.
LEMMA MergeIs ==
    ASSUME NEW r \in Records, NEW prev \in Records, Len(prev.hist) <= HistoryLimit
    PROVE  LET m == MergeWith(r, prev) IN
           /\ m \in Records /\ m.status = r.status /\ m.ttl = r.ttl
           /\ m.occ = prev.occ /\ m.wm = prev.wm /\ Len(m.hist) <= HistoryLimit
           /\ m.hist = Truncate(Append(prev.hist, r.status)) /\ LastIsStatus(m)
  <1> DEFINE g == Truncate(Append(prev.hist, r.status))
             m == MergeWith(r, prev)
  <1>1. g \in Seq(Statuses) /\ Len(g) <= HistoryLimit /\ g[Len(g)] = r.status
    BY Fields, Extended
  <1> HIDE DEF g
  <1>2. m = [r EXCEPT !.hist = g, !.occ = prev.occ, !.wm = prev.wm]
    BY DEF MergeWith, g
  <1> HIDE DEF m
  <1>3. /\ m \in Records /\ m.status = r.status /\ m.ttl = r.ttl
        /\ m.occ = prev.occ /\ m.wm = prev.wm /\ m.hist = g
    BY <1>1, <1>2 DEF Records
  <1> QED BY <1>1, <1>3 DEF g, m, LastIsStatus

\* What updateOccurrences returns.
LEMMA UpdateIs ==
    ASSUME NEW r \in Records
    PROVE  LET u == updateOccurrences(r) IN
           /\ u \in Records /\ u.status = r.status /\ u.ttl = r.ttl /\ u.hist = r.hist
           /\ u.occ = IF Repeats(r.hist) THEN Inc(r.occ) ELSE 1
           /\ \/ u.occ = 1 /\ u.wm = 1
              \/ u.wm = IF u.occ <= r.wm THEN r.wm ELSE Inc(r.wm)
  <1> DEFINE n == Len(r.hist)
             same == n > 1 /\ r.hist[n] = r.hist[n - 1]
             incident == n > 1 /\ r.hist[n] # 0 /\ r.hist[n - 1] = 0
             occ == IF same THEN Inc(r.occ) ELSE 1
             wm == IF incident THEN 1 ELSE IF occ <= r.wm THEN r.wm ELSE Inc(r.wm)
             u == updateOccurrences(r)
  <1>1. u = [r EXCEPT !.occ = occ, !.wm = wm]
    BY DEF updateOccurrences
  <1>2. same <=> Repeats(r.hist)
    BY DEF Repeats
  <1>3. incident => ~same
    OBVIOUS
  <1> HIDE DEF u, n, same, incident
  <1>4. 1 \in 0 .. MaxCount
    BY BoundAssumption
  <1>5. occ \in 0 .. MaxCount
    BY <1>4, Fields, IncIs
  <1>6. incident => occ = 1
    BY <1>3
  <1> HIDE DEF occ
  <1>7. wm \in 0 .. MaxCount
    BY <1>4, Fields, IncIs
  <1>8. (occ = 1 /\ wm = 1) \/ wm = IF occ <= r.wm THEN r.wm ELSE Inc(r.wm)
    BY <1>6
  <1> HIDE DEF wm
  <1>9. /\ u \in Records /\ u.status = r.status /\ u.ttl = r.ttl /\ u.hist = r.hist
        /\ u.occ = occ /\ u.wm = wm
    BY <1>1, <1>5, <1>7 DEF Records
  <1> QED BY <1>2, <1>8, <1>9 DEF u, occ

\* A record that has been counted can be counted once more.
LEMMA CountedAgain == ASSUME NEW r \in Records, Counted(r) PROVE Uncounted(r)
  <1>1. r.occ \in Nat /\ Run(r.hist) \in Nat /\ Inc(r.occ) >= r.occ /\ Inc(r.occ) \in Nat
    BY Fields, IncIs, RunIs
  <1> QED BY <1>1 DEF Counted, Uncounted

\* Merging a result into a counted record leaves that result to be counted.
LEMMA MergeCounts ==
    ASSUME NEW r \in Records, NEW prev \in Records, Len(prev.hist) <= HistoryLimit, Counted(prev)
    PROVE  Uncounted(MergeWith(r, prev))
  <1> DEFINE m == MergeWith(r, prev)
             g == Truncate(Append(prev.hist, r.status))
  <1>1. m.occ = prev.occ /\ m.wm = prev.wm /\ m.hist = g /\ LastIsStatus(m)
    BY MergeIs
  <1>2. /\ Repeats(g) => Run(g) <= Run(prev.hist) + 1
        /\ g \in Seq(Statuses) /\ Len(g) <= HistoryLimit /\ Len(g) \in Nat
    BY Fields, Extended
  <1> HIDE DEF g, m
  <1>3. Run(g) \in 0 .. Len(g) /\ Run(prev.hist) \in Nat
    BY <1>2, Fields, RunIs
  <1>4. Repeats(g) => Inc(prev.occ) >= Run(g)
    <2>1. /\ prev.occ \in Nat /\ prev.occ >= Run(prev.hist)
          /\ Inc(prev.occ) = prev.occ + 1 \/ (prev.occ = MaxCount /\ Inc(prev.occ) = prev.occ)
      BY Fields, IncIs DEF Counted
    <2> QED BY <2>1, <1>2, <1>3, BoundAssumption
  <1> QED BY <1>1, <1>4 DEF Uncounted, Counted, m

\* Counting the last result.
LEMMA UpdateCounts ==
    ASSUME NEW r \in Records, Fresh(r) \/ Uncounted(r)
    PROVE  Counted(updateOccurrences(r))
  <1> DEFINE u == updateOccurrences(r)
  <1>1. /\ u \in Records /\ u.status = r.status /\ u.hist = r.hist
        /\ u.occ = IF Repeats(r.hist) THEN Inc(r.occ) ELSE 1
        /\ \/ u.occ = 1 /\ u.wm = 1
           \/ u.wm = IF u.occ <= r.wm THEN r.wm ELSE Inc(r.wm)
    BY UpdateIs
  <1> HIDE DEF u
  <1>2. /\ r.occ \in Nat /\ r.wm \in Nat /\ r.occ \in 0 .. MaxCount /\ r.wm \in 0 .. MaxCount
        /\ r.hist \in Seq(Statuses) /\ Len(r.hist) \in Nat /\ MaxCount \in Nat /\ MaxCount > 2
    BY Fields, BoundAssumption
  <1>3. /\ Inc(r.occ) >= r.occ /\ Inc(r.occ) \in 0 .. MaxCount
        /\ Inc(r.occ) = r.occ + 1 \/ (r.occ = MaxCount /\ Inc(r.occ) = r.occ)
        /\ Inc(r.wm) = r.wm + 1 \/ (r.wm = MaxCount /\ Inc(r.wm) = r.wm)
    BY <1>2, IncIs
  <1>4. LastIsStatus(u)
    BY <1>1 DEF LastIsStatus, Fresh, Uncounted
  <1>5. u.occ >= Run(u.hist)
    <2>1. CASE Repeats(r.hist)
      <3>1. ~Fresh(r)
        BY <2>1 DEF Fresh, Repeats
      <3> QED BY <2>1, <3>1, <1>1 DEF Uncounted
    <2>2. CASE ~Repeats(r.hist)
      <3>1. RunOf(r.hist, Run(r.hist)) /\ Run(r.hist) \in 0 .. Len(r.hist)
        BY <1>2, RunIs
      <3>2. ASSUME Run(r.hist) > 1 PROVE FALSE
        <4>1. /\ Len(r.hist) > 1
              /\ Len(r.hist) - 1 \in Len(r.hist) - Run(r.hist) + 1 .. Len(r.hist)
          BY <3>1, <3>2, <1>2
        <4>2. r.hist[Len(r.hist) - 1] = r.hist[Len(r.hist)]
          BY <3>1, <4>1 DEF RunOf
        <4> QED BY <2>2, <4>1, <4>2 DEF Repeats
      <3> QED BY <2>2, <3>1, <3>2, <1>1, <1>2
    <2> QED BY <2>1, <2>2
  <1>6. u.occ >= 1 /\ u.occ <= u.wm
    <2>1. CASE Fresh(r)
      <3>1. ~Repeats(r.hist) /\ r.wm = 0
        BY <2>1 DEF Fresh, Repeats
      <3> QED BY <3>1, <1>1, <1>2, <1>3
    <2>2. CASE Uncounted(r)
      <3>1. r.occ >= 1 /\ r.occ <= r.wm
        BY <2>2 DEF Uncounted
      <3>2. CASE Repeats(r.hist)
        <4>1. u.occ = Inc(r.occ)
          BY <3>2, <1>1
        <4> QED BY <4>1, <3>1, <1>1, <1>2, <1>3
      <3>3. CASE ~Repeats(r.hist)
        <4>1. u.occ = 1
          BY <3>3, <1>1
        <4> QED BY <4>1, <3>1, <1>1, <1>2, <1>3
      <3> QED BY <3>2, <3>3
    <2> QED BY <2>1, <2>2
  <1> QED BY <1>4, <1>5, <1>6 DEF Counted, u

\* An event that is exact stays so when a result is merged and counted.
LEMMA MergeExact ==
    ASSUME NEW r \in Records, NEW prev \in Records, Len(prev.hist) <= HistoryLimit,
           Counted(prev), Exact(prev)
    PROVE  Exact(updateOccurrences(MergeWith(r, prev)))
  <1> DEFINE m == MergeWith(r, prev)
             u == updateOccurrences(m)
             g == Truncate(Append(prev.hist, r.status))
  <1>1. m \in Records /\ m.occ = prev.occ /\ m.hist = g
    BY MergeIs
  <1>2. /\ Repeats(g) => /\ Run(g) < HistoryLimit => Run(g) = Run(prev.hist) + 1
                         /\ prev.hist # <<>>
        /\ ~Repeats(g) => Run(g) = 1
    BY Fields, Extended
  <1> HIDE DEF m, g
  <1>3. u.hist = m.hist /\ u.occ = IF Repeats(m.hist) THEN Inc(m.occ) ELSE 1
    BY <1>1, UpdateIs
  <1> HIDE DEF u
  <1>4. CASE ~Repeats(g)
    BY <1>1, <1>2, <1>3, <1>4 DEF Exact, u, m
  <1>5. CASE Repeats(g) /\ Run(g) < HistoryLimit
    <2>0. Run(prev.hist) \in Nat
      BY Fields, RunIs
    <2>1. Run(g) = Run(prev.hist) + 1 /\ Run(prev.hist) < HistoryLimit /\ prev.hist # <<>>
      BY <1>2, <1>5, <2>0, BoundAssumption
    <2>2. prev.occ = Run(prev.hist)
      BY <2>1 DEF Exact
    <2>3. prev.occ < MaxCount
      BY <2>0, <2>1, <2>2, BoundAssumption
    <2>4. u.occ = Run(g)
      BY <2>1, <2>2, <2>3, <1>1, <1>3, <1>5 DEF Inc
    <2> QED BY <2>4, <1>1, <1>3 DEF Exact, u, m
  <1>6. CASE ~(Run(g) < HistoryLimit)
    BY <1>1, <1>3, <1>6 DEF Exact, u, m
  <1> QED BY <1>4, <1>5, <1>6

\* Counting a first result leaves nothing to compare it with.
LEMMA FreshExact == ASSUME NEW r \in Records, Fresh(r) PROVE Exact(updateOccurrences(r))
  BY UpdateIs DEF Fresh, Exact

-----------------------------------------------------------------------------
(* The parts of the invariant.                                              *)

\* What the invariant says of the properties.
LEMMA InvGives == Inv => TypeOK /\ CountersAgree
  <1> SUFFICES ASSUME Inv PROVE TypeOK /\ CountersAgree
    OBVIOUS
  <1>1. TypeOK
    <2>1. /\ switch \in [Checks -> SW!States] /\ deaths \in [Checks -> 0 .. MaxDeaths]
          /\ lost \in [Checks -> BOOLEAN]
      BY DEF Inv, Switches
    <2>2. events \in [Checks -> Records] /\ \A c \in Checks : Len(events[c].hist) <= HistoryLimit
      BY DEF Inv, Stored
    <2>3. ent \in BOOLEAN /\ proxy \in BOOLEAN /\ kaFailing \in BOOLEAN /\ deleted \in BOOLEAN
      BY Zenon DEF Inv, Flags
    <2>4. results \in 0 .. MaxResults /\ incidents \in 0 .. MaxIncidents
      BY DEF Inv, Numbers
    <2>5. /\ worker \in [Workers -> WorkerRecords] /\ runner \in [Backends -> RunnerRecords]
          /\ api \in APIRecords
      BY DEF Inv, Asked
    <2> QED BY <2>1, <2>2, <2>3, <2>4, <2>5, Zenon DEF TypeOK, WorkerRecords, RunnerRecords, APIRecords
  <1>2. ASSUME NEW c \in Checks, events[c] # None
        PROVE  /\ events[c].hist # <<>> => events[c].hist[Len(events[c].hist)] = events[c].status
               /\ events[c].occ >= 1 /\ events[c].occ <= events[c].wm
               /\ events[c].occ >= Run(events[c].hist)
               /\ ~deleted /\ events[c].hist # <<>> /\ Run(events[c].hist) < HistoryLimit
                    => events[c].occ = Run(events[c].hist)
    <2>1. Counted(events[c]) /\ (deleted \/ Exact(events[c]))
      BY <1>2 DEF Inv, Stored, Sound
    <2> QED BY <2>1, Zenon DEF Counted, Exact, LastIsStatus
  <1> QED BY <1>1, <1>2, Zenon DEF CountersAgree

\* The records that are idle.
LEMMA Idles ==
    /\ None \in Records /\ Len(None.hist) = 0 /\ None.occ = 0
    /\ IdleWorker \in WorkerRecords /\ IdleWorker.stage = "idle" /\ IdleWorker.rec = None
    /\ IdleRunner \in RunnerRecords /\ IdleRunner.stage = "idle" /\ IdleRunner.rec = None
    /\ IdleAPI \in APIRecords /\ IdleAPI.stage = "idle" /\ IdleAPI.rec = None
    /\ \A del \in BOOLEAN : \A ev : Working(IdleWorker, del) /\ Running(IdleRunner, del, ev) /\ Asked(IdleAPI, del)
  <1>1. None \in Records /\ Len(None.hist) = 0 /\ None.occ = 0
    BY BoundAssumption DEF None, Result, Records, Statuses, TTLs
  <1>2. IdleWorker \in WorkerRecords /\ IdleWorker.stage = "idle" /\ IdleWorker.rec = None
    BY <1>1 DEF IdleWorker, WorkerRecords, Stages
  <1>3. IdleRunner \in RunnerRecords /\ IdleRunner.stage = "idle" /\ IdleRunner.rec = None
    BY <1>1 DEF IdleRunner, RunnerRecords, Stages
  <1>4. IdleAPI \in APIRecords /\ IdleAPI.stage = "idle" /\ IdleAPI.rec = None
    BY <1>1 DEF IdleAPI, APIRecords, Stages
  <1>5. 0 <= HistoryLimit
    BY BoundAssumption
  <1>6. \A del \in BOOLEAN : Working(IdleWorker, del)
    BY <1>1, <1>2, <1>5 DEF Working
  <1>7. \A del \in BOOLEAN : \A ev : Running(IdleRunner, del, ev)
    BY <1>1, <1>3, <1>5 DEF Running
  <1>8. \A del \in BOOLEAN : Asked(IdleAPI, del)
    BY <1>1, <1>4, <1>5 DEF Asked
  <1> QED BY <1>1, <1>2, <1>3, <1>4, <1>6, <1>7, <1>8

\* A counted record is an event.
LEMMA CountedIsEvent == ASSUME NEW r, Counted(r) PROVE r # None
  BY Idles DEF Counted

\* Nothing is asked of a record that a deletion would spoil.
LEMMA Later ==
    ASSUME NEW d \in BOOLEAN, NEW e \in BOOLEAN, d => e
    PROVE  /\ \A r : Sound(r, d) => Sound(r, e)
           /\ \A ev : Stored(ev, d) => Stored(ev, e)
           /\ \A m : Working(m, d) => Working(m, e)
           /\ \A m, ev : Running(m, d, ev) => Running(m, e, ev)
           /\ \A m : Asked(m, d) => Asked(m, e)
  <1>1. \A r : Sound(r, d) => Sound(r, e)
    BY Zenon DEF Sound
  <1>2. \A ev : Stored(ev, d) => Stored(ev, e)
    BY <1>1, Zenon DEF Stored
  <1>3. \A m : Working(m, d) => Working(m, e)
    BY <1>1, Zenon DEF Working
  <1>4. \A m, ev : Running(m, d, ev) => Running(m, e, ev)
    BY <1>1, Zenon DEF Running
  <1>5. \A m : Asked(m, d) => Asked(m, e)
    BY Zenon DEF Asked
  <1> QED BY <1>1, <1>2, <1>3, <1>4, <1>5

\* What GetEventByEntityCheck finds.
LEMMA FoundIs ==
    ASSUME NEW c \in Checks
    PROVE  /\ Found(c) \in Checks \cup {NoCheck}
           /\ Found(c) # NoCheck => Found(c) \in Checks /\ events[Found(c)] # None
           /\ Found(c) = NoCheck => events[c] = None
  <1>1. c # NoCheck /\ Longer[c] \in Checks \cup {NoCheck}
    BY NameAssumption
  <1> QED BY <1>1 DEF Found

\* What UpdateEvent is going to write.
LEMMA UpdatedIs ==
    ASSUME Stored(events, deleted), deleted \in BOOLEAN, NEW c \in Checks, NEW r \in Records,
           Len(r.hist) <= HistoryLimit, Fresh(r) \/ Uncounted(r),
           events[c] = None => Fresh(r) \/ deleted
    PROVE  /\ Updated(r, c) \in Records /\ Len(Updated(r, c).hist) <= HistoryLimit
           /\ Updated(r, c).ttl = r.ttl /\ Sound(Updated(r, c), deleted)
  <1>1. CASE Found(c) = NoCheck
    <2>1. Updated(r, c) = updateOccurrences(r) /\ events[c] = None
      BY <1>1, FoundIs DEF Updated
    <2>2. /\ updateOccurrences(r) \in Records /\ updateOccurrences(r).hist = r.hist
          /\ updateOccurrences(r).ttl = r.ttl
      BY UpdateIs
    <2>3. Counted(updateOccurrences(r))
      BY UpdateCounts
    <2>4. Fresh(r) => Exact(updateOccurrences(r))
      BY FreshExact
    <2>5. Sound(updateOccurrences(r), deleted)
      BY <2>1, <2>3, <2>4, Zenon DEF Sound
    <2> QED BY <2>1, <2>2, <2>5
  <1>2. CASE Found(c) # NoCheck
    <2>1. PICK prev : prev = events[Found(c)]
      OBVIOUS
    <2>2. Updated(r, c) = updateOccurrences(MergeWith(r, prev))
      BY <1>2, <2>1 DEF Updated
    <2>3. prev \in Records /\ Len(prev.hist) <= HistoryLimit /\ Sound(prev, deleted)
      BY <1>2, <2>1, FoundIs DEF Stored
    <2>4. Counted(prev) /\ (deleted \/ Exact(prev))
      BY <2>3, Zenon DEF Sound
    <2>5. PICK m : m = MergeWith(r, prev)
      OBVIOUS
    <2>6. /\ m \in Records /\ m.ttl = r.ttl /\ Len(m.hist) <= HistoryLimit
      BY <2>3, <2>5, MergeIs
    <2>7. Uncounted(m)
      BY <2>3, <2>4, <2>5, MergeCounts
    <2>8. /\ updateOccurrences(m) \in Records /\ updateOccurrences(m).hist = m.hist
          /\ updateOccurrences(m).ttl = m.ttl
      BY <2>6, UpdateIs
    <2>9. Counted(updateOccurrences(m))
      BY <2>6, <2>7, UpdateCounts
    <2>10. Exact(prev) => Exact(updateOccurrences(m))
      BY <2>3, <2>4, <2>5, MergeExact
    <2>11. Sound(updateOccurrences(m), deleted)
      BY <2>4, <2>9, <2>10, Zenon DEF Sound
    <2> QED BY <2>2, <2>5, <2>6, <2>8, <2>11
  <1> QED BY <1>1, <1>2

\* The steps of a switch.
LEMMA SwitchTypes ==
    ASSUME Switches, NEW c \in Checks
    PROVE  /\ Alive(c) => Switches'
           /\ BuryPut(c) => Switches'
           /\ BuryDelete(c) /\ UNCHANGED lost => Switches'
           /\ SW!Vanish(c) /\ deaths[c] < MaxDeaths /\ UNCHANGED lost => Switches'
           /\ SW!TakeOver(c) /\ lost' = [lost EXCEPT ![c] = FALSE] => Switches'
           /\ SW!Forgo(c) /\ (UNCHANGED lost \/ lost' = [lost EXCEPT ![c] = TRUE]) => Switches'
  <1>0. /\ switch \in [Checks -> SW!States] /\ deaths \in [Checks -> 0 .. MaxDeaths]
        /\ lost \in [Checks -> BOOLEAN]
    BY DEF Switches
  <1>1. \A s \in SW!States : [switch EXCEPT ![c] = s] \in [Checks -> SW!States]
    BY <1>0
  <1>2. {"absent", "alive", "dead", "buried"} = SW!States
    BY DEF SW!States
  <1>3. \A v \in BOOLEAN : [lost EXCEPT ![c] = v] \in [Checks -> BOOLEAN]
    BY <1>0
  <1>4. deaths[c] < MaxDeaths => [deaths EXCEPT ![c] = @ + 1] \in [Checks -> 0 .. MaxDeaths]
    BY <1>0, BoundAssumption
  <1>5. deaths[c] > 0 => [deaths EXCEPT ![c] = @ - 1] \in [Checks -> 0 .. MaxDeaths]
    BY <1>0, BoundAssumption
  <1>6. Alive(c) => Switches'
    BY <1>0, <1>1, <1>2, <1>3 DEF Alive, SW!Put, Switches
  <1>7. BuryPut(c) => Switches'
    BY <1>0, <1>1, <1>2, <1>3 DEF BuryPut, SW!Put, Switches
  <1>8. BuryDelete(c) /\ UNCHANGED lost => Switches'
    BY <1>0, <1>1, <1>2, <1>4 DEF BuryDelete, SW!Forget, SW!Vanish, Switches
  <1>9. SW!Vanish(c) /\ deaths[c] < MaxDeaths /\ UNCHANGED lost => Switches'
    BY <1>0, <1>1, <1>2, <1>4 DEF SW!Vanish, Switches
  <1>10. SW!TakeOver(c) /\ lost' = [lost EXCEPT ![c] = FALSE] => Switches'
    BY <1>0, <1>1, <1>2, <1>3, <1>5 DEF SW!TakeOver, Switches
  <1>11. SW!Forgo(c) /\ (UNCHANGED lost \/ lost' = [lost EXCEPT ![c] = TRUE]) => Switches'
    BY <1>0, <1>3, <1>5 DEF SW!Forgo, Switches
  <1> QED BY <1>6, <1>7, <1>8, <1>9, <1>10, <1>11

\* A worker goes on to m.
LEMMA WorkerPut ==
    ASSUME NEW del, worker \in [Workers -> WorkerRecords], \A x \in Workers : Working(worker[x], del),
           NEW w \in Workers, NEW m, Working(m, del), worker' = [worker EXCEPT ![w] = m]
    PROVE  worker' \in [Workers -> WorkerRecords] /\ \A x \in Workers : Working(worker'[x], del)
  <1>1. m \in WorkerRecords
    BY DEF Working
  <1>2. worker'[w] = m /\ \A x \in Workers : x # w => worker'[x] = worker[x]
    OBVIOUS
  <1> QED BY <1>1, <1>2

\* The dead callback of a backend goes on to m.
LEMMA RunnerPut ==
    ASSUME NEW del, NEW ev, runner \in [Backends -> RunnerRecords],
           \A x \in Backends : Running(runner[x], del, ev),
           NEW b \in Backends, NEW m, Running(m, del, ev), runner' = [runner EXCEPT ![b] = m]
    PROVE  runner' \in [Backends -> RunnerRecords] /\ \A x \in Backends : Running(runner'[x], del, ev)
  <1>1. m \in RunnerRecords
    BY DEF Running
  <1>2. runner'[b] = m /\ \A x \in Backends : x # b => runner'[x] = runner[x]
    OBVIOUS
  <1> QED BY <1>1, <1>2

\* The initial states satisfy the invariant.
LEMMA InitInv == Init => Inv
  <1> SUFFICES ASSUME Init PROVE Inv
    OBVIOUS
  <1>1. Switches
    BY BoundAssumption DEF Init, SW!Init, SW!States, Switches
  <1>2. Flags
    BY Zenon DEF Init, Flags
  <1>3. Numbers
    BY BoundAssumption DEF Init, Numbers
  <1>4. \A c \in Checks : events[c] = None
    BY DEF Init
  <1>5. Stored(events, deleted)
    <2>1. events \in [Checks -> Records]
      BY Idles DEF Init
    <2> QED BY <2>1, <1>4, Idles, BoundAssumption DEF Stored
  <1>6. deleted \in BOOLEAN
    BY <1>2 DEF Flags
  <1>7. worker \in [Workers -> WorkerRecords] /\ \A w \in Workers : Working(worker[w], deleted)
    BY <1>6, Idles DEF Init
  <1>8. runner \in [Backends -> RunnerRecords] /\ \A b \in Backends : Running(runner[b], deleted, events)
    BY <1>6, Idles DEF Init
  <1>9. Asked(api, deleted)
    BY <1>6, Idles DEF Init
  <1> QED BY <1>1, <1>2, <1>3, <1>5, <1>7, <1>8, <1>9 DEF Inv

-----------------------------------------------------------------------------
(* Steps of the switches and of what else there is.                         *)

\* Expiries: no record changes.
LEMMA SwitchInv ==
    ASSUME Inv, NEW c \in Checks, Expire(c) \/ Passed(c) \/ Missed(c)
    PROVE  Inv'
  <1>1. Switches'
    BY SwitchTypes, Zenon DEF Inv, Expire, Passed, Missed
  <1>2. UNCHANGED <<events, ent, proxy, kaFailing, worker, runner, api, results, deleted>>
    BY DEF Expire, Passed, Missed, bounds
  <1>3. Numbers'
    BY BoundAssumption DEF Inv, Expire, Passed, Missed, bounds, Numbers
  <1>4. Flags'
    BY <1>2, Zenon DEF Inv, Flags
  <1> QED BY <1>1, <1>2, <1>3, <1>4 DEF Inv

\* A keepalive fails, or is heard again, and the entity is stored again.
LEMMA KeepaliveInv == ASSUME Inv, Keepalive \/ UpdateEntity PROVE Inv'
  <1>1. kaFailing' \in BOOLEAN /\ ent' \in BOOLEAN
    <2>1. kaFailing \in BOOLEAN /\ ent \in BOOLEAN
      BY DEF Inv, Flags
    <2>2. CASE Keepalive
      BY <2>1, <2>2, Zenon DEF Keepalive
    <2>3. CASE UpdateEntity
      BY <2>1, <2>3, Zenon DEF UpdateEntity
    <2> QED BY <2>2, <2>3
  <1>2. Flags'
    BY <1>1, Zenon DEF Inv, Keepalive, UpdateEntity, Flags, bounds
  <1>3. UNCHANGED <<switch, deaths, events, worker, runner, api, results, incidents, deleted, lost>>
    BY DEF Keepalive, UpdateEntity, bounds
  <1>4. Switches' /\ Numbers'
    BY <1>3 DEF Inv, Switches, Numbers
  <1> QED BY <1>2, <1>3, <1>4 DEF Inv

\* The dead callbacks start.
LEMMA TakeOverInv ==
    ASSUME Inv, NEW b \in Backends, NEW c \in Checks, TakeOver(b, c)
    PROVE  Inv'
  <1>1. Switches'
    BY SwitchTypes, Zenon DEF Inv, TakeOver
  <1>2. UNCHANGED <<events, ent, proxy, kaFailing, worker, api, results, incidents, deleted>>
    BY DEF TakeOver, bounds
  <1>3. Numbers' /\ Flags'
    BY <1>2, Zenon DEF Inv, Numbers, Flags
  <1>4. ASSUME NEW x \in Backends, NEW l \in BOOLEAN, NEW m,
               m = [IdleRunner EXCEPT !.stage = "entity", !.check = c, !.leader = l]
        PROVE  m \in RunnerRecords /\ Running(m, deleted, events)
    <2>1. m \in RunnerRecords /\ m.stage = "entity" /\ m.check = c /\ m.rec = None
      BY <1>4, Idles DEF RunnerRecords, Stages
    <2> QED BY <2>1, Idles, BoundAssumption DEF Running
  <1>5. \A x \in Backends : runner'[x] \in RunnerRecords /\ Running(runner'[x], deleted, events)
    BY <1>4 DEF TakeOver
  <1>6. runner' \in [Backends -> RunnerRecords]
    BY <1>4 DEF TakeOver
  <1> QED BY <1>1, <1>2, <1>3, <1>5, <1>6 DEF Inv

-----------------------------------------------------------------------------
(* Steps of the workers.                                                    *)

\* A result arrives.
LEMMA ReceiveInv ==
    ASSUME Inv, NEW w \in Workers, NEW c \in Checks, NEW s \in Statuses, NEW t \in TTLs,
           Receive(w, c, s, t)
    PROVE  Inv'
  <1> DEFINE r == Result(s, t)
             m == [IdleWorker EXCEPT !.stage = "get", !.check = c, !.rec = r]
  <1>1. /\ UNCHANGED <<switch, deaths, events, proxy, kaFailing, runner, api, incidents, deleted, lost>>
        /\ worker' = [worker EXCEPT ![w] = m] /\ results' = results + 1 /\ results < MaxResults
    BY DEF Receive
  <1>2. ent' \in BOOLEAN
    BY Zenon DEF Receive
  <1>3. Flags'
    BY <1>1, <1>2, Zenon DEF Inv, Flags
  <1>4. Numbers'
    BY <1>1, BoundAssumption DEF Inv, Numbers
  <1>5. Switches'
    BY <1>1 DEF Inv, Switches
  <1>6. r \in Records /\ Fresh(r) /\ Len(r.hist) = 0
    BY BoundAssumption DEF Result, Records, Fresh
  <1> HIDE DEF r
  <1>7. m \in WorkerRecords /\ m.stage = "get" /\ m.check = c /\ m.rec = r
    BY <1>6, Idles DEF WorkerRecords, Stages
  <1> HIDE DEF m
  <1>8. Working(m, deleted)
    BY <1>6, <1>7, BoundAssumption DEF Working
  <1>9. worker' \in [Workers -> WorkerRecords] /\ \A x \in Workers : Working(worker'[x], deleted)
    BY <1>1, <1>8, WorkerPut DEF Inv
  <1> QED BY <1>1, <1>3, <1>4, <1>5, <1>9 DEF Inv

\* UpdateEvent reads.
LEMMA UpdateGetInv == ASSUME Inv, NEW w \in Workers, UpdateGet(w) PROVE Inv'
  <1>1. PICK m : m = worker[w]
    OBVIOUS
  <1>2. m \in WorkerRecords /\ Working(m, deleted) /\ m.stage = "get"
    BY <1>1 DEF Inv, UpdateGet, At
  <1>3. /\ m.rec \in Records /\ Len(m.rec.hist) <= HistoryLimit /\ m.check \in Checks
        /\ Fresh(m.rec) \/ (deleted /\ Uncounted(m.rec))
    BY <1>2 DEF Working, WorkerRecords
  <1>4. PICK u : u = Updated(m.rec, m.check)
    OBVIOUS
  <1>5. u \in Records /\ Len(u.hist) <= HistoryLimit /\ Sound(u, deleted)
    <2>1. Stored(events, deleted) /\ deleted \in BOOLEAN
      BY DEF Inv, Flags
    <2> QED BY <1>3, <1>4, <2>1, UpdatedIs
  <1>6. PICK p \in BOOLEAN : p = (Found(m.check) # NoCheck /\ events[Found(m.check)].ttl = "ttl")
    OBVIOUS
  <1>7. PICK n : n = [m EXCEPT !.stage = "put", !.rec = u, !.prevTTL = p]
    OBVIOUS
  <1>8. n \in WorkerRecords /\ n.stage = "put" /\ n.check = m.check /\ n.rec = u
    BY <1>2, <1>5, <1>6, <1>7 DEF WorkerRecords, Stages
  <1>9. Working(n, deleted)
    BY <1>3, <1>5, <1>8 DEF Working
  <1>10. worker' = [worker EXCEPT ![w] = n]
    <2>1. worker \in [Workers -> WorkerRecords]
      BY DEF Inv
    <2> QED BY <1>1, <1>2, <1>4, <1>6, <1>7, <2>1 DEF UpdateGet, WorkerRecords
  <1>11. worker' \in [Workers -> WorkerRecords] /\ \A x \in Workers : Working(worker'[x], deleted)
    BY <1>9, <1>10, WorkerPut DEF Inv
  <1>12. UNCHANGED <<switch, deaths, events, ent, proxy, kaFailing, runner, api,
                     results, incidents, deleted, lost>>
    BY DEF UpdateGet, bounds
  <1>13. Switches' /\ Numbers' /\ Flags'
    BY <1>12, Zenon DEF Inv, Switches, Numbers, Flags
  <1> QED BY <1>11, <1>12, <1>13 DEF Inv

\* A sound record is stored.
LEMMA StoreSound ==
    ASSUME NEW del \in BOOLEAN, Stored(events, del), NEW c \in Checks, NEW r \in Records,
           Len(r.hist) <= HistoryLimit, Sound(r, del), Store(c, r)
    PROVE  /\ Stored(events', del)
           /\ \A m : Running(m, del, events) => Running(m, del, events')
  <1>1. events \in [Checks -> Records] /\ events' = [events EXCEPT ![c] = r]
    BY DEF Stored, Store
  <1>2. events'[c] = r /\ \A d \in Checks : d # c => events'[d] = events[d]
    BY <1>1
  <1>3. r # None
    BY CountedIsEvent DEF Sound
  <1>4. Stored(events', del)
    BY <1>1, <1>2 DEF Stored
  <1>5. \A d \in Checks : events[d] # None => events'[d] # None
    BY <1>2, <1>3
  <1>6. \A m : m.check \in Checks /\ (del \/ events[m.check] # None) => del \/ events'[m.check] # None
    BY <1>5, Zenon
  <1>7. ASSUME NEW m, Running(m, del, events) PROVE Running(m, del, events')
    <2>1. m.stage = "get" => m.check \in Checks
      BY <1>7 DEF Running
    <2> QED BY <1>6, <1>7, <2>1, Zenon DEF Running
  <1> QED BY <1>4, <1>7

\* UpdateEvent writes.
LEMMA UpdatePutInv == ASSUME Inv, NEW w \in Workers, UpdatePut(w) PROVE Inv'
  <1>1. PICK m : m = worker[w]
    OBVIOUS
  <1>2. /\ m.rec \in Records /\ Len(m.rec.hist) <= HistoryLimit /\ m.check \in Checks
        /\ Sound(m.rec, deleted)
    <2>1. m \in WorkerRecords /\ Working(m, deleted) /\ m.stage = "put"
      BY <1>1 DEF Inv, UpdatePut, At
    <2> QED BY <2>1 DEF Working, WorkerRecords
  <1>3. deleted \in BOOLEAN /\ Stored(events, deleted) /\ Store(m.check, m.rec)
    BY <1>1 DEF Inv, Flags, UpdatePut
  <1>4. /\ Stored(events', deleted)
        /\ \A x : Running(x, deleted, events) => Running(x, deleted, events')
    BY <1>2, <1>3, StoreSound
  <1>5. PICK n : n = IF AfterPut(m) = "idle" THEN IdleWorker
                     ELSE [IdleWorker EXCEPT !.stage = AfterPut(m), !.check = m.check]
    OBVIOUS
  <1>6. Working(n, deleted)
    <2>1. CASE AfterPut(m) = "idle"
      BY <1>3, <1>5, <2>1, Idles
    <2>2. CASE AfterPut(m) # "idle"
      <3>1. AfterPut(m) \in {"alive", "bury"}
        BY <2>2 DEF AfterPut
      <3>2. n \in WorkerRecords /\ n.stage \in {"alive", "bury"} /\ n.check = m.check /\ n.rec = None
        BY <1>2, <1>5, <2>2, <3>1, Idles DEF WorkerRecords, Stages
      <3> QED BY <3>2, <1>2, Idles, BoundAssumption DEF Working
    <2> QED BY <2>1, <2>2
  <1>7. worker' = [worker EXCEPT ![w] = n]
    BY <1>1, <1>5 DEF UpdatePut
  <1>8. worker' \in [Workers -> WorkerRecords] /\ \A x \in Workers : Working(worker'[x], deleted)
    BY <1>6, <1>7, WorkerPut DEF Inv
  <1>9. UNCHANGED <<switch, deaths, ent, proxy, kaFailing, runner, api, results, incidents, deleted, lost>>
    BY DEF UpdatePut, bounds
  <1>10. Switches' /\ Numbers' /\ Flags'
    BY <1>9, Zenon DEF Inv, Switches, Numbers, Flags
  <1> QED BY <1>4, <1>8, <1>9, <1>10 DEF Inv

\* A worker asserts or buries the switch, or gives up.
LEMMA WorkerSwitchInv ==
    ASSUME Inv, NEW w \in Workers,
           WorkerAlive(w) \/ WorkerBuryPut(w) \/ WorkerBuryDelete(w) \/ WorkerFail(w)
    PROVE  Inv'
  <1>1. PICK m : m = worker[w]
    OBVIOUS
  <1>2. m \in WorkerRecords /\ Working(m, deleted) /\ m.check \in Checks
    BY <1>1 DEF Inv, Working, WorkerAlive, WorkerBuryPut, WorkerBuryDelete, WorkerFail, At
  <1>3. UNCHANGED <<events, ent, proxy, kaFailing, runner, api, results, deleted>>
    BY DEF WorkerAlive, WorkerBuryPut, WorkerBuryDelete, WorkerFail, bounds
  <1>4. Switches'
    <2>1. CASE WorkerFail(w)
      <3>1. lost' \in [Checks -> BOOLEAN]
        BY <2>1, <1>1, <1>2 DEF WorkerFail, Inv, Switches
      <3> QED BY <2>1, <3>1 DEF WorkerFail, Inv, Switches
    <2>2. CASE WorkerAlive(w) \/ WorkerBuryPut(w) \/ WorkerBuryDelete(w)
      BY <2>2, <1>1, <1>2, SwitchTypes, Zenon DEF Inv, WorkerAlive, WorkerBuryPut, WorkerBuryDelete
    <2> QED BY <2>1, <2>2
  <1>5. Flags'
    BY <1>3, Zenon DEF Inv, Flags
  <1>6. Numbers'
    BY <1>3, BoundAssumption
    DEF Inv, Numbers, WorkerAlive, WorkerBuryPut, WorkerBuryDelete, WorkerFail, bounds
  <1>7. deleted \in BOOLEAN
    BY DEF Inv, Flags
  <1>8. PICK n : n = [m EXCEPT !.stage = "buried"]
    OBVIOUS
  <1>9. Working(n, deleted)
    <2>1. n \in WorkerRecords /\ n.stage = "buried" /\ n.check = m.check /\ n.rec = m.rec
      BY <1>2, <1>8 DEF WorkerRecords, Stages
    <2> QED BY <2>1, <1>2 DEF Working
  <1>10. worker' = [worker EXCEPT ![w] = IdleWorker] \/ worker' = [worker EXCEPT ![w] = n]
    BY <1>1, <1>8 DEF WorkerAlive, WorkerBuryPut, WorkerBuryDelete, WorkerFail, GoTo
  <1>11. worker' \in [Workers -> WorkerRecords] /\ \A x \in Workers : Working(worker'[x], deleted)
    BY <1>7, <1>9, <1>10, WorkerPut, Idles DEF Inv
  <1> QED BY <1>3, <1>4, <1>5, <1>6, <1>11 DEF Inv

-----------------------------------------------------------------------------
(* Steps of the dead callback.                                              *)

\* It reads the entity, the keepalive and the event, or buries the switch, or
\* gives up.
LEMMA RunnerSwitchInv ==
    ASSUME Inv, NEW b \in Backends,
           \/ DeadEntity(b) \/ DeadKeepalive(b) \/ DeadEvent(b)
           \/ RunnerBuryPut(b) \/ RunnerBuryDelete(b) \/ RunnerFail(b)
    PROVE  Inv'
  <1>1. PICK m : m = runner[b]
    OBVIOUS
  <1>2. m \in RunnerRecords /\ Running(m, deleted, events) /\ m.check \in Checks
    BY <1>1 DEF Inv, Running, DeadEntity, DeadKeepalive, DeadEvent, RunnerBuryPut,
                RunnerBuryDelete, RunnerFail, Runs
  <1>3. UNCHANGED <<events, ent, proxy, kaFailing, worker, api, results, deleted>>
    BY DEF DeadEntity, DeadKeepalive, DeadEvent, RunnerBuryPut, RunnerBuryDelete, RunnerFail, bounds
  <1>4. Switches'
    <2>1. CASE DeadEntity(b) \/ DeadKeepalive(b) \/ DeadEvent(b) \/ RunnerFail(b)
      BY <2>1 DEF DeadEntity, DeadKeepalive, DeadEvent, RunnerFail, Inv, Switches
    <2>2. CASE RunnerBuryPut(b) \/ RunnerBuryDelete(b)
      BY <2>2, <1>1, <1>2, SwitchTypes, Zenon DEF Inv, RunnerBuryPut, RunnerBuryDelete
    <2> QED BY <2>1, <2>2
  <1>5. Flags'
    BY <1>3, Zenon DEF Inv, Flags
  <1>6. Numbers'
    BY <1>3, BoundAssumption
    DEF Inv, Numbers, DeadEntity, DeadKeepalive, DeadEvent, RunnerBuryPut, RunnerBuryDelete,
        RunnerFail, bounds
  <1>7. deleted \in BOOLEAN
    BY DEF Inv, Flags
  <1>8. ASSUME NEW c \in Checks, NEW st \in {"keepalive", "event", "create", "bury", "buried"}, NEW n,
               n = [m EXCEPT !.stage = st, !.check = c]
        PROVE  Running(n, deleted, events)
    <2>1. n \in RunnerRecords /\ n.stage = st /\ n.check = c /\ n.rec = m.rec
      BY <1>2, <1>8 DEF RunnerRecords, Stages
    <2> QED BY <2>1, <1>2 DEF Running
  <1>9. \/ runner' = [runner EXCEPT ![b] = IdleRunner]
        \/ \E c \in Checks, st \in {"keepalive", "event", "create", "bury", "buried"} :
              runner' = [runner EXCEPT ![b] = [m EXCEPT !.stage = st, !.check = c]]
    <2>0. runner \in [Backends -> RunnerRecords]
      BY DEF Inv
    <2>1. \A st : [m EXCEPT !.stage = st, !.check = m.check] = [m EXCEPT !.stage = st]
      BY <1>2 DEF RunnerRecords
    <2>2. CASE DeadEvent(b)
      <3>1. Found(m.check) = NoCheck \/ Found(m.check) \in Checks
        BY <1>2, FoundIs
      <3>2. CASE Found(m.check) = NoCheck
        <4>1. runner' = [runner EXCEPT ![b] = [m EXCEPT !.stage = "bury"]]
          BY <2>2, <3>2, <1>1 DEF DeadEvent
        <4> QED BY <4>1, <2>1, <1>2
      <3>3. CASE Found(m.check) \in Checks /\ Found(m.check) # NoCheck
        <4>1. \/ runner' = [runner EXCEPT ![b] = [m EXCEPT !.stage = "create", !.check = Found(m.check)]]
              \/ runner' = [runner EXCEPT ![b] = IdleRunner]
          BY <2>2, <3>3, <1>1 DEF DeadEvent
        <4> QED BY <4>1, <3>3
      <3> QED BY <3>1, <3>2, <3>3, NameAssumption
    <2>3. CASE DeadEntity(b) \/ DeadKeepalive(b) \/ RunnerBuryPut(b)
      <3>1. PICK st \in {"keepalive", "event", "create", "bury", "buried"} :
               runner' = [runner EXCEPT ![b] = [m EXCEPT !.stage = st]]
        BY <2>3, <1>1 DEF DeadEntity, DeadKeepalive, RunnerBuryPut, RunnerGoTo
      <3>2. runner' = [runner EXCEPT ![b] = [m EXCEPT !.stage = st, !.check = m.check]]
        BY <3>1, <2>1
      <3> QED BY <3>2, <1>2
    <2>4. CASE RunnerBuryDelete(b) \/ RunnerFail(b)
      BY <2>4 DEF RunnerBuryDelete, RunnerFail
    <2> QED BY <2>2, <2>3, <2>4
  <1>10. runner' \in [Backends -> RunnerRecords] /\ \A x \in Backends : Running(runner'[x], deleted, events)
    <2>1. ASSUME NEW n, Running(n, deleted, events), runner' = [runner EXCEPT ![b] = n]
          PROVE  /\ runner' \in [Backends -> RunnerRecords]
                 /\ \A x \in Backends : Running(runner'[x], deleted, events)
      BY <2>1, RunnerPut DEF Inv
    <2>2. Running(IdleRunner, deleted, events)
      BY <1>7, Idles
    <2> QED BY <2>1, <2>2, <1>8, <1>9
  <1> QED BY <1>3, <1>4, <1>5, <1>6, <1>10 DEF Inv

\* createFailedCheckEvent merges a failure with the event.
LEMMA DeadCreateInv == ASSUME Inv, NEW b \in Backends, DeadCreate(b) PROVE Inv'
  <1>1. PICK m : m = runner[b]
    OBVIOUS
  <1>2. m \in RunnerRecords /\ Running(m, deleted, events) /\ m.check \in Checks
    BY <1>1 DEF Inv, Running, DeadCreate, Runs
  <1>3. PICK f : f = Found(m.check)
    OBVIOUS
  <1>4. f \in Checks /\ events[f] # None
    BY <1>1, <1>2, <1>3, FoundIs DEF DeadCreate
  <1>5. PICK e : e = events[f]
    OBVIOUS
  <1>6. e \in Records /\ Len(e.hist) <= HistoryLimit /\ Counted(e)
    BY <1>4, <1>5 DEF Inv, Stored, Sound
  <1>7. PICK r : r = Result(1, e.ttl)
    OBVIOUS
  <1>8. r \in Records
    BY <1>6, <1>7, BoundAssumption DEF Result, Records, Statuses
  <1>9. PICK u : u = MergeWith(r, e)
    OBVIOUS
  <1>10. u \in Records /\ Len(u.hist) <= HistoryLimit /\ Uncounted(u)
    BY <1>6, <1>8, <1>9, MergeIs, MergeCounts
  <1>11. PICK n : n = [m EXCEPT !.stage = "get", !.check = f, !.rec = u]
    OBVIOUS
  <1>12. n \in RunnerRecords /\ n.stage = "get" /\ n.check = f /\ n.rec = u
    BY <1>2, <1>4, <1>10, <1>11 DEF RunnerRecords, Stages
  <1>13. Running(n, deleted, events)
    BY <1>4, <1>10, <1>12 DEF Running
  <1>14. runner' = [runner EXCEPT ![b] = n]
    <2>1. runner \in [Backends -> RunnerRecords]
      BY DEF Inv
    <2> QED BY <1>1, <1>2, <1>3, <1>5, <1>7, <1>9, <1>11, <2>1 DEF DeadCreate, RunnerRecords
  <1>15. runner' \in [Backends -> RunnerRecords] /\ \A x \in Backends : Running(runner'[x], deleted, events)
    BY <1>13, <1>14, RunnerPut DEF Inv
  <1>16. UNCHANGED <<switch, deaths, events, ent, proxy, kaFailing, worker, api,
                     results, incidents, deleted, lost>>
    BY DEF DeadCreate, bounds
  <1>17. Switches' /\ Numbers' /\ Flags'
    BY <1>16, Zenon DEF Inv, Switches, Numbers, Flags
  <1> QED BY <1>15, <1>16, <1>17 DEF Inv

\* The process ends with all that it had under way.
LEMMA DeadPanicInv == ASSUME Inv, NEW b \in Backends, DeadPanic(b) PROVE Inv'
  <1>1. UNCHANGED <<switch, deaths, events, ent, proxy, kaFailing, api, results, incidents, deleted>>
    BY DEF DeadPanic, bounds
  <1>2. deleted \in BOOLEAN
    BY DEF Inv, Flags
  <1>3. lost' \in [Checks -> BOOLEAN]
    <2>1. \A c \in Checks : (lost[c] \/ \E w \in Workers : Home[w] = b /\ At(w, "alive") /\ worker[w].check = c)
                              \in BOOLEAN
      OBVIOUS
    <2> QED BY <2>1, Zenon DEF DeadPanic
  <1>4. Switches'
    BY <1>1, <1>3 DEF Inv, Switches
  <1>5. Numbers' /\ Flags'
    BY <1>1, Zenon DEF Inv, Numbers, Flags
  <1>6. worker' \in [Workers -> WorkerRecords] /\ \A x \in Workers : Working(worker'[x], deleted)
    BY <1>2, Idles DEF Inv, DeadPanic
  <1>7. runner' \in [Backends -> RunnerRecords] /\ \A x \in Backends : Running(runner'[x], deleted, events)
    <2>1. Running(IdleRunner, deleted, events) /\ runner' = [runner EXCEPT ![b] = IdleRunner]
      BY <1>2, Idles DEF DeadPanic
    <2> QED BY <2>1, RunnerPut DEF Inv
  <1> QED BY <1>1, <1>4, <1>5, <1>6, <1>7 DEF Inv

\* UpdateEvent of the failure reads: the event that it was merged with is still
\* there, or something was deleted.
LEMMA DeadGetInv == ASSUME Inv, NEW b \in Backends, DeadGet(b) PROVE Inv'
  <1>1. PICK m : m = runner[b]
    OBVIOUS
  <1>2. m \in RunnerRecords /\ Running(m, deleted, events) /\ m.stage = "get"
    BY <1>1 DEF Inv, DeadGet, Runs
  <1>3. /\ m.rec \in Records /\ Len(m.rec.hist) <= HistoryLimit /\ m.check \in Checks
        /\ Uncounted(m.rec) /\ (deleted \/ events[m.check] # None)
    BY <1>2 DEF Running, RunnerRecords
  <1>4. PICK u : u = Updated(m.rec, m.check)
    OBVIOUS
  <1>5. u \in Records /\ Len(u.hist) <= HistoryLimit /\ Sound(u, deleted)
    <2>1. Stored(events, deleted) /\ deleted \in BOOLEAN
      BY DEF Inv, Flags
    <2> QED BY <1>3, <1>4, <2>1, UpdatedIs
  <1>6. PICK n : n = [m EXCEPT !.stage = "put", !.rec = u]
    OBVIOUS
  <1>7. n \in RunnerRecords /\ n.stage = "put" /\ n.check = m.check /\ n.rec = u
    BY <1>2, <1>5, <1>6 DEF RunnerRecords, Stages
  <1>8. Running(n, deleted, events)
    BY <1>3, <1>5, <1>7 DEF Running
  <1>9. runner' = [runner EXCEPT ![b] = n]
    <2>1. runner \in [Backends -> RunnerRecords]
      BY DEF Inv
    <2> QED BY <1>1, <1>2, <1>4, <1>6, <2>1 DEF DeadGet, RunnerRecords
  <1>10. runner' \in [Backends -> RunnerRecords] /\ \A x \in Backends : Running(runner'[x], deleted, events)
    BY <1>8, <1>9, RunnerPut DEF Inv
  <1>11. UNCHANGED <<switch, deaths, events, ent, proxy, kaFailing, worker, api,
                     results, incidents, deleted, lost>>
    BY DEF DeadGet, bounds
  <1>12. Switches' /\ Numbers' /\ Flags'
    BY <1>11, Zenon DEF Inv, Switches, Numbers, Flags
  <1> QED BY <1>10, <1>11, <1>12 DEF Inv

\* It writes.
LEMMA DeadPutInv == ASSUME Inv, NEW b \in Backends, DeadPut(b) PROVE Inv'
  <1>1. PICK m : m = runner[b]
    OBVIOUS
  <1>2. /\ m.rec \in Records /\ Len(m.rec.hist) <= HistoryLimit /\ m.check \in Checks
        /\ Sound(m.rec, deleted)
    <2>1. m \in RunnerRecords /\ Running(m, deleted, events) /\ m.stage = "put"
      BY <1>1 DEF Inv, DeadPut, Runs
    <2> QED BY <2>1 DEF Running, RunnerRecords
  <1>3. deleted \in BOOLEAN /\ Stored(events, deleted) /\ Store(m.check, m.rec)
    BY <1>1 DEF Inv, Flags, DeadPut
  <1>4. PICK ev : ev = events'
    OBVIOUS
  <1>5. /\ Stored(ev, deleted)
        /\ \A x : Running(x, deleted, events) => Running(x, deleted, ev)
    BY <1>2, <1>3, <1>4, StoreSound
  <1>6. Running(IdleRunner, deleted, ev)
    BY <1>3, Idles
  <1>7. \A x \in Backends : Running(runner[x], deleted, ev)
    BY <1>5 DEF Inv
  <1>8. runner' = [runner EXCEPT ![b] = IdleRunner] /\ runner \in [Backends -> RunnerRecords]
    BY DEF DeadPut, Inv
  <1>9. runner' \in [Backends -> RunnerRecords] /\ \A x \in Backends : Running(runner'[x], deleted, ev)
    BY <1>6, <1>7, <1>8, RunnerPut
  <1>10. UNCHANGED <<switch, deaths, ent, proxy, kaFailing, worker, api, results, incidents, deleted, lost>>
    BY DEF DeadPut, bounds
  <1>11. Switches' /\ Numbers' /\ Flags'
    BY <1>10, Zenon DEF Inv, Switches, Numbers, Flags
  <1> QED BY <1>4, <1>5, <1>9, <1>10, <1>11 DEF Inv

-----------------------------------------------------------------------------
(* Steps of the API.                                                        *)

\* Delete reads the event.
LEMMA APIGetInv == ASSUME Inv, NEW c \in Checks, APIGet(c) PROVE Inv'
  <1>1. PICK f : f = Found(c)
    OBVIOUS
  <1>2. f \in Checks /\ events[f] # None
    BY <1>1, FoundIs DEF APIGet
  <1>3. PICK e : e = events[f]
    OBVIOUS
  <1>4. e \in Records /\ Len(e.hist) <= HistoryLimit /\ Counted(e)
    BY <1>2, <1>3 DEF Inv, Stored, Sound
  <1>5. UNCHANGED <<switch, deaths, events, ent, proxy, kaFailing, worker, runner, results, lost>>
    BY DEF APIGet
  <1>6. deleted' = TRUE /\ deleted \in BOOLEAN
    BY DEF APIGet, Inv, Flags
  <1>7. Flags'
    BY <1>5, <1>6, Zenon DEF Inv, Flags
  <1>8. Numbers'
    BY <1>5, BoundAssumption DEF Inv, Numbers, APIGet
  <1>9. Switches'
    BY <1>5 DEF Inv, Switches
  <1>10. api' \in APIRecords /\ api'.rec = e /\ api'.found = f /\ api'.stage \in {"publish", "delete"}
    BY <1>1, <1>2, <1>3, <1>4 DEF APIGet, APIRecords, Stages
  <1>11. Asked(api', TRUE)
    BY <1>2, <1>4, <1>10 DEF Asked
  <1>12. /\ \A ev : Stored(ev, deleted) => Stored(ev, TRUE)
         /\ \A m : Working(m, deleted) => Working(m, TRUE)
         /\ \A m, ev : Running(m, deleted, ev) => Running(m, TRUE, ev)
    BY <1>6, Later
  <1>13. /\ Stored(events, TRUE)
         /\ \A w \in Workers : Working(worker[w], TRUE)
         /\ \A b \in Backends : Running(runner[b], TRUE, events)
    BY <1>12, Zenon DEF Inv
  <1> QED BY <1>5, <1>6, <1>7, <1>8, <1>9, <1>11, <1>13 DEF Inv

\* The event is published with its TTL disabled, to be counted again.
LEMMA APIPublishInv == ASSUME Inv, NEW w \in Workers, APIPublish(w) PROVE Inv'
  <1>1. /\ api \in APIRecords /\ Len(api.rec.hist) <= HistoryLimit
        /\ api.found \in Checks /\ Counted(api.rec) /\ deleted /\ api.stage = "publish"
    BY DEF Inv, Asked, APIPublish
  <1>2. PICK r : r = [api.rec EXCEPT !.ttl = "deleted"]
    OBVIOUS
  <1>3. r \in Records /\ Len(r.hist) <= HistoryLimit /\ Uncounted(r)
    <2>1. api.rec \in Records
      BY <1>1 DEF APIRecords
    <2>2. PICK a : a = api.rec
      OBVIOUS
    <2>3. r \in Records /\ r.hist = a.hist /\ r.occ = a.occ /\ r.wm = a.wm /\ r.status = a.status
      BY <1>2, <2>1, <2>2 DEF Records, TTLs
    <2>4. Uncounted(a)
      BY <1>1, <2>1, <2>2, CountedAgain
    <2> QED BY <1>1, <2>2, <2>3, <2>4 DEF Uncounted, LastIsStatus
  <1>4. PICK m : m = [IdleWorker EXCEPT !.stage = "get", !.check = api.found, !.rec = r]
    OBVIOUS
  <1>5. m \in WorkerRecords /\ m.stage = "get" /\ m.check = api.found /\ m.rec = r
    BY <1>1, <1>3, <1>4, Idles DEF WorkerRecords, Stages
  <1>6. Working(m, deleted)
    BY <1>1, <1>3, <1>5 DEF Working
  <1>7. worker' = [worker EXCEPT ![w] = m]
    BY <1>2, <1>4 DEF APIPublish
  <1>8. worker' \in [Workers -> WorkerRecords] /\ \A x \in Workers : Working(worker'[x], deleted)
    BY <1>6, <1>7, WorkerPut DEF Inv
  <1>9. api' \in APIRecords /\ api'.stage = "delete" /\ api'.rec = api.rec
    BY <1>1 DEF APIPublish, APIRecords, Stages
  <1>10. Asked(api', deleted)
    BY <1>1, <1>9 DEF Asked
  <1>11. UNCHANGED <<switch, deaths, events, ent, proxy, kaFailing, runner, results, incidents, deleted, lost>>
    BY DEF APIPublish, bounds
  <1>12. Switches' /\ Numbers' /\ Flags'
    BY <1>11, Zenon DEF Inv, Switches, Numbers, Flags
  <1> QED BY <1>8, <1>10, <1>11, <1>12 DEF Inv

\* Events are deleted.
LEMMA Emptied ==
    ASSUME Stored(events, TRUE), NEW ev,
           ev \in [Checks -> Records], \A c \in Checks : ev[c] = events[c] \/ ev[c] = None
    PROVE  /\ Stored(ev, TRUE)
           /\ \A m : Running(m, TRUE, events) => Running(m, TRUE, ev)
  <1>1. Stored(ev, TRUE)
    <2>1. ASSUME NEW c \in Checks PROVE Len(ev[c].hist) <= HistoryLimit /\ (ev[c] # None => Sound(ev[c], TRUE))
      <3>1. CASE ev[c] = None
        BY <3>1, Idles, BoundAssumption
      <3>2. CASE ev[c] = events[c]
        BY <3>2 DEF Stored
      <3> QED BY <3>1, <3>2
    <2> QED BY <2>1 DEF Stored
  <1>2. \A m : Running(m, TRUE, events) => Running(m, TRUE, ev)
    BY Zenon DEF Running
  <1> QED BY <1>1, <1>2

\* Delete of an event, and of the entity, whose events go first.
LEMMA APIDeleteInv ==
    ASSUME Inv, APIDelete \/ APIDeleteEvents \/ APIDeleteEntity
    PROVE  Inv'
  <1>1. deleted' /\ deleted' \in BOOLEAN /\ deleted \in BOOLEAN
    BY DEF Inv, Asked, Flags, APIDelete, APIDeleteEvents, APIDeleteEntity, bounds
  <1>2. deleted' = TRUE
    BY <1>1
  <1>3. UNCHANGED <<switch, deaths, proxy, kaFailing, worker, runner, results, lost>>
    BY DEF APIDelete, APIDeleteEvents, APIDeleteEntity, bounds
  <1>4. ent' \in BOOLEAN
    BY Zenon DEF APIDelete, APIDeleteEvents, APIDeleteEntity, Inv, Flags
  <1>5. Flags'
    BY <1>1, <1>3, <1>4, Zenon DEF Inv, Flags
  <1>6. Numbers'
    BY <1>3, BoundAssumption DEF Inv, Numbers, APIDelete, APIDeleteEvents, APIDeleteEntity, bounds
  <1>7. Switches'
    BY <1>3 DEF Inv, Switches
  <1>8. Asked(api', TRUE)
    <2>1. CASE api' = IdleAPI
      BY <2>1, Idles
    <2>2. CASE api' = [IdleAPI EXCEPT !.stage = "entity"]
      <3>1. api' \in APIRecords /\ api'.stage = "entity" /\ api'.rec = None
        BY <2>2, Idles DEF APIRecords, Stages
      <3> QED BY <3>1, Idles, BoundAssumption DEF Asked
    <2> QED BY <2>1, <2>2 DEF APIDelete, APIDeleteEvents, APIDeleteEntity
  <1>9. /\ \A ev : Stored(ev, deleted) => Stored(ev, TRUE)
        /\ \A m : Working(m, deleted) => Working(m, TRUE)
        /\ \A m, ev : Running(m, deleted, ev) => Running(m, TRUE, ev)
    BY <1>1, Later
  <1>10. /\ Stored(events, TRUE)
         /\ \A w \in Workers : Working(worker[w], TRUE)
         /\ \A b \in Backends : Running(runner[b], TRUE, events)
    BY <1>9, Zenon DEF Inv
  <1>11. PICK ev : ev = events'
    OBVIOUS
  <1>12. ev \in [Checks -> Records] /\ \A c \in Checks : ev[c] = events[c] \/ ev[c] = None
    <2>1. events \in [Checks -> Records]
      BY DEF Inv, Stored
    <2> QED BY <2>1, <1>11, Idles DEF APIDelete, APIDeleteEvents, APIDeleteEntity, Store
  <1>13. /\ Stored(ev, TRUE)
         /\ \A m : Running(m, TRUE, events) => Running(m, TRUE, ev)
    BY <1>10, <1>12, Emptied
  <1>14. \A b \in Backends : Running(runner[b], TRUE, ev)
    BY <1>10, <1>13
  <1> QED BY <1>2, <1>3, <1>5, <1>6, <1>7, <1>8, <1>10, <1>11, <1>13, <1>14 DEF Inv

-----------------------------------------------------------------------------
(* The theorems.                                                            *)

\* Every step keeps the invariant.
LEMMA NextInv == Inv /\ [Next]_vars => Inv'
  <1> SUFFICES ASSUME Inv, [Next]_vars PROVE Inv'
    OBVIOUS
  <1>1. ASSUME NEW w \in Workers, NEW c \in Checks, NEW s \in Statuses, NEW t \in TTLs,
               Receive(w, c, s, t)
        PROVE  Inv'
    BY <1>1, ReceiveInv
  <1>2. ASSUME NEW w \in Workers, WorkerStep(w) \/ WorkerFail(w) PROVE Inv'
    BY <1>2, UpdateGetInv, UpdatePutInv, WorkerSwitchInv DEF WorkerStep
  <1>3. ASSUME NEW b \in Backends, RunnerStep(b) \/ RunnerFail(b) PROVE Inv'
    BY <1>3, RunnerSwitchInv, DeadCreateInv, DeadPanicInv, DeadGetInv, DeadPutInv DEF RunnerStep
  <1>4. ASSUME NEW c \in Checks, SwitchStep(c) \/ Missed(c) \/ APIGet(c) PROVE Inv'
    BY <1>4, SwitchInv, TakeOverInv, APIGetInv DEF SwitchStep
  <1>5. CASE APIStep \/ APIDeleteEvents
    BY <1>5, APIPublishInv, APIDeleteInv DEF APIStep
  <1>6. CASE Keepalive \/ UpdateEntity
    BY <1>6, KeepaliveInv
  <1>7. CASE UNCHANGED vars
    <2>1. UNCHANGED <<switch, deaths, events, ent, proxy, kaFailing, worker, runner, api,
                      results, incidents, deleted, lost>>
      BY <1>7 DEF vars, bounds
    <2>2. Switches' /\ Numbers' /\ Flags'
      BY <2>1, Zenon DEF Inv, Switches, Numbers, Flags
    <2> QED BY <2>1, <2>2 DEF Inv
  <1> QED BY <1>1, <1>2, <1>3, <1>4, <1>5, <1>6, <1>7, Zenon DEF Next

\* The invariant holds.
LEMMA Invariance == Spec => []Inv
  BY InitInv, NextInv, PTL DEF Spec

\* Every variable of eventd keeps its type, and no event remembers more than
\* HistoryLimit results, whatever workers, callbacks and API requests interleave
\* (event_store.go:215-246, check.go:244-268).
THEOREM TypeCorrect == Spec => []TypeOK
  BY Invariance, InvGives, PTL

\* A stored event agrees with itself, for any number of workers, backends and
\* checks: although UpdateEvent reads and writes in two steps that others come
\* between, its status is the last of its history, its occurrences are the run
\* of that status, and the watermark is no lower (event_store.go:313-337,
\* check.go:244-268).
THEOREM EventsAgreeWithThemselves == Spec => []CountersAgree
  BY Invariance, InvGives, PTL

-----------------------------------------------------------------------------
(* Whose history a first result gets.                                       *)

\* The name of no check extends that of another.
NamesApart == \A c \in Checks : Longer[c] = NoCheck

\* A record with a history is on its way to an event that is there, unless
\* something was deleted.
Owned ==
    /\ \A w \in Workers : worker[w].stage = "put" /\ worker[w].rec.hist # <<>>
                             => deleted \/ events[worker[w].check] # None
    /\ \A b \in Backends : runner[b].stage = "put" => deleted \/ events[runner[b].check] # None

\* Who changes an event.
LEMMA StoreSteps ==
    ASSUME Inv, [Next]_vars
    PROVE  /\ deleted => deleted'
           /\ \A c \in Checks : events'[c] # events[c] =>
                 \/ deleted' /\ events'[c] = None
                 \/ \E w \in Workers : UpdatePut(w) /\ worker[w].check = c /\ events'[c] = worker[w].rec
                 \/ \E b \in Backends : DeadPut(b) /\ runner[b].check = c /\ events'[c] = runner[b].rec
  <1> DEFINE Who(c) == \/ deleted' /\ events'[c] = None
                       \/ \E w \in Workers : UpdatePut(w) /\ worker[w].check = c /\ events'[c] = worker[w].rec
                       \/ \E b \in Backends : DeadPut(b) /\ runner[b].check = c /\ events'[c] = runner[b].rec
             Goal == /\ deleted => deleted'
                     /\ \A c \in Checks : events'[c] # events[c] => Who(c)
  <1>0. events \in [Checks -> Records] /\ (api.stage # "idle" => deleted)
    BY DEF Inv, Stored, Asked
  <1>1. ASSUME NEW w \in Workers, NEW c \in Checks, NEW s \in Statuses, NEW t \in TTLs,
               Receive(w, c, s, t)
        PROVE  Goal
    BY <1>1 DEF Receive
  <1>2. ASSUME NEW w \in Workers, WorkerStep(w) \/ WorkerFail(w) PROVE Goal
    <2>1. CASE UpdatePut(w)
      <3>1. UNCHANGED deleted /\ events' = [events EXCEPT ![worker[w].check] = worker[w].rec]
        BY <2>1 DEF UpdatePut, Store, bounds
      <3>2. \A c \in Checks : events'[c] # events[c] => worker[w].check = c /\ events'[c] = worker[w].rec
        BY <3>1, <1>0
      <3> QED BY <2>1, <3>1, <3>2, Zenon
    <2>2. CASE ~UpdatePut(w)
      BY <1>2, <2>2 DEF WorkerStep, UpdateGet, WorkerAlive, WorkerBuryPut, WorkerBuryDelete, WorkerFail, bounds
    <2> QED BY <2>1, <2>2
  <1>3. ASSUME NEW b \in Backends, RunnerStep(b) \/ RunnerFail(b) PROVE Goal
    <2>1. CASE DeadPut(b)
      <3>1. UNCHANGED deleted /\ events' = [events EXCEPT ![runner[b].check] = runner[b].rec]
        BY <2>1 DEF DeadPut, Store, bounds
      <3>2. \A c \in Checks : events'[c] # events[c] => runner[b].check = c /\ events'[c] = runner[b].rec
        BY <3>1, <1>0
      <3> QED BY <2>1, <3>1, <3>2, Zenon
    <2>2. CASE ~DeadPut(b)
      BY <1>3, <2>2 DEF RunnerStep, DeadEntity, DeadKeepalive, DeadEvent, DeadCreate, DeadPanic, DeadGet,
                        RunnerBuryPut, RunnerBuryDelete, RunnerFail, bounds
    <2> QED BY <2>1, <2>2
  <1>4. ASSUME NEW c \in Checks, SwitchStep(c) \/ Missed(c) \/ APIGet(c) PROVE Goal
    <2>1. UNCHANGED events /\ (UNCHANGED deleted \/ deleted' = TRUE)
      BY <1>4 DEF SwitchStep, Expire, Passed, TakeOver, Missed, APIGet, bounds
    <2> QED BY <2>1
  <1>5. ASSUME APIStep \/ APIDeleteEvents PROVE Goal
    <2>1. CASE APIDelete
      BY <1>0, <2>1 DEF APIDelete, Store, bounds
    <2>2. CASE APIDeleteEvents
      BY <2>2 DEF APIDeleteEvents
    <2>3. CASE APIDeleteEntity \/ \E w \in Workers : APIPublish(w)
      BY <2>3 DEF APIDeleteEntity, APIPublish, bounds
    <2> QED BY <1>5, <2>1, <2>2, <2>3 DEF APIStep
  <1>6. ASSUME Keepalive \/ UpdateEntity PROVE Goal
    BY <1>6 DEF Keepalive, UpdateEntity, bounds
  <1>7. ASSUME UNCHANGED vars PROVE Goal
    BY <1>7 DEF vars, bounds
  <1> HIDE DEF Goal
  <1>8. Goal
    BY <1>1, <1>2, <1>3, <1>4, <1>5, <1>6, <1>7, Zenon DEF Next
  <1> QED BY <1>8 DEF Goal

\* Who is about to write has read, just now or before.
LEMMA PutSteps ==
    ASSUME Inv, [Next]_vars
    PROVE  /\ \A w \in Workers : worker'[w].stage = "put" => worker'[w] = worker[w] \/ UpdateGet(w)
           /\ \A b \in Backends :
                /\ runner'[b].stage = "put" => runner'[b] = runner[b] \/ DeadGet(b)
                /\ runner'[b].stage = "get" => runner'[b] = runner[b] \/ DeadCreate(b)
  <1> DEFINE W == \A w \in Workers : worker'[w].stage = "put" => worker'[w] = worker[w] \/ UpdateGet(w)
             R == \A b \in Backends :
                    /\ runner'[b].stage = "put" => runner'[b] = runner[b] \/ DeadGet(b)
                    /\ runner'[b].stage = "get" => runner'[b] = runner[b] \/ DeadCreate(b)
  <1>0. /\ worker \in [Workers -> WorkerRecords] /\ runner \in [Backends -> RunnerRecords]
        /\ IdleWorker.stage # "put" /\ IdleRunner.stage \notin {"get", "put"}
    BY DEF Inv, IdleWorker, IdleRunner
  <1>1. ASSUME NEW w \in Workers, NEW c \in Checks, NEW s \in Statuses, NEW t \in TTLs,
               Receive(w, c, s, t)
        PROVE  W /\ R
    <2>1. UNCHANGED runner /\ \A x \in Workers : x # w => worker'[x] = worker[x]
      BY <1>0, <1>1 DEF Receive
    <2>2. worker'[w].stage = "get"
      BY <1>0, <1>1, Idles DEF Receive, WorkerRecords
    <2> QED BY <2>1, <2>2
  <1>2. ASSUME NEW w \in Workers, WorkerStep(w) \/ WorkerFail(w) PROVE W /\ R
    <2>1. UNCHANGED runner /\ \A x \in Workers : x # w => worker'[x] = worker[x]
      BY <1>0, <1>2 DEF WorkerStep, UpdateGet, UpdatePut, WorkerAlive, WorkerBuryPut, WorkerBuryDelete,
                        WorkerFail, GoTo
    <2>2. worker'[w].stage # "put" \/ UpdateGet(w)
      <3>1. CASE UpdatePut(w)
        <4>1. AfterPut(worker[w]) # "put"
          BY DEF AfterPut
        <4>2. [IdleWorker EXCEPT !.stage = AfterPut(worker[w]), !.check = worker[w].check].stage # "put"
          BY <4>1, Idles DEF WorkerRecords
        <4> QED BY <1>0, <3>1, <4>2 DEF UpdatePut
      <3>2. CASE WorkerBuryPut(w)
        <4>1. worker'[w] = [worker[w] EXCEPT !.stage = "buried"] /\ worker[w] \in WorkerRecords
          BY <1>0, <3>2 DEF WorkerBuryPut, GoTo
        <4> QED BY <4>1 DEF WorkerRecords
      <3>3. CASE WorkerAlive(w) \/ WorkerBuryDelete(w) \/ WorkerFail(w)
        BY <1>0, <3>3 DEF WorkerAlive, WorkerBuryDelete, WorkerFail
      <3> QED BY <1>2, <3>1, <3>2, <3>3 DEF WorkerStep
    <2> QED BY <2>1, <2>2
  <1>3. ASSUME NEW b \in Backends, RunnerStep(b) \/ RunnerFail(b) PROVE W /\ R
    <2>1. \A x \in Backends : x # b => runner'[x] = runner[x]
      BY <1>0, <1>3 DEF RunnerStep, DeadEntity, DeadKeepalive, DeadEvent, DeadCreate, DeadPanic, DeadGet,
                        DeadPut, RunnerBuryPut, RunnerBuryDelete, RunnerFail, RunnerGoTo
    <2>2. W
      <3>1. CASE DeadPanic(b)
        BY <1>0, <3>1 DEF DeadPanic
      <3>2. CASE ~DeadPanic(b)
        BY <1>3, <3>2 DEF RunnerStep, DeadEntity, DeadKeepalive, DeadEvent, DeadCreate, DeadGet,
                          DeadPut, RunnerBuryPut, RunnerBuryDelete, RunnerFail
      <3> QED BY <3>1, <3>2
    <2>3. /\ runner'[b].stage # "put" \/ DeadGet(b)
          /\ runner'[b].stage # "get" \/ DeadCreate(b)
      <3>1. runner[b] \in RunnerRecords
        BY <1>0
      <3>2. CASE DeadEntity(b) \/ DeadKeepalive(b) \/ RunnerBuryPut(b)
        <4>1. PICK st \in {"keepalive", "event", "bury", "buried"} : runner'[b] = [runner[b] EXCEPT !.stage = st]
          BY <1>0, <3>2 DEF DeadEntity, DeadKeepalive, RunnerBuryPut, RunnerGoTo
        <4> QED BY <3>1, <4>1 DEF RunnerRecords
      <3>3. CASE DeadEvent(b)
        BY <1>0, <3>1, <3>3 DEF DeadEvent, RunnerRecords
      <3>4. CASE DeadCreate(b)
        BY <1>0, <3>1, <3>4 DEF DeadCreate, RunnerRecords
      <3>5. CASE DeadPanic(b) \/ DeadPut(b) \/ RunnerBuryDelete(b) \/ RunnerFail(b)
        BY <1>0, <3>5 DEF DeadPanic, DeadPut, RunnerBuryDelete, RunnerFail
      <3>6. CASE DeadGet(b)
        BY <1>0, <3>1, <3>6 DEF DeadGet, RunnerRecords
      <3> QED BY <1>3, <3>2, <3>3, <3>4, <3>5, <3>6 DEF RunnerStep
    <2> QED BY <2>1, <2>2, <2>3
  <1>4. ASSUME NEW c \in Checks, SwitchStep(c) \/ Missed(c) \/ APIGet(c) PROVE W /\ R
    <2>1. CASE \E b \in Backends : TakeOver(b, c)
      <3>1. UNCHANGED worker /\ \A x \in Backends : \E l \in BOOLEAN :
               runner'[x] = [IdleRunner EXCEPT !.stage = "entity", !.check = c, !.leader = l]
        BY <2>1 DEF TakeOver
      <3>2. \A x \in Backends : runner'[x].stage = "entity"
        BY <3>1 DEF IdleRunner
      <3> QED BY <3>1, <3>2
    <2>2. CASE Expire(c) \/ Passed(c) \/ Missed(c) \/ APIGet(c)
      BY <2>2 DEF Expire, Passed, Missed, APIGet
    <2> QED BY <1>4, <2>1, <2>2 DEF SwitchStep
  <1>5. ASSUME APIStep \/ APIDeleteEvents PROVE W /\ R
    <2>1. ASSUME NEW w \in Workers, APIPublish(w) PROVE W /\ R
      <3>1. UNCHANGED runner /\ \A x \in Workers : x # w => worker'[x] = worker[x]
        BY <1>0, <2>1 DEF APIPublish
      <3>2. worker'[w].stage = "get"
        BY <1>0, <2>1, Idles DEF APIPublish, WorkerRecords
      <3> QED BY <3>1, <3>2
    <2>2. CASE APIDelete \/ APIDeleteEntity \/ APIDeleteEvents
      BY <2>2 DEF APIDelete, APIDeleteEntity, APIDeleteEvents
    <2> QED BY <1>5, <2>1, <2>2 DEF APIStep
  <1>6. ASSUME Keepalive \/ UpdateEntity PROVE W /\ R
    BY <1>6 DEF Keepalive, UpdateEntity
  <1>7. ASSUME UNCHANGED vars PROVE W /\ R
    BY <1>7 DEF vars
  <1> HIDE DEF W, R
  <1>8. W /\ R
    BY <1>1, <1>2, <1>3, <1>4, <1>5, <1>6, <1>7, Zenon DEF Next
  <1> QED BY <1>8 DEF W, R

\* Without a deletion an event does not go away.
LEMMA EventsStay ==
    ASSUME Inv, [Next]_vars, NEW c \in Checks, deleted \/ events[c] # None
    PROVE  deleted' \/ events'[c] # None
  <1>1. CASE deleted
    BY <1>1, StoreSteps
  <1>2. CASE events[c] # None /\ events'[c] = events[c]
    BY <1>2
  <1>3. CASE events[c] # None /\ events'[c] # events[c]
    <2>1. ASSUME NEW w \in Workers, UpdatePut(w), events'[c] = worker[w].rec PROVE events'[c] # None
      <3>1. Sound(worker[w].rec, deleted)
        BY <2>1 DEF Inv, Working, UpdatePut, At
      <3> QED BY <2>1, <3>1, CountedIsEvent DEF Sound
    <2>2. ASSUME NEW b \in Backends, DeadPut(b), events'[c] = runner[b].rec PROVE events'[c] # None
      <3>1. Sound(runner[b].rec, deleted)
        BY <2>2 DEF Inv, Running, DeadPut, Runs
      <3> QED BY <2>2, <3>1, CountedIsEvent DEF Sound
    <2>3. \/ deleted' /\ events'[c] = None
          \/ \E w \in Workers : UpdatePut(w) /\ worker[w].check = c /\ events'[c] = worker[w].rec
          \/ \E b \in Backends : DeadPut(b) /\ runner[b].check = c /\ events'[c] = runner[b].rec
      BY <1>3, StoreSteps
    <2> QED BY <2>1, <2>2, <2>3, Zenon
  <1> QED BY <1>1, <1>2, <1>3

\* Where no name extends another, a record only gets the history of its own event.
LEMMA OwnedNext == NamesApart /\ Inv /\ Owned /\ [Next]_vars => Owned'
  <1> SUFFICES ASSUME NamesApart, Inv, Owned, [Next]_vars PROVE Owned'
    OBVIOUS
  <1>1. ASSUME NEW w \in Workers, worker'[w].stage = "put", worker'[w].rec.hist # <<>>
        PROVE  deleted' \/ events'[worker'[w].check] # None
    <2>1. PICK m : m = worker[w]
      OBVIOUS
    <2>2. m \in WorkerRecords /\ Working(m, deleted) /\ worker \in [Workers -> WorkerRecords]
      BY <2>1 DEF Inv
    <2>3. CASE worker'[w] = m
      <3>1. m.check \in Checks /\ (deleted \/ events[m.check] # None)
        BY <1>1, <2>1, <2>2, <2>3 DEF Working, Owned
      <3> QED BY <2>3, <3>1, EventsStay
    <2>4. CASE UpdateGet(w)
      <3>1. m.stage = "get" /\ m.check \in Checks /\ m.rec \in Records
        BY <2>1, <2>2, <2>4 DEF UpdateGet, At, Working, WorkerRecords
      <3>2. worker'[w].check = m.check /\ worker'[w].rec = Updated(m.rec, m.check)
        BY <2>1, <2>2, <2>4 DEF UpdateGet, WorkerRecords
      <3>3. CASE Found(m.check) = NoCheck
        <4>1. Updated(m.rec, m.check) = updateOccurrences(m.rec)
          BY <3>3 DEF Updated
        <4>2. updateOccurrences(m.rec).hist = m.rec.hist
          BY <3>1, UpdateIs
        <4>3. ~Fresh(m.rec)
          BY <1>1, <3>2, <4>1, <4>2 DEF Fresh
        <4>4. deleted
          BY <2>2, <3>1, <4>3 DEF Working
        <4> QED BY <4>4, StoreSteps
      <3>4. CASE Found(m.check) # NoCheck
        <4>1. events[m.check] # None
          BY <3>1, <3>4 DEF Found, NamesApart
        <4> QED BY <3>1, <3>2, <4>1, EventsStay
      <3> QED BY <3>3, <3>4
    <2> QED BY <1>1, <2>1, <2>3, <2>4, PutSteps
  <1>2. ASSUME NEW b \in Backends, runner'[b].stage = "put"
        PROVE  deleted' \/ events'[runner'[b].check] # None
    <2>1. PICK m : m = runner[b]
      OBVIOUS
    <2>2. m \in RunnerRecords /\ Running(m, deleted, events) /\ runner \in [Backends -> RunnerRecords]
      BY <2>1 DEF Inv
    <2>3. CASE runner'[b] = m
      <3>1. m.check \in Checks /\ (deleted \/ events[m.check] # None)
        BY <1>2, <2>1, <2>2, <2>3 DEF Running, Owned
      <3> QED BY <2>3, <3>1, EventsStay
    <2>4. CASE DeadGet(b)
      <3>1. m.check \in Checks /\ (deleted \/ events[m.check] # None)
        BY <2>1, <2>2, <2>4 DEF DeadGet, Runs, Running
      <3>2. runner'[b].check = m.check
        BY <2>1, <2>2, <2>4 DEF DeadGet, RunnerRecords
      <3> QED BY <3>1, <3>2, EventsStay
    <2> QED BY <1>2, <2>1, <2>3, <2>4, PutSteps
  <1> QED BY <1>1, <1>2, Zenon DEF Owned

\* So the first event of a check has no history.
LEMMA OwnStep ==
    NamesApart /\ Inv /\ Owned /\ ~deleted /\ [Next]_vars
        => \A c \in Checks : events[c] = None /\ events'[c] # None => events'[c].hist = <<>>
  <1> SUFFICES ASSUME NamesApart, Inv, Owned, ~deleted, [Next]_vars,
                      NEW c \in Checks, events[c] = None, events'[c] # None
               PROVE  events'[c].hist = <<>>
    OBVIOUS
  <1>1. ASSUME NEW w \in Workers, UpdatePut(w), worker[w].check = c, events'[c] = worker[w].rec
        PROVE  events'[c].hist = <<>>
    BY <1>1 DEF Owned, UpdatePut, At
  <1>2. ASSUME NEW b \in Backends, DeadPut(b), runner[b].check = c PROVE FALSE
    BY <1>2 DEF Owned, DeadPut, Runs
  <1>3. \/ deleted' /\ events'[c] = None
        \/ \E w \in Workers : UpdatePut(w) /\ worker[w].check = c /\ events'[c] = worker[w].rec
        \/ \E b \in Backends : DeadPut(b) /\ runner[b].check = c /\ events'[c] = runner[b].rec
    BY StoreSteps
  <1> QED BY <1>1, <1>2, <1>3, Zenon

\* What it takes for an event to begin with the history of another one: the
\* prefix read of GetEventByEntityCheck (event_store.go:180-212) finds it only
\* if a check's name begins with that of another.  Where no name does, and as
\* long as nothing is deleted, the first event of a check has no history, however
\* many workers and backends store events at the same time.
THEOREM ApartKeepTheirHistory == NamesApart /\ Spec /\ []~deleted => OwnHistory
  <1>1. Init => Owned
    BY Idles DEF Init, Owned
  <1>2. SUFFICES ASSUME NamesApart PROVE Spec /\ []~deleted => OwnHistory
    OBVIOUS
  <1>3. Inv /\ Owned /\ [Next]_vars => Owned'
    BY <1>2, OwnedNext
  <1>4. Inv /\ Owned /\ ~deleted /\ [Next]_vars
           => [\A c \in Checks : events[c] = None /\ events'[c] # None => events'[c].hist = <<>>]_vars
    BY <1>2, OwnStep
  <1> QED BY <1>1, <1>3, <1>4, Invariance, PTL DEF Spec, OwnHistory

-----------------------------------------------------------------------------
(* Who sees a check fall silent.                                            *)

\* The switch of check c runs, or its expiry is to be handled, or a worker is about
\* to assert it; or it was buried, or an expiry missed, since it was last put.
Seen(c) ==
    \/ switch[c] \in {"alive", "dead"}
    \/ switch[c] = "absent" /\ deaths[c] > 0
    \/ lost[c]
    \/ \E w \in Workers : At(w, "alive") /\ worker[w].check = c

\* No event with a TTL is left without a switch behind it: the failure that is
\* merged and stored after others, a result that is stored before its switch is
\* asserted, and a process that ends in between all leave one
\* (eventd.go:227-287, 310-472).
TTLIsWatched == \A c \in Checks : events[c].ttl = "ttl" => Seen(c)

\* Nor one that the dead callback is about to store.
FailureIsWatched ==
    \A b \in Backends : runner[b].stage \in {"get", "put"} /\ runner[b].rec.ttl = "ttl"
                            => Seen(runner[b].check)

\* The switch is as before, and whoever is about to assert it still is.
LEMMA SeenStill ==
    ASSUME NEW c \in Checks, Seen(c), UNCHANGED <<switch, deaths>>, lost[c] => lost'[c],
           \A w \in Workers : worker[w].stage = "alive" => worker'[w] = worker[w]
    PROVE  Seen(c)'
  BY DEF Seen, At

\* A step of the switch of d: it runs again, it is buried, or its expiry is to be
\* handled.
LEMMA SeenSwitch ==
    ASSUME Inv, NEW c \in Checks, NEW d \in Checks, Seen(c),
           \A w \in Workers : worker[w].stage = "alive" =>
               worker'[w] = worker[w] \/ (Alive(d) /\ worker[w].check = d),
           \/ Alive(d) \/ BuryPut(d)
           \/ BuryDelete(d) /\ UNCHANGED lost
           \/ SW!Vanish(d) /\ UNCHANGED lost
           \/ SW!TakeOver(d) /\ lost' = [lost EXCEPT ![d] = FALSE]
           \/ SW!Forgo(d) /\ switch[d] # "absent" /\ UNCHANGED lost
           \/ SW!Forgo(d) /\ lost' = [lost EXCEPT ![d] = TRUE]
    PROVE  Seen(c)'
  <1>0. /\ switch \in [Checks -> SW!States] /\ deaths \in [Checks -> 0 .. MaxDeaths]
        /\ lost \in [Checks -> BOOLEAN] /\ MaxDeaths \in Nat
    BY BoundAssumption DEF Inv, Switches
  <1>1. CASE Alive(d)
    <2>1. switch'[d] = "alive" /\ UNCHANGED deaths
          /\ \A x \in Checks \ {d} : switch'[x] = switch[x] /\ lost'[x] = lost[x]
      BY <1>0, <1>1 DEF Alive, SW!Put
    <2>2. CASE c = d
      BY <2>1, <2>2 DEF Seen
    <2>3. CASE c # d
      BY <2>1, <2>3 DEF Seen, At
    <2> QED BY <2>2, <2>3
  <1>2. CASE ~Alive(d)
    <2>0. \A w \in Workers : worker[w].stage = "alive" => worker'[w] = worker[w]
      BY <1>2
    <2>1. CASE c # d
      <3>1. switch'[c] = switch[c] /\ deaths'[c] = deaths[c] /\ lost'[c] = lost[c]
        BY <1>0, <1>2, <2>1 DEF BuryPut, BuryDelete, SW!Put, SW!Forget, SW!Vanish, SW!TakeOver, SW!Forgo
      <3> QED BY <2>0, <3>1 DEF Seen, At
    <2>2. CASE c = d
      <3>1. CASE BuryPut(d) \/ (SW!Forgo(d) /\ lost' = [lost EXCEPT ![d] = TRUE])
        <4>1. lost'[d]
          BY <1>0, <3>1 DEF BuryPut
        <4> QED BY <2>2, <4>1 DEF Seen
      <3>2. CASE SW!TakeOver(d)
        <4>1. switch'[d] = "dead"
          BY <1>0, <3>2 DEF SW!TakeOver
        <4> QED BY <2>2, <4>1 DEF Seen
      <3>3. CASE SW!Forgo(d) /\ switch[d] # "absent" /\ UNCHANGED lost
        <4>1. switch' = switch
          BY <3>3 DEF SW!Forgo
        <4> QED BY <2>0, <2>2, <3>3, <4>1 DEF Seen, At
      <3>4. CASE SW!Vanish(d)
        <4>1. switch'[d] = "absent" /\ deaths'[d] = deaths[d] + 1 /\ deaths[d] \in Nat
          BY <1>0, <3>4 DEF SW!Vanish
        <4>2. deaths'[d] > 0
          BY <4>1
        <4> QED BY <2>2, <4>1, <4>2 DEF Seen
      <3>5. CASE SW!Forget(d) /\ UNCHANGED lost
        <4>1. switch[d] = "buried" /\ lost' = lost
          BY <3>5 DEF SW!Forget
        <4>2. lost[d] \/ \E w \in Workers : At(w, "alive") /\ worker[w].check = d
          BY <2>2, <4>1 DEF Seen
        <4> QED BY <2>0, <2>2, <4>1, <4>2 DEF Seen, At
      <3>6. CASE UNCHANGED <<switch, deaths, lost>>
        BY <2>0, <3>6 DEF Seen, At
      <3> QED BY <1>2, <3>1, <3>2, <3>3, <3>4, <3>5, <3>6 DEF BuryDelete
    <2> QED BY <2>1, <2>2
  <1> QED BY <1>1, <1>2

\* Workers leave what they are about to assert to nobody.
LEMMA SeenWorker ==
    ASSUME Inv, NEW w \in Workers, WorkerStep(w) \/ WorkerFail(w), NEW c \in Checks, Seen(c)
    PROVE  Seen(c)'
  <1>0. /\ worker \in [Workers -> WorkerRecords]
        /\ worker[w].stage # "idle" => worker[w].check \in Checks
        /\ \A x \in Workers : x # w => worker'[x] = worker[x]
    <2>1. worker \in [Workers -> WorkerRecords] /\ (worker[w].stage # "idle" => worker[w].check \in Checks)
      BY DEF Inv, Working
    <2> QED BY <2>1 DEF WorkerStep, UpdateGet, UpdatePut, WorkerAlive, WorkerBuryPut,
                        WorkerBuryDelete, WorkerFail, GoTo
  <1>1. CASE UpdateGet(w) \/ UpdatePut(w)
    <2>1. UNCHANGED <<switch, deaths, lost>> /\ worker[w].stage # "alive"
      BY <1>1 DEF UpdateGet, UpdatePut, At
    <2> QED BY <1>0, <2>1, SeenStill
  <1>2. CASE WorkerAlive(w)
    <2>1. worker[w].check \in Checks /\ Alive(worker[w].check)
      BY <1>0, <1>2 DEF WorkerAlive, At
    <2> QED BY <1>0, <2>1, SeenSwitch
  <1>3. CASE WorkerBuryPut(w)
    <2>1. worker[w].check \in Checks /\ BuryPut(worker[w].check) /\ worker[w].stage # "alive"
      BY <1>0, <1>3 DEF WorkerBuryPut, At
    <2> QED BY <1>0, <2>1, SeenSwitch
  <1>4. CASE WorkerBuryDelete(w)
    <2>1. /\ worker[w].check \in Checks /\ BuryDelete(worker[w].check) /\ UNCHANGED lost
          /\ worker[w].stage # "alive"
      BY <1>0, <1>4 DEF WorkerBuryDelete, At
    <2> QED BY <1>0, <2>1, SeenSwitch
  <1>5. CASE WorkerFail(w)
    <2>1. UNCHANGED <<switch, deaths>> /\ lost \in [Checks -> BOOLEAN]
      BY <1>5 DEF WorkerFail, Inv, Switches
    <2>2. lost[c] => lost'[c]
      BY <1>5, <2>1 DEF WorkerFail
    <2>3. CASE worker[w].stage = "alive" /\ worker[w].check = c
      <3>1. lost'[c]
        BY <1>5, <2>1, <2>3 DEF WorkerFail, At
      <3> QED BY <3>1 DEF Seen
    <2>4. CASE ~(worker[w].stage = "alive" /\ worker[w].check = c)
      BY <1>0, <2>1, <2>2, <2>4 DEF Seen, At
    <2> QED BY <2>3, <2>4
  <1> QED BY <1>1, <1>2, <1>3, <1>4, <1>5 DEF WorkerStep

\* Nor do the dead callbacks.
LEMMA SeenRunner ==
    ASSUME Inv, NEW b \in Backends, RunnerStep(b) \/ RunnerFail(b), NEW c \in Checks, Seen(c)
    PROVE  Seen(c)'
  <1>0. runner[b].stage # "idle" => runner[b].check \in Checks
    BY DEF Inv, Running
  <1>1. CASE RunnerBuryPut(b)
    <2>1. runner[b].check \in Checks /\ BuryPut(runner[b].check) /\ UNCHANGED worker
      BY <1>0, <1>1 DEF RunnerBuryPut, Runs
    <2> QED BY <2>1, SeenSwitch
  <1>2. CASE RunnerBuryDelete(b)
    <2>1. runner[b].check \in Checks /\ BuryDelete(runner[b].check) /\ UNCHANGED <<worker, lost>>
      BY <1>0, <1>2 DEF RunnerBuryDelete, Runs
    <2> QED BY <2>1, SeenSwitch
  <1>3. CASE DeadPanic(b)
    <2>1. /\ UNCHANGED <<switch, deaths>>
          /\ lost'[c] = (lost[c] \/ \E w \in Workers :
                             Home[w] = b /\ At(w, "alive") /\ worker[w].check = c)
          /\ \A w \in Workers : Home[w] # b => worker'[w] = worker[w]
      BY <1>3 DEF DeadPanic
    <2> QED BY <2>1 DEF Seen, At
  <1>4. CASE \/ DeadEntity(b) \/ DeadKeepalive(b) \/ DeadEvent(b) \/ DeadCreate(b)
             \/ DeadGet(b) \/ DeadPut(b) \/ RunnerFail(b)
    <2>1. UNCHANGED <<switch, deaths, lost, worker>>
      BY <1>4 DEF DeadEntity, DeadKeepalive, DeadEvent, DeadCreate, DeadGet, DeadPut, RunnerFail
    <2> QED BY <2>1, SeenStill
  <1> QED BY <1>1, <1>2, <1>3, <1>4 DEF RunnerStep

\* Once a check has been watched it is never forgotten without a trace.
LEMMA SeenNext == ASSUME Inv, [Next]_vars, NEW c \in Checks, Seen(c) PROVE Seen(c)'
  <1> DEFINE Goal == Seen(c)'
  <1>0. worker \in [Workers -> WorkerRecords]
    BY DEF Inv
  <1>1. ASSUME NEW w \in Workers, NEW d \in Checks, NEW s \in Statuses, NEW t \in TTLs,
               Receive(w, d, s, t)
        PROVE  Goal
    <2>1. /\ UNCHANGED <<switch, deaths, lost>> /\ worker[w].stage # "alive"
          /\ \A x \in Workers : x # w => worker'[x] = worker[x]
      BY <1>0, <1>1 DEF Receive, At
    <2> QED BY <2>1, SeenStill
  <1>2. ASSUME NEW w \in Workers, WorkerStep(w) \/ WorkerFail(w) PROVE Goal
    BY <1>2, SeenWorker
  <1>3. ASSUME NEW b \in Backends, RunnerStep(b) \/ RunnerFail(b) PROVE Goal
    BY <1>3, SeenRunner
  <1>4. ASSUME NEW d \in Checks, SwitchStep(d) \/ Missed(d) \/ APIGet(d) PROVE Goal
    <2>1. CASE Expire(d)
      BY <2>1, SeenSwitch DEF Expire
    <2>2. CASE Passed(d)
      BY <2>2, SeenSwitch DEF Passed
    <2>3. CASE \E b \in Backends : TakeOver(b, d)
      BY <2>3, SeenSwitch DEF TakeOver
    <2>4. CASE Missed(d)
      BY <2>4, SeenSwitch DEF Missed
    <2>5. CASE APIGet(d)
      BY <2>5, SeenStill DEF APIGet
    <2> QED BY <1>4, <2>1, <2>2, <2>3, <2>4, <2>5 DEF SwitchStep
  <1>5. ASSUME APIStep \/ APIDeleteEvents PROVE Goal
    <2>1. ASSUME NEW w \in Workers, APIPublish(w) PROVE Goal
      <3>1. /\ UNCHANGED <<switch, deaths, lost>> /\ worker[w].stage # "alive"
            /\ \A x \in Workers : x # w => worker'[x] = worker[x]
        BY <1>0, <2>1 DEF APIPublish, At
      <3> QED BY <3>1, SeenStill
    <2>2. CASE APIDelete \/ APIDeleteEntity \/ APIDeleteEvents
      BY <2>2, SeenStill DEF APIDelete, APIDeleteEntity, APIDeleteEvents
    <2> QED BY <1>5, <2>1, <2>2 DEF APIStep
  <1>6. ASSUME Keepalive \/ UpdateEntity \/ UNCHANGED vars PROVE Goal
    BY <1>6, SeenStill DEF Keepalive, UpdateEntity, vars
  <1> HIDE DEF Goal
  <1>7. Goal
    BY <1>1, <1>2, <1>3, <1>4, <1>5, <1>6, Zenon DEF Next
  <1> QED BY <1>7 DEF Goal

\* A failure has the TTL of the event that it is merged with.
LEMMA FailureNext ==
    ASSUME Inv, TTLIsWatched, FailureIsWatched, [Next]_vars PROVE FailureIsWatched'
  <1> SUFFICES ASSUME NEW b \in Backends, runner'[b].stage \in {"get", "put"},
                      runner'[b].rec.ttl = "ttl", NEW d, d = runner'[b].check
               PROVE  Seen(d)'
    BY DEF FailureIsWatched, Seen, At
  <1>1. PICK m : m = runner[b]
    OBVIOUS
  <1>2. m \in RunnerRecords /\ Running(m, deleted, events) /\ runner \in [Backends -> RunnerRecords]
    BY <1>1 DEF Inv
  <1>3. SUFFICES d \in Checks /\ Seen(d)
    BY <1>3, SeenNext
  <1>4. CASE runner'[b] = m
    BY <1>1, <1>2, <1>4 DEF FailureIsWatched, Running
  <1>5. CASE DeadGet(b)
    <2>1. m.stage = "get" /\ m.check \in Checks /\ m.rec \in Records
      BY <1>1, <1>2, <1>5 DEF DeadGet, Runs, Running, RunnerRecords
    <2>2. runner'[b].check = m.check /\ runner'[b].rec = Updated(m.rec, m.check)
      BY <1>1, <1>2, <1>5 DEF DeadGet, RunnerRecords
    <2>3. Updated(m.rec, m.check).ttl = m.rec.ttl
      <3>1. /\ Len(m.rec.hist) <= HistoryLimit /\ Uncounted(m.rec)
            /\ events[m.check] = None => deleted
        BY <1>2, <2>1 DEF Running
      <3> QED BY <2>1, <3>1, UpdatedIs DEF Inv, Flags
    <2> QED BY <1>1, <2>1, <2>2, <2>3 DEF FailureIsWatched
  <1>6. CASE DeadCreate(b)
    <2> DEFINE f == Found(m.check)
    <2>1. m.check \in Checks /\ f # NoCheck
      BY <1>1, <1>2, <1>6 DEF DeadCreate, Runs, Running
    <2>2. f \in Checks
      BY <2>1, FoundIs
    <2>3. runner'[b].check = f /\ runner'[b].rec = MergeWith(Result(1, events[f].ttl), events[f])
      BY <1>1, <1>2, <1>6 DEF DeadCreate, RunnerRecords
    <2>4. runner'[b].rec.ttl = events[f].ttl
      BY <2>3 DEF MergeWith, Result
    <2> QED BY <2>2, <2>3, <2>4 DEF TTLIsWatched
  <1> QED BY <1>1, <1>4, <1>5, <1>6, PutSteps

\* An event that is stored has a worker that goes on to assert its switch, or is
\* the failure of one that is watched.
LEMMA WatchedNext ==
    ASSUME Inv, TTLIsWatched, FailureIsWatched, [Next]_vars PROVE TTLIsWatched'
  <1> SUFFICES ASSUME NEW c \in Checks, events'[c].ttl = "ttl" PROVE Seen(c)'
    BY DEF TTLIsWatched
  <1>1. CASE events'[c] = events[c]
    BY <1>1, SeenNext DEF TTLIsWatched
  <1>2. CASE events'[c] = None
    <2>1. None.ttl # "ttl"
      BY DEF None, Result
    <2> QED BY <1>2, <2>1
  <1>3. ASSUME NEW w \in Workers, UpdatePut(w), worker[w].check = c, events'[c] = worker[w].rec
        PROVE  Seen(c)'
    <2>1. worker \in [Workers -> WorkerRecords]
      BY DEF Inv
    <2>2. AfterPut(worker[w]) = "alive"
      BY <1>3 DEF AfterPut
    <2>3. worker'[w] = [IdleWorker EXCEPT !.stage = "alive", !.check = c]
      BY <1>3, <2>1, <2>2 DEF UpdatePut
    <2>4. worker'[w].stage = "alive" /\ worker'[w].check = c
      BY <2>3 DEF IdleWorker
    <2> QED BY <2>4 DEF Seen, At
  <1>4. ASSUME NEW b \in Backends, DeadPut(b), runner[b].check = c, events'[c] = runner[b].rec
        PROVE  Seen(c)'
    <2>1. Seen(c)
      BY <1>4 DEF FailureIsWatched, DeadPut, Runs
    <2> QED BY <2>1, SeenNext
  <1> QED BY <1>1, <1>2, <1>3, <1>4, StoreSteps

\* The safety behind SilenceIsFound, for any checks, workers and backends: an event
\* with a TTL has a switch that runs, an expiry that is to be handled or a worker
\* that is about to assert it, unless the switch was buried or an expiry missed
\* since it was last put.
THEOREM EventsAreWatched == Spec => []TTLIsWatched
  <1>1. Init => TTLIsWatched /\ FailureIsWatched
    <2>1. None.ttl # "ttl" /\ IdleRunner.stage = "idle"
      BY DEF None, Result, IdleRunner
    <2> QED BY <2>1 DEF Init, TTLIsWatched, FailureIsWatched
  <1>2. Inv /\ TTLIsWatched /\ FailureIsWatched /\ [Next]_vars => TTLIsWatched' /\ FailureIsWatched'
    BY WatchedNext, FailureNext
  <1> QED BY <1>1, <1>2, Invariance, PTL DEF Spec

=============================================================================
