------------------------------ MODULE RingProofs ------------------------------
(****************************************************************************)
(* Proofs about Ring, for any finite set of members, any number of members  *)
(* due at each interval, any backends and any bounds.                       *)
(****************************************************************************)
EXTENDS Ring, FiniteSetTheorems, WellFoundedInduction, TLAPS

-----------------------------------------------------------------------------
(* The inductive invariant.                                                 *)

\* What nextInRing reads first, and in all, for the trigger p.
First(p) == IF Get(p, Values + 1) # <<>> THEN Get(p, Values + 1) ELSE Get(1, Values + 1)
Whole(p) == IF Len(First(p)) < Values + 1 THEN First(p) \o Get(1, Values + 1 - Len(First(p)))
                                          ELSE First(p)

\* Nobody has heard of an expiry that is still to come.
Past == \A b \in Backends :
    /\ watch[b].epoch <= epoch
    /\ \A i \in DOMAIN inbox[b] : inbox[b][i].epoch <= epoch

\* Whoever has heard of the last expiry has heard of the trigger p, and has read
\* what there is to read for p; and so had those who have told their schedulers.
Agreed(p) ==
    /\ \A b \in Backends : \A i \in DOMAIN inbox[b] :
         inbox[b][i].epoch = epoch => inbox[b][i].prev = p
    /\ \A b \in Backends : watch[b].epoch = epoch =>
         /\ watch[b].pc = "again" => watch[b].prev = p /\ Get(p, Values + 1) = <<>>
         /\ watch[b].pc = "more" => watch[b].got = First(p) /\ Len(First(p)) < Values + 1
         /\ watch[b].pc = "txn" => watch[b].got = Whole(p)
    /\ \A t \in told : t = repeatKVs(Whole(p), Values)

\* What a watch tells of.
Expiries == [prev : Items, epoch : 1..MaxExpiries]

\* This holds as long as the ring has not changed; what was told stays.
InStep == stable => \E p \in Items : Agreed(p)

\* More is read only if less was read than was asked for.
Short == \A b \in Backends : watch[b].pc = "more" => Len(watch[b].got) < Values + 1

\* An Add that is under way has a member to add.
Adding == \A b \in Backends : add[b].pc # "idle" => add[b].item \in Items

Inv == TypeOK /\ Short /\ Adding /\ Past /\ InStep /\ SchedulersAgree

-----------------------------------------------------------------------------
(* Counting in a finite set of numbers.                                     *)

Below(S, x) == {y \in S : y < x}
Rank(S, x) == Cardinality(Below(S, x))
Nth(S, i) == CHOOSE x \in S : Rank(S, x) = i - 1
From(S, k) == {x \in S : x >= k}

\* A set of numbers that is not empty has a least one.
LEMMA Least == ASSUME NEW S, \A s \in S : s \in Nat, S # {}
               PROVE  \E x \in S : \A y \in S : x <= y
  <1>1. \E x \in S : \A y \in S : <<y, x>> \notin OpToRel(<, Nat)
    <2>1. S \subseteq Nat
      OBVIOUS
    <2> QED BY <2>1, NatLessThanWellFounded, WFMin, Zenon
  <1>2. PICK x \in S : \A y \in S : <<y, x>> \notin OpToRel(<, Nat)
    BY <1>1
  <1>3. \A y \in S : ~(y < x)
    BY <1>2 DEF OpToRel
  <1> QED BY <1>3

\* Fewer members are below one than there are.
LEMMA RankType == ASSUME NEW S, \A s \in S : s \in Nat, IsFiniteSet(S), NEW x \in Nat
                  PROVE  /\ IsFiniteSet(Below(S, x)) /\ Rank(S, x) \in Nat
                         /\ Rank(S, x) <= Cardinality(S) /\ Cardinality(S) \in Nat
                         /\ x \in S => Rank(S, x) < Cardinality(S)
  <1>1. Below(S, x) \in SUBSET S /\ x \notin Below(S, x)
    BY DEF Below
  <1>2. /\ IsFiniteSet(Below(S, x)) /\ Cardinality(Below(S, x)) <= Cardinality(S)
        /\ Cardinality(S) = Cardinality(Below(S, x)) => S = Below(S, x)
    BY <1>1, FS_Subset, Zenon
  <1>3. Cardinality(S) \in Nat /\ Cardinality(Below(S, x)) \in Nat
    BY <1>2, FS_CardinalityType
  <1> QED BY <1>1, <1>2, <1>3 DEF Rank

\* A larger member has a higher rank.
LEMMA RankGrows == ASSUME NEW S, \A s \in S : s \in Nat, IsFiniteSet(S), NEW x \in S, NEW y \in S, x < y
                   PROVE  Rank(S, x) < Rank(S, y)
  <1>1. Below(S, x) \in SUBSET Below(S, y) /\ x \in Below(S, y) /\ x \notin Below(S, x)
    BY DEF Below
  <1>2. IsFiniteSet(Below(S, y)) /\ Rank(S, y) \in Nat /\ Rank(S, x) \in Nat
    BY RankType
  <1>3. /\ Cardinality(Below(S, x)) <= Cardinality(Below(S, y))
        /\ Cardinality(Below(S, y)) = Cardinality(Below(S, x)) => Below(S, y) = Below(S, x)
    BY <1>1, <1>2, FS_Subset, Zenon
  <1> QED BY <1>1, <1>2, <1>3 DEF Rank

\* The rank of a member's successor is the next one.
LEMMA RankNext == ASSUME NEW S, \A s \in S : s \in Nat, IsFiniteSet(S), NEW x \in S, NEW z \in S,
                         x < z, \A y \in S : y > x => z <= y
                  PROVE  Rank(S, z) = Rank(S, x) + 1
  <1>1. Below(S, z) = Below(S, x) \cup {x}
    BY DEF Below
  <1>2. x \notin Below(S, x)
    BY DEF Below
  <1>3. IsFiniteSet(Below(S, x))
    BY RankType
  <1> QED BY <1>1, <1>2, <1>3, FS_AddElement DEF Rank

\* There is a member of every rank.
LEMMA NthExists == ASSUME NEW S, \A s \in S : s \in Nat, IsFiniteSet(S), NEW n \in Nat, n < Cardinality(S)
                   PROVE  \E x \in S : Rank(S, x) = n
  <1> DEFINE Bad == {k \in Nat : k < Cardinality(S) /\ \A x \in S : Rank(S, x) # k}
  <1>1. SUFFICES ASSUME Bad # {} PROVE FALSE
    <2>1. Bad = {}
      BY <1>1
    <2> QED BY <2>1
  <1>2. PICK k \in Bad : \A m \in Bad : k <= m
    <2>1. \A s \in Bad : s \in Nat
      OBVIOUS
    <2> HIDE DEF Bad
    <2> QED BY <2>1, <1>1, Least
  <1>3. k \in Nat /\ k < Cardinality(S) /\ \A x \in S : Rank(S, x) # k
    BY <1>2
  <1>4. Cardinality(S) \in Nat
    BY FS_CardinalityType
  <1>5. CASE k = 0
    <2>1. S # {}
      BY <1>3, <1>5, FS_EmptySet
    <2>2. PICK x \in S : \A y \in S : x <= y
      BY <2>1, Least
    <2>3. Below(S, x) = {}
      BY <2>2 DEF Below
    <2> QED BY <2>3, <1>3, <1>5, FS_EmptySet DEF Rank
  <1>6. CASE k > 0
    <2>1. k - 1 \in Nat /\ k - 1 < Cardinality(S)
      BY <1>3, <1>4, <1>6
    <2>2. k - 1 \notin Bad
      BY <1>2, <1>3
    <2>3. PICK x \in S : Rank(S, x) = k - 1
      BY <2>1, <2>2
    <2> DEFINE Above == {y \in S : y > x}
    <2>4. Above # {}
      <3>1. SUFFICES ASSUME Above = {} PROVE FALSE
        OBVIOUS
      <3>2. S = Below(S, x) \cup {x} /\ x \notin Below(S, x)
        BY <3>1 DEF Below
      <3>3. IsFiniteSet(Below(S, x))
        BY RankType
      <3>4. Cardinality(Below(S, x) \cup {x}) = Cardinality(Below(S, x)) + 1
        BY <3>2, <3>3, FS_AddElement, Zenon
      <3>5. Cardinality(S) = Rank(S, x) + 1
        BY <3>2, <3>4, Zenon DEF Rank
      <3> QED BY <3>5, <2>3, <1>3
    <2>5. PICK z \in Above : \A y \in Above : z <= y
      <3>1. \A s \in Above : s \in Nat
        OBVIOUS
      <3> HIDE DEF Above
      <3> QED BY <3>1, <2>4, Least
    <2>6. z \in S /\ x < z /\ \A y \in S : y > x => z <= y
      BY <2>5
    <2>7. Rank(S, z) = Rank(S, x) + 1
      BY <2>6, RankNext
    <2>8. Rank(S, z) = k
      BY <2>7, <2>3, <1>3
    <2> QED BY <2>6, <2>8, <1>3
  <1> QED BY <1>3, <1>5, <1>6

\* What Nth is.
LEMMA NthIs == ASSUME NEW S, \A s \in S : s \in Nat, IsFiniteSet(S), NEW i \in 1 .. Cardinality(S)
               PROVE  Nth(S, i) \in S /\ Rank(S, Nth(S, i)) = i - 1
  <1>1. Cardinality(S) \in Nat
    BY FS_CardinalityType
  <1>2. i - 1 \in Nat /\ i - 1 < Cardinality(S)
    BY <1>1
  <1>3. \E x \in S : Rank(S, x) = i - 1
    BY <1>2, NthExists
  <1> QED BY <1>3, Zenon DEF Nth

\* The members are counted in their order.
LEMMA NthGrows == ASSUME NEW S, \A s \in S : s \in Nat, IsFiniteSet(S),
                         NEW i \in 1 .. Cardinality(S), NEW j \in 1 .. Cardinality(S), i < j
                  PROVE  Nth(S, i) < Nth(S, j)
  <1>1. /\ Nth(S, i) \in S /\ Rank(S, Nth(S, i)) = i - 1
        /\ Nth(S, j) \in S /\ Rank(S, Nth(S, j)) = j - 1
    BY NthIs
  <1>2. Cardinality(S) \in Nat
    BY FS_CardinalityType
  <1>3. ~ (Nth(S, j) < Nth(S, i))
    <2>1. SUFFICES ASSUME Nth(S, j) < Nth(S, i) PROVE FALSE
      OBVIOUS
    <2>2. Rank(S, Nth(S, j)) < Rank(S, Nth(S, i))
      BY <1>1, <2>1, RankGrows
    <2> QED BY <2>2, <1>1, <1>2
  <1>4. Nth(S, j) # Nth(S, i)
    BY <1>1, <1>2
  <1>5. Nth(S, i) \in Nat /\ Nth(S, j) \in Nat
    BY <1>1
  <1> QED BY <1>3, <1>4, <1>5

\* Nobody is between a member and the next one.
LEMMA NthNext == ASSUME NEW S, \A s \in S : s \in Nat, IsFiniteSet(S),
                        NEW i \in 1 .. Cardinality(S), i < Cardinality(S),
                        NEW z \in S, z > Nth(S, i)
                 PROVE  Nth(S, i + 1) <= z
  <1>1. Cardinality(S) \in Nat
    BY FS_CardinalityType
  <1>2. i + 1 \in 1 .. Cardinality(S)
    BY <1>1
  <1>3. /\ Nth(S, i) \in S /\ Rank(S, Nth(S, i)) = i - 1
        /\ Nth(S, i + 1) \in S /\ Rank(S, Nth(S, i + 1)) = (i + 1) - 1
    BY <1>2, NthIs
  <1>4. Rank(S, Nth(S, i)) < Rank(S, z)
    BY <1>3, RankGrows
  <1>5. ASSUME z < Nth(S, i + 1) PROVE Rank(S, z) < Rank(S, Nth(S, i + 1))
    BY <1>3, <1>5, RankGrows
  <1>6. Rank(S, z) \in Nat
    BY RankType
  <1>7. ~ (z < Nth(S, i + 1))
    BY <1>3, <1>4, <1>5, <1>6
  <1> QED BY <1>3, <1>7

\* Nobody is before the first.
LEMMA NthFirst == ASSUME NEW S, \A s \in S : s \in Nat, IsFiniteSet(S), NEW z \in S
                  PROVE  Cardinality(S) > 0 /\ Nth(S, 1) \in S /\ Nth(S, 1) <= z
  <1>1. Cardinality(S) \in Nat /\ Cardinality(S) > 0
    BY FS_CardinalityType, FS_EmptySet
  <1>2. Nth(S, 1) \in S /\ Rank(S, Nth(S, 1)) = 1 - 1
    BY <1>1, NthIs
  <1>3. ASSUME z < Nth(S, 1) PROVE FALSE
    <2>1. Rank(S, z) < Rank(S, Nth(S, 1))
      BY <1>2, <1>3, RankGrows
    <2>2. Rank(S, z) \in Nat
      BY RankType
    <2> QED BY <2>1, <2>2, <1>2
  <1> QED BY <1>1, <1>2, <1>3

\* Nobody is after the last.
LEMMA NthLast == ASSUME NEW S, \A s \in S : s \in Nat, IsFiniteSet(S), NEW z \in S
                 PROVE  z <= Nth(S, Cardinality(S))
  <1>1. Cardinality(S) \in Nat /\ Cardinality(S) > 0
    BY FS_CardinalityType, FS_EmptySet
  <1>2. Nth(S, Cardinality(S)) \in S /\ Rank(S, Nth(S, Cardinality(S))) = Cardinality(S) - 1
    BY <1>1, NthIs
  <1>3. ASSUME Nth(S, Cardinality(S)) < z PROVE FALSE
    <2>1. Rank(S, Nth(S, Cardinality(S))) < Rank(S, z)
      BY <1>2, <1>3, RankGrows
    <2>2. Rank(S, z) \in Nat /\ Rank(S, z) < Cardinality(S)
      BY RankType
    <2> QED BY <2>1, <2>2, <1>2, <1>1
  <1> QED BY <1>2, <1>3

-----------------------------------------------------------------------------
(* What a Get returns.                                                      *)

\* A Get of n keys returns the first n members from k on, or all of them.
LEMMA GetIs ==
    ASSUME items \subseteq Items, NEW k \in Nat, NEW n \in Nat
    PROVE  /\ \A s \in From(items, k) : s \in Nat /\ s \in Items
           /\ IsFiniteSet(From(items, k)) /\ Cardinality(From(items, k)) \in Nat
           /\ Get(k, n) \in Seq(Items)
           /\ Len(Get(k, n)) = IF n < Cardinality(From(items, k)) THEN n
                               ELSE Cardinality(From(items, k))
           /\ \A i \in 1 .. Len(Get(k, n)) : /\ i \in 1 .. Cardinality(From(items, k))
                                             /\ Get(k, n)[i] = Nth(From(items, k), i)
           /\ Get(k, n) = <<>> <=> n = 0 \/ From(items, k) = {}
  <1> DEFINE S == From(items, k)
             m == IF n < Cardinality(S) THEN n ELSE Cardinality(S)
  <1>1. \A s \in S : s \in Nat /\ s \in Items
    BY RingAssumption DEF From
  <1>2. IsFiniteSet(S)
    <2>1. S \in SUBSET Items
      BY DEF From
    <2> QED BY <2>1, RingAssumption, FS_Subset, Zenon
  <1>3. Cardinality(S) \in Nat
    BY <1>2, FS_CardinalityType
  <1>4. Get(k, n) = [i \in 1 .. m |-> Nth(S, i)]
    BY Zenon DEF Get, Nth, Rank, Below, From
  <1>5. S = {} <=> Cardinality(S) = 0
    BY <1>2, FS_EmptySet
  <1> HIDE DEF S
  <1>6. m \in Nat /\ m <= Cardinality(S) /\ (m = 0 <=> n = 0 \/ S = {})
    BY <1>3, <1>5
  <1> HIDE DEF m
  <1>7. \A i \in 1 .. m : i \in 1 .. Cardinality(S) /\ Nth(S, i) \in Items
    <2> SUFFICES ASSUME NEW i \in 1 .. m PROVE i \in 1 .. Cardinality(S) /\ Nth(S, i) \in Items
      OBVIOUS
    <2>1. i \in 1 .. Cardinality(S)
      BY <1>3, <1>6
    <2>2. Nth(S, i) \in S
      BY <2>1, <1>1, <1>2, NthIs
    <2> QED BY <2>1, <2>2, <1>1
  <1>8. Get(k, n) \in Seq(Items) /\ Len(Get(k, n)) = m
    BY <1>4, <1>6, <1>7
  <1>9. \A i \in 1 .. m : Get(k, n)[i] = Nth(S, i)
    BY <1>4
  <1>10. Get(k, n) = <<>> <=> m = 0
    BY <1>8
  <1> QED BY <1>1, <1>2, <1>3, <1>6, <1>7, <1>8, <1>9, <1>10 DEF S, m

\* All members come from the first key on.
LEMMA FromOne == ASSUME items \subseteq Items PROVE From(items, 1) = items
  <1>1. \A s \in items : s \in Nat /\ s # 0
    BY RingAssumption
  <1> QED BY <1>1 DEF From

\* A Get from the first key on.
LEMMA GetFromOne ==
    ASSUME items \subseteq Items, NEW n \in Nat
    PROVE  /\ IsFiniteSet(items) /\ Cardinality(items) \in Nat /\ Get(1, n) \in Seq(Items)
           /\ Len(Get(1, n)) = IF n < Cardinality(items) THEN n ELSE Cardinality(items)
           /\ \A i \in 1 .. Len(Get(1, n)) : i \in 1 .. Cardinality(items) /\ Get(1, n)[i] = Nth(items, i)
  <1>1. 1 \in Nat
    OBVIOUS
  <1>2. /\ IsFiniteSet(From(items, 1)) /\ Cardinality(From(items, 1)) \in Nat
        /\ Get(1, n) \in Seq(Items)
        /\ Len(Get(1, n)) = IF n < Cardinality(From(items, 1)) THEN n
                            ELSE Cardinality(From(items, 1))
        /\ \A i \in 1 .. Len(Get(1, n)) : /\ i \in 1 .. Cardinality(From(items, 1))
                                          /\ Get(1, n)[i] = Nth(From(items, 1), i)
    BY <1>1, GetIs
  <1> QED BY <1>2, FromOne

\* A Get depends on the members alone.
LEMMA GetSame == ASSUME items' = items, NEW p
                 PROVE  /\ Get(p, Values + 1)' = Get(p, Values + 1)
                        /\ First(p)' = First(p) /\ Whole(p)' = Whole(p)
  BY DEF First, Whole, Get

-----------------------------------------------------------------------------
(* Types.                                                                   *)

\* The initial states satisfy the invariant.
LEMMA InitInv == Init => Inv
  <1> SUFFICES ASSUME Init PROVE Inv
    OBVIOUS
  <1>1. TypeOK
    <2>1. watch \in [Backends -> Watches]
      BY DEF Init, Down, Watches, None
    <2>2. add \in [Backends -> Adds]
      BY DEF Init, Adds, NoAdd, None
    <2>3. \A b \in Backends : watch[b].pc \in {"ensureTxn", "more", "txn"} => watch[b].got # <<>>
      BY DEF Init, Down
    <2>4. /\ items \subseteq Items /\ trigger \in Items \cup {None}
          /\ inbox \in [Backends -> Seq([prev : Items, epoch : 1..MaxExpiries])]
          /\ notes \in [Backends -> Nat]
          /\ ops \in 0..MaxOps /\ faults \in 0..MaxFaults /\ epoch \in 0..MaxExpiries
          /\ told \subseteq Seq(Items)
      BY RingBounds DEF Init
    <2>5. stable \in BOOLEAN /\ lost \in BOOLEAN
      BY Zenon DEF Init
    <2> QED BY <2>1, <2>2, <2>3, <2>4, <2>5 DEF TypeOK
  <1>2. Short /\ Adding /\ Past
    BY DEF Init, Short, Adding, NoAdd, Past, Down
  <1>3. InStep
    BY DEF Init, InStep
  <1>4. SchedulersAgree
    BY FS_EmptySet DEF Init, SchedulersAgree
  <1> QED BY <1>1, <1>2, <1>3, <1>4 DEF Inv

\* Steps after which no more watchers are handling an expiry than before, and
\* which leave the ring as it is or end its being stable.
LEMMA Quietly ==
    ASSUME TypeOK, Past, InStep, SchedulersAgree,
           epoch' = epoch, told' = told, stable' => stable /\ items' = items,
           \A b \in Backends : inbox'[b] = inbox[b] \/ inbox'[b] = <<>>,
           \A b \in Backends : watch'[b] = watch[b]
               \/ (watch'[b].pc \notin {"again", "more", "txn"} /\ watch'[b].epoch <= epoch)
    PROVE  Past' /\ InStep' /\ SchedulersAgree'
  <1>1. Past'
    <2> SUFFICES ASSUME NEW b \in Backends
                 PROVE  /\ watch'[b].epoch <= epoch
                        /\ \A i \in DOMAIN inbox'[b] : inbox'[b][i].epoch <= epoch
      BY DEF Past
    <2> QED BY DEF Past
  <1>2. InStep'
    <2> SUFFICES ASSUME stable' PROVE \E p \in Items : Agreed(p)'
      BY DEF InStep
    <2>1. PICK p \in Items : Agreed(p)
      BY DEF InStep
    <2>2. /\ Get(p, Values + 1)' = Get(p, Values + 1)
          /\ First(p)' = First(p) /\ Whole(p)' = Whole(p)
      BY GetSame
    <2>3. Agreed(p)'
      <3>1. \A b \in Backends : \A i \in DOMAIN inbox'[b] :
              inbox'[b][i].epoch = epoch' => inbox'[b][i].prev = p
        BY <2>1 DEF Agreed
      <3>2. \A b \in Backends : watch'[b].epoch = epoch' =>
             /\ watch'[b].pc = "again" => watch'[b].prev = p /\ Get(p, Values + 1) = <<>>
             /\ watch'[b].pc = "more" => watch'[b].got = First(p) /\ Len(First(p)) < Values + 1
             /\ watch'[b].pc = "txn" => watch'[b].got = Whole(p)
        BY <2>1 DEF Agreed
      <3>3. \A t \in told' : t = repeatKVs(Whole(p), Values)
        BY <2>1 DEF Agreed
      <3>4. repeatKVs(Whole(p), Values)' = repeatKVs(Whole(p), Values)
        BY <2>2 DEF repeatKVs
      <3> QED BY <3>1, <3>2, <3>3, <3>4, <2>2 DEF Agreed
    <2> QED BY <2>3
  <1>3. SchedulersAgree'
    BY DEF SchedulersAgree
  <1> QED BY <1>1, <1>2, <1>3

\* A trigger runs out.
LEMMA TriggerExpireInv == Inv /\ TriggerExpire => Inv'
  <1> SUFFICES ASSUME Inv, TriggerExpire PROVE Inv'
    OBVIOUS
  <1>0. TypeOK /\ Past /\ Short /\ Adding
    BY DEF Inv
  <1>t. trigger \in Items
    BY <1>0 DEF TypeOK, TriggerExpire
  <1>e. epoch \in 0..MaxExpiries /\ epoch < MaxExpiries /\ epoch' = epoch + 1
    BY <1>0 DEF TypeOK, TriggerExpire
  <1>n. epoch \in Nat /\ epoch' \in 1..MaxExpiries
    BY <1>e, RingBounds
  <1>i. inbox \in [Backends -> Seq(Expiries)]
    BY <1>0 DEF TypeOK, Expiries
  <1>w. watch \in [Backends -> Watches] /\ watch' = watch
    BY <1>0 DEF TypeOK, TriggerExpire
  <1>p. PICK p \in Items : p = trigger
    BY <1>t
  <1>x. PICK x \in Expiries : x = [prev |-> p, epoch |-> epoch + 1]
    BY <1>e, <1>n DEF Expiries
  <1>3. \A b \in Backends : inbox'[b] = inbox[b] \/ inbox'[b] = Append(inbox[b], x)
    BY <1>x, <1>p DEF TriggerExpire
  <1>4. TypeOK'
    <2>1. inbox' \in [Backends -> Seq(Expiries)]
      <3>1. ASSUME NEW b \in Backends PROVE inbox'[b] \in Seq(Expiries)
        <4>1. inbox[b] \in Seq(Expiries)
          BY <1>i
        <4>2. Append(inbox[b], x) \in Seq(Expiries)
          BY <4>1
        <4> QED BY <4>1, <4>2, <1>3
      <3>2. inbox' = [b \in Backends |-> inbox'[b]]
        BY Zenon DEF TriggerExpire
      <3> QED BY <3>1, <3>2
    <2>2. /\ items' \subseteq Items /\ trigger' \in Items \cup {None}
          /\ notes' \in [Backends -> Nat] /\ ops' \in 0..MaxOps /\ faults' \in 0..MaxFaults
          /\ add' \in [Backends -> Adds] /\ told' \subseteq Seq(Items)
      BY <1>0 DEF TypeOK, TriggerExpire
    <2>3. \A b \in Backends : watch'[b].pc \in {"ensureTxn", "more", "txn"} => watch'[b].got # <<>>
      BY <1>0, <1>w DEF TypeOK
    <2>4. stable' \in BOOLEAN /\ lost' \in BOOLEAN
      BY <1>0, Zenon DEF TypeOK, TriggerExpire
    <2>5. epoch' \in 0..MaxExpiries
      BY <1>n
    <2> QED BY <2>1, <2>2, <2>3, <2>4, <2>5, <1>w DEF TypeOK, Expiries
  <1>5. ASSUME NEW b \in Backends, NEW i \in DOMAIN inbox'[b]
        PROVE  /\ inbox'[b][i].epoch <= epoch'
               /\ inbox'[b][i].epoch = epoch' => inbox'[b][i].prev = p
    <2>0. inbox[b] \in Seq(Expiries)
      BY <1>i
    <2>1. CASE i \in DOMAIN inbox[b] /\ inbox'[b][i] = inbox[b][i]
      <3>1. inbox[b][i] \in Expiries /\ inbox[b][i].epoch <= epoch
        BY <2>0, <2>1, <1>0 DEF Past
      <3>2. inbox[b][i].epoch \in Nat
        BY <3>1 DEF Expiries
      <3> QED BY <2>1, <3>1, <3>2, <1>e, <1>n
    <2>2. CASE inbox'[b][i] = x
      BY <2>2, <1>x, <1>e
    <2>3. \/ i \in DOMAIN inbox[b] /\ inbox'[b][i] = inbox[b][i]
          \/ inbox'[b][i] = x
      <3>1. CASE inbox'[b] = inbox[b]
        BY <3>1
      <3>2. CASE inbox'[b] = Append(inbox[b], x)
        BY <3>2, <2>0
      <3> QED BY <3>1, <3>2, <1>3
    <2> QED BY <2>1, <2>2, <2>3
  <1>6. \A b \in Backends : watch'[b].epoch <= epoch' /\ watch'[b].epoch # epoch'
    <2> SUFFICES ASSUME NEW b \in Backends
                 PROVE  watch'[b].epoch <= epoch' /\ watch'[b].epoch # epoch'
      OBVIOUS
    <2>1. watch[b].epoch \in Nat /\ watch[b].epoch <= epoch
      BY <1>0, <1>w DEF Past, Watches
    <2> QED BY <2>1, <1>w, <1>e, <1>n
  <1>7. Past'
    BY <1>5, <1>6 DEF Past
  <1>8. told' = {} /\ Short' /\ Adding'
    BY <1>0, <1>w DEF TriggerExpire, Short, Adding
  <1>9. Agreed(p)'
    BY <1>5, <1>6, <1>8 DEF Agreed
  <1>10. InStep'
    BY <1>9 DEF InStep
  <1>11. SchedulersAgree'
    BY <1>8, FS_EmptySet DEF SchedulersAgree
  <1> QED BY <1>4, <1>7, <1>8, <1>10, <1>11 DEF Inv

\* A watcher goes on to w.
LEMMA WatchPut ==
    ASSUME TypeOK, Short, NEW b \in Backends, NEW w \in Watches,
           watch' = [watch EXCEPT ![b] = w],
           w.pc \in {"ensureTxn", "more", "txn"} => w.got # <<>>,
           w.pc = "more" => Len(w.got) < Values + 1
    PROVE  /\ watch' \in [Backends -> Watches] /\ Short'
           /\ \A c \in Backends : watch'[c].pc \in {"ensureTxn", "more", "txn"} => watch'[c].got # <<>>
           /\ watch'[b] = w /\ \A c \in Backends : c # b => watch'[c] = watch[c]
  <1>1. watch \in [Backends -> Watches]
    BY DEF TypeOK
  <1>2. /\ watch' \in [Backends -> Watches]
        /\ watch'[b] = w /\ \A c \in Backends : c # b => watch'[c] = watch[c]
    BY <1>1
  <1>3. \A c \in Backends : watch'[c].pc \in {"ensureTxn", "more", "txn"} => watch'[c].got # <<>>
    BY <1>2 DEF TypeOK
  <1>4. Short'
    BY <1>2 DEF Short
  <1> QED BY <1>2, <1>3, <1>4

\* What is done with keys that were read gives members.
LEMMA Members == ASSUME NEW got \in Seq(Items), got # <<>>
                 PROVE  /\ got[1] \in Items /\ nextItem(got) \in Items
                        /\ repeatKVs(got, Values) \in Seq(Items)
  <1>1. Len(got) \in Nat /\ Len(got) > 0 /\ \A i \in 1..Len(got) : got[i] \in Items
    OBVIOUS
  <1>2. got[1] \in Items /\ nextItem(got) \in Items
    BY <1>1 DEF nextItem
  <1>3. ASSUME NEW i \in 1..Values PROVE ((i - 1) % Len(got)) + 1 \in 1..Len(got)
    BY <1>1, RingAssumption
  <1>4. \A i \in 1..Values : got[((i - 1) % Len(got)) + 1] \in Items
    BY <1>1, <1>3
  <1>5. Values \in Nat
    BY RingAssumption
  <1> HIDE DEF nextItem
  <1> QED BY <1>2, <1>4, <1>5 DEF repeatKVs

\* The watchers' records while they are not handling an expiry.
LEMMA QuietWatches == Down \in Watches /\ Idle \in Watches
                      /\ Idle = [pc |-> "idle", prev |-> None, epoch |-> 0, got |-> <<>>]
  <1>1. <<>> \in Seq(Items) /\ 0 \in Nat
    OBVIOUS
  <1>2. Idle = [pc |-> "idle", prev |-> None, epoch |-> 0, got |-> <<>>]
    BY DEF Down, Idle
  <1>3. Down \in Watches
    BY <1>1 DEF Down, Watches
  <1>4. Idle \in Watches
    BY <1>1, <1>2 DEF Watches
  <1> QED BY <1>2, <1>3, <1>4

\* A step that changes nothing but a watcher, and what comes with that.
LEMMA QuietInv ==
    ASSUME Inv, NEW b \in Backends, NEW w \in Watches, watch' = [watch EXCEPT ![b] = w],
           w.pc \notin {"again", "more", "txn"}, w.epoch <= epoch,
           w.pc = "ensureTxn" => w.got # <<>>,
           inbox' = inbox \/ inbox' = [inbox EXCEPT ![b] = <<>>],
           notes' \in [Backends -> Nat], add' = add \/ add' = [add EXCEPT ![b] = NoAdd],
           faults' \in 0..MaxFaults, trigger' \in Items \cup {None}, lost' \in BOOLEAN,
           UNCHANGED <<items, ops, epoch, stable, told>>
    PROVE  Inv'
  <1>0. TypeOK /\ Past /\ Short /\ Adding /\ InStep /\ SchedulersAgree
    BY DEF Inv
  <1>1. /\ watch' \in [Backends -> Watches] /\ Short'
        /\ \A c \in Backends : watch'[c].pc \in {"ensureTxn", "more", "txn"} => watch'[c].got # <<>>
        /\ watch'[b] = w /\ \A c \in Backends : c # b => watch'[c] = watch[c]
    BY <1>0, WatchPut
  <1>2. /\ inbox' \in [Backends -> Seq(Expiries)]
        /\ \A c \in Backends : inbox'[c] = inbox[c] \/ inbox'[c] = <<>>
    <2>1. inbox \in [Backends -> Seq(Expiries)]
      BY <1>0 DEF TypeOK, Expiries
    <2>2. CASE inbox' = inbox
      BY <2>1, <2>2
    <2>3. CASE inbox' = [inbox EXCEPT ![b] = <<>>]
      <3>1. <<>> \in Seq(Expiries)
        OBVIOUS
      <3> QED BY <2>1, <2>3, <3>1
    <2> QED BY <2>2, <2>3
  <1>a. add' \in [Backends -> Adds] /\ Adding'
    <2>1. add \in [Backends -> Adds] /\ NoAdd \in Adds /\ NoAdd.pc = "idle"
      BY <1>0 DEF TypeOK, Adds, NoAdd
    <2>2. add' \in [Backends -> Adds] /\ \A c \in Backends : add'[c] = add[c] \/ add'[c] = NoAdd
      BY <2>1
    <2> QED BY <2>1, <2>2, <1>0 DEF Adding
  <1>3. TypeOK'
    <2>1. /\ items' \subseteq Items /\ ops' \in 0..MaxOps /\ epoch' \in 0..MaxExpiries
          /\ told' \subseteq Seq(Items)
      BY <1>0 DEF TypeOK
    <2>2. stable' \in BOOLEAN
      BY <1>0, Zenon DEF TypeOK
    <2> QED BY <2>1, <2>2, <1>1, <1>2, <1>a DEF TypeOK, Expiries
  <1>4. Past' /\ InStep' /\ SchedulersAgree'
    <2>1. epoch' = epoch /\ told' = told /\ (stable' => stable /\ items' = items)
      OBVIOUS
    <2>2. \A c \in Backends : watch'[c] = watch[c]
               \/ (watch'[c].pc \notin {"again", "more", "txn"} /\ watch'[c].epoch <= epoch)
      BY <1>1
    <2> QED BY <1>0, <1>2, <2>1, <2>2, Quietly
  <1> QED BY <1>1, <1>a, <1>3, <1>4 DEF Inv

\* The steps of a watcher other than its handling of an expiry.
LEMMA WatcherInv ==
    ASSUME Inv, NEW b \in Backends,
           \/ startWatchers(b) \/ TakeNote(b) \/ EnsureGet(b) \/ EnsureTxn(b) \/ EnsureFail(b)
           \/ WatchCancelled(b) \/ HandleFail(b) \/ Crash(b)
    PROVE  Inv'
  <1>1. TypeOK /\ Past
    BY DEF Inv
  <1>2. watch[b] \in Watches /\ watch[b].epoch <= epoch
    BY <1>1 DEF TypeOK, Past
  <1>3. /\ notes \in [Backends -> Nat] /\ add \in [Backends -> Adds] /\ NoAdd \in Adds
        /\ faults \in 0..MaxFaults /\ trigger \in Items \cup {None} /\ items \subseteq Items
    BY <1>1 DEF TypeOK, NoAdd, Adds
  <1>4. lost \in BOOLEAN
    BY <1>1, Zenon DEF TypeOK
  <1>5. epoch \in Nat /\ 0 <= epoch
    BY <1>1, RingBounds DEF TypeOK
  <1>6. watch[b].pc \in {"ensureTxn", "txn"} =>
          watch[b].got[1] \in Items /\ nextItem(watch[b].got) \in Items
    <2>1. ASSUME watch[b].pc \in {"ensureTxn", "txn"} PROVE watch[b].got \in Seq(Items) /\ watch[b].got # <<>>
      BY <1>1, <1>2, <2>1 DEF TypeOK, Watches
    <2> QED BY <2>1, Members
  <1>7. Idle.epoch = 0 /\ Idle.pc = "idle" /\ Down.epoch = 0 /\ Down.pc = "down"
    BY DEF Idle, Down
  <1>8. \A n \in 0..MaxFaults : n < MaxFaults => n + 1 \in 0..MaxFaults
    BY RingBounds
  <1>9. CASE startWatchers(b)
    <2> DEFINE w == [Down EXCEPT !.pc = "ensure"]
    <2>1. w \in Watches /\ w.pc = "ensure" /\ w.epoch = 0
      BY <1>7, QuietWatches DEF Watches
    <2>2. /\ watch' = [watch EXCEPT ![b] = w]
          /\ UNCHANGED <<ring, inbox, notes, add, ops, faults, history>>
      BY <1>9 DEF startWatchers
    <2> HIDE DEF w
    <2> QED BY <2>1, <2>2, <1>3, <1>4, <1>5, QuietInv DEF ring, history
  <1>10. CASE TakeNote(b)
    <2> DEFINE w == [watch[b] EXCEPT !.pc = "ensure"]
    <2>1. w \in Watches /\ w.pc = "ensure" /\ w.epoch <= epoch
      BY <1>2 DEF Watches
    <2>2. /\ watch' = [watch EXCEPT ![b] = w] /\ notes' = [notes EXCEPT ![b] = @ - 1]
          /\ notes[b] > 0 /\ UNCHANGED <<ring, inbox, add, ops, faults, history>>
      BY <1>10 DEF TakeNote
    <2>3. notes' \in [Backends -> Nat]
      BY <2>2, <1>3
    <2> HIDE DEF w
    <2> QED BY <2>1, <2>2, <2>3, <1>3, <1>4, QuietInv DEF ring, history
  <1>11. CASE EnsureGet(b)
    <2> DEFINE w == IF trigger # None \/ items = {} THEN Idle
                    ELSE [Idle EXCEPT !.pc = "ensureTxn", !.got = Get(1, 1)]
    <2>1. items # {} => Get(1, 1) \in Seq(Items) /\ Get(1, 1) # <<>>
      BY <1>3, GetIs, FromOne
    <2>2. /\ w \in Watches /\ w.pc \in {"idle", "ensureTxn"} /\ w.epoch = 0
          /\ w.pc = "ensureTxn" => w.got # <<>>
      <3>1. CASE trigger # None \/ items = {}
        BY <3>1, <1>7, QuietWatches
      <3>2. CASE ~(trigger # None \/ items = {})
        BY <3>2, <2>1, QuietWatches DEF Watches
      <3> QED BY <3>1, <3>2
    <2>3. /\ watch' = [watch EXCEPT ![b] = w]
          /\ UNCHANGED <<ring, inbox, notes, add, ops, faults, history>>
      BY <1>11 DEF EnsureGet
    <2> HIDE DEF w
    <2> QED BY <2>2, <2>3, <1>3, <1>4, <1>5, QuietInv DEF ring, history
  <1>12. CASE EnsureTxn(b)
    <2>1. /\ watch' = [watch EXCEPT ![b] = Idle] /\ trigger' \in Items \cup {None}
          /\ UNCHANGED <<items, inbox, notes, add, ops, faults, history>>
      BY <1>12, <1>3, <1>6 DEF EnsureTxn, PutTrigger
    <2> QED BY <2>1, <1>3, <1>4, <1>5, <1>7, QuietWatches, QuietInv DEF history
  <1>13. CASE EnsureFail(b)
    <2> DEFINE w == [Idle EXCEPT !.pc = "ensure"]
    <2>1. w \in Watches /\ w.pc = "ensure" /\ w.epoch = 0
      BY QuietWatches DEF Watches
    <2>2. /\ watch' = [watch EXCEPT ![b] = w] /\ trigger' \in Items \cup {None}
          /\ UNCHANGED <<items, inbox, notes, add, ops, history>>
      BY <1>13, <1>3, <1>6 DEF EnsureFail, PutTrigger
    <2>3. faults' \in 0..MaxFaults
      BY <1>13, <1>3, <1>8 DEF EnsureFail
    <2> HIDE DEF w
    <2> QED BY <2>1, <2>2, <2>3, <1>3, <1>4, <1>5, QuietInv DEF history
  <1>14. CASE WatchCancelled(b)
    <2> DEFINE w == [watch[b] EXCEPT !.pc = "ensure"]
    <2>1. w \in Watches /\ w.pc = "ensure" /\ w.epoch <= epoch
      BY <1>2 DEF Watches
    <2>2. /\ watch' = [watch EXCEPT ![b] = w] /\ notes' = [notes EXCEPT ![b] = 0]
          /\ inbox' = [inbox EXCEPT ![b] = <<>>] /\ UNCHANGED <<ring, add, ops, history>>
      BY <1>14 DEF WatchCancelled
    <2>3. notes' \in [Backends -> Nat]
      BY <2>2, <1>3
    <2>4. faults' \in 0..MaxFaults
      BY <1>14, <1>3, <1>8 DEF WatchCancelled
    <2> HIDE DEF w
    <2> QED BY <2>1, <2>2, <2>3, <2>4, <1>3, <1>4, QuietInv DEF ring, history
  <1>15. CASE HandleFail(b)
    <2>1. /\ watch' = [watch EXCEPT ![b] = Idle] /\ trigger' \in Items \cup {None}
          /\ UNCHANGED <<items, inbox, notes, add, ops, epoch, stable, told>>
      BY <1>15, <1>3, <1>6 DEF HandleFail, PutTrigger
    <2>2. faults' \in 0..MaxFaults
      BY <1>15, <1>3, <1>8 DEF HandleFail
    <2>3. lost' \in BOOLEAN
      BY <1>15, <1>4, Zenon DEF HandleFail
    <2> QED BY <2>1, <2>2, <2>3, <1>3, <1>5, <1>7, QuietWatches, QuietInv
  <1>16. CASE Crash(b)
    <2>1. /\ watch' = [watch EXCEPT ![b] = Down] /\ notes' = [notes EXCEPT ![b] = 0]
          /\ inbox' = [inbox EXCEPT ![b] = <<>>] /\ add' = [add EXCEPT ![b] = NoAdd]
          /\ UNCHANGED <<ring, ops, history>>
      BY <1>16 DEF Crash
    <2>2. notes' \in [Backends -> Nat]
      BY <2>1, <1>3
    <2>3. faults' \in 0..MaxFaults
      BY <1>16, <1>3, <1>8 DEF Crash
    <2> QED BY <2>1, <2>2, <2>3, <1>3, <1>4, <1>5, <1>7, QuietWatches, QuietInv DEF ring, history
  <1> QED BY <1>9, <1>10, <1>11, <1>12, <1>13, <1>14, <1>15, <1>16

\* Members come and go.
LEMMA MembersInv ==
    ASSUME Inv,
           \/ \E v \in Items : Remove(v)
           \/ \E b \in Backends : \/ \E v \in Items : AddBegin(b, v)
                                  \/ AddPut(b) \/ AddFail(b) \/ notifyWatchers(b)
    PROVE  Inv'
  <1>0. TypeOK /\ Past /\ Short /\ Adding /\ InStep /\ SchedulersAgree
    BY DEF Inv
  <1>1. UNCHANGED <<trigger, inbox, watch, epoch, told>>
    BY DEF Remove, AddBegin, AddPut, AddFail, notifyWatchers, ring, history
  <1>2. stable' => stable /\ items' = items
    BY DEF Remove, AddBegin, AddPut, AddFail, notifyWatchers, ring, history
  <1>3. stable' \in BOOLEAN /\ lost' \in BOOLEAN
    <2>1. stable \in BOOLEAN /\ lost \in BOOLEAN
      BY <1>0, Zenon DEF TypeOK
    <2> QED BY <2>1, Zenon DEF Remove, AddBegin, AddPut, AddFail, notifyWatchers, ring, history
  <1>4. /\ items \subseteq Items /\ add \in [Backends -> Adds] /\ notes \in [Backends -> Nat]
        /\ ops \in 0..MaxOps /\ faults \in 0..MaxFaults
    BY <1>0 DEF TypeOK
  <1>5. /\ items' \subseteq Items /\ add' \in [Backends -> Adds] /\ notes' \in [Backends -> Nat]
        /\ ops' \in 0..MaxOps /\ faults' \in 0..MaxFaults
    <2>1. CASE \E v \in Items : Remove(v)
      BY <2>1, <1>4, RingBounds DEF Remove
    <2>2. CASE \E b \in Backends : \E v \in Items : AddBegin(b, v)
      <3>1. PICK b \in Backends, v \in Items : AddBegin(b, v)
        BY <2>2
      <3>2. items' \subseteq Items /\ notes' = notes /\ faults' = faults
        BY <3>1, <1>4 DEF AddBegin
      <3>3. ops' \in 0..MaxOps
        BY <3>1, <1>4, RingBounds DEF AddBegin
      <3>4. add' \in [Backends -> Adds]
        BY <3>1, <1>4 DEF AddBegin, Adds
      <3> QED BY <3>2, <3>3, <3>4, <1>4
    <2>3. CASE \E b \in Backends : AddPut(b)
      <3>1. PICK b \in Backends : AddPut(b)
        BY <2>3
      <3>2. UNCHANGED <<ops, faults, notes>>
        BY <3>1 DEF AddPut
      <3>3. add[b].item \in Items
        BY <3>1, <1>0 DEF AddPut, Adding
      <3>4. add' \in [Backends -> Adds]
        BY <3>1, <1>4 DEF AddPut, Adds
      <3>5. items' \subseteq Items
        BY <3>1, <3>3, <1>4 DEF AddPut
      <3> QED BY <3>2, <3>4, <3>5, <1>4
    <2>4. CASE \E b \in Backends : AddFail(b)
      <3>1. PICK b \in Backends : AddFail(b)
        BY <2>4
      <3>2. UNCHANGED <<ops, notes>>
        BY <3>1 DEF AddFail
      <3>3. faults' \in 0..MaxFaults
        BY <3>1, <1>4, RingBounds DEF AddFail
      <3>4. add' \in [Backends -> Adds]
        BY <3>1, <1>4 DEF AddFail, Adds, NoAdd
      <3>5. add[b].item \in Items
        BY <3>1, <1>0 DEF AddFail, Adding
      <3>6. items' \subseteq Items
        BY <3>1, <3>5, <1>4 DEF AddFail
      <3> QED BY <3>2, <3>3, <3>4, <3>6, <1>4
    <2>5. CASE \E b \in Backends : notifyWatchers(b)
      <3>1. PICK b \in Backends : notifyWatchers(b)
        BY <2>5
      <3>2. UNCHANGED <<ops, faults, items>>
        BY <3>1 DEF notifyWatchers, ring
      <3>3. notes' \in [Backends -> Nat]
        BY <3>1, <1>4 DEF notifyWatchers
      <3>4. add' \in [Backends -> Adds]
        BY <3>1, <1>4 DEF notifyWatchers, Adds, NoAdd
      <3> QED BY <3>2, <3>3, <3>4, <1>4
    <2> QED BY <2>1, <2>2, <2>3, <2>4, <2>5
  <1>6. TypeOK'
    BY <1>0, <1>1, <1>3, <1>5 DEF TypeOK
  <1>7. Short'
    BY <1>0, <1>1 DEF Short
  <1>a. Adding'
    <2> SUFFICES ASSUME NEW b \in Backends, add'[b].pc # "idle" PROVE add'[b].item \in Items
      BY DEF Adding
    <2>1. CASE \E v \in Items : Remove(v)
      BY <2>1, <1>0 DEF Remove, Adding
    <2>2. CASE \E c \in Backends : \E v \in Items : AddBegin(c, v)
      <3>1. PICK c \in Backends, v \in Items : AddBegin(c, v)
        BY <2>2
      <3> QED BY <3>1, <1>0, <1>4 DEF AddBegin, Adding
    <2>3. CASE \E c \in Backends : AddPut(c)
      <3>1. PICK c \in Backends : AddPut(c)
        BY <2>3
      <3>2. add[c].item \in Items
        BY <3>1, <1>0 DEF AddPut, Adding
      <3>3. CASE b = c
        BY <3>1, <3>2, <3>3, <1>4 DEF AddPut, Adds
      <3>4. CASE b # c
        BY <3>1, <3>4, <1>0, <1>4 DEF AddPut, Adding
      <3> QED BY <3>3, <3>4
    <2>4. CASE \E c \in Backends : AddFail(c) \/ notifyWatchers(c)
      <3>1. PICK c \in Backends : add' = [add EXCEPT ![c] = NoAdd]
        BY <2>4 DEF AddFail, notifyWatchers
      <3> QED BY <3>1, <1>0, <1>4 DEF Adding, NoAdd
    <2> QED BY <2>1, <2>2, <2>3, <2>4
  <1>8. Past' /\ InStep' /\ SchedulersAgree'
    BY <1>0, <1>1, <1>2, Quietly
  <1> QED BY <1>6, <1>7, <1>a, <1>8 DEF Inv

-----------------------------------------------------------------------------
(* A watcher handles an expiry.                                             *)

\* What a handler that goes on to w may have read.
Fits(w, p) == w.epoch = epoch =>
    /\ w.pc = "again" => w.prev = p /\ Get(p, Values + 1) = <<>>
    /\ w.pc = "more" => w.got = First(p) /\ Len(First(p)) < Values + 1
    /\ w.pc = "txn" => w.got = Whole(p)

\* A handler that reads what fits keeps in step with the others.
LEMMA HandleKeeps ==
    ASSUME Inv, NEW b \in Backends, NEW w \in Watches, watch' = [watch EXCEPT ![b] = w],
           w.pc \in {"ensureTxn", "more", "txn"} => w.got # <<>>,
           w.pc = "more" => Len(w.got) < Values + 1, w.epoch <= epoch,
           \A p \in Items : Agreed(p) => Fits(w, p),
           inbox' = inbox \/ (inbox[b] # <<>> /\ inbox' = [inbox EXCEPT ![b] = Tail(@)]),
           UNCHANGED <<ring, notes, add, ops, faults, history>>
    PROVE  Inv'
  <1>0. TypeOK /\ Past /\ Short /\ Adding /\ InStep /\ SchedulersAgree
    BY DEF Inv
  <1>1. /\ watch' \in [Backends -> Watches] /\ Short'
        /\ \A c \in Backends : watch'[c].pc \in {"ensureTxn", "more", "txn"} => watch'[c].got # <<>>
        /\ watch'[b] = w /\ \A c \in Backends : c # b => watch'[c] = watch[c]
    BY <1>0, WatchPut
  <1>2. /\ inbox' \in [Backends -> Seq(Expiries)]
        /\ \A c \in Backends : \A i \in DOMAIN inbox'[c] :
             \E j \in DOMAIN inbox[c] : inbox'[c][i] = inbox[c][j]
    <2>1. inbox \in [Backends -> Seq(Expiries)]
      BY <1>0 DEF TypeOK, Expiries
    <2>2. CASE inbox' = inbox
      BY <2>1, <2>2
    <2>3. CASE inbox[b] # <<>> /\ inbox' = [inbox EXCEPT ![b] = Tail(@)]
      <3>1. inbox[b] \in Seq(Expiries) /\ inbox[b] # <<>>
        BY <2>1, <2>3
      <3>2. /\ Tail(inbox[b]) \in Seq(Expiries)
            /\ \A i \in DOMAIN Tail(inbox[b]) : /\ i + 1 \in DOMAIN inbox[b]
                                                /\ Tail(inbox[b])[i] = inbox[b][i + 1]
        BY <3>1
      <3>3. \A i \in DOMAIN Tail(inbox[b]) :
               \E j \in DOMAIN inbox[b] : Tail(inbox[b])[i] = inbox[b][j]
        BY <3>2
      <3>4. inbox'[b] = Tail(inbox[b]) /\ \A c \in Backends : c # b => inbox'[c] = inbox[c]
        BY <2>1, <2>3
      <3>5. inbox' \in [Backends -> Seq(Expiries)]
        BY <2>1, <2>3, <3>2
      <3> QED BY <3>3, <3>4, <3>5
    <2> QED BY <2>2, <2>3
  <1>3. /\ items' = items /\ trigger' = trigger /\ notes' = notes /\ add' = add /\ ops' = ops
        /\ faults' = faults /\ epoch' = epoch /\ stable' = stable /\ told' = told /\ lost' = lost
    BY DEF ring, history
  <1>4. TypeOK'
    BY <1>0, <1>1, <1>2, <1>3 DEF TypeOK, Expiries
  <1>5. Past'
    <2> SUFFICES ASSUME NEW c \in Backends
                 PROVE  /\ watch'[c].epoch <= epoch
                        /\ \A i \in DOMAIN inbox'[c] : inbox'[c][i].epoch <= epoch
      BY <1>3 DEF Past
    <2>1. watch'[c].epoch <= epoch
      BY <1>0, <1>1 DEF Past
    <2>2. \A i \in DOMAIN inbox'[c] : inbox'[c][i].epoch <= epoch
      BY <1>0, <1>2 DEF Past
    <2> QED BY <2>1, <2>2
  <1>6. InStep'
    <2> SUFFICES ASSUME stable PROVE \E p \in Items : Agreed(p)'
      BY <1>3 DEF InStep
    <2>1. PICK p \in Items : Agreed(p)
      BY <1>0 DEF InStep
    <2>2. /\ Get(p, Values + 1)' = Get(p, Values + 1)
          /\ First(p)' = First(p) /\ Whole(p)' = Whole(p)
      BY <1>3, GetSame
    <2>3. \A c \in Backends : \A i \in DOMAIN inbox'[c] :
            inbox'[c][i].epoch = epoch => inbox'[c][i].prev = p
      BY <1>2, <2>1 DEF Agreed
    <2>4. \A c \in Backends : Fits(watch[c], p)
      BY <2>1 DEF Agreed, Fits
    <2>5. \A c \in Backends : Fits(watch'[c], p)
      BY <2>1, <2>4, <1>1
    <2>6. \A t \in told : t = repeatKVs(Whole(p), Values)
      BY <2>1 DEF Agreed
    <2>7. repeatKVs(Whole(p), Values)' = repeatKVs(Whole(p), Values)
      BY <2>2 DEF repeatKVs
    <2>8. Agreed(p)'
      BY <2>2, <2>3, <2>5, <2>6, <2>7, <1>3 DEF Agreed, Fits
    <2> QED BY <2>8
  <1>7. SchedulersAgree' /\ Adding'
    BY <1>0, <1>3 DEF SchedulersAgree, Adding
  <1> QED BY <1>1, <1>4, <1>5, <1>6, <1>7 DEF Inv

\* The first read, and the second.
LEMMA HandleReadInv == ASSUME Inv, NEW b \in Backends,
                              HandleGet(b) \/ HandleAgain(b) \/ HandleMore(b)
                       PROVE  Inv'
  <1>0. TypeOK /\ Past /\ Short
    BY DEF Inv
  <1>1. /\ items \subseteq Items /\ Values + 1 \in Nat /\ Values + 1 # 0 /\ 1 \in Nat
        /\ inbox[b] \in Seq(Expiries) /\ watch[b] \in Watches
    <2>1. items \subseteq Items /\ watch[b] \in Watches
      BY <1>0 DEF TypeOK
    <2>2. inbox[b] \in Seq(Expiries)
      BY <1>0 DEF TypeOK, Expiries
    <2>3. Values + 1 \in Nat /\ Values + 1 # 0 /\ 1 \in Nat
      BY RingAssumption
    <2> QED BY <2>1, <2>2, <2>3
  <1>2. watch[b].epoch \in Nat /\ watch[b].epoch <= epoch /\ watch[b].prev \in Items \cup {None}
    BY <1>0, <1>1 DEF Watches, Past
  <1>3. CASE HandleGet(b)
    <2> DEFINE e == Head(inbox[b])
               got == Get(e.prev, Values + 1)
               w == [pc |-> IF got = <<>> THEN "again"
                            ELSE IF Len(got) < Values + 1 THEN "more" ELSE "txn",
                     prev |-> e.prev, epoch |-> e.epoch, got |-> got]
    <2>1. inbox[b] # <<>> /\ e = inbox[b][1] /\ 1 \in DOMAIN inbox[b]
      BY <1>1, <1>3 DEF HandleGet
    <2>2. e \in Expiries
      BY <1>1, <2>1
    <2>3. e.prev \in Items /\ e.prev \in Nat /\ e.epoch \in Nat /\ e.epoch <= epoch
      <3>1. inbox[b][1].epoch <= epoch
        BY <2>1, <1>0 DEF Past
      <3>2. e.prev \in Items /\ e.epoch \in Nat
        BY <2>2 DEF Expiries
      <3>3. \A x \in Items : x \in Nat
        BY RingAssumption
      <3> QED BY <2>1, <3>1, <3>2, <3>3
    <2>4. /\ inbox' = [inbox EXCEPT ![b] = Tail(@)]
          /\ watch' = [watch EXCEPT ![b] = w]
          /\ UNCHANGED <<ring, notes, add, ops, faults, history>>
      <3> HIDE DEF got, e
      <3>1. /\ inbox' = [inbox EXCEPT ![b] = Tail(@)]
            /\ UNCHANGED <<ring, notes, add, ops, faults, history>>
            /\ \/ got # <<>> /\ GotSome(b, e, got)
               \/ got = <<>> /\ watch' = [watch EXCEPT ![b] = [pc |-> "again", prev |-> e.prev,
                                                       epoch |-> e.epoch, got |-> <<>>]]
        BY <1>3 DEF HandleGet, got, e
      <3>2. CASE got # <<>>
        BY <3>1, <3>2 DEF GotSome
      <3>3. CASE got = <<>>
        BY <3>1, <3>3
      <3> QED BY <3>2, <3>3
    <2>5. \A p \in Items : Agreed(p) /\ e.epoch = epoch => e.prev = p
      BY <2>1 DEF Agreed
    <2> HIDE DEF e
    <2>6. got \in Seq(Items)
      BY <1>1, <2>3, GetIs
    <2>7. \A p \in Items : Agreed(p) => Fits(w, p)
      <3> SUFFICES ASSUME NEW p \in Items, Agreed(p), e.epoch = epoch PROVE Fits(w, p)
        BY DEF Fits
      <3>1. e.prev = p /\ got = Get(p, Values + 1)
        BY <2>5
      <3> HIDE DEF got
      <3> QED BY <3>1 DEF Fits, First, Whole
    <2> HIDE DEF got
    <2>8. /\ w \in Watches /\ w.epoch <= epoch
          /\ w.pc \in {"ensureTxn", "more", "txn"} => w.got # <<>>
          /\ w.pc = "more" => Len(w.got) < Values + 1
      BY <2>3, <2>6 DEF Watches
    <2> HIDE DEF w
    <2> QED BY <2>1, <2>4, <2>7, <2>8, HandleKeeps
  <1>4. CASE HandleAgain(b)
    <2> DEFINE got == Get(1, Values + 1)
               w == IF got = <<>> THEN Idle
                    ELSE [pc |-> IF Len(got) < Values + 1 THEN "more" ELSE "txn",
                          prev |-> watch[b].prev, epoch |-> watch[b].epoch, got |-> got]
    <2>1. got \in Seq(Items)
      BY <1>1, GetIs
    <2>2. watch[b].pc = "again" /\ UNCHANGED <<ring, inbox, notes, add, ops, faults, history>>
      BY <1>4 DEF HandleAgain
    <2>3. watch' = [watch EXCEPT ![b] = w]
      <3> HIDE DEF got
      <3>1. \/ got # <<>> /\ GotSome(b, watch[b], got)
            \/ got = <<>> /\ watch' = [watch EXCEPT ![b] = Idle]
        BY <1>4 DEF HandleAgain, got
      <3>2. CASE got # <<>>
        BY <3>1, <3>2 DEF GotSome
      <3>3. CASE got = <<>>
        BY <3>1, <3>3
      <3> QED BY <3>2, <3>3
    <2>4. \A p \in Items : Agreed(p) => Fits(w, p)
      <3> SUFFICES ASSUME NEW p \in Items, Agreed(p), w.epoch = epoch PROVE Fits(w, p)
        BY DEF Fits
      <3>1. CASE got = <<>>
        BY <3>1, QuietWatches DEF Fits
      <3>2. CASE got # <<>>
        <4>1. watch[b].epoch = epoch
          BY <3>2
        <4>2. Get(p, Values + 1) = <<>>
          BY <4>1, <2>2 DEF Agreed
        <4>3. First(p) = got
          BY <4>2 DEF First
        <4> HIDE DEF got
        <4> QED BY <3>2, <4>3 DEF Fits, Whole
      <3> QED BY <3>1, <3>2
    <2> HIDE DEF got
    <2>5. /\ w \in Watches /\ w.epoch <= epoch
          /\ w.pc \in {"ensureTxn", "more", "txn"} => w.got # <<>>
          /\ w.pc = "more" => Len(w.got) < Values + 1
      <3>1. 0 <= epoch
        BY <1>0 DEF TypeOK
      <3>2. CASE got = <<>>
        BY <3>1, <3>2, QuietWatches
      <3>3. CASE got # <<>>
        BY <3>3, <2>1, <1>2 DEF Watches
      <3> QED BY <3>2, <3>3
    <2> HIDE DEF w
    <2> QED BY <2>2, <2>3, <2>4, <2>5, HandleKeeps
  <1>5. CASE HandleMore(b)
    <2> DEFINE more == Get(1, Values + 1 - Len(watch[b].got))
               w == [watch[b] EXCEPT !.pc = "txn", !.got = @ \o more]
    <2>1. /\ watch[b].pc = "more" /\ watch' = [watch EXCEPT ![b] = w]
          /\ UNCHANGED <<ring, inbox, notes, add, ops, faults, history>>
      BY <1>5 DEF HandleMore
    <2>2. /\ watch[b].got \in Seq(Items) /\ watch[b].got # <<>>
          /\ Len(watch[b].got) < Values + 1 /\ Len(watch[b].got) \in Nat
      <3>1. watch[b].got \in Seq(Items)
        BY <1>1 DEF Watches
      <3>2. watch[b].got # <<>>
        BY <1>0, <2>1 DEF TypeOK
      <3>3. Len(watch[b].got) < Values + 1
        BY <1>0, <2>1 DEF Short
      <3> QED BY <3>1, <3>2, <3>3
    <2>3. more \in Seq(Items)
      <3>1. Values + 1 - Len(watch[b].got) \in Nat
        BY <2>2, RingAssumption
      <3> QED BY <1>1, <3>1, GetIs
    <2>4. \A p \in Items : Agreed(p) => Fits(w, p)
      <3> SUFFICES ASSUME NEW p \in Items, Agreed(p), watch[b].epoch = epoch
                   PROVE  w.got = Whole(p)
        BY <1>1 DEF Fits, Watches
      <3>1. watch[b].got = First(p) /\ Len(First(p)) < Values + 1
        BY <2>1 DEF Agreed
      <3>2. w.got = watch[b].got \o more
        BY <1>1 DEF Watches
      <3> QED BY <3>1, <3>2 DEF Whole
    <2> HIDE DEF more
    <2>5. /\ w \in Watches /\ w.epoch = watch[b].epoch
          /\ w.pc = "txn" /\ w.got # <<>>
      <3>1. watch[b].got \o more \in Seq(Items) /\ watch[b].got \o more # <<>>
        BY <2>2, <2>3
      <3> QED BY <3>1, <1>1 DEF Watches
    <2> HIDE DEF w
    <2> QED BY <2>1, <2>4, <2>5, <1>2, HandleKeeps
  <1> QED BY <1>3, <1>4, <1>5

\* The transaction, after which the scheduler is told.
LEMMA HandleTxnInv == ASSUME Inv, NEW b \in Backends, HandleTxn(b)
                      PROVE  Inv'
  <1> DEFINE turn == repeatKVs(watch[b].got, Values)
  <1>0. TypeOK /\ Past /\ Short /\ Adding /\ InStep /\ SchedulersAgree
    BY DEF Inv
  <1>1. /\ watch[b].pc = "txn" /\ watch' = [watch EXCEPT ![b] = Idle]
        /\ PutTrigger(nextItem(watch[b].got))
        /\ told' = IF watch[b].epoch = epoch /\ stable THEN told \cup {turn} ELSE told
        /\ UNCHANGED <<items, inbox, notes, add, ops, faults, epoch, stable, lost>>
    BY DEF HandleTxn
  <1>2. watch[b].got \in Seq(Items) /\ watch[b].got # <<>>
    BY <1>0, <1>1 DEF TypeOK, Watches
  <1>3. nextItem(watch[b].got) \in Items /\ turn \in Seq(Items)
    BY <1>2, Members
  <1> HIDE DEF turn
  <1>4. /\ Idle \in Watches /\ Idle.epoch = 0 /\ Idle.pc = "idle" /\ Idle.got = <<>>
    BY QuietWatches
  <1>5. /\ watch' \in [Backends -> Watches] /\ Short'
        /\ \A c \in Backends : watch'[c].pc \in {"ensureTxn", "more", "txn"} => watch'[c].got # <<>>
        /\ watch'[b] = Idle /\ \A c \in Backends : c # b => watch'[c] = watch[c]
    BY <1>0, <1>1, <1>4, WatchPut
  <1>6. TypeOK'
    <2>1. trigger' \in Items \cup {None}
      BY <1>0, <1>1, <1>3 DEF TypeOK, PutTrigger
    <2>2. told' \subseteq Seq(Items)
      BY <1>0, <1>1, <1>3 DEF TypeOK
    <2> QED BY <1>0, <1>1, <1>5, <2>1, <2>2 DEF TypeOK
  <1>7. Past'
    <2>1. 0 <= epoch
      BY <1>0 DEF TypeOK
    <2> QED BY <1>0, <1>1, <1>4, <1>5, <2>1 DEF Past
  <1>8. Adding'
    BY <1>0, <1>1 DEF Adding
  <1>9. stable => \E p \in Items : Agreed(p)' /\ \A t \in told' : t = repeatKVs(Whole(p), Values)
    <2> SUFFICES ASSUME stable
                 PROVE  \E p \in Items : Agreed(p)' /\ \A t \in told' : t = repeatKVs(Whole(p), Values)
      OBVIOUS
    <2>1. PICK p \in Items : Agreed(p)
      BY <1>0 DEF InStep
    <2>2. /\ Get(p, Values + 1)' = Get(p, Values + 1)
          /\ First(p)' = First(p) /\ Whole(p)' = Whole(p)
      BY <1>1, GetSame
    <2>3. watch[b].epoch = epoch => turn = repeatKVs(Whole(p), Values)
      BY <2>1, <1>1 DEF Agreed, turn
    <2>4. \A t \in told' : t = repeatKVs(Whole(p), Values)
      BY <2>1, <2>3, <1>1 DEF Agreed
    <2>5. repeatKVs(Whole(p), Values)' = repeatKVs(Whole(p), Values)
      BY <2>2 DEF repeatKVs
    <2>6. \A c \in Backends : Fits(watch[c], p)
      BY <2>1 DEF Agreed, Fits
    <2>7. \A c \in Backends : Fits(watch'[c], p)
      <3>1. Fits(Idle, p)
        BY <1>4 DEF Fits
      <3> QED BY <3>1, <2>6, <1>5
    <2>8. \A c \in Backends : \A i \in DOMAIN inbox'[c] :
            inbox'[c][i].epoch = epoch' => inbox'[c][i].prev = p
      BY <2>1, <1>1 DEF Agreed
    <2>9. Agreed(p)'
      BY <2>2, <2>4, <2>5, <2>7, <2>8, <1>1 DEF Agreed, Fits
    <2> QED BY <2>4, <2>9
  <1>10. InStep'
    BY <1>1, <1>9 DEF InStep
  <1>11. SchedulersAgree'
    <2>1. CASE told' = told
      BY <1>0, <2>1 DEF SchedulersAgree
    <2>2. CASE stable
      <3>1. PICK p \in Items : \A t \in told' : t = repeatKVs(Whole(p), Values)
        BY <1>9, <2>2
      <3>2. PICK x : x = repeatKVs(Whole(p), Values)
        OBVIOUS
      <3>3. told' \in SUBSET {x}
        BY <3>1, <3>2
      <3>4. IsFiniteSet({x}) /\ Cardinality({x}) = 1
        BY FS_Singleton
      <3>5. Cardinality(told') <= Cardinality({x})
        BY <3>3, <3>4, FS_Subset, Zenon
      <3> QED BY <3>4, <3>5 DEF SchedulersAgree
    <2> QED BY <2>1, <2>2, <1>1
  <1> QED BY <1>5, <1>6, <1>7, <1>8, <1>10, <1>11 DEF Inv

\* Every step keeps the invariant.
LEMMA NextInv == Inv /\ [Next]_vars => Inv'
  <1> SUFFICES ASSUME Inv, [Next]_vars PROVE Inv'
    OBVIOUS
  <1>1. CASE TriggerExpire
    BY <1>1, TriggerExpireInv
  <1>2. CASE \/ \E v \in Items : Remove(v)
             \/ \E b \in Backends : \/ \E v \in Items : AddBegin(b, v)
                                    \/ AddPut(b) \/ AddFail(b) \/ notifyWatchers(b)
    BY <1>2, MembersInv
  <1>3. CASE \E b \in Backends :
               \/ startWatchers(b) \/ TakeNote(b) \/ EnsureGet(b) \/ EnsureTxn(b) \/ EnsureFail(b)
               \/ WatchCancelled(b) \/ HandleFail(b) \/ Crash(b)
    BY <1>3, WatcherInv
  <1>4. CASE \E b \in Backends : HandleGet(b) \/ HandleAgain(b) \/ HandleMore(b)
    BY <1>4, HandleReadInv
  <1>5. CASE \E b \in Backends : HandleTxn(b)
    BY <1>5, HandleTxnInv
  <1>6. CASE UNCHANGED vars
    <2>1. /\ UNCHANGED <<items, trigger, inbox, watch, notes, add, ops, faults>>
          /\ UNCHANGED <<epoch, stable, told, lost>>
      BY <1>6 DEF vars, ring, history
    <2>2. TypeOK' /\ Short' /\ Adding' /\ Past' /\ SchedulersAgree'
      BY <2>1 DEF Inv, TypeOK, Short, Adding, Past, SchedulersAgree
    <2>3. InStep'
      BY <2>1, Quietly DEF Inv
    <2> QED BY <2>2, <2>3 DEF Inv
  <1> QED BY <1>1, <1>2, <1>3, <1>4, <1>5, <1>6 DEF Next, WatcherStep, AddStep, Finished

\* The invariant holds in every state.
LEMMA Invariance == Spec => []Inv
  <1> QED BY InitInv, NextInv, PTL DEF Spec

\* Every variable has its type, and a handler that is about to put a trigger has
\* read a member (ringv2.go:336-508), in every ring and for every number of due
\* members.
THEOREM TypeCorrect == Spec => []TypeOK
  <1>1. Inv => TypeOK
    BY DEF Inv
  <1> QED BY <1>1, Invariance, PTL

\* The schedulers of all backends are told the same members for the same turn,
\* as long as no member comes or goes (ringv2.go:401-437).
THEOREM SchedulersAreInStep == Spec => []SchedulersAgree
  <1>1. Inv => SchedulersAgree
    BY DEF Inv
  <1> QED BY <1>1, Invariance, PTL

-----------------------------------------------------------------------------
(* The turns follow each other round the ring.                              *)

\* The member that follows x is the least one beyond it, or the least of all.
LEMMA FollowingIs ==
    ASSUME \A s \in items : s \in Nat, NEW x \in Nat, NEW y \in items,
           \/ y > x /\ \A z \in items : z > x => y <= z
           \/ (\A z \in items : z <= x) /\ \A z \in items : y <= z
    PROVE  Following(x) = y
  <1>1. CASE y > x /\ \A z \in items : z > x => y <= z
    <2>1. \E z \in items : z > x
      BY <1>1
    <2>2. Following(x) = CHOOSE v \in items : v > x /\ \A z \in items : z > x => v <= z
      BY <2>1, Zenon DEF Following
    <2> DEFINE v == CHOOSE v \in items : v > x /\ \A z \in items : z > x => v <= z
    <2>3. v \in items /\ v > x /\ \A z \in items : z > x => v <= z
      BY <1>1, Zenon
    <2> HIDE DEF v
    <2>4. v <= y /\ y <= v /\ v \in Nat /\ y \in Nat
      BY <2>3, <1>1
    <2> QED BY <2>2, <2>4 DEF v
  <1>2. CASE (\A z \in items : z <= x) /\ \A z \in items : y <= z
    <2>1. ~ \E z \in items : z > x
      BY <1>2
    <2>2. Following(x) = CHOOSE v \in items : \A z \in items : v <= z
      BY <2>1, Zenon DEF Following
    <2> DEFINE v == CHOOSE v \in items : \A z \in items : v <= z
    <2>3. v \in items /\ \A z \in items : v <= z
      BY <1>2, Zenon
    <2> HIDE DEF v
    <2>4. v <= y /\ y <= v /\ v \in Nat /\ y \in Nat
      BY <2>3, <1>2
    <2> QED BY <2>2, <2>4 DEF v
  <1> QED BY <1>1, <1>2

\* What makes a turn: as many members as are due, each of them once, and the one
\* that follows the last of them.
ATurn(g) == /\ Len(g) = Values + 1
            /\ \A i \in 1..Values + 1 : g[i] \in items
            /\ \A i, j \in 1..Values : i # j => g[i] # g[j]
            /\ g[Values + 1] = Following(g[Values])

\* The members from k on are enough for a turn.
LEMMA LongTurn ==
    ASSUME items \subseteq Items, NEW k \in Nat, Values < Cardinality(From(items, k))
    PROVE  ATurn(Get(k, Values + 1))
  <1> DEFINE S == From(items, k)
             g == Get(k, Values + 1)
  <1>0. Values \in Nat /\ Values > 0 /\ Values + 1 \in Nat
    BY RingAssumption
  <1>1. /\ \A s \in S : s \in Nat
        /\ IsFiniteSet(S) /\ Cardinality(S) \in Nat /\ g \in Seq(Items)
        /\ Len(g) = IF Values + 1 < Cardinality(S) THEN Values + 1 ELSE Cardinality(S)
        /\ \A i \in 1 .. Len(g) : i \in 1 .. Cardinality(S) /\ g[i] = Nth(S, i)
    BY <1>0, GetIs
  <1>2. \A s \in S : s \in items /\ s >= k
    BY DEF From
  <1>3. \A s \in items : s \in Nat /\ (s >= k => s \in S)
    BY RingAssumption DEF From
  <1> HIDE DEF S, g
  <1>4. Values < Cardinality(S) /\ Len(g) = Values + 1
    BY <1>0, <1>1 DEF S
  <1>5. \A i \in 1..Values + 1 : i \in 1 .. Cardinality(S) /\ g[i] = Nth(S, i) /\ g[i] \in S
    <2>1. \A i \in 1..Values + 1 : i \in 1 .. Cardinality(S) /\ g[i] = Nth(S, i)
      BY <1>1, <1>4
    <2> QED BY <2>1, <1>1, NthIs
  <1>6. ASSUME NEW i \in 1..Values + 1, NEW j \in 1..Values + 1, i < j
        PROVE  g[i] < g[j]
    BY <1>1, <1>5, <1>6, NthGrows
  <1>7. \A i, j \in 1..Values : i # j => g[i] # g[j]
    <2> SUFFICES ASSUME NEW i \in 1..Values, NEW j \in 1..Values, i # j PROVE g[i] # g[j]
      OBVIOUS
    <2>1. i \in 1..Values + 1 /\ j \in 1..Values + 1 /\ (i < j \/ j < i)
      BY <1>0
    <2>2. g[i] \in Nat /\ g[j] \in Nat
      BY <2>1, <1>1, <1>5
    <2>3. g[i] < g[j] \/ g[j] < g[i]
      BY <2>1, <1>6
    <2> QED BY <2>2, <2>3
  <1>8. g[Values + 1] = Following(g[Values])
    <2>1. Values \in 1..Values + 1 /\ Values + 1 \in 1..Values + 1 /\ Values < Values + 1
      BY <1>0
    <2>2. g[Values] \in S /\ g[Values + 1] \in S /\ g[Values] = Nth(S, Values)
          /\ g[Values + 1] = Nth(S, Values + 1) /\ Values \in 1 .. Cardinality(S)
      BY <2>1, <1>5
    <2>3. g[Values + 1] > g[Values]
      <3>1. g[Values] < g[Values + 1]
        BY <2>1, <1>6
      <3> QED BY <3>1, <2>2, <1>1
    <2>4. ASSUME NEW z \in items, z > g[Values] PROVE g[Values + 1] <= z
      <3>1. g[Values] >= k /\ g[Values] \in Nat /\ z \in Nat
        BY <2>2, <1>1, <1>2, <1>3
      <3>2. z \in S
        BY <2>4, <3>1, <1>3
      <3> QED BY <2>2, <2>4, <3>2, <1>1, <1>4, NthNext
    <2>5. g[Values] \in Nat /\ g[Values + 1] \in items /\ \A x \in items : x \in Nat
      BY <2>2, <1>1, <1>2, <1>3
    <2> QED BY <2>3, <2>4, <2>5, FollowingIs
  <1> QED BY <1>2, <1>4, <1>5, <1>7, <1>8 DEF ATurn, g

\* What was read twice, one after the other.
LEMMA Joined == ASSUME NEW A \in Seq(Items), NEW B \in Seq(Items)
                PROVE  /\ Len(A \o B) = Len(A) + Len(B)
                       /\ \A i \in 1..Len(A) : (A \o B)[i] = A[i]
                       /\ \A i \in 1..Len(A) + Len(B) : i > Len(A) => (A \o B)[i] = B[i - Len(A)]
  OBVIOUS

\* The members from k on are fewer than a turn needs, and the others are enough
\* to complete it.
LEMMA ShortTurn ==
    ASSUME items \subseteq Items, NEW k \in Nat, From(items, k) # {},
           Cardinality(From(items, k)) <= Values, Values <= Cardinality(items)
    PROVE  /\ Len(Get(k, Values + 1)) = Cardinality(From(items, k))
           /\ ATurn(Get(k, Values + 1) \o Get(1, Values + 1 - Cardinality(From(items, k))))
  <1> DEFINE S == From(items, k)
             a == Cardinality(S)
             A == Get(k, Values + 1)
             B == Get(1, Values + 1 - a)
             g == A \o B
  <1>0. Values \in Nat /\ Values > 0 /\ Values + 1 \in Nat /\ 1 \in Nat
    BY RingAssumption
  <1>1. /\ \A s \in S : s \in Nat
        /\ IsFiniteSet(S) /\ a \in Nat /\ A \in Seq(Items)
        /\ Len(A) = IF Values + 1 < a THEN Values + 1 ELSE a
        /\ \A i \in 1 .. Len(A) : i \in 1 .. a /\ A[i] = Nth(S, i)
    BY <1>0, GetIs
  <1>2. \A s \in S : s \in items /\ s >= k
    BY DEF From
  <1>3. \A s \in items : s \in Nat /\ (s >= k => s \in S)
    BY RingAssumption DEF From
  <1>4. a > 0 /\ a <= Values
    BY <1>1, FS_EmptySet
  <1> HIDE DEF S
  <1>5. Len(A) = a /\ Values + 1 - a \in Nat /\ Values + 1 - a <= Values
    BY <1>0, <1>1, <1>4
  <1>6. /\ IsFiniteSet(items) /\ Cardinality(items) \in Nat /\ B \in Seq(Items)
        /\ Len(B) = IF Values + 1 - a < Cardinality(items) THEN Values + 1 - a
                    ELSE Cardinality(items)
        /\ \A i \in 1 .. Len(B) : i \in 1 .. Cardinality(items) /\ B[i] = Nth(items, i)
    <2>1. PICK n \in Nat : n = Values + 1 - a
      BY <1>5
    <2> HIDE DEF a
    <2> QED BY <2>1, GetFromOne
  <1>7. Len(B) = Values + 1 - a
    BY <1>0, <1>5, <1>6
  <1>8. \A i \in 1..a : A[i] = Nth(S, i) /\ A[i] \in S
    BY <1>1, <1>5, NthIs
  <1>9. \A j \in 1..(Values + 1 - a) : /\ j \in 1 .. Cardinality(items)
                                       /\ B[j] = Nth(items, j) /\ B[j] \in items
    BY <1>3, <1>6, <1>7, NthIs
  <1> HIDE DEF a, A, B
  <1>10. /\ Len(g) = Values + 1
         /\ \A i \in 1..a : g[i] = A[i]
         /\ \A i \in 1..Values + 1 : i > a => i - a \in 1..(Values + 1 - a) /\ g[i] = B[i - a]
    <2>0. A \in Seq(Items) /\ B \in Seq(Items)
      BY <1>1, <1>6
    <2>1. Len(g) = Len(A) + Len(B)
      BY <2>0, Joined
    <2>2. Len(g) = Values + 1
      BY <2>1, <1>0, <1>1, <1>5, <1>7
    <2>3. \A i \in 1..Len(A) : g[i] = A[i]
      BY <2>0, Joined
    <2>4. \A i \in 1..Len(A) + Len(B) : i > Len(A) => g[i] = B[i - Len(A)]
      BY <2>0, Joined
    <2>5. \A i \in 1..Values + 1 : i > a => i - a \in 1..(Values + 1 - a)
      BY <1>0, <1>1
    <2> QED BY <2>1, <2>2, <2>3, <2>4, <2>5, <1>5
  <1> HIDE DEF g
  <1>11. \A i \in 1..Values + 1 : g[i] \in items
    <2> SUFFICES ASSUME NEW i \in 1..Values + 1 PROVE g[i] \in items
      OBVIOUS
    <2>1. i \in 1..a \/ i > a
      BY <1>1
    <2> QED BY <2>1, <1>2, <1>8, <1>9, <1>10
  <1>12. \A i \in 1..a : g[i] \in S /\ g[i] >= k /\ g[i] \in Nat
    BY <1>1, <1>2, <1>8, <1>10
  \* The rest comes from before k: there are only so many from k on.
  <1>13. \A j \in 1..(Values - a) : B[j] < k
    <2> SUFFICES ASSUME NEW j \in 1..(Values - a), ~(B[j] < k) PROVE FALSE
      OBVIOUS
    <2>1. j \in 1..(Values + 1 - a)
      BY <1>0, <1>1
    <2>2. B[j] = Nth(items, j) /\ B[j] \in items /\ j \in 1 .. Cardinality(items) /\ B[j] \in Nat
      BY <2>1, <1>3, <1>9
    <2>3. Rank(items, B[j]) = j - 1
      BY <2>2, <1>3, <1>6, NthIs
    <2>4. items = Below(items, k) \cup S /\ Below(items, k) \cap S = {}
      BY <1>2, <1>3 DEF Below
    <2>5. IsFiniteSet(Below(items, k)) /\ Cardinality(Below(items, k)) \in Nat
      BY <1>3, <1>6, RankType DEF Rank
    <2>6. Cardinality(items) = Cardinality(Below(items, k)) + a - Cardinality(Below(items, k) \cap S)
      BY <2>4, <2>5, <1>1, FS_Union DEF a
    <2>7. Cardinality(items) = Cardinality(Below(items, k)) + a
      <3>1. Cardinality(Below(items, k) \cap S) = 0
        BY <2>4, FS_EmptySet
      <3> QED BY <2>5, <2>6, <3>1, <1>1
    <2>8. Below(items, k) \in SUBSET Below(items, B[j])
      BY <2>2, <1>3 DEF Below
    <2>9. IsFiniteSet(Below(items, B[j])) /\ Rank(items, B[j]) \in Nat
      BY <2>2, <1>3, <1>6, RankType
    <2>10. Cardinality(Below(items, k)) <= Rank(items, B[j])
      BY <2>8, <2>9, FS_Subset DEF Rank
    <2> QED BY <2>3, <2>5, <2>7, <2>10, <1>0, <1>1, <1>6
  <1>14. \A i, j \in 1..Values : i # j => g[i] # g[j]
    <2>1. SUFFICES ASSUME NEW i \in 1..Values, NEW j \in 1..Values, i < j PROVE g[i] < g[j] \/ g[j] < g[i]
      <3> SUFFICES ASSUME NEW i \in 1..Values, NEW j \in 1..Values, i # j PROVE g[i] # g[j]
        OBVIOUS
      <3>1. i \in 1..Values + 1 /\ j \in 1..Values + 1 /\ (i < j \/ j < i)
        BY <1>0
      <3>2. g[i] \in Nat /\ g[j] \in Nat
        BY <3>1, <1>3, <1>11
      <3>3. g[i] < g[j] \/ g[j] < g[i]
        BY <2>1, <3>1
      <3> QED BY <3>2, <3>3
    <2>2. CASE j <= a
      <3>1. i \in 1..a /\ j \in 1..a
        BY <2>1, <2>2, <1>1
      <3>2. Nth(S, i) < Nth(S, j)
        BY <2>1, <3>1, <1>1, NthGrows DEF a
      <3> QED BY <3>1, <3>2, <1>8, <1>10
    <2>3. CASE i <= a /\ j > a
      <3>1. i \in 1..a /\ j \in 1..Values + 1 /\ j - a \in 1..(Values - a)
        BY <2>3, <1>0, <1>1
      <3>2. g[j] = B[j - a] /\ B[j - a] < k /\ g[i] >= k /\ g[i] \in Nat
        BY <3>1, <2>3, <1>10, <1>12, <1>13
      <3>3. g[j] \in Nat
        BY <3>1, <1>3, <1>11
      <3> QED BY <3>2, <3>3
    <2>4. CASE i > a
      <3>1. /\ i \in 1..Values + 1 /\ j \in 1..Values + 1 /\ j > a
            /\ i - a \in 1..(Values + 1 - a) /\ j - a \in 1..(Values + 1 - a) /\ i - a < j - a
        BY <2>1, <2>4, <1>0, <1>1
      <3>2. /\ g[i] = Nth(items, i - a) /\ g[j] = Nth(items, j - a)
            /\ i - a \in 1 .. Cardinality(items) /\ j - a \in 1 .. Cardinality(items)
        BY <3>1, <2>4, <1>9, <1>10
      <3>3. Nth(items, i - a) < Nth(items, j - a)
        BY <3>1, <3>2, <1>3, <1>6, NthGrows
      <3> QED BY <3>2, <3>3
    <2> QED BY <2>2, <2>3, <2>4, <1>1
  <1>15. g[Values + 1] = Following(g[Values])
    <2>1. /\ Values \in 1..Values + 1 /\ Values + 1 \in 1..Values + 1 /\ Values + 1 > a
          /\ Values + 1 - a \in 1..(Values + 1 - a)
      BY <1>0, <1>1, <1>4
    <2>2. /\ g[Values + 1] = Nth(items, Values + 1 - a) /\ g[Values + 1] \in items
          /\ g[Values] \in items /\ g[Values] \in Nat
          /\ Values + 1 - a \in 1 .. Cardinality(items)
      <3>1. /\ g[Values + 1] = B[Values + 1 - a] /\ B[Values + 1 - a] = Nth(items, Values + 1 - a)
            /\ Values + 1 - a \in 1 .. Cardinality(items)
        <4>1. g[Values + 1] = B[Values + 1 - a]
          <5>1. PICK i \in 1..Values + 1 : i = Values + 1
            BY <2>1
          <5>2. i > a => g[i] = B[i - a]
            BY <1>10
          <5> QED BY <5>1, <5>2, <2>1, <1>0, <1>1
        <4>2. PICK n \in 1..(Values + 1 - a) : n = Values + 1 - a
          BY <2>1
        <4>3. B[n] = Nth(items, n) /\ n \in 1 .. Cardinality(items)
          BY <1>9
        <4> QED BY <4>1, <4>2, <4>3
      <3>2. g[Values] \in items /\ g[Values + 1] \in items
        BY <2>1, <1>11
      <3> QED BY <3>1, <3>2, <1>3
    <2>3. CASE a = Values
      <3>1. g[Values] = Nth(S, Cardinality(S)) /\ g[Values] >= k
        BY <2>3, <1>0, <1>8, <1>10, <1>12 DEF a
      <3>2. ASSUME NEW z \in items PROVE z <= g[Values]
        <4>1. CASE z >= k
          BY <3>1, <4>1, <1>1, <1>3, NthLast
        <4>2. CASE z < k
          BY <3>1, <4>2, <2>2, <1>3
        <4> QED BY <4>1, <4>2, <1>3
      <3>3. g[Values + 1] = Nth(items, 1)
        BY <2>2, <2>3, <1>0
      <3>4. \A z \in items : g[Values + 1] <= z
        BY <3>3, <1>3, <1>6, NthFirst
      <3> QED BY <3>2, <3>4, <2>2, <1>3, FollowingIs
    <2>4. CASE a < Values
      <3> DEFINE n == Values - a
      <3>1. /\ n \in 1..(Values + 1 - a) /\ Values > a /\ n + 1 = Values + 1 - a
            /\ n \in 1 .. Cardinality(items) /\ n < Cardinality(items) /\ n + 1 \in 1 .. Cardinality(items)
        BY <2>2, <2>4, <1>0, <1>1, <1>6
      <3>2. g[Values] = Nth(items, n) /\ g[Values + 1] = Nth(items, n + 1)
        BY <3>1, <2>1, <2>2, <1>9, <1>10
      <3> HIDE DEF n
      <3>3. n < n + 1
        BY <3>1
      <3>4. g[Values] < g[Values + 1]
        BY <3>1, <3>2, <3>3, <1>3, <1>6, NthGrows
      <3>5. \A z \in items : z > g[Values] => g[Values + 1] <= z
        BY <3>1, <3>2, <1>3, <1>6, NthNext
      <3>6. g[Values + 1] > g[Values]
        BY <3>4, <2>2, <1>3
      <3> QED BY <3>5, <3>6, <2>2, <1>3, FollowingIs
    <2> QED BY <2>3, <2>4, <1>0, <1>1, <1>4
  <1> QED BY <1>5, <1>10, <1>11, <1>14, <1>15 DEF ATurn, g, A, B, a, S

\* What nextInRing reads for a trigger p makes a turn, wherever p is and whether
\* it is still a member.
LEMMA WholeTurn ==
    ASSUME items \subseteq Items, NEW p \in Items, Values <= Cardinality(items)
    PROVE  ATurn(Whole(p))
  <1>0. Values \in Nat /\ Values > 0 /\ Values + 1 \in Nat /\ Values + 1 # 0 /\ p \in Nat /\ 1 \in Nat
    BY RingAssumption
  <1>1. items # {}
    BY <1>0, FS_EmptySet
  <1>2. PICK k \in Nat : From(items, k) # {} /\ First(p) = Get(k, Values + 1)
    <2>1. Get(p, Values + 1) = <<>> <=> From(items, p) = {}
      BY <1>0, GetIs
    <2>2. CASE From(items, p) # {}
      BY <2>1, <2>2, <1>0 DEF First
    <2>3. CASE From(items, p) = {}
      BY <2>1, <2>3, <1>0, <1>1, FromOne DEF First
    <2> QED BY <2>2, <2>3
  <1>3. /\ Cardinality(From(items, k)) \in Nat
        /\ Len(Get(k, Values + 1)) = IF Values + 1 < Cardinality(From(items, k)) THEN Values + 1
                                     ELSE Cardinality(From(items, k))
    BY <1>0, GetIs
  <1>4. CASE Values < Cardinality(From(items, k))
    <2>1. Len(First(p)) = Values + 1
      BY <1>0, <1>2, <1>3, <1>4
    <2>2. Whole(p) = Get(k, Values + 1)
      BY <2>1, <1>0, <1>2 DEF Whole
    <2> QED BY <2>2, <1>4, LongTurn
  <1>5. CASE Cardinality(From(items, k)) <= Values
    <2>1. /\ Len(Get(k, Values + 1)) = Cardinality(From(items, k))
          /\ ATurn(Get(k, Values + 1) \o Get(1, Values + 1 - Cardinality(From(items, k))))
      BY <1>2, <1>5, ShortTurn
    <2>2. Len(First(p)) < Values + 1
      BY <2>1, <1>0, <1>2, <1>3, <1>5
    <2>3. Whole(p) = Get(k, Values + 1) \o Get(1, Values + 1 - Cardinality(From(items, k)))
      BY <2>1, <2>2, <1>2 DEF Whole
    <2> QED BY <2>1, <2>3
  <1> QED BY <1>0, <1>3, <1>4, <1>5

\* What the scheduler is told, and the next trigger, when a turn was read.
LEMMA TurnIsTold ==
    ASSUME items \subseteq Items, NEW g \in Seq(Items), ATurn(g)
    PROVE  /\ nextItem(g) = Following(repeatKVs(g, Values)[Values])
           /\ Cardinality({g[i] : i \in 1..Values}) = Values
  <1>0. Values \in Nat /\ Values > 0
    BY RingAssumption
  <1>1. nextItem(g) = g[Values + 1]
    BY <1>0 DEF ATurn, nextItem
  <1>2. repeatKVs(g, Values)[Values] = g[Values]
    <2>1. Values \in 1..Values /\ Len(g) = Values + 1
      BY <1>0 DEF ATurn
    <2>2. repeatKVs(g, Values)[Values] = g[((Values - 1) % Len(g)) + 1]
      BY <2>1 DEF repeatKVs
    <2>3. (Values - 1) % (Values + 1) = Values - 1
      BY <1>0
    <2>4. ((Values - 1) % Len(g)) + 1 = Values
      BY <2>1, <2>3, <1>0
    <2> QED BY <2>2, <2>4, Zenon
  <1>3. Cardinality({g[i] : i \in 1..Values}) = Values
    <2> DEFINE T == {g[i] : i \in 1..Values}
               f == [i \in 1..Values |-> g[i]]
    <2>1. IsFiniteSet(1..Values) /\ Cardinality(1..Values) = Values
      BY <1>0, FS_Interval
    <2>2. f \in Surjection(1..Values, T)
      BY DEF Surjection
    <2>3. f \in Injection(1..Values, T)
      BY DEF Injection, IsInjective, ATurn
    <2> HIDE DEF T, f
    <2>4. Cardinality(T) = Cardinality(1..Values)
      BY <2>1, <2>2, <2>3, FS_Surjection, Zenon
    <2> QED BY <2>1, <2>4 DEF T
  <1> QED BY <1>1, <1>2, <1>3 DEF ATurn

\* A trigger that is put while its handler ends is the handler's.
LEMMA AdvanceIs ==
    ASSUME TypeOK, Next, NEW b \in Backends, Advances(b)
    PROVE  trigger' = nextItem(watch[b].got) /\ items' = items
  <1>1. watch \in [Backends -> Watches] /\ watch[b].pc = "txn" /\ watch'[b].pc = "idle"
        /\ trigger = None /\ trigger' # None
    BY DEF TypeOK, Advances
  <1>2. watch'[b] # watch[b]
    BY <1>1
  <1>3. CASE TriggerExpire
    BY <1>1, <1>3 DEF TriggerExpire
  <1>4. CASE \E v \in Items : Remove(v)
    BY <1>2, <1>4 DEF Remove
  <1>5. CASE \E c \in Backends : \/ \E v \in Items : AddBegin(c, v)
                                 \/ AddPut(c) \/ AddFail(c) \/ notifyWatchers(c)
    BY <1>2, <1>5 DEF AddBegin, AddPut, AddFail, notifyWatchers
  <1>6. CASE \E c \in Backends :
               \/ startWatchers(c) \/ TakeNote(c) \/ EnsureGet(c) \/ WatchCancelled(c) \/ Crash(c)
               \/ HandleGet(c) \/ HandleAgain(c) \/ HandleMore(c)
    BY <1>1, <1>6 DEF startWatchers, TakeNote, EnsureGet, WatchCancelled, Crash,
                      HandleGet, HandleAgain, HandleMore, ring
  <1>7. CASE \E c \in Backends : EnsureTxn(c) \/ EnsureFail(c)
    BY <1>1, <1>2, <1>7 DEF EnsureTxn, EnsureFail
  <1>8. CASE \E c \in Backends : HandleTxn(c)
    BY <1>1, <1>2, <1>8 DEF HandleTxn, PutTrigger
  <1>9. CASE \E c \in Backends : HandleFail(c)
    BY <1>1, <1>2, <1>9 DEF HandleFail, PutTrigger
  <1>10. CASE Finished
    BY <1>2, <1>10 DEF Finished, vars
  <1> QED BY <1>3, <1>4, <1>5, <1>6, <1>7, <1>8, <1>9, <1>10 DEF Next, WatcherStep, AddStep

\* The turn goes on after the last member that was told, and no member is told
\* twice in a turn, as long as the ring has as many members as are due and has not
\* changed since the trigger ran out (ringv2.go:445-508): for rings of any size.
THEOREM TurnsFollow == Spec => TurnGoesOn
  <1> DEFINE A == \A b \in Backends :
                    Advances(b) /\ Values <= Cardinality(items)
                        => /\ trigger' = Following(repeatKVs(watch[b].got, Values)[Values])
                           /\ Cardinality({watch[b].got[i] : i \in 1..Values}) = Values
  <1>1. Inv /\ [Next]_vars => [A]_vars
    <2> SUFFICES ASSUME Inv, Next, NEW b \in Backends, Advances(b), Values <= Cardinality(items)
                 PROVE  /\ trigger' = Following(repeatKVs(watch[b].got, Values)[Values])
                        /\ Cardinality({watch[b].got[i] : i \in 1..Values}) = Values
      OBVIOUS
    <2>1. TypeOK /\ InStep /\ items \subseteq Items
      BY DEF Inv, TypeOK
    <2>2. watch[b].pc = "txn" /\ watch[b].epoch = epoch /\ stable
      BY DEF Advances
    <2>3. PICK p \in Items : Agreed(p)
      BY <2>1, <2>2 DEF InStep
    <2>4. watch[b].got = Whole(p)
      BY <2>2, <2>3 DEF Agreed
    <2>5. watch[b].got \in Seq(Items)
      BY <2>1 DEF TypeOK, Watches
    <2>6. ATurn(watch[b].got)
      BY <2>1, <2>4, WholeTurn
    <2>7. /\ nextItem(watch[b].got) = Following(repeatKVs(watch[b].got, Values)[Values])
          /\ Cardinality({watch[b].got[i] : i \in 1..Values}) = Values
      BY <2>1, <2>5, <2>6, TurnIsTold
    <2>8. trigger' = nextItem(watch[b].got)
      BY <2>1, AdvanceIs
    <2> QED BY <2>7, <2>8
  <1> QED BY <1>1, Invariance, PTL DEF Spec, TurnGoesOn

-----------------------------------------------------------------------------
(* Who puts the next trigger.                                               *)

\* Backend b still has to see to the trigger: its watcher is about to start, has
\* been told of an expiry or a new member, is handling one, or Add is about to
\* tell it.
SeesTo(b) ==
    \/ watch[b].pc # "idle" \/ inbox[b] # <<>> \/ notes[b] > 0
    \/ add[b].pc = "notify"

\* A ring with members and without a trigger is never left to nobody: unless a
\* request has failed, some backend has yet to take the steps that put the trigger,
\* or has yet to start its watcher (ringv2.go:245-253, 336-437, 492-550).
TriggerIsDue ==
    Backends # {} /\ trigger = None /\ items # {} => lost \/ \E b \in Backends : SeesTo(b)

\* All watchers are about to start.
LEMMA InitDue == Init => TriggerIsDue
  BY DEF Init, TriggerIsDue, SeesTo, Down

\* A trigger that is put is a member.
LEMMA PutIs ==
    ASSUME TypeOK, NEW v \in Items, PutTrigger(v) PROVE trigger' # None
  BY RingAssumption DEF TypeOK, PutTrigger, None

\* An Add that adds no member, and was not about to tell of one, changes nothing.
LEMMA AddDue ==
    ASSUME TriggerIsDue, NEW b \in Backends, UNCHANGED <<trigger, watch, inbox, notes>>,
           add[b].pc # "notify", \A c \in Backends \ {b} : add'[c] = add[c],
           items' \subseteq items, lost => lost'
    PROVE  TriggerIsDue'
  BY DEF TriggerIsDue, SeesTo

\* Members come and go: a new one is told of, unless Add failed.
LEMMA MembersDue ==
    ASSUME Inv, TriggerIsDue,
           \/ \E v \in Items : Remove(v)
           \/ \E b \in Backends : \/ \E v \in Items : AddBegin(b, v)
                                  \/ AddPut(b) \/ AddFail(b) \/ notifyWatchers(b)
    PROVE  TriggerIsDue'
  <1> SUFFICES ASSUME Backends # {}, trigger' = None, items' # {}, ~lost'
               PROVE  \E b \in Backends : SeesTo(b)'
    BY DEF TriggerIsDue
  <1>0. add \in [Backends -> Adds] /\ notes \in [Backends -> Nat]
    BY DEF Inv, TypeOK
  <1>1. CASE \E v \in Items : Remove(v)
    BY <1>1 DEF Remove, TriggerIsDue, SeesTo
  <1>2. ASSUME NEW b \in Backends, NEW v \in Items, AddBegin(b, v) PROVE TriggerIsDue'
    <2>1. UNCHANGED <<trigger, watch, inbox, notes, lost>> /\ add[b].pc # "notify"
      BY <1>2 DEF AddBegin
    <2>2. items' \subseteq items /\ \A c \in Backends \ {b} : add'[c] = add[c]
      BY <1>0, <1>2 DEF AddBegin
    <2> QED BY <2>1, <2>2, AddDue
  <1>3. ASSUME NEW b \in Backends, AddPut(b) PROVE SeesTo(b)'
    <2>1. add'[b].pc = "notify"
      BY <1>0, <1>3 DEF AddPut, Adds
    <2> QED BY <2>1 DEF SeesTo
  <1>4. ASSUME NEW b \in Backends, notifyWatchers(b) PROVE SeesTo(b)'
    <2>1. CASE watch[b].pc = "down"
      BY <1>4, <2>1 DEF notifyWatchers, SeesTo
    <2>2. CASE watch[b].pc # "down"
      <3>1. notes'[b] = notes[b] + 1 /\ notes[b] \in Nat
        BY <1>0, <1>4, <2>2 DEF notifyWatchers
      <3>2. notes'[b] > 0
        BY <3>1
      <3> QED BY <3>2 DEF SeesTo
    <2> QED BY <2>1, <2>2
  <1>5. ASSUME NEW b \in Backends, AddFail(b) PROVE TriggerIsDue'
    <2>1. UNCHANGED <<trigger, watch, inbox, notes>> /\ add[b].pc # "notify"
      BY <1>5 DEF AddFail
    <2>2. \A c \in Backends \ {b} : add'[c] = add[c]
      BY <1>0, <1>5 DEF AddFail
    <2>3. items' \subseteq items /\ (lost => lost')
      BY <1>5 DEF AddFail
    <2> QED BY <2>1, <2>2, <2>3, AddDue
  <1> QED BY <1>1, <1>2, <1>3, <1>4, <1>5 DEF TriggerIsDue

\* A step of a watcher that does not put the trigger leaves it more to do, unless
\* the ring is empty.
LEMMA WatcherDue ==
    ASSUME Inv, NEW b \in Backends,
           \/ startWatchers(b) \/ TakeNote(b) \/ EnsureGet(b) \/ EnsureTxn(b) \/ EnsureFail(b)
           \/ WatchCancelled(b) \/ HandleFail(b) \/ Crash(b)
           \/ HandleGet(b) \/ HandleAgain(b) \/ HandleMore(b) \/ HandleTxn(b)
    PROVE  TriggerIsDue'
  <1> SUFFICES ASSUME trigger' = None, items' # {}, ~lost' PROVE SeesTo(b)'
    BY DEF TriggerIsDue
  <1>0. /\ TypeOK /\ watch \in [Backends -> Watches] /\ watch[b] \in Watches
        /\ watch[b].got \in Seq(Items)
        /\ watch[b].pc \in {"ensureTxn", "more", "txn"} => watch[b].got # <<>>
    <2>1. TypeOK /\ watch \in [Backends -> Watches] /\ watch[b] \in Watches
      BY DEF Inv, TypeOK
    <2>2. watch[b].pc \in {"ensureTxn", "more", "txn"} => watch[b].got # <<>>
      BY DEF Inv, TypeOK
    <2> QED BY <2>1, <2>2 DEF Watches
  <1>1. SUFFICES watch'[b].pc # "idle"
    BY DEF SeesTo
  <1>2. CASE startWatchers(b) \/ TakeNote(b) \/ WatchCancelled(b) \/ Crash(b)
    BY <1>0, <1>2 DEF startWatchers, TakeNote, WatchCancelled, Crash, Down, Watches
  <1>3. CASE EnsureGet(b)
    <2>1. trigger = None /\ items # {}
      BY <1>3 DEF EnsureGet, ring
    <2>2. watch'[b] = [Idle EXCEPT !.pc = "ensureTxn", !.got = Get(1, 1)]
      BY <1>0, <1>3, <2>1 DEF EnsureGet
    <2> QED BY <2>2 DEF Idle, Down
  <1>4. CASE EnsureTxn(b)
    <2>1. watch[b].got[1] \in Items
      BY <1>0, <1>4, Members DEF EnsureTxn
    <2> QED BY <1>0, <1>4, <2>1, PutIs DEF EnsureTxn
  <1>5. CASE EnsureFail(b)
    <2>1. watch'[b] = [Idle EXCEPT !.pc = "ensure"]
      BY <1>0, <1>5 DEF EnsureFail
    <2> QED BY <2>1 DEF Idle, Down
  <1>6. CASE HandleFail(b)
    <2>1. watch[b].pc = "txn" /\ PutTrigger(nextItem(watch[b].got))
      BY <1>6 DEF HandleFail
    <2>2. nextItem(watch[b].got) \in Items
      BY <1>0, <2>1, Members
    <2> QED BY <1>0, <2>1, <2>2, PutIs
  <1>7. ASSUME NEW e, NEW got, GotSome(b, e, got) PROVE watch'[b].pc # "idle"
    BY <1>0, <1>7 DEF GotSome
  <1>8. CASE HandleGet(b)
    <2>1. \/ \E e, got : GotSome(b, e, got)
          \/ \E p, n : watch' = [watch EXCEPT ![b] = [pc |-> "again", prev |-> p,
                                                       epoch |-> n, got |-> <<>>]]
      BY <1>8 DEF HandleGet
    <2> QED BY <1>0, <1>7, <2>1
  <1>9. CASE HandleAgain(b)
    <2>1. Get(1, Values + 1) # <<>>
      <3>1. Values + 1 \in Nat /\ Values + 1 # 0 /\ 1 \in Nat
        BY RingAssumption
      <3>2. items # {} /\ items \subseteq Items
        BY <1>0, <1>9 DEF HandleAgain, TypeOK, ring
      <3>3. Get(1, Values + 1) = <<>> <=> Values + 1 = 0 \/ From(items, 1) = {}
        BY <3>1, <3>2, GetIs
      <3> QED BY <3>1, <3>2, <3>3, FromOne
    <2>2. GotSome(b, watch[b], Get(1, Values + 1))
      BY <1>9, <2>1 DEF HandleAgain
    <2> QED BY <1>7, <2>2
  <1>10. CASE HandleMore(b)
    <2>1. watch'[b].pc = "txn"
      BY <1>0, <1>10 DEF HandleMore, Watches
    <2> QED BY <2>1
  <1>11. CASE HandleTxn(b)
    <2>1. PutTrigger(nextItem(watch[b].got)) /\ watch[b].pc = "txn"
      BY <1>11 DEF HandleTxn
    <2>2. nextItem(watch[b].got) \in Items
      BY <1>0, <2>1, Members
    <2> QED BY <1>0, <2>1, <2>2, PutIs
  <1> QED BY <1>2, <1>3, <1>4, <1>5, <1>6, <1>8, <1>9, <1>10, <1>11

\* When a trigger runs out, the watch of every backend that runs tells of it.
LEMMA ExpireDue == ASSUME Inv, TriggerExpire PROVE TriggerIsDue'
  <1> SUFFICES ASSUME NEW b \in Backends PROVE SeesTo(b)'
    BY DEF TriggerIsDue
  <1>1. CASE watch[b].pc = "down"
    BY <1>1 DEF TriggerExpire, SeesTo
  <1>2. CASE watch[b].pc # "down"
    <2>1. inbox'[b] = Append(inbox[b], [prev |-> trigger, epoch |-> epoch + 1])
      BY <1>2 DEF TriggerExpire
    <2>2. inbox[b] \in Seq([prev : Items, epoch : 1..MaxExpiries])
      BY DEF Inv, TypeOK
    <2>3. inbox'[b] # <<>>
      <3> DEFINE e == [prev |-> trigger, epoch |-> epoch + 1]
                 S == [prev : Items, epoch : 1..MaxExpiries]
      <3>1. inbox'[b] = Append(inbox[b], e) /\ inbox[b] \in Seq(S)
        BY <2>1, <2>2
      <3> HIDE DEF e, S
      <3>2. Len(Append(inbox[b], e)) = Len(inbox[b]) + 1 /\ Len(inbox[b]) \in Nat
        BY <3>1
      <3>3. Len(inbox'[b]) # 0
        BY <3>1, <3>2
      <3> QED BY <3>3
    <2> QED BY <2>3 DEF SeesTo
  <1> QED BY <1>1, <1>2

\* The safety behind TriggerComesBack: a ring that has members and no trigger
\* always has a backend with a step ahead of it that leads to one, whatever
\* expires, joins, leaves, crashes or is cancelled, unless a request has failed.
THEOREM TriggerIsSeenTo == Spec => []TriggerIsDue
  <1>1. Inv /\ TriggerIsDue /\ [Next]_vars => TriggerIsDue'
    <2> SUFFICES ASSUME Inv, TriggerIsDue, [Next]_vars PROVE TriggerIsDue'
      OBVIOUS
    <2>1. CASE TriggerExpire
      BY <2>1, ExpireDue
    <2>2. CASE \/ \E v \in Items : Remove(v)
               \/ \E b \in Backends : \/ \E v \in Items : AddBegin(b, v)
                                      \/ AddPut(b) \/ AddFail(b) \/ notifyWatchers(b)
      BY <2>2, MembersDue
    <2>3. CASE \E b \in Backends :
                 \/ startWatchers(b) \/ WatcherStep(b) \/ EnsureFail(b)
                 \/ WatchCancelled(b) \/ HandleFail(b) \/ Crash(b)
      BY <2>3, WatcherDue DEF WatcherStep
    <2>4. CASE UNCHANGED vars
      BY <2>4 DEF TriggerIsDue, SeesTo, vars, ring, history
    <2> QED BY <2>1, <2>2, <2>3, <2>4 DEF Next, AddStep, Finished
  <1> QED BY <1>1, InitDue, Invariance, PTL DEF Spec

=============================================================================
