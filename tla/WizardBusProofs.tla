--------------------------- MODULE WizardBusProofs ---------------------------
(****************************************************************************)
(* Proofs about WizardBus, for any number of consumers and publishers and   *)
(* any channel capacity.                                                    *)
(****************************************************************************)
EXTENDS WizardBus, TLAPS

\* The first half of the type invariant: everything but what publishers do.
BusType == /\ running \in BOOLEAN /\ stopping \in BOOLEAN
           /\ mu \in Topics /\ topic \in Topics
           /\ done \subseteq Consumers /\ leaked \subseteq Consumers
           /\ bindings \in [Consumers -> SUBSET Consumers]
           /\ sub \in [Consumers -> Subscriptions]
           /\ queued \in [Consumers -> 0..ChanCap]

PubType == /\ pub \in [Publishers -> Publications]
           /\ sent \in [Publishers -> 0..MaxMsgs]
           /\ missed \subseteq Consumers

TypeInv == BusType /\ PubType /\ Placed

\* The type invariant, in three parts that steps touch separately.
LEMMA TypeSplit == TypeOK <=> TypeInv
  BY DEF TypeOK, TypeInv, BusType, PubType

\* What a Publish looks like when there is none is a publication.
LEMMA IdlePubType == IdlePub \in Publications /\ IdlePub.pc = "idle" /\ IdlePub.due = {}
  BY DEF IdlePub, Publications, Topics

\* The initial state of the bus is well typed.
LEMMA InitType == Init => TypeInv
  <1> SUFFICES ASSUME Init PROVE TypeInv
    OBVIOUS
  <1>1. BusType
    <2>1. [pc |-> "new", t |-> NoOne] \in Subscriptions /\ NoOne \in Topics
      BY DEF Subscriptions, Topics
    <2>2. 0 \in 0..ChanCap
      BY BusBounds
    <2> QED BY <2>1, <2>2 DEF Init, BusType
  <1>2. PubType
    BY BusBounds, IdlePubType DEF Init, PubType
  <1>3. Placed
    BY IdlePubType DEF Init, Placed
  <1> QED BY <1>1, <1>2, <1>3 DEF TypeInv

\* The steps of a consumer keep the type invariant.
LEMMA ConsumerType ==
    ASSUME TypeInv, NEW c \in Consumers, SubscribeCheck(c) \/ Quit(c) \/ ConsumerStep(c)
    PROVE  TypeInv'
  <1> USE DEF TypeInv, bus
  <1>0. sub[c] \in Subscriptions /\ sub \in [Consumers -> Subscriptions]
    BY DEF BusType
  <1>1. CASE SubscribeCheck(c)
    <2>1. [sub[c] EXCEPT !.pc = IF running THEN "lock" ELSE "gone"] \in Subscriptions
      BY <1>0 DEF Subscriptions
    <2>2. sub' \in [Consumers -> Subscriptions]
      BY <1>0, <1>1, <2>1 DEF SubscribeCheck
    <2>3. Placed'
      BY <1>0, <1>1 DEF SubscribeCheck, Placed, Subscriptions
    <2> QED BY <1>1, <2>2, <2>3 DEF SubscribeCheck, BusType, PubType
  <1>2. CASE SubscribeLook(c)
    <2> DEFINE t == IF topic = NoOne \/ topic \in done THEN c ELSE topic
    <2>1. t \in Consumers /\ t \in Topics
      BY DEF BusType, Topics
    <2>2. /\ mu' = c /\ topic' = t /\ sub' = [sub EXCEPT ![c] = [pc |-> "bind", t |-> t]]
          /\ UNCHANGED <<running, stopping, done, leaked, bindings, queued, pub, sent, missed>>
      BY <1>2 DEF SubscribeLook
    <2> HIDE DEF t
    <2>3. sub' \in [Consumers -> Subscriptions]
      BY <1>0, <2>1, <2>2 DEF Subscriptions
    <2>4. Placed'
      BY <1>0, <2>1, <2>2 DEF Placed
    <2> QED BY <2>1, <2>2, <2>3, <2>4 DEF BusType, PubType, Topics
  <1>3. CASE SubscribeBind(c)
    <2>1. sub[c].t \in Consumers
      BY <1>3 DEF SubscribeBind, Placed
    <2>2. bindings' \in [Consumers -> SUBSET Consumers]
      BY <1>3, <2>1 DEF SubscribeBind, BusType
    <2>3. sub' \in [Consumers -> Subscriptions]
      BY <1>0, <1>3 DEF SubscribeBind, Subscriptions
    <2>4. Placed'
      BY <1>0, <1>3, <2>1 DEF SubscribeBind, Placed, Subscriptions
    <2> QED BY <1>3, <2>2, <2>3, <2>4 DEF SubscribeBind, BusType, PubType, Topics
  <1>4. CASE Receive(c)
    <2>1. queued' \in [Consumers -> 0..ChanCap]
      BY <1>4, BusBounds DEF Receive, BusType
    <2> QED BY <1>4, <2>1 DEF Receive, BusType, PubType, Placed
  <1>5. CASE Quit(c) \/ CloseChannel(c)
    <2>1. sub' \in [Consumers -> Subscriptions]
      BY <1>0, <1>5 DEF Quit, CloseChannel, Subscriptions
    <2>2. Placed'
      BY <1>0, <1>5 DEF Quit, CloseChannel, Placed, Subscriptions
    <2>3. UNCHANGED <<bus, queued, pub, sent, missed>>
      BY <1>5 DEF Quit, CloseChannel
    <2> QED BY <2>1, <2>2, <2>3 DEF BusType, PubType
  <1>6. CASE unsubscribe(c)
    <2>1. sub[c].t \in Consumers
      BY <1>6 DEF unsubscribe, Placed
    <2>2. bindings' \in [Consumers -> SUBSET Consumers] /\ done' \subseteq Consumers
      BY <1>6, <2>1 DEF unsubscribe, BusType
    <2>3. sub' \in [Consumers -> Subscriptions]
      BY <1>0, <1>6 DEF unsubscribe, Subscriptions
    <2>4. Placed'
      BY <1>0, <1>6, <2>1 DEF unsubscribe, Placed, Subscriptions
    <2> QED BY <1>6, <2>2, <2>3, <2>4 DEF unsubscribe, BusType, PubType
  <1> QED BY <1>1, <1>2, <1>3, <1>4, <1>5, <1>6 DEF ConsumerStep

\* What a publisher's part of Placed says.
PubPlaced(p) == /\ pub[p].pc \in {"snap", "send"} => pub[p].t \in Consumers
                /\ pub[p].pc = "send" => pub[p].at \in Consumers

\* Moving on to the next consumer, or returning, keeps the types.
LEMMA ProceedType ==
    ASSUME TypeInv, NEW p \in Publishers, NEW todo \in SUBSET Consumers,
           NEW due \in SUBSET Consumers, pub[p].t \in Consumers, Proceed(p, todo, due)
    PROVE  /\ pub' \in [Publishers -> Publications]
           /\ missed' \subseteq Consumers
           /\ \A q \in Publishers : PubPlaced(q)'
  <1> USE IdlePubType DEF TypeInv
  <1>0. /\ pub \in [Publishers -> Publications] /\ pub[p] \in Publications
        /\ missed \subseteq Consumers
        /\ \A q \in Publishers : PubPlaced(q)
    BY DEF PubType, Placed, PubPlaced
  <1>1. CASE todo = {} /\ Return(p, due)
    <2>1. pub' = [pub EXCEPT ![p] = IdlePub]
      BY <1>1 DEF Return
    <2>2. missed' \subseteq Consumers
      BY <1>0, <1>1 DEF Return
    <2>3. \A q \in Publishers : PubPlaced(q)'
      BY <1>0, <2>1 DEF PubPlaced
    <2> QED BY <1>0, <2>1, <2>2, <2>3
  <1>2. ASSUME NEW c \in todo, UNCHANGED missed,
               pub' = [pub EXCEPT ![p].pc = "send", ![p].todo = todo \ {c},
                                  ![p].at = c, ![p].due = due]
        PROVE  /\ pub' \in [Publishers -> Publications]
               /\ missed' \subseteq Consumers
               /\ \A q \in Publishers : PubPlaced(q)'
    <2>1. [pub[p] EXCEPT !.pc = "send", !.todo = todo \ {c}, !.at = c, !.due = due]
            \in Publications
      BY <1>0 DEF Publications, Topics
    <2>2. pub' \in [Publishers -> Publications]
      BY <1>0, <1>2, <2>1
    <2>3. \A q \in Publishers : PubPlaced(q)'
      BY <1>0, <1>2 DEF PubPlaced, Publications
    <2> QED BY <1>0, <1>2, <2>2, <2>3
  <1> QED BY <1>1, <1>2 DEF Proceed

\* The steps of a publisher keep the type invariant.
LEMMA PublisherType ==
    ASSUME TypeInv, NEW p \in Publishers, PublishCheck(p) \/ PublisherStep(p)
    PROVE  TypeInv'
  <1> USE IdlePubType DEF TypeInv, bus
  <1>0. /\ pub \in [Publishers -> Publications] /\ pub[p] \in Publications
        /\ pub[p].todo \in SUBSET Consumers /\ pub[p].due \in SUBSET Consumers
        /\ \A q \in Publishers : PubPlaced(q)
    BY DEF PubType, Placed, PubPlaced, Publications
  <1>1. CASE PublishCheck(p)
    <2> DEFINE new == [IdlePub EXCEPT !.pc = "look",
                                      !.due = {c \in Consumers : sub[c].pc = "bound"}]
    <2>1. new \in Publications /\ new.pc = "look"
      BY DEF Publications
    <2>2. pub' = [pub EXCEPT ![p] = new] /\ sent' = [sent EXCEPT ![p] = @ + 1]
          /\ sent[p] < MaxMsgs /\ UNCHANGED <<bus, sub, queued, missed>>
      BY <1>1 DEF PublishCheck
    <2> HIDE DEF new
    <2>3. pub' \in [Publishers -> Publications]
      BY <1>0, <2>1, <2>2
    <2>4. sent' \in [Publishers -> 0..MaxMsgs]
      BY <2>2, BusBounds DEF PubType
    <2>5. Placed'
      BY <1>0, <2>1, <2>2 DEF Placed, PubPlaced
    <2> QED BY <2>2, <2>3, <2>4, <2>5 DEF BusType, PubType
  <1>2. CASE PublishLook(p)
    <2>1. CASE topic = NoOne /\ Return(p, pub[p].due)
      <3>1. pub' = [pub EXCEPT ![p] = IdlePub] /\ missed' \subseteq Consumers
        BY <1>0, <2>1 DEF Return, PubType
      <3>2. Placed'
        BY <1>0, <1>2, <3>1 DEF PublishLook, Placed, PubPlaced
      <3> QED BY <1>0, <1>2, <3>1, <3>2 DEF PublishLook, BusType, PubType
    <2>2. CASE topic # NoOne /\ pub' = [pub EXCEPT ![p].pc = "snap", ![p].t = topic]
               /\ UNCHANGED missed
      <3>1. topic \in Consumers
        BY <2>2 DEF BusType, Topics
      <3>2. [pub[p] EXCEPT !.pc = "snap", !.t = topic] \in Publications
        BY <1>0, <3>1 DEF Publications, Topics
      <3>3. pub' \in [Publishers -> Publications]
        BY <1>0, <2>2, <3>2
      <3>4. Placed'
        BY <1>0, <1>2, <2>2, <3>1 DEF PublishLook, Placed, PubPlaced, Publications
      <3> QED BY <1>2, <2>2, <3>3, <3>4 DEF PublishLook, BusType, PubType
    <2> QED BY <1>2, <2>1, <2>2 DEF PublishLook
  <1>3. CASE SendSnapshot(p) \/ SendDelivered(p) \/ SendDropped(p)
    <2>1. pub[p].t \in Consumers /\ (pub[p].pc = "send" => pub[p].at \in Consumers)
      BY <1>0, <1>3 DEF SendSnapshot, SendDelivered, SendDropped, PubPlaced
    <2>2. \E todo \in SUBSET Consumers, due \in SUBSET Consumers : Proceed(p, todo, due)
      <3>1. bindings[pub[p].t] \in SUBSET Consumers
        BY <2>1 DEF BusType
      <3>2. pub[p].due \ {pub[p].at} \in SUBSET Consumers
        BY <1>0
      <3> QED BY <1>0, <1>3, <3>1, <3>2 DEF SendSnapshot, SendDelivered, SendDropped
    <2>3. /\ pub' \in [Publishers -> Publications] /\ missed' \subseteq Consumers
          /\ \A q \in Publishers : PubPlaced(q)'
      BY <2>1, <2>2, ProceedType
    <2>4. queued' \in [Consumers -> 0..ChanCap]
      BY <1>3, <2>1, BusBounds DEF SendSnapshot, SendDelivered, SendDropped, BusType
    <2>5. UNCHANGED <<bus, sub, sent>>
      BY <1>3 DEF SendSnapshot, SendDelivered, SendDropped
    <2>6. Placed'
      BY <2>3, <2>5 DEF Placed, PubPlaced
    <2> QED BY <2>3, <2>4, <2>5, <2>6 DEF BusType, PubType
  <1> QED BY <1>1, <1>2, <1>3 DEF PublisherStep

\* Every step of consumers, publishers and Stop keeps the types.
LEMMA NextType == TypeInv /\ [Next]_vars => TypeInv'
  <1> SUFFICES ASSUME TypeInv, [Next]_vars PROVE TypeInv'
    OBVIOUS
  <1>1. CASE UNCHANGED vars
    BY <1>1 DEF vars, bus, TypeInv, BusType, PubType, Placed
  <1>2. CASE StopBegin
    BY <1>2 DEF StopBegin, TypeInv, BusType, PubType, Placed
  <1>3. CASE StopClose
    <2>1. done' \subseteq Consumers /\ leaked' \subseteq Consumers
          /\ bindings' \in [Consumers -> SUBSET Consumers]
      BY <1>3 DEF StopClose, TypeInv, BusType, Topics
    <2> QED BY <1>3, <2>1 DEF StopClose, TypeInv, BusType, PubType, Placed
  <1> QED BY <1>1, <1>2, <1>3, ConsumerType, PublisherType DEF Next, Finished

\* Every reachable state of the bus is well typed; in particular no channel
\* holds more messages than its capacity.
THEOREM TypeCorrect == Spec => []TypeOK
  <1>1. TypeInv => TypeOK
    BY TypeSplit DEF TypeInv
  <1> QED BY InitType, NextType, <1>1, PTL DEF Spec

-----------------------------------------------------------------------------
(* Safety.  MissedOnlyIfClosed is about the end of a Publish; the invariant *)
(* follows a consumer through it.  As long as its topic is open, a consumer *)
(* that is due is bound to the topic the publisher looks up, is part of the *)
(* snapshot, and stays on the publisher's list until it is served.          *)

\* topicsMu is held only by a Subscribe on its way to the topic's lock, and the
\* topic it is about to bind to is the one in the map.
MutexInSubscribe == \A c \in Consumers :
    /\ mu = c <=> sub[c].pc = "bind"
    /\ sub[c].pc = "bind" => topic = sub[c].t

\* Bindings hold subscribers of that topic that have not left.
BoundSomewhere == \A c \in Consumers, t \in Consumers :
    c \in bindings[t] => sub[c].t = t /\ sub[c].pc \in {"bound", "leaving"}

\* OpenTopicIsCurrent, for those about to leave too.
OpenIsCurrent == \A c \in Consumers :
    sub[c].pc \in {"bound", "leaving"} /\ sub[c].t \notin done
        => topic = sub[c].t /\ c \in bindings[sub[c].t]

Subscribed(c) == sub[c].pc \in {"bound", "leaving", "closing", "gone"}

\* A consumer that a publisher still owes a message.
Owed == \A p \in Publishers : \A c \in pub[p].due :
    /\ Subscribed(c)
    /\ sub[c].pc = "bound" /\ sub[c].t \notin done =>
         /\ pub[p].pc \in {"snap", "send"} => pub[p].t = sub[c].t
         /\ pub[p].pc = "send" => c \in pub[p].todo \/ c = pub[p].at

MissedClosed == \A c \in missed :
    Subscribed(c) /\ (sub[c].pc = "bound" => sub[c].t \in done)

SafetyInv == /\ MutexInSubscribe /\ BoundSomewhere /\ OpenIsCurrent
             /\ Owed /\ MissedClosed

\* With nobody subscribed, the safety invariant holds.
LEMMA InitSafety == Init => SafetyInv
  <1> SUFFICES ASSUME Init PROVE SafetyInv
    OBVIOUS
  <1>1. MutexInSubscribe /\ BoundSomewhere /\ OpenIsCurrent /\ MissedClosed
    BY NoOneAssumption DEF Init, MutexInSubscribe, BoundSomewhere, OpenIsCurrent, MissedClosed
  <1>2. Owed
    BY IdlePubType DEF Init, Owed
  <1> QED BY <1>1, <1>2 DEF SafetyInv

\* The steps of a consumer keep the safety invariant.
LEMMA ConsumerSafety ==
    ASSUME TypeInv, SafetyInv, NEW c \in Consumers,
           SubscribeCheck(c) \/ Quit(c) \/ ConsumerStep(c)
    PROVE  SafetyInv'
  <1> USE NoOneAssumption DEF TypeInv, bus
  <1>0. /\ sub \in [Consumers -> Subscriptions] /\ sub[c] \in Subscriptions
        /\ bindings \in [Consumers -> SUBSET Consumers] /\ done \subseteq Consumers
        /\ \A p \in Publishers : pub[p].due \subseteq Consumers
        /\ missed \subseteq Consumers /\ mu \in Topics
    BY DEF BusType, PubType, Publications
  <1>1. CASE SubscribeCheck(c)
    <2>1. /\ sub[c].pc = "new" /\ sub'[c].pc \in {"lock", "gone"}
          /\ \A x \in Consumers : x # c => sub'[x] = sub[x]
          /\ UNCHANGED <<mu, topic, done, bindings, pub, missed>>
      BY <1>0, <1>1 DEF SubscribeCheck, Subscriptions
    <2>2. MutexInSubscribe' /\ BoundSomewhere' /\ OpenIsCurrent'
      BY <1>0, <2>1 DEF SafetyInv, MutexInSubscribe, BoundSomewhere, OpenIsCurrent
    <2>3. Owed' /\ MissedClosed'
      BY <1>0, <2>1 DEF SafetyInv, Owed, MissedClosed, Subscribed
    <2> QED BY <2>2, <2>3 DEF SafetyInv
  <1>2. CASE SubscribeLook(c)
    <2> DEFINE t == IF topic = NoOne \/ topic \in done THEN c ELSE topic
    <2>1. /\ sub[c].pc = "lock" /\ mu = NoOne /\ mu' = c /\ topic' = t
          /\ sub'[c].pc = "bind" /\ sub'[c].t = t
          /\ \A x \in Consumers : x # c => sub'[x] = sub[x]
          /\ UNCHANGED <<done, bindings, pub, missed>>
      BY <1>0, <1>2 DEF SubscribeLook
    <2>2. MutexInSubscribe'
      BY <1>0, <2>1 DEF SafetyInv, MutexInSubscribe
    <2>3. BoundSomewhere'
      BY <1>0, <2>1 DEF SafetyInv, BoundSomewhere
    <2>4. OpenIsCurrent'
      <3> SUFFICES ASSUME NEW x \in Consumers, sub'[x].pc \in {"bound", "leaving"},
                          sub'[x].t \notin done
                   PROVE  topic' = sub'[x].t /\ x \in bindings[sub'[x].t]
        BY <2>1 DEF OpenIsCurrent
      <3>1. x # c /\ sub'[x] = sub[x]
        BY <2>1
      <3>2. topic = sub[x].t /\ x \in bindings[sub[x].t] /\ sub[x].t \in Consumers
        BY <3>1 DEF SafetyInv, OpenIsCurrent, Placed
      <3> QED BY <2>1, <3>1, <3>2
    <2>5. Owed' /\ MissedClosed'
      BY <1>0, <2>1 DEF SafetyInv, Owed, MissedClosed, Subscribed
    <2> QED BY <2>2, <2>3, <2>4, <2>5 DEF SafetyInv
  <1>3. CASE SubscribeBind(c)
    <2>1. /\ sub[c].pc = "bind" /\ sub[c].t \in Consumers /\ mu' = NoOne
          /\ bindings' = [bindings EXCEPT ![sub[c].t] = @ \cup {c}]
          /\ sub'[c].pc = "bound" /\ sub'[c].t = sub[c].t
          /\ \A x \in Consumers : x # c => sub'[x] = sub[x]
          /\ UNCHANGED <<topic, done, pub, missed>>
      BY <1>0, <1>3 DEF SubscribeBind, Placed, Subscriptions
    <2>2. mu = c /\ topic = sub[c].t
      BY <2>1 DEF SafetyInv, MutexInSubscribe
    <2>3. MutexInSubscribe'
      BY <1>0, <2>1, <2>2 DEF SafetyInv, MutexInSubscribe
    <2>4. BoundSomewhere'
      BY <1>0, <2>1 DEF SafetyInv, BoundSomewhere
    <2>5. OpenIsCurrent'
      BY <1>0, <2>1, <2>2 DEF SafetyInv, OpenIsCurrent
    <2>6. Owed' /\ MissedClosed'
      BY <1>0, <2>1 DEF SafetyInv, Owed, MissedClosed, Subscribed
    <2> QED BY <2>3, <2>4, <2>5, <2>6 DEF SafetyInv
  <1>4. CASE Receive(c)
    BY <1>4 DEF Receive, SafetyInv, MutexInSubscribe, BoundSomewhere, OpenIsCurrent,
                Owed, MissedClosed, Subscribed
  <1>5. CASE Quit(c)
    <2>1. /\ sub[c].pc = "bound" /\ sub'[c].pc = "leaving" /\ sub'[c].t = sub[c].t
          /\ \A x \in Consumers : x # c => sub'[x] = sub[x]
          /\ UNCHANGED <<mu, topic, done, bindings, pub, missed>>
      BY <1>0, <1>5 DEF Quit, Subscriptions
    <2>2. MutexInSubscribe' /\ BoundSomewhere' /\ OpenIsCurrent'
      BY <1>0, <2>1 DEF SafetyInv, MutexInSubscribe, BoundSomewhere, OpenIsCurrent
    <2>3. Owed' /\ MissedClosed'
      BY <1>0, <2>1 DEF SafetyInv, Owed, MissedClosed, Subscribed
    <2> QED BY <2>2, <2>3 DEF SafetyInv
  <1>6. CASE unsubscribe(c)
    <2>1. /\ sub[c].pc = "leaving" /\ sub[c].t \in Consumers
          /\ bindings' = [bindings EXCEPT ![sub[c].t] = @ \ {c}]
          /\ done' = IF bindings[sub[c].t] \ {c} = {} THEN done \cup {sub[c].t} ELSE done
          /\ sub'[c].pc = "closing"
          /\ \A x \in Consumers : x # c => sub'[x] = sub[x]
          /\ UNCHANGED <<mu, topic, pub, missed>>
      BY <1>0, <1>6 DEF unsubscribe, Placed, Subscriptions
    <2>2. done \subseteq done'
      BY <2>1
    <2>3. MutexInSubscribe'
      BY <1>0, <2>1 DEF SafetyInv, MutexInSubscribe
    <2>4. BoundSomewhere'
      BY <1>0, <2>1 DEF SafetyInv, BoundSomewhere
    <2>5. OpenIsCurrent'
      BY <1>0, <2>1, <2>2 DEF SafetyInv, OpenIsCurrent
    <2>6. Owed' /\ MissedClosed'
      BY <1>0, <2>1, <2>2 DEF SafetyInv, Owed, MissedClosed, Subscribed
    <2> QED BY <2>3, <2>4, <2>5, <2>6 DEF SafetyInv
  <1>7. CASE CloseChannel(c)
    <2>1. /\ sub[c].pc = "closing" /\ sub'[c].pc = "gone"
          /\ \A x \in Consumers : x # c => sub'[x] = sub[x]
          /\ UNCHANGED <<mu, topic, done, bindings, pub, missed>>
      BY <1>0, <1>7 DEF CloseChannel, Subscriptions
    <2>2. MutexInSubscribe' /\ BoundSomewhere' /\ OpenIsCurrent'
      BY <1>0, <2>1 DEF SafetyInv, MutexInSubscribe, BoundSomewhere, OpenIsCurrent
    <2>3. Owed' /\ MissedClosed'
      BY <1>0, <2>1 DEF SafetyInv, Owed, MissedClosed, Subscribed
    <2> QED BY <2>2, <2>3 DEF SafetyInv
  <1> QED BY <1>1, <1>2, <1>3, <1>4, <1>5, <1>6, <1>7 DEF ConsumerStep

\* When a publisher moves on, whoever it still owes the message and whose topic
\* is open is on the list; when it returns, nobody is left.
LEMMA ProceedSafety ==
    ASSUME TypeInv, SafetyInv, NEW p \in Publishers, NEW todo \in SUBSET Consumers,
           NEW due \in SUBSET Consumers, pub[p].t \in Consumers,
           due \subseteq pub[p].due,
           \A c \in due : sub[c].pc = "bound" /\ sub[c].t \notin done
                            => pub[p].t = sub[c].t /\ c \in todo,
           Proceed(p, todo, due), UNCHANGED <<mu, topic, done, bindings, sub>>
    PROVE  SafetyInv'
  <1> USE IdlePubType DEF TypeInv
  <1>0. /\ pub \in [Publishers -> Publications] /\ pub[p] \in Publications
        /\ missed \subseteq Consumers
    BY DEF PubType
  <1>1. MutexInSubscribe' /\ BoundSomewhere' /\ OpenIsCurrent'
    BY DEF SafetyInv, MutexInSubscribe, BoundSomewhere, OpenIsCurrent
  <1>2. \A c \in due : Subscribed(c)
    BY DEF SafetyInv, Owed
  <1>3. CASE todo = {} /\ Return(p, due)
    <2>1. pub' = [pub EXCEPT ![p] = IdlePub]
      BY <1>3 DEF Return
    <2>2. Owed'
      BY <1>0, <2>1 DEF SafetyInv, Owed, Subscribed
    <2>3. missed' \subseteq missed \cup {c \in due : sub[c].pc = "bound"}
      BY <1>3 DEF Return
    <2>4. MissedClosed'
      BY <1>2, <1>3, <2>3 DEF SafetyInv, MissedClosed, Subscribed
    <2> QED BY <1>1, <2>2, <2>4 DEF SafetyInv
  <1>4. ASSUME NEW c \in todo, UNCHANGED missed,
               pub' = [pub EXCEPT ![p].pc = "send", ![p].todo = todo \ {c},
                                  ![p].at = c, ![p].due = due]
        PROVE  SafetyInv'
    <2>1. /\ pub'[p].pc = "send" /\ pub'[p].todo = todo \ {c} /\ pub'[p].at = c
          /\ pub'[p].due = due /\ pub'[p].t = pub[p].t
          /\ \A q \in Publishers : q # p => pub'[q] = pub[q]
      BY <1>0, <1>4 DEF Publications
    <2>2. Owed'
      BY <1>2, <2>1 DEF SafetyInv, Owed, Subscribed
    <2>3. MissedClosed'
      BY <1>4 DEF SafetyInv, MissedClosed, Subscribed
    <2> QED BY <1>1, <2>2, <2>3 DEF SafetyInv
  <1> QED BY <1>3, <1>4 DEF Proceed

\* The steps of a publisher keep the safety invariant.
LEMMA PublisherSafety ==
    ASSUME TypeInv, SafetyInv, NEW p \in Publishers, PublishCheck(p) \/ PublisherStep(p)
    PROVE  SafetyInv'
  <1> USE IdlePubType DEF TypeInv, bus
  <1>0. /\ pub \in [Publishers -> Publications] /\ pub[p] \in Publications
        /\ pub[p].todo \in SUBSET Consumers /\ pub[p].due \in SUBSET Consumers
        /\ missed \subseteq Consumers
        /\ (pub[p].pc \in {"snap", "send"} => pub[p].t \in Consumers)
        /\ (pub[p].pc = "send" => pub[p].at \in Consumers)
    BY DEF PubType, Placed, Publications
  <1>1. CASE PublishCheck(p)
    <2> DEFINE new == [IdlePub EXCEPT !.pc = "look",
                                      !.due = {c \in Consumers : sub[c].pc = "bound"}]
    <2>1. new.pc = "look" /\ new.due = {c \in Consumers : sub[c].pc = "bound"}
      BY DEF Publications
    <2>2. pub' = [pub EXCEPT ![p] = new] /\ UNCHANGED <<bus, sub, queued, missed>>
      BY <1>1 DEF PublishCheck
    <2> HIDE DEF new
    <2>3. Owed'
      BY <1>0, <2>1, <2>2 DEF SafetyInv, Owed, Subscribed
    <2>4. MutexInSubscribe' /\ BoundSomewhere' /\ OpenIsCurrent' /\ MissedClosed'
      BY <2>2 DEF SafetyInv, MutexInSubscribe, BoundSomewhere, OpenIsCurrent, MissedClosed,
                  Subscribed
    <2> QED BY <2>3, <2>4 DEF SafetyInv
  <1>2. CASE PublishLook(p)
    <2>0. \A c \in pub[p].due : sub[c].pc = "bound" /\ sub[c].t \notin done => topic = sub[c].t
      BY <1>0 DEF SafetyInv, OpenIsCurrent
    <2>1. UNCHANGED <<mu, topic, done, bindings, sub>> /\ pub[p].pc = "look"
      BY <1>2 DEF PublishLook
    <2>2. MutexInSubscribe' /\ BoundSomewhere' /\ OpenIsCurrent'
      BY <2>1 DEF SafetyInv, MutexInSubscribe, BoundSomewhere, OpenIsCurrent
    <2>3. CASE topic = NoOne /\ Return(p, pub[p].due)
      <3>1. pub' = [pub EXCEPT ![p] = IdlePub]
            /\ missed' \subseteq missed \cup {c \in pub[p].due : sub[c].pc = "bound"}
        BY <2>3 DEF Return
      <3>2. Owed'
        BY <1>0, <2>1, <3>1 DEF SafetyInv, Owed, Subscribed
      <3>3. \A c \in pub[p].due : Subscribed(c) /\ (sub[c].pc = "bound" => sub[c].t \in Consumers)
        BY <1>0 DEF SafetyInv, Owed, Placed
      <3>4. MissedClosed'
        BY <2>0, <2>1, <2>3, <3>1, <3>3, NoOneAssumption DEF SafetyInv, MissedClosed, Subscribed
      <3> QED BY <2>2, <3>2, <3>4 DEF SafetyInv
    <2>4. CASE topic # NoOne /\ pub' = [pub EXCEPT ![p].pc = "snap", ![p].t = topic]
               /\ UNCHANGED missed
      <3>1. /\ pub'[p].pc = "snap" /\ pub'[p].t = topic /\ pub'[p].due = pub[p].due
            /\ \A q \in Publishers : q # p => pub'[q] = pub[q]
        BY <1>0, <2>4 DEF Publications
      <3>2. Owed'
        BY <2>0, <2>1, <3>1 DEF SafetyInv, Owed, Subscribed
      <3>3. MissedClosed'
        BY <2>1, <2>4 DEF SafetyInv, MissedClosed, Subscribed
      <3> QED BY <2>2, <3>2, <3>3 DEF SafetyInv
    <2> QED BY <1>2, <2>3, <2>4 DEF PublishLook
  <1>3. CASE SendSnapshot(p)
    <2>1. /\ pub[p].pc = "snap" /\ pub[p].t \in Consumers
          /\ Proceed(p, bindings[pub[p].t], pub[p].due)
          /\ UNCHANGED <<mu, topic, done, bindings, sub>>
      BY <1>0, <1>3 DEF SendSnapshot
    <2>2. bindings[pub[p].t] \in SUBSET Consumers
      BY <2>1 DEF BusType
    <2>3. \A c \in pub[p].due : sub[c].pc = "bound" /\ sub[c].t \notin done
             => pub[p].t = sub[c].t /\ c \in bindings[pub[p].t]
      BY <1>0, <2>1 DEF SafetyInv, Owed, OpenIsCurrent
    <2> QED BY <1>0, <2>1, <2>2, <2>3, ProceedSafety
  <1>4. CASE SendDelivered(p)
    <2>1. /\ pub[p].pc = "send" /\ pub[p].t \in Consumers
          /\ Proceed(p, pub[p].todo, pub[p].due \ {pub[p].at})
          /\ UNCHANGED <<mu, topic, done, bindings, sub>>
      BY <1>0, <1>4 DEF SendDelivered
    <2>2. \A c \in pub[p].due \ {pub[p].at} : sub[c].pc = "bound" /\ sub[c].t \notin done
             => pub[p].t = sub[c].t /\ c \in pub[p].todo
      BY <1>0, <2>1 DEF SafetyInv, Owed
    <2>3. pub[p].due \ {pub[p].at} \in SUBSET Consumers
      BY <1>0
    <2> QED BY <1>0, <2>1, <2>2, <2>3, ProceedSafety
  <1>5. CASE SendDropped(p)
    <2>1. /\ pub[p].pc = "send" /\ pub[p].t \in Consumers
          /\ pub[p].t \in done \/ sub[pub[p].at].pc = "gone"
          /\ Proceed(p, pub[p].todo, pub[p].due)
          /\ UNCHANGED <<mu, topic, done, bindings, sub>>
      BY <1>0, <1>5 DEF SendDropped
    <2>2. \A c \in pub[p].due : sub[c].pc = "bound" /\ sub[c].t \notin done
             => pub[p].t = sub[c].t /\ c \in pub[p].todo
      BY <1>0, <2>1 DEF SafetyInv, Owed
    <2> QED BY <1>0, <2>1, <2>2, ProceedSafety
  <1> QED BY <1>1, <1>2, <1>3, <1>4, <1>5 DEF PublisherStep

\* Every step preserves the safety invariant.
LEMMA NextSafety == TypeInv /\ SafetyInv /\ [Next]_vars => SafetyInv'
  <1> SUFFICES ASSUME TypeInv, SafetyInv, [Next]_vars PROVE SafetyInv'
    OBVIOUS
  <1>1. CASE UNCHANGED vars \/ StopBegin
    BY <1>1 DEF vars, bus, StopBegin, SafetyInv, MutexInSubscribe, BoundSomewhere,
                OpenIsCurrent, Owed, MissedClosed, Subscribed
  <1>2. CASE StopClose
    <2>1. /\ UNCHANGED <<mu, topic, sub, pub, missed>>
          /\ \/ UNCHANGED <<done, bindings>>
             \/ /\ topic \in Consumers /\ done' = done \cup {topic}
                /\ bindings' = [bindings EXCEPT ![topic] = {}]
      BY <1>2 DEF StopClose, TypeInv, BusType, Topics
    <2>2. done \subseteq done' /\ bindings \in [Consumers -> SUBSET Consumers]
      BY <2>1 DEF TypeInv, BusType
    <2>3. MutexInSubscribe' /\ BoundSomewhere'
      BY <2>1, <2>2 DEF SafetyInv, MutexInSubscribe, BoundSomewhere
    <2>4. OpenIsCurrent'
      BY <2>1, <2>2 DEF SafetyInv, OpenIsCurrent
    <2>5. Owed' /\ MissedClosed'
      BY <2>1, <2>2 DEF SafetyInv, Owed, MissedClosed, Subscribed
    <2> QED BY <2>3, <2>4, <2>5 DEF SafetyInv
  <1> QED BY <1>1, <1>2, ConsumerSafety, PublisherSafety DEF Next, Finished

\* Both invariants hold in every behaviour of the bus.
LEMMA AlwaysSafe == Spec => [](TypeInv /\ SafetyInv)
  BY InitType, NextType, InitSafety, NextSafety, PTL DEF Spec

\* Whoever is bound to an open topic is found by the next Publish.
THEOREM OpenTopicsAreCurrent == Spec => []OpenTopicIsCurrent
  <1>1. TypeInv /\ SafetyInv => OpenTopicIsCurrent
    BY DEF SafetyInv, OpenIsCurrent, OpenTopicIsCurrent
  <1> QED BY AlwaysSafe, <1>1, PTL

\* A bound consumer misses a message only if its topic was closed under it.
THEOREM NoMessageIsMissed == Spec => []MissedOnlyIfClosed
  <1>1. TypeInv /\ SafetyInv => MissedOnlyIfClosed
    BY DEF SafetyInv, MissedClosed, MissedOnlyIfClosed
  <1> QED BY AlwaysSafe, <1>1, PTL

\* A consumer that has left is bound nowhere.
THEOREM GoneConsumersAreUnbound == Spec => []GoneIsUnbound
  <1>1. TypeInv /\ SafetyInv => GoneIsUnbound
    BY DEF SafetyInv, BoundSomewhere, GoneIsUnbound
  <1> QED BY AlwaysSafe, <1>1, PTL


-----------------------------------------------------------------------------
(* Who waits for whom.  Subscribe takes the topic's lock with topicsMu held, *)
(* and Send blocks on the channel of one consumer after the other.          *)

\* Close leaves only closed topics locked, none of them a topic that a Subscribe is
\* about to bind to or to create.
LocksLeft ==
    /\ leaked \subseteq done
    /\ \A c \in Consumers :
         /\ sub[c].pc = "bind" => sub[c].t \notin leaked
         /\ sub[c].pc \in {"new", "lock"} => c \notin leaked /\ topic # c

\* The consumers on a publisher's list subscribed to the topic it sends to.
Listed == \A p \in Publishers, c \in Consumers :
    pub[p].pc = "send" /\ (c = pub[p].at \/ c \in pub[p].todo) =>
        Subscribed(c) /\ sub[c].t = pub[p].t

\* Whoever holds topicsMu can take the topic's lock and go on, although Close may
\* leave the mutex of a closed topic locked (wizard_bus.go:55-64, 105-123,
\* wizard_topic.go:17-89).  A Send that waits for a full channel waits for a consumer
\* that receives, or that can cancel and close its channel, or is let go by its topic.
NobodyIsStuck ==
    /\ mu # NoOne => sub[mu].pc = "bind" /\ sub[mu].t \notin leaked
    /\ \A p \in Publishers : pub[p].pc = "send" =>
         \/ pub[p].t \in done
         \/ sub[pub[p].at].pc \in {"bound", "closing", "gone"}
         \/ sub[pub[p].at].pc = "leaving" /\ sub[pub[p].at].t \notin leaked

\* The steps of consumers.
LEMMA ConsumerLocks ==
    ASSUME TypeInv, LocksLeft, Listed, NEW c \in Consumers,
           SubscribeCheck(c) \/ Quit(c) \/ ConsumerStep(c)
    PROVE  LocksLeft' /\ Listed'
  <1> USE NoOneAssumption DEF TypeInv, bus
  <1>0. /\ sub \in [Consumers -> Subscriptions] /\ sub[c] \in Subscriptions
    BY DEF BusType
  <1>1. CASE SubscribeLook(c)
    <2> DEFINE t == IF topic = NoOne \/ topic \in done THEN c ELSE topic
    <2>1. /\ sub[c].pc = "lock" /\ topic' = t
          /\ sub'[c].pc = "bind" /\ sub'[c].t = t
          /\ \A x \in Consumers : x # c => sub'[x] = sub[x]
          /\ UNCHANGED <<done, leaked, pub>>
      BY <1>0, <1>1 DEF SubscribeLook
    <2>2. t \notin leaked
      BY <2>1 DEF LocksLeft
    <2>3. \A x \in Consumers : sub'[x].pc \in {"new", "lock"} => t # x
      BY <2>1 DEF LocksLeft
    <2> HIDE DEF t
    <2>4. LocksLeft'
      BY <2>1, <2>2, <2>3 DEF LocksLeft
    <2>5. Listed'
      BY <2>1 DEF Listed, Subscribed
    <2> QED BY <2>4, <2>5
  <1>2. ASSUME UNCHANGED <<topic, leaked, pub>>, done \subseteq done',
               sub'[c].t = sub[c].t, sub'[c].pc # "bind",
               sub'[c].pc \in {"new", "lock"} => sub[c].pc \in {"new", "lock"},
               Subscribed(c) => sub'[c].pc \in {"bound", "leaving", "closing", "gone"},
               \A x \in Consumers : x # c => sub'[x] = sub[x]
        PROVE  LocksLeft' /\ Listed'
    <2>1. LocksLeft'
      BY <1>2 DEF LocksLeft
    <2>2. Listed'
      BY <1>2 DEF Listed, Subscribed
    <2> QED BY <2>1, <2>2
  <1>3. CASE SubscribeCheck(c)
    BY <1>0, <1>2, <1>3 DEF SubscribeCheck, Subscribed, Subscriptions
  <1>4. CASE SubscribeBind(c) \/ Quit(c) \/ CloseChannel(c)
    BY <1>0, <1>2, <1>4 DEF SubscribeBind, Quit, CloseChannel, Subscribed, Subscriptions
  <1>5. CASE unsubscribe(c)
    <2>1. done \subseteq done'
      BY <1>5 DEF unsubscribe
    <2> QED BY <1>0, <1>2, <1>5, <2>1 DEF unsubscribe, Subscribed, Subscriptions
  <1>6. CASE Receive(c)
    BY <1>6 DEF Receive, LocksLeft, Listed, Subscribed
  <1> QED BY <1>1, <1>3, <1>4, <1>5, <1>6 DEF ConsumerStep

\* A publisher goes on with a list of subscribers of its topic.
LEMMA ProceedLocks ==
    ASSUME TypeInv, LocksLeft, Listed, NEW p \in Publishers, NEW todo \in SUBSET Consumers,
           NEW due \in SUBSET Consumers, Proceed(p, todo, due), UNCHANGED <<bus, sub>>,
           \A c \in todo : Subscribed(c) /\ sub[c].t = pub[p].t
    PROVE  LocksLeft' /\ Listed'
  <1> USE IdlePubType DEF TypeInv
  <1>0. pub \in [Publishers -> Publications] /\ pub[p] \in Publications
    BY DEF PubType
  <1>1. LocksLeft'
    BY DEF LocksLeft, bus
  <1>2. CASE Return(p, due)
    <2>1. pub' = [pub EXCEPT ![p] = IdlePub]
      BY <1>2 DEF Return
    <2> QED BY <1>0, <1>1, <2>1 DEF Listed, Subscribed
  <1>3. CASE \E c \in todo : pub' = [pub EXCEPT ![p].pc = "send", ![p].todo = todo \ {c},
                                                ![p].at = c, ![p].due = due]
    <2>1. PICK c \in todo : pub' = [pub EXCEPT ![p].pc = "send", ![p].todo = todo \ {c},
                                               ![p].at = c, ![p].due = due]
      BY <1>3
    <2>2. /\ pub'[p].at \in todo /\ pub'[p].todo \subseteq todo /\ pub'[p].t = pub[p].t
          /\ \A q \in Publishers : q # p => pub'[q] = pub[q]
      BY <1>0, <2>1 DEF Publications
    <2> QED BY <1>1, <2>2 DEF Listed, Subscribed
  <1> QED BY <1>2, <1>3 DEF Proceed

\* The steps of publishers.
LEMMA PublisherLocks ==
    ASSUME TypeInv, SafetyInv, LocksLeft, Listed, NEW p \in Publishers,
           PublishCheck(p) \/ PublisherStep(p)
    PROVE  LocksLeft' /\ Listed'
  <1> USE IdlePubType DEF TypeInv
  <1>0. /\ pub \in [Publishers -> Publications] /\ pub[p] \in Publications
        /\ pub[p].todo \in SUBSET Consumers /\ pub[p].due \in SUBSET Consumers
    BY DEF PubType, Publications
  <1>1. CASE PublishCheck(p) \/ PublishLook(p)
    <2>1. UNCHANGED <<bus, sub>> /\ \A q \in Publishers : q # p => pub'[q] = pub[q]
      BY <1>0, <1>1 DEF PublishCheck, PublishLook, Return
    <2>2. pub'[p].pc # "send"
      <3>1. CASE PublishCheck(p)
        BY <1>0, <3>1 DEF PublishCheck, IdlePub
      <3>2. CASE PublishLook(p)
        BY <1>0, <3>2 DEF PublishLook, Return, Publications
      <3> QED BY <1>1, <3>1, <3>2
    <2> QED BY <2>1, <2>2 DEF LocksLeft, Listed, Subscribed, bus
  <1>2. CASE SendSnapshot(p)
    <2>1. pub[p].t \in Consumers
      BY <1>2 DEF SendSnapshot, Placed
    <2>2. bindings[pub[p].t] \in SUBSET Consumers
      BY <2>1 DEF BusType
    <2>3. \A c \in bindings[pub[p].t] : Subscribed(c) /\ sub[c].t = pub[p].t
      BY <2>1, <2>2 DEF SafetyInv, BoundSomewhere, Subscribed
    <2>4. Proceed(p, bindings[pub[p].t], pub[p].due) /\ UNCHANGED <<bus, sub>>
      BY <1>2 DEF SendSnapshot
    <2> QED BY <1>0, <2>2, <2>3, <2>4, ProceedLocks
  <1>3. CASE SendDelivered(p) \/ SendDropped(p)
    <2>1. /\ pub[p].pc = "send" /\ UNCHANGED <<bus, sub>>
          /\ \E due \in SUBSET Consumers : Proceed(p, pub[p].todo, due)
      <3>1. pub[p].due \ {pub[p].at} \in SUBSET Consumers
        BY <1>0
      <3> QED BY <1>0, <1>3, <3>1 DEF SendDelivered, SendDropped
    <2>2. \A c \in pub[p].todo : Subscribed(c) /\ sub[c].t = pub[p].t
      BY <1>0, <2>1 DEF Listed
    <2> QED BY <1>0, <2>1, <2>2, ProceedLocks
  <1> QED BY <1>1, <1>2, <1>3 DEF PublisherStep

\* Every step.
LEMMA NextLocks ==
    TypeInv /\ SafetyInv /\ LocksLeft /\ Listed /\ [Next]_vars => LocksLeft' /\ Listed'
  <1> SUFFICES ASSUME TypeInv, SafetyInv, LocksLeft, Listed, [Next]_vars
               PROVE  LocksLeft' /\ Listed'
    OBVIOUS
  <1>1. CASE UNCHANGED vars
    BY <1>1 DEF vars, bus, LocksLeft, Listed, Subscribed
  <1>2. CASE StopBegin
    BY <1>2 DEF StopBegin, LocksLeft, Listed, Subscribed
  <1>3. CASE StopClose
    <2>1. mu = NoOne /\ UNCHANGED <<topic, sub, pub>>
      BY <1>3 DEF StopClose
    <2>2. \A c \in Consumers : sub[c].pc # "bind"
      BY <2>1, NoOneAssumption DEF SafetyInv, MutexInSubscribe
    <2>3. leaked' \subseteq done' /\ \A c \in leaked' : c \in leaked \/ c = topic
      BY <1>3 DEF StopClose, LocksLeft
    <2>4. LocksLeft'
      BY <2>1, <2>2, <2>3 DEF LocksLeft
    <2>5. Listed'
      BY <2>1 DEF Listed, Subscribed
    <2> QED BY <2>4, <2>5
  <1> QED BY <1>1, <1>2, <1>3, ConsumerLocks, PublisherLocks DEF Next, Finished

\* No interleaving of Subscribe, Cancel, Publish and Stop makes the holder of
\* topicsMu wait for a lock that nobody releases, or a Send wait for a consumer that
\* can neither receive nor leave: the mutex that Close leaves locked stops only
\* callers that hold no other lock.
THEOREM NobodyGetsStuck == Spec => []NobodyIsStuck
  <1>1. Init => LocksLeft /\ Listed
    BY IdlePubType, NoOneAssumption DEF Init, LocksLeft, Listed
  <1>2. TypeInv /\ SafetyInv /\ LocksLeft /\ Listed => NobodyIsStuck
    <2> SUFFICES ASSUME TypeInv, SafetyInv, LocksLeft, Listed PROVE NobodyIsStuck
      OBVIOUS
    <2>1. mu # NoOne => sub[mu].pc = "bind" /\ sub[mu].t \notin leaked
      <3> SUFFICES ASSUME mu # NoOne PROVE sub[mu].pc = "bind" /\ sub[mu].t \notin leaked
        OBVIOUS
      <3>1. mu \in Consumers
        BY DEF TypeInv, BusType, Topics
      <3> QED BY <3>1 DEF SafetyInv, MutexInSubscribe, LocksLeft
    <2>2. ASSUME NEW p \in Publishers, pub[p].pc = "send", pub[p].t \notin done
          PROVE  \/ sub[pub[p].at].pc \in {"bound", "closing", "gone"}
                 \/ sub[pub[p].at].pc = "leaving" /\ sub[pub[p].at].t \notin leaked
      <3>1. pub[p].at \in Consumers
        BY <2>2 DEF TypeInv, Placed
      <3>2. Subscribed(pub[p].at) /\ sub[pub[p].at].t = pub[p].t
        BY <2>2, <3>1 DEF Listed
      <3>3. sub[pub[p].at].t \notin leaked
        BY <2>2, <3>2 DEF LocksLeft
      <3> QED BY <3>2, <3>3 DEF Subscribed
    <2> QED BY <2>1, <2>2 DEF NobodyIsStuck
  <1> QED BY <1>1, <1>2, AlwaysSafe, NextLocks, PTL DEF Spec

=============================================================================
