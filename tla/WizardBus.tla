------------------------------ MODULE WizardBus ------------------------------
(****************************************************************************)
(* The message bus inside a backend: backend/messaging, one topic.          *)
(*                                                                          *)
(* Topics do not share state but for the mutex of the topic map, so one is  *)
(* enough.  The map holds the current wizardTopic of that name.  A topic    *)
(* closes its done channel when its last subscriber leaves; the next        *)
(* Subscribe replaces a closed topic.  A wizardTopic is named here by the   *)
(* consumer whose Subscribe created it, since a consumer subscribes once    *)
(* (agent sessions use a fresh UUID, the daemons subscribe when they start).*)
(*                                                                          *)
(* What is not atomic in the code is not atomic here: the running flag is   *)
(* read before any lock is taken, Subscribe tests IsClosed before it takes  *)
(* the topic's lock, Cancel takes only the topic's lock, and Send copies    *)
(* the bindings and then blocks on one subscriber's channel after the other.*)
(* Messages are counted, not named.                                         *)
(****************************************************************************)
EXTENDS Naturals, FiniteSets

CONSTANTS Consumers,   \* the subscribers of the topic
          Publishers,  \* goroutines that publish to it
          NoOne,       \* no consumer, no topic, an unlocked mutex
          ChanCap,     \* capacity of a subscriber's channel
          MaxMsgs      \* bound: messages each publisher sends

ASSUME NoOneAssumption == NoOne \notin Consumers
ASSUME BusBounds == ChanCap \in Nat \ {0} /\ MaxMsgs \in Nat

VARIABLES running,   \* the bus accepts Subscribe and Publish
          stopping,  \* Stop has cleared running and not closed the topic yet
          mu,        \* the consumer whose Subscribe holds topicsMu
          topic,     \* the wizardTopic in the map
          done,      \* topics whose done channel is closed
          leaked,    \* topics whose mutex Close left locked
          bindings,  \* topic -> the consumers bound to it
          sub,       \* consumer -> progress of its subscription, and its topic
          queued,    \* consumer -> messages in its channel
          pub,       \* publisher -> progress of Publish
          sent,      \* publisher -> messages it has begun to send
          missed     \* history: bound consumers that a message passed by

bus == <<running, stopping, mu, topic, done, leaked, bindings>>
vars == <<bus, sub, queued, pub, sent, missed>>

Topics == Consumers \cup {NoOne}

\* "due" is history: consumers bound since before the message was published
\* that have not got it.
Publications == [pc : {"idle", "look", "snap", "send"}, t : Topics,
                 todo : SUBSET Consumers, at : Topics, due : SUBSET Consumers]
IdlePub == [pc |-> "idle", t |-> NoOne, todo |-> {}, at |-> NoOne, due |-> {}]
Subscriptions == [pc : {"new", "lock", "bind", "bound", "leaving", "closing", "gone"},
                  t : Topics]

Init == /\ running = TRUE
        /\ stopping = FALSE
        /\ mu = NoOne
        /\ topic = NoOne
        /\ done = {}
        /\ leaked = {}
        /\ bindings = [t \in Consumers |-> {}]
        /\ sub = [c \in Consumers |-> [pc |-> "new", t |-> NoOne]]
        /\ queued = [c \in Consumers |-> 0]
        /\ pub = [p \in Publishers |-> IdlePub]
        /\ sent = [p \in Publishers |-> 0]
        /\ missed = {}

-----------------------------------------------------------------------------
(* A subscriber: Subscribe, receive, stop receiving, Cancel, close.         *)

SubscribeCheck(c) ==
    /\ sub[c].pc = "new"
    /\ sub' = [sub EXCEPT ![c].pc = IF running THEN "lock" ELSE "gone"]
    /\ UNCHANGED <<bus, queued, pub, sent, missed>>

\* Mutant of SubscribeLook: every Subscribe makes a topic of its own.
SubscribeLookAnew(c) ==
    /\ sub[c].pc = "lock"
    /\ mu = NoOne
    /\ mu' = c
    /\ topic' = c
    /\ sub' = [sub EXCEPT ![c] = [pc |-> "bind", t |-> c]]
    /\ UNCHANGED <<running, stopping, done, leaked, bindings, queued, pub, sent, missed>>

\* Under topicsMu: a topic that is missing or closed is replaced by a new one.
SubscribeLook(c) ==
    LET t == IF topic = NoOne \/ topic \in done THEN c ELSE topic IN
    /\ sub[c].pc = "lock"
    /\ mu = NoOne
    /\ mu' = c
    /\ topic' = t
    /\ sub' = [sub EXCEPT ![c] = [pc |-> "bind", t |-> t]]
    /\ UNCHANGED <<running, stopping, done, leaked, bindings, queued, pub, sent, missed>>

\* wizardTopic.Subscribe, under the topic's own lock; then topicsMu is released.
SubscribeBind(c) ==
    LET t == sub[c].t IN
    /\ sub[c].pc = "bind"
    /\ t \notin leaked
    /\ bindings' = [bindings EXCEPT ![t] = @ \cup {c}]
    /\ mu' = NoOne
    /\ sub' = [sub EXCEPT ![c].pc = "bound"]
    /\ UNCHANGED <<running, stopping, topic, done, leaked, queued, pub, sent, missed>>

Receive(c) ==
    /\ sub[c].pc = "bound"
    /\ queued[c] > 0
    /\ queued' = [queued EXCEPT ![c] = @ - 1]
    /\ UNCHANGED <<bus, sub, pub, sent, missed>>

\* The consumer's receiving loop ends, before the consumer cancels.
Quit(c) ==
    /\ sub[c].pc = "bound"
    /\ sub' = [sub EXCEPT ![c].pc = "leaving"]
    /\ UNCHANGED <<bus, queued, pub, sent, missed>>

\* Mutant of unsubscribe: the last one to leave stays in the bindings.
unsubscribeKeepLast(c) ==
    LET t == sub[c].t
        rest == bindings[t] \ {c} IN
    /\ sub[c].pc = "leaving"
    /\ t \notin leaked
    /\ bindings' = IF rest = {} THEN bindings ELSE [bindings EXCEPT ![t] = rest]
    /\ done' = IF rest = {} THEN done \cup {t} ELSE done
    /\ sub' = [sub EXCEPT ![c].pc = "closing"]
    /\ UNCHANGED <<running, stopping, mu, topic, leaked, queued, pub, sent, missed>>

\* Cancel: the last one to leave closes the topic.
unsubscribe(c) ==
    LET t == sub[c].t
        rest == bindings[t] \ {c} IN
    /\ sub[c].pc = "leaving"
    /\ t \notin leaked
    /\ bindings' = [bindings EXCEPT ![t] = rest]
    /\ done' = IF rest = {} THEN done \cup {t} ELSE done
    /\ sub' = [sub EXCEPT ![c].pc = "closing"]
    /\ UNCHANGED <<running, stopping, mu, topic, leaked, queued, pub, sent, missed>>

\* The consumer closes its channel.
CloseChannel(c) ==
    /\ sub[c].pc = "closing"
    /\ sub' = [sub EXCEPT ![c].pc = "gone"]
    /\ UNCHANGED <<bus, queued, pub, sent, missed>>

-----------------------------------------------------------------------------
(* Publish and Send.                                                        *)

PublishCheck(p) ==
    /\ pub[p].pc = "idle"
    /\ sent[p] < MaxMsgs
    /\ running
    /\ sent' = [sent EXCEPT ![p] = @ + 1]
    /\ pub' = [pub EXCEPT ![p] = [IdlePub EXCEPT !.pc = "look",
                                    !.due = {c \in Consumers : sub[c].pc = "bound"}]]
    /\ UNCHANGED <<bus, sub, queued, missed>>

\* Publish is over: whoever was bound all along and did not get the message
\* has missed it.  A bus that was told to stop owes nobody anything.
Return(p, due) ==
    /\ pub' = [pub EXCEPT ![p] = IdlePub]
    /\ missed' = IF running THEN missed \cup {c \in due : sub[c].pc = "bound"}
                            ELSE missed

\* Mutant of PublishLook: the map's answer is not tested.
PublishLookUnchecked(p) ==
    /\ pub[p].pc = "look"
    /\ mu = NoOne
    /\ pub' = [pub EXCEPT ![p].pc = "snap", ![p].t = topic]
    /\ UNCHANGED <<bus, sub, queued, sent, missed>>

\* Under topicsMu.RLock; a topic nobody ever subscribed to is not there.
PublishLook(p) ==
    /\ pub[p].pc = "look"
    /\ mu = NoOne
    /\ \/ topic = NoOne /\ Return(p, pub[p].due)
       \/ /\ topic # NoOne
          /\ pub' = [pub EXCEPT ![p].pc = "snap", ![p].t = topic]
          /\ UNCHANGED missed
    /\ UNCHANGED <<bus, sub, queued, sent>>

\* The publisher turns to any one of the consumers that are left, or returns.
Proceed(p, todo, due) ==
    \/ todo = {} /\ Return(p, due)
    \/ /\ \E c \in todo : pub' = [pub EXCEPT ![p].pc = "send", ![p].todo = todo \ {c},
                                             ![p].at = c, ![p].due = due]
       /\ UNCHANGED missed

\* Send copies the bindings under the topic's read lock.
SendSnapshot(p) ==
    /\ pub[p].pc = "snap"
    /\ pub[p].t \notin leaked
    /\ Proceed(p, bindings[pub[p].t], pub[p].due)
    /\ UNCHANGED <<bus, sub, queued, sent>>

\* safeSend, when the channel takes the message.
SendDelivered(p) ==
    LET c == pub[p].at IN
    /\ pub[p].pc = "send"
    /\ sub[c].pc # "gone"
    /\ queued[c] < ChanCap
    /\ queued' = [queued EXCEPT ![c] = @ + 1]
    /\ Proceed(p, pub[p].todo, pub[p].due \ {c})
    /\ UNCHANGED <<bus, sub, sent>>

\* Mutant of SendDropped: a message for a full channel is dropped.
SendDroppedIfFull(p) ==
    /\ pub[p].pc = "send"
    /\ pub[p].t \in done \/ sub[pub[p].at].pc = "gone" \/ queued[pub[p].at] = ChanCap
    /\ Proceed(p, pub[p].todo, pub[p].due)
    /\ UNCHANGED <<bus, sub, queued, sent>>

\* Mutant of SendDropped: only the closing of the topic releases a Send.
SendDroppedIfDone(p) ==
    /\ pub[p].pc = "send"
    /\ pub[p].t \in done
    /\ Proceed(p, pub[p].todo, pub[p].due)
    /\ UNCHANGED <<bus, sub, queued, sent>>

\* safeSend, when done is closed (select may prefer it although the channel
\* has room) or when the channel is closed and the panic is recovered from.
SendDropped(p) ==
    /\ pub[p].pc = "send"
    /\ pub[p].t \in done \/ sub[pub[p].at].pc = "gone"
    /\ Proceed(p, pub[p].todo, pub[p].due)
    /\ UNCHANGED <<bus, sub, queued, sent>>

-----------------------------------------------------------------------------
(* Stop.                                                                    *)

StopBegin ==
    /\ running
    /\ running' = FALSE
    /\ stopping' = TRUE
    /\ UNCHANGED <<mu, topic, done, leaked, bindings, sub, queued, pub, sent, missed>>

\* Close on the topic in the map, under topicsMu.  On a topic that is closed
\* already, Close returns without unlocking it.
StopClose ==
    /\ stopping
    /\ mu = NoOne
    /\ stopping' = FALSE
    /\ \/ topic = NoOne /\ UNCHANGED <<done, leaked, bindings>>
       \/ /\ topic # NoOne /\ topic \in done
          /\ leaked' = leaked \cup {topic}
          /\ UNCHANGED <<done, bindings>>
       \/ /\ topic # NoOne /\ topic \notin done
          /\ done' = done \cup {topic}
          /\ bindings' = [bindings EXCEPT ![topic] = {}]
          /\ UNCHANGED leaked
    /\ UNCHANGED <<running, mu, topic, sub, queued, pub, sent, missed>>

\* Nothing is left to do: every message is sent and every consumer has left.
Finished ==
    /\ ~running /\ ~stopping
    /\ \A c \in Consumers : sub[c].pc = "gone" \/ (sub[c].pc = "leaving" /\ sub[c].t \in leaked)
    /\ \A p \in Publishers : pub[p].pc = "idle" \/ (pub[p].pc = "snap" /\ pub[p].t \in leaked)
    /\ UNCHANGED vars

ConsumerStep(c) == \/ SubscribeLook(c) \/ SubscribeBind(c) \/ Receive(c)
                   \/ unsubscribe(c) \/ CloseChannel(c)

PublisherStep(p) == \/ PublishLook(p) \/ SendSnapshot(p)
                    \/ SendDelivered(p) \/ SendDropped(p)

Next == \/ \E c \in Consumers : SubscribeCheck(c) \/ Quit(c) \/ ConsumerStep(c)
        \/ \E p \in Publishers : PublishCheck(p) \/ PublisherStep(p)
        \/ StopBegin \/ StopClose
        \/ Finished

\* Goroutines make progress once they have begun a call, and a bound consumer
\* keeps receiving.  Nothing makes consumers come or go, or the bus stop.
Fairness == /\ \A c \in Consumers : WF_vars(ConsumerStep(c))
            /\ \A p \in Publishers : WF_vars(PublisherStep(p))
            /\ WF_vars(StopClose)

Spec == Init /\ [][Next]_vars
FairSpec == Spec /\ Fairness

-----------------------------------------------------------------------------
(* Properties.                                                              *)

\* A consumer past its lookup in the topic map, and a publisher past its own, have a
\* topic, and a publisher that sends has a target: no nil topic is ever locked.
Placed ==
    /\ \A c \in Consumers : sub[c].pc \in {"bind", "bound", "leaving", "closing"}
                              => sub[c].t \in Consumers
    /\ \A p \in Publishers : pub[p].pc \in {"snap", "send"} => pub[p].t \in Consumers
    /\ \A p \in Publishers : pub[p].pc = "send" => pub[p].at \in Consumers

\* Every variable has its type, and Publish and Subscribe work on topics that exist
\* (wizard_bus.go:113-117, 130-136).
TypeOK == /\ running \in BOOLEAN /\ stopping \in BOOLEAN
          /\ mu \in Topics /\ topic \in Topics
          /\ done \subseteq Consumers /\ leaked \subseteq Consumers
          /\ bindings \in [Consumers -> SUBSET Consumers]
          /\ sub \in [Consumers -> Subscriptions]
          /\ queued \in [Consumers -> 0..ChanCap]
          /\ pub \in [Publishers -> Publications]
          /\ sent \in [Publishers -> 0..MaxMsgs]
          /\ missed \subseteq Consumers
          /\ Placed

\* Whoever is bound to a topic that is open is bound to the topic in the map,
\* and is among its bindings: a Publish that starts now will find it.
\* (Subscribe replaces a topic only when IsClosed, wizard_bus.go:113-119.)
OpenTopicIsCurrent == \A c \in Consumers :
    sub[c].pc = "bound" /\ sub[c].t \notin done
        => topic = sub[c].t /\ c \in bindings[topic]

\* While the bus runs, a message passes a bound consumer by only if the
\* consumer's topic was closed under it: neither the snapshot that Send takes,
\* nor leaving subscribers, nor full channels make a consumer of an open topic
\* miss one (wizard_topic.go:17-45).  This is more than the interface promises:
\* its comment says that the send does not block, and that the message is lost
\* if the receiver is not ready for it (message_bus.go:69-72).  safeSend blocks.
MissedOnlyIfClosed == \A c \in missed : sub[c].pc = "bound" => sub[c].t \in done

\* A consumer that left and closed its channel is bound nowhere: no later Send
\* can pick it up (unsubscribe, wizard_topic.go:60-73).
GoneIsUnbound == \A c \in Consumers, t \in Consumers :
    sub[c].pc \in {"closing", "gone"} => c \notin bindings[t]

\* Publish always returns, because full channels are drained or closed and
\* leaving consumers release a Send that waits for them, and so does Cancel, so
\* that a stopping consumer comes to close its channel (wizard_topic.go:31-73,
\* session.go:277-282).  The exception is a topic whose mutex Close left locked.
CallsReturn ==
    /\ \A p \in Publishers :
           pub[p].pc # "idle" ~> pub[p].pc = "idle" \/ pub[p].t \in leaked
    /\ \A c \in Consumers :
           sub[c].pc = "leaving" ~> sub[c].pc = "gone" \/ sub[c].t \in leaked

=============================================================================
