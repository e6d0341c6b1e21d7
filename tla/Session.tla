------------------------------ MODULE Session ------------------------------
(****************************************************************************)
(* The sessions of one agent on the backends: backend/agentd/session.go     *)
(* with the transport under it.  An agent that loses its connection opens a *)
(* new one, and the old session, which does not know yet, goes on beside    *)
(* the new.  Each session has a sender, a receiver, the goroutine of Start, *)
(* which subscribes it to the topics of the agent, and the goroutine that   *)
(* waits for its context and tears it down.  A scheduler publishes check    *)
(* requests to the topics; keepalived adds the agent to its rings for each  *)
(* keepalive, and every session that ends removes it.                       *)
(****************************************************************************)
EXTENDS Naturals

CONSTANTS NSessions,    \* bound: sessions that the agent opens
          NTopics,      \* subscriptions of the agent
          Cap,          \* capacity of a session's check channel
          MaxFaults     \* bound: failed receives, sends, handlers, subscriptions

ASSUME SessionAssumption == /\ NSessions \in Nat \ {0} /\ NTopics \in Nat \ {0}
                            /\ Cap \in Nat \ {0} /\ MaxFaults \in Nat

VARIABLES current,    \* the session that the agent is connected to, 0 if none
          opened,     \* sessions opened so far
          closed,     \* session -> whether its transport is marked as closed
          cancelled,  \* session -> whether its context is cancelled
          start,      \* session -> the topic that Start subscribes to next
          queued,     \* session -> subscriptions that wait to be cancelled
          bound,      \* session -> topics it is bound to on the bus
          sender, receiver, stopper,  \* session -> progress of the goroutines
          checks,     \* session -> requests in its check channel
          shut,       \* session -> whether its check channel is closed
          publish,    \* the scheduler's call of Publish
          keepalive,  \* whether a keepalive is on its way through keepalived
          inRing,     \* whether the agent is in its rings
          faults

conn == <<current, opened, closed>>
vars == <<conn, cancelled, start, queued, bound, sender, receiver, stopper, checks,
          shut, publish, keepalive, inRing, faults>>

Sessions == 1 .. NSessions
Topics == 1 .. NTopics
Started == NTopics + 1
StartFailed == NTopics + 2
Quiet == [topic |-> 0, left |-> {}, done |-> FALSE]

Init == /\ current = 0 /\ opened = 0
        /\ closed = [s \in Sessions |-> FALSE]
        /\ cancelled = [s \in Sessions |-> FALSE]
        /\ start = [s \in Sessions |-> 0]
        /\ queued = [s \in Sessions |-> {}]
        /\ bound = [s \in Sessions |-> {}]
        /\ sender = [s \in Sessions |-> "new"]
        /\ receiver = [s \in Sessions |-> "new"]
        /\ stopper = [s \in Sessions |-> "new"]
        /\ checks = [s \in Sessions |-> 0]
        /\ shut = [s \in Sessions |-> FALSE]
        /\ publish = Quiet
        /\ keepalive = FALSE /\ inRing = FALSE /\ faults = 0

Fault == faults < MaxFaults /\ faults' = faults + 1

-----------------------------------------------------------------------------
(* The agent and the network.                                               *)

\* The agent connects, and Start begins.
Connect ==
    /\ current = 0 /\ opened < NSessions
    /\ opened' = opened + 1 /\ current' = opened + 1
    /\ start' = [start EXCEPT ![opened + 1] = 1]
    /\ sender' = [sender EXCEPT ![opened + 1] = "select"]
    /\ receiver' = [receiver EXCEPT ![opened + 1] = "loop"]
    /\ stopper' = [stopper EXCEPT ![opened + 1] = "context"]
    /\ UNCHANGED <<closed, cancelled, queued, bound, checks, shut, publish, keepalive,
                   inRing, faults>>

\* The agent gives its connection up.
Disconnect ==
    /\ current # 0 /\ opened < NSessions
    /\ current' = 0
    /\ UNCHANGED <<opened, closed, cancelled, start, queued, bound, sender, receiver,
                   stopper, checks, shut, publish, keepalive, inRing, faults>>

-----------------------------------------------------------------------------
(* Start.                                                                   *)

Subscribe(s) ==
    /\ start[s] \in Topics
    /\ bound' = [bound EXCEPT ![s] = @ \cup {start[s]}]
    /\ queued' = [queued EXCEPT ![s] = @ \cup {start[s]}]
    /\ start' = [start EXCEPT ![s] = @ + 1]
    /\ UNCHANGED <<conn, cancelled, sender, receiver, stopper, checks, shut, publish,
                   keepalive, inRing, faults>>

\* The bus is not running any more: Start cancels the context, and leaves the
\* channel of subscriptions open.
SubscribeFail(s) ==
    /\ start[s] \in Topics
    /\ Fault
    /\ start' = [start EXCEPT ![s] = StartFailed]
    /\ cancelled' = [cancelled EXCEPT ![s] = TRUE]
    /\ UNCHANGED <<conn, queued, bound, sender, receiver, stopper, checks, shut, publish,
                   keepalive, inRing>>

-----------------------------------------------------------------------------
(* The receiver.                                                            *)

\* Mutant of ReceiverEnd: the context is left alone.
ReceiverEndQuiet(s) ==
    /\ receiver' = [receiver EXCEPT ![s] = "done"]
    /\ UNCHANGED cancelled

\* It ends, and cancels the context.
ReceiverEnd(s) ==
    /\ receiver' = [receiver EXCEPT ![s] = "done"]
    /\ cancelled' = [cancelled EXCEPT ![s] = TRUE]

\* The context and the transport are looked at before Receive blocks.
ReceiverLoop(s) ==
    /\ receiver[s] = "loop"
    /\ \/ (cancelled[s] \/ closed[s]) /\ ReceiverEnd(s)
       \/ /\ ~cancelled[s] /\ ~closed[s]
          /\ receiver' = [receiver EXCEPT ![s] = "read"]
          /\ UNCHANGED cancelled
    /\ UNCHANGED <<conn, start, queued, bound, sender, stopper, checks, shut, publish,
                   keepalive, inRing, faults>>

\* A message that cannot be decoded: Receive returns an error like any other, though
\* the connection is as it was.
ReceiveUndecodable(s) ==
    /\ receiver[s] = "read" /\ current = s
    /\ Fault
    /\ ReceiverEnd(s)
    /\ UNCHANGED <<conn, start, queued, bound, sender, stopper, checks, shut, publish,
                   keepalive, inRing>>

\* A message of the agent: all that matters here are its keepalives.
ReceiveMessage(s) ==
    /\ receiver[s] = "read" /\ current = s
    /\ keepalive' = TRUE
    /\ receiver' = [receiver EXCEPT ![s] = "loop"]
    /\ UNCHANGED <<conn, cancelled, start, queued, bound, sender, stopper, checks, shut,
                   publish, inRing, faults>>

\* The connection is gone.
ReceiveError(s) ==
    /\ receiver[s] = "read" /\ current # s
    /\ closed' = [closed EXCEPT ![s] = TRUE]
    /\ ReceiverEnd(s)
    /\ UNCHANGED <<current, opened, start, queued, bound, sender, stopper, checks, shut,
                   publish, keepalive, inRing, faults>>

\* A message that cannot be handled for an error of the store: the session is
\* stopped from a goroutine of its own.
HandleFail(s) ==
    /\ receiver[s] = "read" /\ current = s
    /\ Fault
    /\ cancelled' = [cancelled EXCEPT ![s] = TRUE]
    /\ receiver' = [receiver EXCEPT ![s] = "loop"]
    /\ UNCHANGED <<conn, start, queued, bound, sender, stopper, checks, shut, publish,
                   keepalive, inRing>>

-----------------------------------------------------------------------------
(* The sender.                                                              *)

SenderEnd(s) ==
    /\ sender' = [sender EXCEPT ![s] = "done"]
    /\ cancelled' = [cancelled EXCEPT ![s] = TRUE]

SenderCancelled(s) ==
    /\ sender[s] = "select" /\ cancelled[s]
    /\ SenderEnd(s)
    /\ UNCHANGED <<conn, start, queued, bound, receiver, stopper, checks, shut, publish,
                   keepalive, inRing, faults>>

\* The sender takes a request and sends it; a send to a connection that is gone
\* may still succeed.
SendOK(s) ==
    /\ sender[s] = "select" /\ checks[s] > 0 /\ ~closed[s]
    /\ checks' = [checks EXCEPT ![s] = @ - 1]
    /\ UNCHANGED <<conn, cancelled, start, queued, bound, sender, receiver, stopper, shut,
                   publish, keepalive, inRing, faults>>

SendError(s) ==
    /\ sender[s] = "select" /\ checks[s] > 0
    /\ IF current = s THEN Fault ELSE UNCHANGED faults
    /\ checks' = [checks EXCEPT ![s] = @ - 1]
    /\ closed' = [closed EXCEPT ![s] = TRUE]
    /\ SenderEnd(s)
    /\ UNCHANGED <<current, opened, start, queued, bound, receiver, stopper, shut, publish,
                   keepalive, inRing>>

-----------------------------------------------------------------------------
(* stop, when the context is done.                                          *)

StopperGoTo(s, stage) == stopper' = [stopper EXCEPT ![s] = stage]

\* wg.Wait: both goroutines have ended.
StopWait(s) ==
    /\ stopper[s] = "context" /\ cancelled[s]
    /\ sender[s] = "done" /\ receiver[s] = "done"
    /\ StopperGoTo(s, "unsubscribe")
    /\ UNCHANGED <<conn, cancelled, start, queued, bound, sender, receiver, checks, shut,
                   publish, keepalive, inRing, faults>>

\* Cancel of the next subscription.  A topic that nobody is bound to any more is
\* closed, and a Send on it lets go.
StopUnsubscribe(s, t) ==
    /\ stopper[s] = "unsubscribe" /\ t \in queued[s]
    /\ queued' = [queued EXCEPT ![s] = @ \ {t}]
    /\ bound' = [bound EXCEPT ![s] = @ \ {t}]
    /\ publish' = IF publish.topic = t /\ \A x \in Sessions : t \notin bound'[x]
                     THEN [publish EXCEPT !.done = TRUE] ELSE publish
    /\ UNCHANGED <<conn, cancelled, start, sender, receiver, stopper, checks, shut,
                   keepalive, inRing, faults>>

\* Mutant of StopClose: the subscriptions are not waited for.
StopCloseEarly(s) ==
    /\ stopper[s] = "unsubscribe" /\ queued[s] = {}
    /\ shut' = [shut EXCEPT ![s] = TRUE]
    /\ StopperGoTo(s, "ring")
    /\ UNCHANGED <<conn, cancelled, start, queued, bound, sender, receiver, checks,
                   publish, keepalive, inRing, faults>>

\* The channel of subscriptions is empty and was closed by Start: the check
\* channel is closed.
StopClose(s) ==
    /\ stopper[s] = "unsubscribe" /\ queued[s] = {} /\ start[s] = Started
    /\ shut' = [shut EXCEPT ![s] = TRUE]
    /\ StopperGoTo(s, "ring")
    /\ UNCHANGED <<conn, cancelled, start, queued, bound, sender, receiver, checks,
                   publish, keepalive, inRing, faults>>

StopRing(s) ==
    /\ stopper[s] = "ring"
    /\ inRing' = FALSE
    /\ StopperGoTo(s, "close")
    /\ UNCHANGED <<conn, cancelled, start, queued, bound, sender, receiver, checks, shut,
                   publish, keepalive, faults>>

\* The connection is closed, and an agent that still uses it sees that.
StopConn(s) ==
    /\ stopper[s] = "close"
    /\ closed' = [closed EXCEPT ![s] = TRUE]
    /\ current' = IF current = s THEN 0 ELSE current
    /\ StopperGoTo(s, "done")
    /\ UNCHANGED <<opened, cancelled, start, queued, bound, sender, receiver, checks,
                   shut, publish, keepalive, inRing, faults>>

-----------------------------------------------------------------------------
(* The scheduler and keepalived.                                            *)

\* Publish copies the bindings of the topic, and then serves them one by one.
PublishBegin(t) ==
    /\ publish = Quiet
    /\ \E s \in Sessions : t \in bound[s]
    /\ publish' = [topic |-> t, left |-> {s \in Sessions : t \in bound[s]}, done |-> FALSE]
    /\ UNCHANGED <<conn, cancelled, start, queued, bound, sender, receiver, stopper, checks,
                   shut, keepalive, inRing, faults>>

\* The call without s; it returns after the last.
Served(s) == IF publish.left = {s} THEN Quiet ELSE [publish EXCEPT !.left = @ \ {s}]

PublishSend(s) ==
    /\ s \in publish.left
    /\ ~shut[s] /\ checks[s] < Cap
    /\ checks' = [checks EXCEPT ![s] = @ + 1]
    /\ publish' = Served(s)
    /\ UNCHANGED <<conn, cancelled, start, queued, bound, sender, receiver, stopper, shut,
                   keepalive, inRing, faults>>

\* Mutant of PublishSkip: only a closed topic lets a Send go.
PublishSkipTopic(s) ==
    /\ s \in publish.left
    /\ publish.done
    /\ publish' = Served(s)
    /\ UNCHANGED <<conn, cancelled, start, queued, bound, sender, receiver, stopper, checks,
                   shut, keepalive, inRing, faults>>

\* The channel was closed (the panic is caught), or the topic was.
PublishSkip(s) ==
    /\ s \in publish.left
    /\ shut[s] \/ publish.done
    /\ publish' = Served(s)
    /\ UNCHANGED <<conn, cancelled, start, queued, bound, sender, receiver, stopper, checks,
                   shut, keepalive, inRing, faults>>

\* Mutant of Keepalived: only the keepalive that registers the agent adds it.
KeepalivedOnce ==
    /\ keepalive
    /\ keepalive' = FALSE /\ inRing' = (inRing \/ opened = 1)
    /\ UNCHANGED <<conn, cancelled, start, queued, bound, sender, receiver, stopper, checks,
                   shut, publish, faults>>

\* keepalived adds the agent to its rings.
Keepalived ==
    /\ keepalive
    /\ keepalive' = FALSE /\ inRing' = TRUE
    /\ UNCHANGED <<conn, cancelled, start, queued, bound, sender, receiver, stopper, checks,
                   shut, publish, faults>>

-----------------------------------------------------------------------------
ReceiverStep(s) == ReceiverLoop(s) \/ ReceiveMessage(s) \/ ReceiveError(s)
SenderStep(s) == SenderCancelled(s) \/ SendOK(s) \/ SendError(s)
StopStep(s) == \/ StopWait(s) \/ StopClose(s) \/ StopRing(s) \/ StopConn(s)
               \/ \E t \in Topics : StopUnsubscribe(s, t)
PublishStep == \E s \in Sessions : PublishSend(s) \/ PublishSkip(s)

Next ==
    \/ Connect \/ Disconnect
    \/ \E s \in Sessions :
         \/ Subscribe(s) \/ SubscribeFail(s)
         \/ ReceiverStep(s) \/ ReceiveUndecodable(s) \/ HandleFail(s)
         \/ SenderStep(s) \/ StopStep(s)
    \/ \E t \in Topics : PublishBegin(t)
    \/ PublishStep \/ Keepalived

\* Goroutines go on.  A Receive returns in the end: the agent sends keepalives, or
\* its connection is gone and the operating system finds out.  A select with
\* several cases ready takes each of them in the end, hence SF.
Fairness ==
    /\ \A s \in Sessions : /\ WF_vars(Subscribe(s)) /\ WF_vars(ReceiverStep(s))
                           /\ WF_vars(SenderStep(s)) /\ SF_vars(SenderCancelled(s))
                           /\ WF_vars(StopStep(s))
    /\ WF_vars(Connect) /\ WF_vars(PublishStep) /\ WF_vars(Keepalived)

Spec == Init /\ [][Next]_vars
FairSpec == Spec /\ Fairness

-----------------------------------------------------------------------------
(* Properties.                                                              *)

\* Every variable has its type; no check channel exceeds its capacity.
TypeOK ==
    /\ current \in 0 .. NSessions /\ opened \in 0 .. NSessions
    /\ closed \in [Sessions -> BOOLEAN] /\ cancelled \in [Sessions -> BOOLEAN]
    /\ start \in [Sessions -> 0 .. StartFailed]
    /\ queued \in [Sessions -> SUBSET Topics] /\ bound \in [Sessions -> SUBSET Topics]
    /\ sender \in [Sessions -> {"new", "select", "done"}]
    /\ receiver \in [Sessions -> {"new", "loop", "read", "done"}]
    /\ stopper \in [Sessions -> {"new", "context", "unsubscribe", "ring", "close", "done"}]
    /\ checks \in [Sessions -> 0 .. Cap] /\ shut \in [Sessions -> BOOLEAN]
    /\ publish \in [topic : 0 .. NTopics, left : SUBSET Sessions, done : BOOLEAN]
    /\ keepalive \in BOOLEAN /\ inRing \in BOOLEAN /\ faults \in 0 .. MaxFaults

\* A session that closed its check channel is bound to no topic, although Start
\* may still be subscribing while stop cancels (session.go:235-254, 277-283).
NothingLeftBound == \A s \in Sessions : shut[s] => bound[s] = {}

\* The session that the agent is connected to still reads its messages, or is being
\* torn down and has yet to close the connection: an agent never hangs on a session
\* whose receiver ended, for whatever reason, and left the connection open
\* (session.go:134-212, 266-306).
AgentIsServed == current # 0 =>
    \/ receiver[current] \in {"loop", "read"}
    \/ cancelled[current] /\ stopper[current] \in {"context", "unsubscribe", "ring", "close"}

\* A session whose agent is gone, or whose sender failed, ends: off the bus, its
\* connection closed, although stop waits for a receiver that is blocked on the
\* connection stop has yet to close (session.go:266-283).  One whose Start
\* failed never does: nobody closes its channel of subscriptions.
SessionEnds == \A s \in Sessions :
    cancelled[s] \/ (start[s] # 0 /\ current # s)
        ~> stopper[s] = "done" \/ start[s] = StartFailed

\* A Publish that waits for the full channel of a session that does not send any
\* more gets away, for the sake of all the other subscribers of its topic
\* (wizard_topic.go:17-45, session.go:283), unless the Start of a session failed.
PublishReturns == publish # Quiet ~>
    publish = Quiet \/ \E s \in Sessions : start[s] = StartFailed

\* An agent that stays connected ends up in its rings for good, although an old
\* session removes it when the new one has already added it (session.go:288-305):
\* every keepalive adds it again.
StaysInRing == <>[](current # 0 /\ start[current] # StartFailed) => <>[]inRing

=============================================================================
