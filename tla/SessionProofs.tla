---------------------------- MODULE SessionProofs ----------------------------
(****************************************************************************)
(* Proofs about Session, for any number of sessions and topics, any         *)
(* capacity of the check channels and any number of faults.                 *)
(****************************************************************************)
EXTENDS Session, TLAPS

\* The channel of subscriptions and the bus say the same, and stop gets past the
\* channel only when Start has closed it and it is empty.
Subscriptions == \A s \in Sessions :
    /\ bound[s] = queued[s]
    /\ shut[s] => start[s] = Started /\ queued[s] = {}

\* How far stop is says what it has waited for.
StopOrder == \A s \in Sessions :
    /\ stopper[s] \in {"unsubscribe", "ring", "close", "done"} =>
         cancelled[s] /\ sender[s] = "done" /\ receiver[s] = "done"
    /\ stopper[s] \in {"ring", "close", "done"} => shut[s]
    /\ stopper[s] = "done" => closed[s] /\ current # s
    /\ stopper[s] = "new" <=> s > opened
    /\ s > opened => start[s] = 0

\* The inductive invariant.
Inv == TypeOK /\ Subscriptions /\ StopOrder

\* A session that is done has left nothing behind: its goroutines have ended, it
\* is bound to no topic, nothing more goes into its check channel, and the agent
\* is not connected to it (session.go:266-312).
EndedIsClean == \A s \in Sessions : stopper[s] = "done" =>
    /\ sender[s] = "done" /\ receiver[s] = "done" /\ cancelled[s]
    /\ bound[s] = {} /\ queued[s] = {} /\ shut[s]
    /\ closed[s] /\ current # s

\* The numbers of sessions, topics and stages.
LEMMA Numbers ==
    /\ Sessions \subseteq Nat \ {0} /\ Topics \subseteq Nat \ {0}
    /\ 0 \notin Sessions /\ NSessions \in Nat
    /\ Started \notin Topics /\ StartFailed \notin Topics /\ Started # StartFailed
    /\ Started # 0 /\ StartFailed # 0 /\ 0 \notin Topics
    /\ Started \in 0 .. StartFailed /\ StartFailed \in 0 .. StartFailed
    /\ \A t \in Topics : t \in 0 .. NTopics /\ t \in 0 .. StartFailed /\ t + 1 \in 0 .. StartFailed
    /\ \A n \in 0 .. NSessions : n < NSessions => n + 1 \in Sessions /\ n + 1 \in 0 .. NSessions
    /\ \A n \in 0 .. NSessions, s \in Sessions : s > n <=> s = n + 1 \/ s > n + 1
    /\ \A s \in Sessions : s \in 0 .. NSessions /\ s \in Nat
  BY SessionAssumption DEF Sessions, Topics, Started, StartFailed

\* The initial state satisfies the invariant.
LEMMA InitInv == Init => Inv
  <1> SUFFICES ASSUME Init PROVE Inv
    OBVIOUS
  <1>1. TypeOK
    <2>1. /\ current \in 0 .. NSessions /\ opened \in 0 .. NSessions
          /\ start \in [Sessions -> 0 .. StartFailed] /\ checks \in [Sessions -> 0 .. Cap]
          /\ faults \in 0 .. MaxFaults
      BY SessionAssumption DEF Init, StartFailed
    <2>2. publish \in [topic : 0 .. NTopics, left : SUBSET Sessions, done : BOOLEAN]
      BY SessionAssumption DEF Init, Quiet
    <2>3. keepalive \in BOOLEAN /\ inRing \in BOOLEAN
      BY Zenon DEF Init
    <2>4. /\ closed \in [Sessions -> BOOLEAN] /\ cancelled \in [Sessions -> BOOLEAN]
          /\ shut \in [Sessions -> BOOLEAN]
      BY DEF Init
    <2>5. /\ queued \in [Sessions -> SUBSET Topics] /\ bound \in [Sessions -> SUBSET Topics]
          /\ sender \in [Sessions -> {"new", "select", "done"}]
          /\ receiver \in [Sessions -> {"new", "loop", "read", "done"}]
          /\ stopper \in [Sessions -> {"new", "context", "unsubscribe", "ring", "close", "done"}]
      BY DEF Init
    <2> QED BY <2>1, <2>2, <2>3, <2>4, <2>5 DEF TypeOK
  <1>2. Subscriptions /\ StopOrder
    BY Numbers DEF Init, Subscriptions, StopOrder
  <1> QED BY <1>1, <1>2 DEF Inv

\* Connecting opens the next session.
LEMMA ConnectInv == ASSUME Inv, Connect PROVE Inv'
  <1> USE DEF Connect
  <1>1. TypeOK'
    BY Numbers DEF Inv, TypeOK
  <1>2. Subscriptions'
    BY Numbers DEF Inv, TypeOK, Subscriptions, StopOrder
  <1>3. StopOrder'
    BY Numbers DEF Inv, TypeOK, StopOrder
  <1> QED BY <1>1, <1>2, <1>3 DEF Inv

\* The agent leaves its session.
LEMMA DisconnectInv == ASSUME Inv, Disconnect PROVE Inv'
  <1> USE DEF Disconnect, conn
  <1>1. TypeOK'
    BY Numbers, SessionAssumption DEF Inv, TypeOK
  <1>2. Subscriptions'
    BY Numbers DEF Inv, TypeOK, Subscriptions, StopOrder
  <1>3. StopOrder'
    BY Numbers DEF Inv, TypeOK, StopOrder
  <1> QED BY <1>1, <1>2, <1>3 DEF Inv

\* Start adds to the channel what it binds.
LEMMA SubscribeInv == ASSUME Inv, NEW s \in Sessions, Subscribe(s) PROVE Inv'
  <1> USE DEF Subscribe, conn
  <1>1. TypeOK'
    BY Numbers, SessionAssumption DEF Inv, TypeOK
  <1>2. Subscriptions'
    <2>1. ~shut[s] /\ bound'[s] = bound[s] \cup {start[s]} /\ queued'[s] = queued[s] \cup {start[s]}
      BY Numbers DEF Inv, TypeOK, Subscriptions
    <2>2. \A x \in Sessions \ {s} : /\ bound'[x] = bound[x] /\ queued'[x] = queued[x]
                                    /\ start'[x] = start[x]
      BY DEF Inv, TypeOK
    <2> QED BY <2>1, <2>2 DEF Inv, Subscriptions
  <1>3. StopOrder'
    BY Numbers DEF Inv, TypeOK, StopOrder
  <1> QED BY <1>1, <1>2, <1>3 DEF Inv

\* A failed Start leaves the channel open for good.
LEMMA SubscribeFailInv == ASSUME Inv, NEW s \in Sessions, SubscribeFail(s) PROVE Inv'
  <1> USE DEF SubscribeFail, conn, Fault
  <1>1. TypeOK'
    BY Numbers, SessionAssumption DEF Inv, TypeOK
  <1>2. Subscriptions'
    BY Numbers DEF Inv, TypeOK, Subscriptions, StopOrder
  <1>3. StopOrder'
    BY Numbers DEF Inv, TypeOK, StopOrder
  <1> QED BY <1>1, <1>2, <1>3 DEF Inv

\* The receiver ends, or goes on to read.
LEMMA ReceiverLoopInv == ASSUME Inv, NEW s \in Sessions, ReceiverLoop(s) PROVE Inv'
  <1> USE DEF ReceiverLoop, conn, ReceiverEnd
  <1>1. TypeOK'
    <2>1. /\ receiver' \in [Sessions -> {"new", "loop", "read", "done"}]
          /\ cancelled' \in [Sessions -> BOOLEAN]
      BY DEF Inv, TypeOK
    <2> QED BY <2>1 DEF Inv, TypeOK
  <1>2. Subscriptions'
    BY Numbers DEF Inv, TypeOK, Subscriptions, StopOrder
  <1>3. StopOrder'
    BY Numbers DEF Inv, TypeOK, StopOrder
  <1> QED BY <1>1, <1>2, <1>3 DEF Inv

\* The receiver hands a message on.
LEMMA ReceiveMessageInv == ASSUME Inv, NEW s \in Sessions, ReceiveMessage(s) PROVE Inv'
  <1> USE DEF ReceiveMessage, conn
  <1>1. TypeOK'
    BY Numbers, SessionAssumption DEF Inv, TypeOK
  <1>2. Subscriptions'
    BY Numbers DEF Inv, TypeOK, Subscriptions, StopOrder
  <1>3. StopOrder'
    BY Numbers DEF Inv, TypeOK, StopOrder
  <1> QED BY <1>1, <1>2, <1>3 DEF Inv

\* The receiver ends on an error.
LEMMA ReceiveErrorInv == ASSUME Inv, NEW s \in Sessions, ReceiveError(s) PROVE Inv'
  <1> USE DEF ReceiveError, conn, ReceiverEnd
  <1>1. TypeOK'
    BY Numbers, SessionAssumption DEF Inv, TypeOK
  <1>2. Subscriptions'
    BY Numbers DEF Inv, TypeOK, Subscriptions, StopOrder
  <1>3. StopOrder'
    BY Numbers DEF Inv, TypeOK, StopOrder
  <1> QED BY <1>1, <1>2, <1>3 DEF Inv

\* The receiver ends on a message that it cannot decode.
LEMMA ReceiveUndecodableInv ==
    ASSUME Inv, NEW s \in Sessions, ReceiveUndecodable(s) PROVE Inv'
  <1> USE DEF ReceiveUndecodable, conn, Fault, ReceiverEnd
  <1>1. TypeOK'
    BY Numbers, SessionAssumption DEF Inv, TypeOK
  <1>2. Subscriptions'
    BY Numbers DEF Inv, TypeOK, Subscriptions, StopOrder
  <1>3. StopOrder'
    BY Numbers DEF Inv, TypeOK, StopOrder
  <1> QED BY <1>1, <1>2, <1>3 DEF Inv

\* A failed handler stops the session.
LEMMA HandleFailInv == ASSUME Inv, NEW s \in Sessions, HandleFail(s) PROVE Inv'
  <1> USE DEF HandleFail, conn, Fault
  <1>1. TypeOK'
    BY Numbers, SessionAssumption DEF Inv, TypeOK
  <1>2. Subscriptions'
    BY Numbers DEF Inv, TypeOK, Subscriptions, StopOrder
  <1>3. StopOrder'
    BY Numbers DEF Inv, TypeOK, StopOrder
  <1> QED BY <1>1, <1>2, <1>3 DEF Inv

\* The sender ends with the context.
LEMMA SenderCancelledInv == ASSUME Inv, NEW s \in Sessions, SenderCancelled(s) PROVE Inv'
  <1> USE DEF SenderCancelled, conn, SenderEnd
  <1>1. TypeOK'
    BY Numbers, SessionAssumption DEF Inv, TypeOK
  <1>2. Subscriptions'
    BY Numbers DEF Inv, TypeOK, Subscriptions, StopOrder
  <1>3. StopOrder'
    BY Numbers DEF Inv, TypeOK, StopOrder
  <1> QED BY <1>1, <1>2, <1>3 DEF Inv

\* The sender takes a request from the channel.
LEMMA SendOKInv == ASSUME Inv, NEW s \in Sessions, SendOK(s) PROVE Inv'
  <1> USE DEF SendOK, conn
  <1>1. TypeOK'
    BY Numbers, SessionAssumption DEF Inv, TypeOK
  <1>2. Subscriptions'
    BY Numbers DEF Inv, TypeOK, Subscriptions, StopOrder
  <1>3. StopOrder'
    BY Numbers DEF Inv, TypeOK, StopOrder
  <1> QED BY <1>1, <1>2, <1>3 DEF Inv

\* The sender ends on an error.
LEMMA SendErrorInv == ASSUME Inv, NEW s \in Sessions, SendError(s) PROVE Inv'
  <1> USE DEF SendError, conn, SenderEnd, Fault
  <1>1. TypeOK'
    BY Numbers, SessionAssumption DEF Inv, TypeOK
  <1>2. Subscriptions'
    BY Numbers DEF Inv, TypeOK, Subscriptions, StopOrder
  <1>3. StopOrder'
    BY Numbers DEF Inv, TypeOK, StopOrder
  <1> QED BY <1>1, <1>2, <1>3 DEF Inv

\* Stop has waited for both goroutines.
LEMMA StopWaitInv == ASSUME Inv, NEW s \in Sessions, StopWait(s) PROVE Inv'
  <1> USE DEF StopWait, conn, StopperGoTo
  <1>1. TypeOK'
    BY Numbers, SessionAssumption DEF Inv, TypeOK
  <1>2. Subscriptions'
    BY Numbers DEF Inv, TypeOK, Subscriptions, StopOrder
  <1>3. StopOrder'
    BY Numbers DEF Inv, TypeOK, StopOrder
  <1> QED BY <1>1, <1>2, <1>3 DEF Inv

\* Stop takes a subscription off the channel and off the bus.
LEMMA StopUnsubscribeInv == ASSUME Inv, NEW s \in Sessions, NEW t \in Topics, StopUnsubscribe(s, t) PROVE Inv'
  <1> USE DEF StopUnsubscribe, conn
  <1>1. TypeOK'
    <2>1. publish' \in [topic : 0 .. NTopics, left : SUBSET Sessions, done : BOOLEAN]
      BY DEF Inv, TypeOK
    <2>2. queued' \in [Sessions -> SUBSET Topics] /\ bound' \in [Sessions -> SUBSET Topics]
      BY DEF Inv, TypeOK
    <2> QED BY <2>1, <2>2 DEF Inv, TypeOK
  <1>2. Subscriptions'
    <2>1. bound'[s] = bound[s] \ {t} /\ queued'[s] = queued[s] \ {t}
      BY DEF Inv, TypeOK
    <2>2. \A x \in Sessions \ {s} : bound'[x] = bound[x] /\ queued'[x] = queued[x]
      BY DEF Inv, TypeOK
    <2> QED BY <2>1, <2>2 DEF Inv, Subscriptions
  <1>3. StopOrder'
    BY Numbers DEF Inv, TypeOK, StopOrder
  <1> QED BY <1>1, <1>2, <1>3 DEF Inv

\* Stop gets past the channel of subscriptions.
LEMMA StopCloseInv == ASSUME Inv, NEW s \in Sessions, StopClose(s) PROVE Inv'
  <1> USE DEF StopClose, conn, StopperGoTo
  <1>1. TypeOK'
    BY Numbers, SessionAssumption DEF Inv, TypeOK
  <1>2. Subscriptions'
    BY Numbers DEF Inv, TypeOK, Subscriptions, StopOrder
  <1>3. StopOrder'
    BY Numbers DEF Inv, TypeOK, StopOrder
  <1> QED BY <1>1, <1>2, <1>3 DEF Inv

\* Stop removes the agent from its rings.
LEMMA StopRingInv == ASSUME Inv, NEW s \in Sessions, StopRing(s) PROVE Inv'
  <1> USE DEF StopRing, conn, StopperGoTo
  <1>1. TypeOK'
    BY Numbers, SessionAssumption DEF Inv, TypeOK
  <1>2. Subscriptions'
    BY Numbers DEF Inv, TypeOK, Subscriptions, StopOrder
  <1>3. StopOrder'
    BY Numbers DEF Inv, TypeOK, StopOrder
  <1> QED BY <1>1, <1>2, <1>3 DEF Inv

\* Stop closes the connection.
LEMMA StopConnInv == ASSUME Inv, NEW s \in Sessions, StopConn(s) PROVE Inv'
  <1> USE DEF StopConn, conn, StopperGoTo
  <1>1. TypeOK'
    BY Numbers, SessionAssumption DEF Inv, TypeOK
  <1>2. Subscriptions'
    BY Numbers DEF Inv, TypeOK, Subscriptions, StopOrder
  <1>3. StopOrder'
    BY Numbers DEF Inv, TypeOK, StopOrder
  <1> QED BY <1>1, <1>2, <1>3 DEF Inv

\* Publish copies the bindings.
LEMMA PublishBeginInv == ASSUME Inv, NEW t \in Topics, PublishBegin(t) PROVE Inv'
  <1> USE DEF PublishBegin, conn
  <1>1. TypeOK'
    BY Numbers, SessionAssumption DEF Inv, TypeOK
  <1>2. Subscriptions'
    BY Numbers DEF Inv, TypeOK, Subscriptions, StopOrder
  <1>3. StopOrder'
    BY Numbers DEF Inv, TypeOK, StopOrder
  <1> QED BY <1>1, <1>2, <1>3 DEF Inv

\* Publish fills a check channel.
LEMMA PublishSendInv == ASSUME Inv, NEW s \in Sessions, PublishSend(s) PROVE Inv'
  <1> USE DEF PublishSend, conn, Served, Quiet
  <1>1. TypeOK'
    <2>1. publish' \in [topic : 0 .. NTopics, left : SUBSET Sessions, done : BOOLEAN]
      BY SessionAssumption DEF Inv, TypeOK
    <2> QED BY <2>1, SessionAssumption DEF Inv, TypeOK
  <1>2. Subscriptions'
    BY Numbers DEF Inv, TypeOK, Subscriptions, StopOrder
  <1>3. StopOrder'
    BY Numbers DEF Inv, TypeOK, StopOrder
  <1> QED BY <1>1, <1>2, <1>3 DEF Inv

\* Publish passes a session over.
LEMMA PublishSkipInv == ASSUME Inv, NEW s \in Sessions, PublishSkip(s) PROVE Inv'
  <1> USE DEF PublishSkip, conn, Served, Quiet
  <1>1. TypeOK'
    <2>1. publish' \in [topic : 0 .. NTopics, left : SUBSET Sessions, done : BOOLEAN]
      BY SessionAssumption DEF Inv, TypeOK
    <2> QED BY <2>1, SessionAssumption DEF Inv, TypeOK
  <1>2. Subscriptions'
    BY Numbers DEF Inv, TypeOK, Subscriptions, StopOrder
  <1>3. StopOrder'
    BY Numbers DEF Inv, TypeOK, StopOrder
  <1> QED BY <1>1, <1>2, <1>3 DEF Inv

\* keepalived touches the rings only.
LEMMA KeepalivedInv == ASSUME Inv, Keepalived PROVE Inv'
  <1> USE DEF Keepalived, conn
  <1>1. TypeOK'
    BY Numbers, SessionAssumption DEF Inv, TypeOK
  <1>2. Subscriptions'
    BY Numbers DEF Inv, TypeOK, Subscriptions, StopOrder
  <1>3. StopOrder'
    BY Numbers DEF Inv, TypeOK, StopOrder
  <1> QED BY <1>1, <1>2, <1>3 DEF Inv

-----------------------------------------------------------------------------
\* Every step preserves the invariant.
LEMMA NextInv == Inv /\ [Next]_vars => Inv'
  <1> SUFFICES ASSUME Inv, [Next]_vars PROVE Inv'
    OBVIOUS
  <1>1. CASE Connect \/ Disconnect \/ Keepalived
    BY <1>1, ConnectInv, DisconnectInv, KeepalivedInv
  <1>2. CASE \E s \in Sessions : Subscribe(s) \/ SubscribeFail(s)
    BY <1>2, SubscribeInv, SubscribeFailInv
  <1>3. CASE \E s \in Sessions : ReceiverStep(s) \/ ReceiveUndecodable(s) \/ HandleFail(s)
    BY <1>3, ReceiverLoopInv, ReceiveMessageInv, ReceiveErrorInv, ReceiveUndecodableInv,
       HandleFailInv DEF ReceiverStep
  <1>4. CASE \E s \in Sessions : SenderStep(s)
    BY <1>4, SenderCancelledInv, SendOKInv, SendErrorInv DEF SenderStep
  <1>5. CASE \E s \in Sessions : StopStep(s)
    BY <1>5, StopWaitInv, StopUnsubscribeInv, StopCloseInv, StopRingInv, StopConnInv DEF StopStep
  <1>6. CASE PublishStep \/ \E t \in Topics : PublishBegin(t)
    BY <1>6, PublishBeginInv, PublishSendInv, PublishSkipInv DEF PublishStep
  <1>7. CASE UNCHANGED vars
    BY <1>7 DEF Inv, TypeOK, Subscriptions, StopOrder, vars, conn
  <1> QED BY <1>1, <1>2, <1>3, <1>4, <1>5, <1>6, <1>7 DEF Next

\* The invariant holds.
LEMMA Invariance == Spec => []Inv
  BY InitInv, NextInv, PTL DEF Spec

\* Every variable of the sessions keeps its type, and no check channel holds more
\* than its capacity.
THEOREM TypeCorrect == Spec => []TypeOK
  BY Invariance, PTL DEF Inv

\* A session that closed its check channel is bound to no topic: Start, which may
\* still be subscribing while stop cancels, has ended before.
THEOREM ClosedIsUnbound == Spec => []NothingLeftBound
  <1>1. Inv => NothingLeftBound
    BY DEF Inv, Subscriptions, NothingLeftBound
  <1> QED BY <1>1, Invariance, PTL

\* A session that is done has ended its goroutines, is bound to nothing, takes no
\* more requests and has no agent.
THEOREM EndedLeavesNothing == Spec => []EndedIsClean
  <1>1. Inv => EndedIsClean
    BY DEF Inv, Subscriptions, StopOrder, EndedIsClean
  <1> QED BY <1>1, Invariance, PTL


-----------------------------------------------------------------------------
(* Who serves the agent, and who lets a Publish go.                         *)

\* A goroutine that ended has cancelled the context, and there is nothing to find
\* of a session that was not opened.
Ends == \A s \in Sessions :
    /\ sender[s] = "done" \/ receiver[s] = "done" => cancelled[s]
    /\ sender[s] = "new" \/ receiver[s] = "new" => s > opened
    /\ bound[s] # {} \/ s \in publish.left \/ current = s => s <= opened

\* A session that a Publish waits for still takes requests off its channel, or has a
\* stop that is to close it, or the wait is over already (wizard_topic.go:17-45,
\* session.go:266-282).
PublishIsLetGo == \A s \in publish.left :
    \/ shut[s] \/ publish.done
    \/ sender[s] = "select"
    \/ cancelled[s] /\ stopper[s] \in {"context", "unsubscribe"}

\* The agent and the goroutines of a session.
LEMMA SessionEndsStep ==
    ASSUME Inv, Ends, NEW s \in Sessions,
           \/ Subscribe(s) \/ SubscribeFail(s) \/ ReceiverStep(s)
           \/ ReceiveUndecodable(s) \/ HandleFail(s)
           \/ SenderStep(s) \/ StopStep(s)
    PROVE  Ends'
  <1> USE DEF Inv, conn
  <1>0. /\ sender \in [Sessions -> {"new", "select", "done"}]
        /\ receiver \in [Sessions -> {"new", "loop", "read", "done"}]
        /\ cancelled \in [Sessions -> BOOLEAN] /\ bound \in [Sessions -> SUBSET Topics]
    BY DEF TypeOK
  <1>1. CASE Subscribe(s)
    <2>1. s <= opened
      BY <1>1, Numbers DEF Subscribe, StopOrder, TypeOK
    <2> QED BY <1>0, <1>1, <2>1 DEF Subscribe, Ends
  <1>2. CASE SubscribeFail(s)
    BY <1>0, <1>2 DEF SubscribeFail, Ends
  <1>3. CASE ReceiverLoop(s)
    BY <1>0, <1>3 DEF ReceiverLoop, ReceiverEnd, Ends
  <1>4. CASE ReceiveMessage(s) \/ ReceiveError(s)
    BY <1>0, <1>4 DEF ReceiveMessage, ReceiveError, ReceiverEnd, Ends
  <1>5. CASE ReceiveUndecodable(s) \/ HandleFail(s)
    BY <1>0, <1>5 DEF ReceiveUndecodable, ReceiverEnd, HandleFail, Ends
  <1>6. CASE SenderCancelled(s) \/ SendOK(s) \/ SendError(s)
    BY <1>0, <1>6 DEF SenderCancelled, SendOK, SendError, SenderEnd, Ends
  <1>7. CASE StopWait(s) \/ StopClose(s) \/ StopRing(s) \/ StopConn(s)
    <2>1. /\ UNCHANGED <<sender, receiver, cancelled, bound, publish, opened>>
          /\ current' = current \/ current' = 0
      BY <1>7 DEF StopWait, StopClose, StopRing, StopConn
    <2> QED BY <2>1, Numbers DEF Ends
  <1>8. ASSUME NEW t \in Topics, StopUnsubscribe(s, t)
        PROVE  Ends'
    <2>1. /\ UNCHANGED <<sender, receiver, cancelled, current, opened>>
          /\ \A x \in Sessions : bound'[x] # {} => bound[x] # {}
      BY <1>0, <1>8 DEF StopUnsubscribe
    <2>2. publish'.left = publish.left
      BY <1>8 DEF StopUnsubscribe, TypeOK
    <2> QED BY <2>1, <2>2 DEF Ends
  <1> QED BY <1>1, <1>2, <1>3, <1>4, <1>5, <1>6, <1>7, <1>8 DEF ReceiverStep, SenderStep, StopStep

\* Every step.
LEMMA NextEnds == Inv /\ Ends /\ [Next]_vars => Ends'
  <1> SUFFICES ASSUME Inv, Ends, [Next]_vars PROVE Ends'
    OBVIOUS
  <1> USE DEF Inv, conn
  <1>1. CASE Connect
    <2>1. /\ opened' = opened + 1 /\ current' = opened + 1 /\ opened \in Nat
          /\ \A s \in Sessions : s # opened + 1 => sender'[s] = sender[s] /\ receiver'[s] = receiver[s]
          /\ UNCHANGED <<cancelled, bound, publish>>
      BY <1>1, SessionAssumption DEF Connect, TypeOK
    <2>2. \A s \in Sessions : s = opened + 1 => sender'[s] = "select" /\ receiver'[s] = "loop"
      BY <1>1 DEF Connect, TypeOK
    <2>3. \A s \in Sessions : s \in Nat
      BY Numbers
    <2> QED BY <2>1, <2>2, <2>3 DEF Ends
  <1>2. CASE Disconnect \/ Keepalived
    <2>1. /\ UNCHANGED <<sender, receiver, cancelled, bound, publish, opened>>
          /\ current' = current \/ current' = 0
      BY <1>2 DEF Disconnect, Keepalived
    <2> QED BY <2>1, Numbers DEF Ends
  <1>3. ASSUME NEW t \in Topics, PublishBegin(t)
        PROVE  Ends'
    <2>1. /\ UNCHANGED <<sender, receiver, cancelled, bound, current, opened>>
          /\ \A x \in publish'.left : t \in bound[x]
      BY <1>3 DEF PublishBegin
    <2> QED BY <2>1 DEF Ends
  <1>4. ASSUME NEW s \in Sessions, PublishSend(s) \/ PublishSkip(s)
        PROVE  Ends'
    <2>1. /\ UNCHANGED <<sender, receiver, cancelled, bound, current, opened>>
          /\ publish' = Served(s)
      BY <1>4 DEF PublishSend, PublishSkip
    <2>2. publish'.left \subseteq publish.left
      BY <2>1 DEF Served, Quiet, TypeOK
    <2> QED BY <2>1, <2>2 DEF Ends
  <1>5. CASE UNCHANGED vars
    BY <1>5 DEF Ends, vars
  <1> QED BY <1>1, <1>2, <1>3, <1>4, <1>5, SessionEndsStep DEF Next, PublishStep

\* The two invariants hold together.
LEMMA EndsInvariance == Spec => [](Inv /\ Ends)
  <1>1. Init => Ends
    BY Numbers DEF Init, Ends, Quiet
  <1> QED BY <1>1, InitInv, NextInv, NextEnds, PTL DEF Spec

\* However faults, disconnects and the goroutines of the sessions interleave, the
\* session of a connected agent reads its keepalives, or has its connection still to
\* close, so that the agent connects again.  Only a failed Start, after which stop
\* waits for more subscriptions for good, keeps it from doing so (SessionEnds).
THEOREM ConnectedIsServed == Spec => []AgentIsServed
  <1>1. Inv /\ Ends => AgentIsServed
    <2> SUFFICES ASSUME Inv, Ends, current # 0, receiver[current] \notin {"loop", "read"}
                 PROVE  /\ cancelled[current]
                        /\ stopper[current] \in {"context", "unsubscribe", "ring", "close"}
      BY DEF AgentIsServed
    <2>1. current \in Sessions /\ opened \in Nat /\ current \in Nat
      BY SessionAssumption DEF Inv, TypeOK, Sessions
    <2>2. ~(current > opened)
      BY <2>1 DEF Ends
    <2>3. receiver[current] = "done"
      BY <2>1, <2>2 DEF Inv, TypeOK, Ends
    <2>4. stopper[current] # "new" /\ stopper[current] # "done"
      BY <2>1, <2>2 DEF Inv, StopOrder
    <2> QED BY <2>1, <2>3, <2>4 DEF Inv, TypeOK, Ends
  <1> QED BY <1>1, EndsInvariance, PTL

\* A Publish never waits for the full channel of a session that has neither a sender
\* nor a stop that has still to close it.
THEOREM PublishIsNeverLeft == Spec => []PublishIsLetGo
  <1>1. Inv /\ Ends => PublishIsLetGo
    <2> SUFFICES ASSUME Inv, Ends, NEW s \in publish.left, ~shut[s], sender[s] # "select"
                 PROVE  cancelled[s] /\ stopper[s] \in {"context", "unsubscribe"}
      BY DEF PublishIsLetGo
    <2>1. s \in Sessions /\ opened \in Nat
      BY DEF Inv, TypeOK
    <2>2. s \in Nat
      BY <2>1, Numbers
    <2>3. ~(s > opened)
      BY <2>1, <2>2 DEF Ends
    <2>4. sender[s] = "done"
      BY <2>1, <2>3 DEF Inv, TypeOK, Ends
    <2>5. stopper[s] # "new" /\ stopper[s] \notin {"ring", "close", "done"}
      BY <2>1, <2>3 DEF Inv, StopOrder
    <2> QED BY <2>1, <2>4, <2>5 DEF Inv, TypeOK, Ends
  <1> QED BY <1>1, EndsInvariance, PTL

=============================================================================
