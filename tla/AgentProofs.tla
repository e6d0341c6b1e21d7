----------------------------- MODULE AgentProofs -----------------------------
(****************************************************************************)
(* Proofs about Agent, for any sets of events and requests, any capacity of *)
(* the channel of messages, any formats and any number of broken            *)
(* connections and crashes.                                                 *)
(****************************************************************************)
EXTENDS Agent, TLAPS

\* No event is twice in a queue.
Once(q) == \A i, j \in 1 .. Len(q) : q[i] = q[j] /\ q[i] \in Events => i = j

\* An empty queue has no elements.
LEMMA EmptyQueue == Elements(<<>>) = {} /\ Once(<<>>)
  BY DEF Elements, Once

\* Appending to a queue adds one element.
LEMMA AppendToQueue ==
    ASSUME NEW S, NEW q \in Seq(S), NEW x \in S
    PROVE  /\ Append(q, x) \in Seq(S) /\ Len(Append(q, x)) = Len(q) + 1
           /\ Elements(Append(q, x)) = Elements(q) \cup {x}
           /\ Once(q) /\ x \notin Elements(q) \cap Events => Once(Append(q, x))
  <1>1. Append(q, x) \in Seq(S) /\ Len(Append(q, x)) = Len(q) + 1 /\ Len(q) \in Nat
    OBVIOUS
  <1>2. \A i \in 1 .. Len(q) + 1 : Append(q, x)[i] = IF i = Len(q) + 1 THEN x ELSE q[i]
    OBVIOUS
  <1>3. Elements(Append(q, x)) = {Append(q, x)[i] : i \in 1 .. Len(q) + 1}
    BY <1>1 DEF Elements
  <1>4. \A y : y \in Elements(Append(q, x)) => y \in Elements(q) \cup {x}
    BY <1>1, <1>2, <1>3 DEF Elements
  <1>5. \A y \in Elements(q) : y \in Elements(Append(q, x))
    BY <1>1, <1>2, <1>3 DEF Elements
  <1>6. x \in Elements(Append(q, x))
    <2>1. Append(q, x)[Len(q) + 1] = x /\ Len(q) + 1 \in 1 .. Len(q) + 1
      BY <1>1, <1>2
    <2> QED BY <2>1, <1>3
  <1>7. ASSUME Once(q), x \notin Elements(q) \cap Events
        PROVE  Once(Append(q, x))
    BY <1>1, <1>2, <1>7 DEF Once, Elements
  <1> QED BY <1>1, <1>4, <1>5, <1>6, <1>7

\* Taking the head of a queue removes one element, an event altogether.
LEMMA TakeFromQueue ==
    ASSUME NEW S, NEW q \in Seq(S), q # <<>>
    PROVE  /\ Head(q) \in S /\ Tail(q) \in Seq(S) /\ Len(Tail(q)) = Len(q) - 1
           /\ Elements(q) = {Head(q)} \cup Elements(Tail(q))
           /\ Once(q) => /\ Once(Tail(q))
                         /\ Head(q) \in Events => Head(q) \notin Elements(Tail(q))
  <1>1. Head(q) = q[1] /\ Tail(q) \in Seq(S) /\ Len(Tail(q)) = Len(q) - 1 /\ Len(q) \in Nat \ {0}
    OBVIOUS
  <1>2. \A i \in 1 .. Len(q) - 1 : Tail(q)[i] = q[i + 1]
    BY <1>1
  <1>3. Elements(Tail(q)) = {Tail(q)[i] : i \in 1 .. Len(q) - 1}
    BY <1>1 DEF Elements
  <1>4. ASSUME NEW i \in 1 .. Len(q)  PROVE q[i] \in {Head(q)} \cup Elements(Tail(q))
    <2>1. CASE i = 1
      BY <2>1, <1>1
    <2>2. CASE i # 1
      <3>1. i - 1 \in 1 .. Len(q) - 1 /\ (i - 1) + 1 = i
        BY <2>2, <1>1
      <3>2. Tail(q)[i - 1] = q[i]
        BY <3>1, <1>2
      <3> QED BY <3>1, <3>2, <1>3
    <2> QED BY <2>1, <2>2
  <1>5. ASSUME NEW i \in 1 .. Len(q) - 1  PROVE Tail(q)[i] \in Elements(q)
    <2>1. i + 1 \in 1 .. Len(q)
      BY <1>1
    <2> QED BY <2>1, <1>2 DEF Elements
  <1>6. Head(q) \in Elements(q) /\ Head(q) \in S
    <2>1. 1 \in 1 .. Len(q)
      BY <1>1
    <2> QED BY <2>1, <1>1 DEF Elements
  <1>7. Elements(q) \subseteq {Head(q)} \cup Elements(Tail(q))
    BY <1>4 DEF Elements
  <1>8. Elements(Tail(q)) \subseteq Elements(q)
    BY <1>3, <1>5
  <1>9. ASSUME Once(q)
        PROVE  /\ Once(Tail(q))
               /\ Head(q) \in Events => Head(q) \notin Elements(Tail(q))
    BY <1>1, <1>2, <1>3, <1>9 DEF Once
  <1> QED BY <1>1, <1>6, <1>7, <1>8, <1>9

-----------------------------------------------------------------------------
(* Types.                                                                   *)

\* What sendLoop is at: with nothing, or with a message.
SendingType == \/ sending = Idle
               \/ sending \in [msg : Messages, stage : {"write", "sent", "failed"}]

\* An event is in one place only: not accepted, waiting in the queue, or taken
\* from it, and then once in the hands of one goroutine or in one channel.
OnePlace ==
    /\ \A e \in Events : format[e] = "none" => e \notin ready \cup unacked
    /\ unacked = OnItsWay
    /\ Once(held) /\ Once(sendq)
    /\ Elements(held) \cap Elements(sendq) = {}
    /\ sending.msg \in Events => sending.msg \notin Elements(held) \cup Elements(sendq)

\* An event that was sent was written.
SentIsWritten == sending.stage = "sent" /\ sending.msg \in Events => sending.msg \in written

\* The inductive invariant.
Inv == TypeOK /\ SendingType /\ OnePlace /\ SentIsWritten /\ KeptUntilSent

\* The initial states satisfy the invariant.
LEMMA InitInv == Init => Inv
  <1> SUFFICES ASSUME Init PROVE Inv
    OBVIOUS
  <1>1. /\ held \in Seq(Events) /\ Len(held) <= HandCap
        /\ sendq \in Seq(Messages) /\ Len(sendq) <= SendCap
    BY AgentAssumption DEF Init, HandCap
  <1>2. TypeOK
    <2>1. /\ format \in [Events -> Formats \cup {"none"}]
          /\ request \in [Requests -> {"none", "received", "spawned", "running", "done"}]
      BY DEF Init
    <2>2. /\ sending.msg \in Messages \cup {"none"}
          /\ sending.stage \in {"idle", "write", "sent", "failed"}
      BY DEF Init, Idle
    <2>3. /\ cancelled \in BOOLEAN /\ inProgress \in BOOLEAN
          /\ breaks \in 0 .. MaxBreaks /\ crashes \in 0 .. MaxCrashes
      <3>1. cancelled \in BOOLEAN /\ inProgress \in BOOLEAN
        BY Zenon DEF Init
      <3>2. breaks \in 0 .. MaxBreaks /\ crashes \in 0 .. MaxCrashes
        BY AgentAssumption DEF Init
      <3> QED BY <3>1, <3>2
    <2>4. /\ link \in {"none", "up", "lost"} /\ marshal \in Formats
          /\ manager \in {"connect", "greet", "loop"}
      BY DEF Init, Formats
    <2>5. /\ ready \subseteq Events /\ unacked \subseteq Events /\ ready \cap unacked = {}
          /\ written \subseteq Events /\ unread \subseteq Events
      BY DEF Init
    <2> QED BY <1>1, <2>1, <2>2, <2>3, <2>4, <2>5 DEF TypeOK
  <1>3. SendingType /\ OnePlace /\ SentIsWritten /\ KeptUntilSent
    BY EmptyQueue, AgentAssumption
    DEF Init, SendingType, OnePlace, SentIsWritten, KeptUntilSent, OnItsWay, Idle
  <1> QED BY <1>2, <1>3 DEF Inv

\* A step that leaves the events, the channels and the message alone keeps the
\* places of events.
LEMMA SamePlaces ==
    ASSUME Inv, UNCHANGED <<format, ready, unacked, held, sendq, sending, written>>
    PROVE  SendingType' /\ OnePlace' /\ SentIsWritten' /\ KeptUntilSent'
  BY DEF Inv, SendingType, OnePlace, SentIsWritten, KeptUntilSent, OnItsWay, Idle, Messages, Once, Elements

\* The API accepts an event: it is in the queue and nowhere else.
LEMMA AddEventInv ==
    ASSUME Inv, NEW e \in Events, AddEvent(e)
    PROVE  Inv'
  <1> USE DEF Inv, AddEvent, send, conn, checks
  <1>1. TypeOK'
    BY DEF TypeOK, Formats, HandCap, Messages, OnePlace
  <1>2. SendingType' /\ SentIsWritten'
    BY DEF SendingType, SentIsWritten
  <1>3. OnItsWay' = OnItsWay
    BY DEF OnItsWay, Elements
  <1>4. OnePlace'
    <2>1. \A x \in Events : format'[x] = "none" => x \notin ready' \cup unacked'
      <3>1. marshal # "none" /\ format' = [format EXCEPT ![e] = marshal]
        BY DEF TypeOK, Formats
      <3> QED BY <3>1 DEF OnePlace, TypeOK
    <2> QED BY <1>3, <2>1 DEF OnePlace, Once, Elements
  <1>5. KeptUntilSent'
    BY <1>3 DEF KeptUntilSent, TypeOK, Formats
  <1> QED BY <1>1, <1>2, <1>4, <1>5

\* An event is taken from the queue: it is in the hands of handleAPIQueue.
LEMMA QueueReceiveInv ==
    ASSUME Inv, NEW e \in Events, QueueReceive(e)
    PROVE  Inv'
  <1> USE DEF Inv, QueueReceive, send, conn, checks
  <1>1. /\ held \in Seq(Events) /\ held' = Append(held, e)
        /\ e \notin unacked /\ e \notin OnItsWay
    BY DEF TypeOK, OnePlace
  <1>2. /\ held' \in Seq(Events) /\ Len(held') = Len(held) + 1
        /\ Elements(held') = Elements(held) \cup {e}
        /\ Once(held')
    BY <1>1, AppendToQueue DEF OnItsWay, OnePlace
  <1>3. TypeOK'
    BY <1>2 DEF TypeOK, HandCap, Messages
  <1>4. SendingType' /\ SentIsWritten'
    BY DEF SendingType, SentIsWritten
  <1>5. Elements(sendq)' = Elements(sendq) /\ Elements(held)' = Elements(held')
    BY DEF Elements
  <1>6. OnItsWay' = OnItsWay \cup {e}
    BY <1>2, <1>5 DEF OnItsWay
  <1>7. KeptUntilSent'
    BY <1>6 DEF KeptUntilSent, TypeOK
  <1>8. OnePlace'
    BY <1>1, <1>2, <1>5, <1>6 DEF OnePlace, OnItsWay, TypeOK, Once
  <1> QED BY <1>3, <1>4, <1>7, <1>8

\* It goes from there to the channel of messages.
LEMMA QueueSendInv ==
    ASSUME Inv, QueueSend
    PROVE  Inv'
  <1> DEFINE e == Head(held)
  <1> USE DEF Inv, QueueSend, conn, checks
  <1>1. held \in Seq(Events) /\ held # <<>> /\ sendq \in Seq(Messages) /\ Len(held) \in Nat
    BY DEF TypeOK
  <1>2. /\ e \in Events /\ held' \in Seq(Events) /\ Len(held') = Len(held) - 1
        /\ Elements(held) = {e} \cup Elements(held')
        /\ Once(held') /\ e \notin Elements(held')
    BY <1>1, TakeFromQueue DEF OnePlace
  <1>3. e \notin Elements(sendq) /\ sendq' = Append(sendq, e) /\ e \in Messages
    BY <1>2 DEF OnePlace, Messages
  <1>4. /\ sendq' \in Seq(Messages) /\ Len(sendq') = Len(sendq) + 1
        /\ Elements(sendq') = Elements(sendq) \cup {e}
        /\ Once(sendq')
    BY <1>1, <1>3, AppendToQueue DEF OnePlace
  <1> HIDE DEF e
  <1>5. Len(sendq) \in Nat
    BY <1>1
  <1>6. TypeOK'
    BY <1>1, <1>2, <1>4, <1>5, AgentAssumption DEF TypeOK, HandCap, Messages
  <1>7. SendingType' /\ SentIsWritten'
    BY DEF SendingType, SentIsWritten
  <1>8. Elements(sendq)' = Elements(sendq') /\ Elements(held)' = Elements(held')
    BY DEF Elements
  <1>9. OnItsWay' = OnItsWay
    BY <1>2, <1>4, <1>8 DEF OnItsWay
  <1>10. KeptUntilSent'
    BY <1>9 DEF KeptUntilSent
  <1>11. OnePlace'
    BY <1>2, <1>3, <1>4, <1>8, <1>9 DEF OnePlace, Once
  <1> QED BY <1>6, <1>7, <1>10, <1>11

\* A connection is made.
LEMMA ConnectInv ==
    ASSUME Inv, NEW f \in Wanted, Connect(f)
    PROVE  Inv'
  <1> USE DEF Connect, Reconnect, api, send, conn, checks
  <1>1. TypeOK'
    BY AgentAssumption DEF Inv, TypeOK, Formats, HandCap, Messages
  <1> QED BY <1>1, SamePlaces DEF Inv

\* The connection breaks.
LEMMA BreakInv ==
    ASSUME Inv, Break
    PROVE  Inv'
  <1> USE DEF Break, Reconnect, api, send, conn, checks
  <1>1. TypeOK'
    BY AgentAssumption DEF Inv, TypeOK, Formats, HandCap, Messages
  <1> QED BY <1>1, SamePlaces DEF Inv

\* The read fails.
LEMMA ReceiveErrorInv ==
    ASSUME Inv, ReceiveError
    PROVE  Inv'
  <1> USE DEF ReceiveError, Reconnect, api, send, conn, checks
  <1>1. TypeOK'
    BY AgentAssumption DEF Inv, TypeOK, Formats, HandCap, Messages
  <1> QED BY <1>1, SamePlaces DEF Inv

\* A keepalive is written, or finds the connection lost.
LEMMA KeepaliveInv ==
    ASSUME Inv, Keepalive
    PROVE  Inv'
  <1> USE DEF Keepalive, Reconnect, api, send, conn, checks
  <1>1. TypeOK'
    BY AgentAssumption DEF Inv, TypeOK, Formats, HandCap, Messages
  <1> QED BY <1>1, SamePlaces DEF Inv

\* sendLoop ends.
LEMMA LoopDoneInv ==
    ASSUME Inv, LoopDone
    PROVE  Inv'
  <1> USE DEF LoopDone, Reconnect, api, send, conn, checks
  <1>1. TypeOK'
    BY AgentAssumption DEF Inv, TypeOK, Formats, HandCap, Messages
  <1> QED BY <1>1, SamePlaces DEF Inv

\* sendLoop takes the next message from its channel.
LEMMA LoopTakeInv ==
    ASSUME Inv, LoopTake
    PROVE  Inv'
  <1> DEFINE m == Head(sendq)
  <1> USE DEF Inv, LoopTake, api, conn, checks
  <1>1. sendq \in Seq(Messages) /\ sendq # <<>> /\ Len(sendq) \in Nat
    BY DEF TypeOK
  <1>2. /\ m \in Messages /\ sendq' \in Seq(Messages) /\ Len(sendq') = Len(sendq) - 1
        /\ Elements(sendq) = {m} \cup Elements(sendq')
        /\ Once(sendq') /\ (m \in Events => m \notin Elements(sendq'))
    BY <1>1, TakeFromQueue DEF OnePlace
  <1>3. sending' = [msg |-> m, stage |-> "write"] /\ sending.msg \notin Events
    BY AgentAssumption DEF Idle
  <1> HIDE DEF m
  <1>4. TypeOK'
    BY <1>1, <1>2, <1>3, AgentAssumption DEF TypeOK, HandCap, Messages
  <1>5. SendingType' /\ SentIsWritten'
    BY <1>2, <1>3 DEF SendingType, SentIsWritten, Messages
  <1>6. Elements(sendq)' = Elements(sendq') /\ Elements(held)' = Elements(held)
    BY DEF Elements
  <1>7. OnItsWay' = OnItsWay
    BY <1>2, <1>3, <1>6 DEF OnItsWay
  <1>8. KeptUntilSent'
    BY <1>7 DEF KeptUntilSent
  <1>9. OnePlace'
    BY <1>2, <1>3, <1>6, <1>7 DEF OnePlace, Once
  <1> QED BY <1>4, <1>5, <1>8, <1>9

\* What is known of a message that is being sent.
LEMMA Sending ==
    ASSUME Inv, sending.stage # "idle"
    PROVE  sending \in [msg : Messages, stage : {"write", "sent", "failed"}]
  BY DEF Inv, SendingType, Idle

\* The message is written, or not.
LEMMA SendInv ==
    ASSUME Inv, SendOK \/ SendFail
    PROVE  Inv'
  <1> USE DEF Inv, SendOK, SendFail, api, conn, checks
  <1>1. sending \in [msg : Messages, stage : {"write", "sent", "failed"}]
    BY Sending
  <1>2. PICK g \in {"sent", "failed"} : sending' = [sending EXCEPT !.stage = g]
    OBVIOUS
  <1>3. sending' \in [msg : Messages, stage : {"write", "sent", "failed"}] /\ sending'.msg = sending.msg
    BY <1>1, <1>2
  <1>4. written \subseteq written' /\ written' \subseteq Events /\ unread' \subseteq Events
    BY <1>1 DEF TypeOK
  <1>5. TypeOK'
    BY <1>3, <1>4 DEF TypeOK, HandCap, Messages
  <1>6. SendingType' /\ SentIsWritten'
    <2>1. SendingType'
      BY <1>3 DEF SendingType, Messages
    <2>2. SentIsWritten'
      BY <1>1, <1>3 DEF SentIsWritten
    <2> QED BY <2>1, <2>2
  <1>7. Elements(sendq)' = Elements(sendq) /\ Elements(held)' = Elements(held)
    BY DEF Elements
  <1>8. OnItsWay' = OnItsWay
    BY <1>3, <1>7 DEF OnItsWay
  <1>9. KeptUntilSent'
    BY <1>4, <1>8 DEF KeptUntilSent
  <1>10. OnePlace'
    BY <1>3, <1>7, <1>8 DEF OnePlace, Once
  <1> QED BY <1>5, <1>6, <1>9, <1>10

\* SendCallback is done with the message: an event is on its way no more.
LEMMA CallbackDone ==
    ASSUME Inv, sending.stage # "idle", sending' = Idle, UNCHANGED <<held, sendq>>
    PROVE  /\ SendingType' /\ SentIsWritten'
           /\ OnItsWay' = OnItsWay \ {sending.msg}
           /\ Once(held)' /\ Once(sendq)' /\ (Elements(held) \cap Elements(sendq) = {})'
           /\ sending'.msg \notin Events
  <1>1. sending.msg \in Messages /\ sending'.msg = "none" /\ "none" \notin Events
    BY Sending, AgentAssumption DEF Idle
  <1>2. Elements(sendq)' = Elements(sendq) /\ Elements(held)' = Elements(held)
    BY DEF Elements
  <1>3. OnItsWay' = OnItsWay \ {sending.msg}
    BY <1>1, <1>2 DEF OnItsWay, Inv, OnePlace
  <1> QED BY <1>1, <1>2, <1>3 DEF SendingType, SentIsWritten, Inv, OnePlace, Once

\* An event that was sent leaves the queue for good.
LEMMA CallbackAckInv ==
    ASSUME Inv, CallbackAck
    PROVE  Inv'
  <1> USE DEF CallbackAck, conn, checks
  <1>1. /\ SendingType' /\ SentIsWritten'
        /\ OnItsWay' = OnItsWay \ {sending.msg}
        /\ Once(held)' /\ Once(sendq)' /\ (Elements(held) \cap Elements(sendq) = {})'
        /\ sending'.msg \notin Events
    BY CallbackDone
  <1>2. TypeOK'
    BY DEF Inv, TypeOK, HandCap, Messages, Idle
  <1>3. OnePlace'
    BY <1>1 DEF Inv, OnePlace
  <1>4. KeptUntilSent'
    BY <1>1 DEF Inv, KeptUntilSent, SentIsWritten
  <1> QED BY <1>1, <1>2, <1>3, <1>4 DEF Inv

\* One that was not goes back to the queue.
LEMMA CallbackNackInv ==
    ASSUME Inv, CallbackNack
    PROVE  Inv'
  <1> USE DEF CallbackNack, Reconnect, checks
  <1>1. /\ SendingType' /\ SentIsWritten'
        /\ OnItsWay' = OnItsWay \ {sending.msg}
        /\ Once(held)' /\ Once(sendq)' /\ (Elements(held) \cap Elements(sendq) = {})'
        /\ sending'.msg \notin Events
    BY CallbackDone
  <1>2. TypeOK'
    BY DEF Inv, TypeOK, HandCap, Messages, Idle
  <1>3. OnePlace'
    BY <1>1 DEF Inv, OnePlace
  <1>4. KeptUntilSent'
    BY <1>1 DEF Inv, KeptUntilSent
  <1> QED BY <1>1, <1>2, <1>3, <1>4 DEF Inv

-----------------------------------------------------------------------------
(* Checks.                                                                  *)

\* A request that is no event goes to the channel.
LEMMA SendRequest ==
    ASSUME Inv, NEW r \in Requests, Len(sendq) < SendCap, sendq' = Append(sendq, r),
           UNCHANGED <<api, sending, written>>
    PROVE  /\ sendq' \in Seq(Messages) /\ Len(sendq') <= SendCap
           /\ SendingType' /\ SentIsWritten' /\ OnePlace' /\ KeptUntilSent'
  <1> USE DEF Inv, api
  <1>1. r \in Messages /\ r \notin Events /\ sendq \in Seq(Messages) /\ Len(sendq) \in Nat
    BY AgentAssumption DEF Messages, TypeOK
  <1>2. /\ sendq' \in Seq(Messages) /\ Len(sendq') = Len(sendq) + 1
        /\ Elements(sendq') = Elements(sendq) \cup {r}
        /\ Once(sendq')
    BY <1>1, AppendToQueue DEF OnePlace
  <1>3. SendingType' /\ SentIsWritten'
    BY DEF SendingType, SentIsWritten
  <1>4. Elements(sendq)' = Elements(sendq') /\ Elements(held)' = Elements(held)
    BY DEF Elements
  <1>5. OnItsWay' = OnItsWay
    BY <1>1, <1>2, <1>4 DEF OnItsWay
  <1>6. Elements(held) \subseteq Events
    BY DEF TypeOK, Elements
  <1>7. OnePlace'
    BY <1>1, <1>2, <1>4, <1>5, <1>6 DEF OnePlace, Once
  <1>8. KeptUntilSent'
    BY <1>5 DEF KeptUntilSent
  <1>9. Len(sendq') <= SendCap
    BY <1>1, <1>2, AgentAssumption
  <1> QED BY <1>2, <1>3, <1>7, <1>8, <1>9

\* The steps of a check request.
LEMMA RequestInv ==
    ASSUME Inv, NEW r \in Requests, Request(r) \/ RequestStep(r) \/ EscapeZombie(r)
    PROVE  Inv'
  <1>1. CASE Request(r) \/ HandleCheck(r) \/ ExecuteCheck(r) \/ EscapeZombie(r)
    <2> USE <1>1 DEF Request, HandleCheck, ExecuteCheck, EscapeZombie, RequestGoesTo, api, send, conn
    <2>1. TypeOK'
      BY DEF Inv, TypeOK, Formats, HandCap, Messages
    <2> QED BY <2>1, SamePlaces DEF Inv
  <1>2. CASE SendFailure(r) \/ SendResult(r)
    <2> USE <1>2 DEF SendFailure, SendResult, RequestGoesTo, conn
    <2>1. /\ sendq' \in Seq(Messages) /\ Len(sendq') <= SendCap
          /\ SendingType' /\ SentIsWritten' /\ OnePlace' /\ KeptUntilSent'
      BY SendRequest
    <2>2. TypeOK'
      BY <2>1 DEF Inv, TypeOK, Formats, HandCap, Messages, api
    <2> QED BY <2>1, <2>2 DEF Inv
  <1> QED BY <1>1, <1>2 DEF RequestStep

\* A crash returns what was not acknowledged to the queue.
LEMMA CrashInv ==
    ASSUME Inv, Crash
    PROVE  Inv'
  <1> USE DEF Crash
  <1>1. /\ held' \in Seq(Events) /\ Len(held') <= HandCap
        /\ sendq' \in Seq(Messages) /\ Len(sendq') <= SendCap
    BY AgentAssumption DEF HandCap
  <1>2. TypeOK'
    <2>1. request' \in [Requests -> {"none", "received", "spawned", "running", "done"}]
      BY DEF Inv, TypeOK
    <2>2. /\ sending'.msg \in Messages \cup {"none"}
          /\ sending'.stage \in {"idle", "write", "sent", "failed"}
      BY DEF Idle
    <2>3. /\ cancelled' \in BOOLEAN /\ inProgress' \in BOOLEAN
          /\ breaks' \in 0 .. MaxBreaks /\ crashes' \in 0 .. MaxCrashes
      <3>1. cancelled' \in BOOLEAN /\ inProgress' \in BOOLEAN
        BY Zenon
      <3>2. breaks' \in 0 .. MaxBreaks /\ crashes' \in 0 .. MaxCrashes
        BY AgentAssumption DEF Inv, TypeOK
      <3> QED BY <3>1, <3>2
    <2>4. /\ link' \in {"none", "up", "lost"} /\ marshal' \in Formats
          /\ manager' \in {"connect", "greet", "loop"}
      BY DEF Formats
    <2>5. /\ ready' \subseteq Events /\ unacked' \subseteq Events /\ ready' \cap unacked' = {}
          /\ written' \subseteq Events /\ unread' \subseteq Events
          /\ format' \in [Events -> Formats \cup {"none"}]
      BY DEF Inv, TypeOK
    <2> QED BY <1>1, <2>1, <2>2, <2>3, <2>4, <2>5 DEF TypeOK, Messages
  <1>3. Elements(held)' = {} /\ Elements(sendq)' = {} /\ Once(held)' /\ Once(sendq)'
    BY EmptyQueue DEF Elements, Once
  <1>4. sending'.msg = "none" /\ sending'.stage = "idle" /\ "none" \notin Events
    BY AgentAssumption DEF Idle
  <1>5. OnItsWay' = {}
    BY <1>3, <1>4 DEF OnItsWay
  <1>6. SendingType' /\ SentIsWritten' /\ KeptUntilSent'
    BY <1>4, <1>5 DEF SendingType, SentIsWritten, KeptUntilSent, Inv
  <1>7. OnePlace'
    BY <1>3, <1>4, <1>5 DEF OnePlace, Inv
  <1> QED BY <1>2, <1>6, <1>7 DEF Inv

-----------------------------------------------------------------------------
\* Every step keeps the invariant.
LEMMA NextInv == Inv /\ [Next]_vars => Inv'
  <1> SUFFICES ASSUME Inv, [Next]_vars PROVE Inv'
    OBVIOUS
  <1>1. CASE \E e \in Events : AddEvent(e) \/ QueueReceive(e)
    BY <1>1, AddEventInv, QueueReceiveInv
  <1>2. CASE QueueSend \/ \E f \in Wanted : Connect(f)
    BY <1>2, QueueSendInv, ConnectInv
  <1>3. CASE Break \/ ReceiveError \/ Keepalive \/ LoopDone
    BY <1>3, BreakInv, ReceiveErrorInv, KeepaliveInv, LoopDoneInv
  <1>4. CASE LoopStep
    BY <1>4, LoopTakeInv, SendInv, CallbackAckInv, CallbackNackInv DEF LoopStep
  <1>5. CASE \E r \in Requests : Request(r) \/ RequestStep(r) \/ EscapeZombie(r)
    BY <1>5, RequestInv
  <1>6. CASE Crash
    BY <1>6, CrashInv
  <1>7. CASE UNCHANGED vars
    <2>1. TypeOK'
      BY <1>7 DEF Inv, TypeOK, vars, api, send, conn, checks, Messages
    <2> QED BY <1>7, <2>1, SamePlaces DEF Inv, vars, api, send
  <1> QED BY <1>1, <1>2, <1>3, <1>4, <1>5, <1>6, <1>7 DEF Next

\* The invariant holds.
LEMMA Invariance == Spec => []Inv
  BY InitInv, NextInv, PTL DEF Spec

\* Every variable of the agent keeps its type; channels stay within their
\* capacities, and no event is both in the durable queue and taken from it.
THEOREM TypeCorrect == Spec => []TypeOK
  BY Invariance, PTL DEF Inv

\* An event that the agent's API accepted stays in the durable queue until it was
\* written to a connection, and an event that was taken from the queue is on its
\* way, whatever breaks and crashes.
THEOREM EventsAreKept == Spec => []KeptUntilSent
  BY Invariance, PTL DEF Inv

-----------------------------------------------------------------------------
(* What SentInTheEnd rests on: nobody waits for something that nobody does. *)

\* The mark that makes handleCheck refuse a check has an owner, who will take it
\* away: an executeCheck that is running, although two of them may have marked the
\* check and the first to finish takes the mark of both away (check_handler.go:56,
\* 102-104).
MarkIsOwned == inProgress => \E r \in Requests : request[r] = "running"

\* connectionManager connects with nothing in its hands, and to a backend again only
\* when the old connection is closed; a sender whose context is done has a lost
\* connection, on which its write fails (agent.go:234-330).
ConnectionIsTended ==
    /\ manager = "connect" <=> link = "none"
    /\ manager = "connect" => sending = Idle /\ ~cancelled
    /\ sending # Idle => manager = "loop"
    /\ cancelled => link = "lost"

\* Both hold at any time.
NothingHangs == MarkIsOwned /\ ConnectionIsTended

\* The goroutines of checks keep the mark owned.
LEMMA MarkNext == Inv /\ MarkIsOwned /\ [Next]_vars => MarkIsOwned'
  <1> SUFFICES ASSUME Inv, MarkIsOwned, [Next]_vars PROVE MarkIsOwned'
    OBVIOUS
  <1>0. request \in [Requests -> {"none", "received", "spawned", "running", "done"}]
    BY DEF Inv, TypeOK
  <1>1. ASSUME NEW r \in Requests, Request(r) \/ HandleCheck(r) \/ SendFailure(r)
        PROVE  MarkIsOwned'
    <2>1. /\ inProgress' = inProgress /\ request[r] # "running"
          /\ \A x \in Requests : x # r => request'[x] = request[x]
      BY <1>0, <1>1 DEF Request, HandleCheck, SendFailure, RequestGoesTo
    <2> QED BY <2>1 DEF MarkIsOwned
  <1>2. ASSUME NEW r \in Requests, ExecuteCheck(r)
        PROVE  MarkIsOwned'
    <2>1. request'[r] = "running"
      BY <1>0, <1>2 DEF ExecuteCheck, RequestGoesTo
    <2> QED BY <2>1 DEF MarkIsOwned
  <1>3. ASSUME (\E r \in Requests : SendResult(r) \/ EscapeZombie(r)) \/ Crash
        PROVE  MarkIsOwned'
    BY <1>3 DEF SendResult, EscapeZombie, Crash, MarkIsOwned
  <1>4. CASE \/ (\E e \in Events : AddEvent(e) \/ QueueReceive(e)) \/ QueueSend
             \/ (\E f \in Wanted : Connect(f))
             \/ Break \/ ReceiveError \/ Keepalive \/ LoopDone \/ LoopStep \/ UNCHANGED vars
    <2>1. UNCHANGED <<request, inProgress>>
      BY <1>4 DEF AddEvent, QueueReceive, QueueSend, Connect, Break, ReceiveError, Keepalive, LoopDone,
                  LoopStep, LoopTake, SendOK, SendFail, CallbackAck, CallbackNack, vars, checks
    <2> QED BY <2>1 DEF MarkIsOwned
  <1> QED BY <1>1, <1>2, <1>3, <1>4 DEF Next, RequestStep

\* The sender and the receiver keep the connection tended.
LEMMA TendedNext == Inv /\ ConnectionIsTended /\ [Next]_vars => ConnectionIsTended'
  <1> SUFFICES ASSUME Inv, ConnectionIsTended, [Next]_vars PROVE ConnectionIsTended'
    OBVIOUS
  <1>0. Idle.stage = "idle"
    BY DEF Idle
  <1>1. CASE (\E f \in Wanted : Connect(f)) \/ Break \/ ReceiveError
    BY <1>1 DEF Connect, Break, ReceiveError, ConnectionIsTended, send
  <1>2. CASE Keepalive \/ LoopDone
    BY <1>2 DEF Keepalive, LoopDone, Reconnect, ConnectionIsTended, send
  <1>3. CASE LoopTake
    BY <1>3 DEF LoopTake, ConnectionIsTended, conn
  <1>4. CASE SendOK \/ SendFail \/ CallbackAck
    <2>1. sending # Idle /\ UNCHANGED conn
      BY <1>0, <1>4 DEF SendOK, SendFail, CallbackAck
    <2> QED BY <2>1 DEF ConnectionIsTended, conn
  <1>5. CASE CallbackNack
    BY <1>5 DEF CallbackNack, Reconnect, ConnectionIsTended
  <1>6. CASE Crash
    BY <1>6 DEF Crash, ConnectionIsTended
  <1>7. CASE \/ (\E e \in Events : AddEvent(e) \/ QueueReceive(e)) \/ QueueSend
             \/ (\E r \in Requests : Request(r) \/ RequestStep(r) \/ EscapeZombie(r)) \/ UNCHANGED vars
    <2>1. UNCHANGED <<conn, sending>>
      BY <1>7 DEF AddEvent, QueueReceive, QueueSend, Request, RequestStep, HandleCheck, SendFailure,
                  ExecuteCheck, SendResult, EscapeZombie, vars, send
    <2> QED BY <2>1 DEF ConnectionIsTended, conn
  <1> QED BY <1>1, <1>2, <1>3, <1>4, <1>5, <1>6, <1>7 DEF Next, LoopStep

\* However requests of the same check overlap, and connections break and agents crash,
\* a check is marked only while one runs, and the agent's sender is never left with a
\* message and a closed connection.
THEOREM NothingIsLeftHanging == Spec => []NothingHangs
  <1>1. Init => NothingHangs
    BY DEF Init, NothingHangs, MarkIsOwned, ConnectionIsTended
  <1>2. Inv /\ NothingHangs /\ [Next]_vars => NothingHangs'
    BY MarkNext, TendedNext DEF NothingHangs
  <1> QED BY <1>1, <1>2, Invariance, PTL DEF Spec

=============================================================================
