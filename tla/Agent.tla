------------------------------- MODULE Agent -------------------------------
(****************************************************************************)
(* The agent between its API, its checks and a backend: agent/agent.go,     *)
(* agent/api.go, agent/queue.go and agent/check_handler.go, with the        *)
(* transport under them.  Events of the API are kept in a durable queue     *)
(* until they were sent; the results of checks go straight to the channel   *)
(* of messages.  Connections break, without notice too; the agent crashes.  *)
(****************************************************************************)
EXTENDS Naturals, Sequences, FiniteSets

CONSTANTS Events,       \* events posted to the API
          Requests,     \* requests to run the one check
          Wanted,       \* formats that the backends want
          SendCap,      \* capacity of the channel of messages
          MaxBreaks,    \* bound: connections that break
          MaxCrashes    \* bound: crashes of the agent

ASSUME AgentAssumption == /\ SendCap \in Nat \ {0}
                          /\ MaxBreaks \in Nat /\ MaxCrashes \in Nat
                          /\ Events \cap Requests = {} /\ "none" \notin Events \cup Requests
                          /\ Wanted \subseteq {"json", "protobuf"}

VARIABLES format,     \* event -> how it was serialized, "none": not accepted yet
          ready,      \* events in the durable queue
          unacked,    \* events taken from it and not yet acknowledged
          held,       \* events in the hands of handleAPIQueue
          sendq,      \* messages to send, events and results
          sending,    \* message that sendLoop sends, and how far it got
          written,    \* events that were written to a connection
          unread,     \* events that the backend could not decode
          link,       \* the connection: "none", "up", or "lost" and not noticed
          marshal,    \* how the agent serializes
          cancelled,  \* the context of the connection is done
          manager,    \* progress of connectionManager
          request,    \* request -> progress of its goroutine
          inProgress, \* the check is marked as in progress
          breaks, crashes

api == <<format, ready, unacked, held>>
send == <<sendq, sending, written, unread>>
conn == <<link, marshal, cancelled, manager, breaks>>
checks == <<request, inProgress>>
vars == <<api, send, conn, checks, crashes>>

Formats == {"json", "protobuf"}
Idle == [msg |-> "none", stage |-> "idle"]
HandCap == 3   \* one in the channel of handleAPIQueue, one before and one after it

Init == /\ format = [e \in Events |-> "none"]
        /\ ready = {} /\ unacked = {} /\ held = <<>>
        /\ sendq = <<>> /\ sending = Idle /\ written = {} /\ unread = {}
        /\ link = "none" /\ marshal = "json" /\ cancelled = FALSE /\ manager = "connect"
        /\ request = [r \in Requests |-> "none"] /\ inProgress = FALSE
        /\ breaks = 0 /\ crashes = 0

-----------------------------------------------------------------------------
(* The API and its queue.                                                   *)

\* addEvent serializes the event as the last backend wanted it, and queues it.
AddEvent(e) ==
    /\ format[e] = "none"
    /\ format' = [format EXCEPT ![e] = marshal]
    /\ ready' = ready \cup {e}
    /\ UNCHANGED <<unacked, held, send, conn, checks, crashes>>

\* Mutant of QueueReceive: the event stays in the queue.
QueueReceiveCopy(e) ==
    /\ e \in ready /\ Len(held) < HandCap
    /\ ready' = ready /\ unacked' = unacked \cup {e}
    /\ held' = Append(held, e)
    /\ UNCHANGED <<format, send, conn, checks, crashes>>

\* Mutant of QueueReceive: the queue forgets an event that is taken.
QueueReceiveForget(e) ==
    /\ e \in ready /\ Len(held) < HandCap
    /\ ready' = ready \ {e} /\ unacked' = unacked
    /\ held' = Append(held, e)
    /\ UNCHANGED <<format, send, conn, checks, crashes>>

\* apiQueue.Receive.
QueueReceive(e) ==
    /\ e \in ready /\ Len(held) < HandCap
    /\ ready' = ready \ {e} /\ unacked' = unacked \cup {e}
    /\ held' = Append(held, e)
    /\ UNCHANGED <<format, send, conn, checks, crashes>>

\* handleAPIQueue passes the event on to the channel of messages, connected or not.
QueueSend ==
    /\ held # <<>> /\ Len(sendq) < SendCap
    /\ sendq' = Append(sendq, Head(held))
    /\ held' = Tail(held)
    /\ UNCHANGED <<format, ready, unacked, sending, written, unread, conn, checks, crashes>>

-----------------------------------------------------------------------------
(* The connection.                                                          *)

\* connectWithBackoff gets through to a backend that wants format f.
Connect(f) ==
    /\ manager = "connect"
    /\ link' = "up" /\ marshal' = f /\ cancelled' = FALSE
    /\ manager' = "greet"
    /\ UNCHANGED <<api, send, breaks, checks, crashes>>

\* The connection breaks; the agent finds out by a read or a write.
Break ==
    /\ link = "up" /\ breaks < MaxBreaks
    /\ link' = "lost" /\ breaks' = breaks + 1
    /\ UNCHANGED <<api, send, marshal, cancelled, manager, checks, crashes>>

\* receiveLoop: the read fails, or the heartbeat times out.
ReceiveError ==
    /\ manager # "connect" /\ link = "lost" /\ ~cancelled
    /\ cancelled' = TRUE
    /\ UNCHANGED <<api, send, link, marshal, manager, breaks, checks, crashes>>

\* sendLoop returns, and connectionManager connects again.
Reconnect == /\ manager' = "connect" /\ link' = "none" /\ cancelled' = FALSE
             /\ UNCHANGED <<marshal, breaks>>

\* The first keepalive, or a later one, may find the connection lost or not.
Keepalive ==
    /\ \/ manager = "greet"
       \/ manager = "loop" /\ sending = Idle /\ link = "lost"
    /\ \/ ~cancelled /\ manager' = "loop" /\ UNCHANGED <<link, marshal, cancelled, breaks>>
       \/ link = "lost" /\ Reconnect
    /\ UNCHANGED <<api, send, checks, crashes>>

\* sendLoop sees that the context is done, and closes the connection.
LoopDone ==
    /\ manager = "loop" /\ sending = Idle /\ cancelled
    /\ Reconnect
    /\ UNCHANGED <<api, send, checks, crashes>>

LoopTake ==
    /\ manager = "loop" /\ sending = Idle /\ sendq # <<>>
    /\ sending' = [msg |-> Head(sendq), stage |-> "write"]
    /\ sendq' = Tail(sendq)
    /\ UNCHANGED <<api, written, unread, conn, checks, crashes>>

\* transport.Send writes the message; one for a lost connection may get as far as
\* the buffers of the system.  When the read has failed, the transport is closed.
SendOK ==
    /\ sending.stage = "write" /\ ~cancelled
    /\ sending' = [sending EXCEPT !.stage = "sent"]
    /\ written' = written \cup ({sending.msg} \cap Events)
    /\ unread' = IF link = "up" /\ sending.msg \in Events /\ format[sending.msg] # marshal
                    THEN unread \cup {sending.msg} ELSE unread
    /\ UNCHANGED <<api, sendq, conn, checks, crashes>>

SendFail ==
    /\ sending.stage = "write" /\ link = "lost"
    /\ sending' = [sending EXCEPT !.stage = "failed"]
    /\ UNCHANGED <<api, sendq, written, unread, conn, checks, crashes>>

\* SendCallback acknowledges an event that was sent.
CallbackAck ==
    /\ sending.stage = "sent"
    /\ unacked' = unacked \ {sending.msg}
    /\ sending' = Idle
    /\ UNCHANGED <<format, ready, held, sendq, written, unread, conn, checks, crashes>>

\* SendCallback returns an event to the queue; a result is dropped.
CallbackNack ==
    /\ sending.stage = "failed"
    /\ unacked' = unacked \ {sending.msg}
    /\ ready' = ready \cup (unacked \cap {sending.msg})
    /\ sending' = Idle
    /\ Reconnect
    /\ UNCHANGED <<format, held, sendq, written, unread, checks, crashes>>

-----------------------------------------------------------------------------
(* Checks.                                                                  *)

RequestGoesTo(r, stage) == request' = [request EXCEPT ![r] = stage]

\* A request was received, on this connection or on one that is given up.
Request(r) ==
    /\ request[r] = "none"
    /\ RequestGoesTo(r, "received")
    /\ UNCHANGED <<api, send, conn, inProgress, crashes>>

\* handleCheck refuses a check that is marked, and spawns executeCheck otherwise.
HandleCheck(r) ==
    /\ request[r] = "received"
    /\ RequestGoesTo(r, IF inProgress THEN "done" ELSE "spawned")
    /\ UNCHANGED <<api, send, conn, inProgress, crashes>>

\* A request that is invalid, or needs assets where they are disabled, is answered
\* by a failure.
SendFailure(r) ==
    /\ request[r] = "received" /\ Len(sendq) < SendCap
    /\ sendq' = Append(sendq, r)
    /\ RequestGoesTo(r, "done")
    /\ UNCHANGED <<api, sending, written, unread, conn, inProgress, crashes>>

\* executeCheck marks the check ...
ExecuteCheck(r) ==
    /\ request[r] = "spawned"
    /\ inProgress' = TRUE
    /\ RequestGoesTo(r, "running")
    /\ UNCHANGED <<api, send, conn, crashes>>

\* Mutant of SendResult: the mark stays when the result was sent.
SendResultMarked(r) ==
    /\ request[r] = "running" /\ Len(sendq) < SendCap
    /\ sendq' = Append(sendq, r)
    /\ RequestGoesTo(r, "done")
    /\ UNCHANGED <<api, sending, written, unread, conn, inProgress, crashes>>

\* ... and when it has run, sends the result and takes the mark away.
SendResult(r) ==
    /\ request[r] = "running" /\ Len(sendq) < SendCap
    /\ sendq' = Append(sendq, r)
    /\ inProgress' = FALSE
    /\ RequestGoesTo(r, "done")
    /\ UNCHANGED <<api, sending, written, unread, conn, crashes>>

\* escapeZombie takes the mark away from a command that ran into its timeout and
\* cannot be killed, while executeCheck still waits for it.
EscapeZombie(r) ==
    /\ request[r] = "running" /\ inProgress
    /\ inProgress' = FALSE
    /\ UNCHANGED <<api, send, conn, request, crashes>>

\* The agent crashes and is started again: what is in memory is gone, and the
\* durable queue offers again what was not acknowledged.  The queue in memory
\* that newQueue makes for /dev/null (queue.go:68-70), which promises nothing
\* after a crash, is left out.
Crash ==
    /\ crashes < MaxCrashes
    /\ crashes' = crashes + 1
    /\ ready' = ready \cup unacked /\ unacked' = {}
    /\ held' = <<>> /\ sendq' = <<>> /\ sending' = Idle
    /\ link' = "none" /\ marshal' = "json" /\ cancelled' = FALSE /\ manager' = "connect"
    /\ request' = [r \in Requests |-> IF request[r] = "none" THEN "none" ELSE "done"]
    /\ inProgress' = FALSE
    /\ UNCHANGED <<format, written, unread, breaks>>

-----------------------------------------------------------------------------
RequestStep(r) == HandleCheck(r) \/ SendFailure(r) \/ ExecuteCheck(r) \/ SendResult(r)
LoopStep == LoopTake \/ SendOK \/ SendFail \/ CallbackAck \/ CallbackNack

Next ==
    \/ \E e \in Events : AddEvent(e) \/ QueueReceive(e)
    \/ QueueSend
    \/ \E f \in Wanted : Connect(f)
    \/ Break \/ ReceiveError \/ Keepalive \/ LoopDone \/ LoopStep
    \/ \E r \in Requests : Request(r) \/ RequestStep(r) \/ EscapeZombie(r)
    \/ Crash

\* Goroutines go on, a backend can be reached in the end, and a lost connection is
\* noticed by the heartbeat.  A command that a check runs is assumed to end: a check
\* with Timeout 0 has no timeout that would see to it (command.go:166).
Fairness ==
    /\ WF_vars(\E e \in Events : QueueReceive(e)) /\ WF_vars(QueueSend)
    /\ WF_vars(\E f \in Wanted : Connect(f))
    /\ WF_vars(ReceiveError) /\ WF_vars(manager = "greet" /\ Keepalive)
    /\ WF_vars(LoopDone) /\ WF_vars(LoopStep)
    /\ \A r \in Requests : WF_vars(RequestStep(r))

Spec == Init /\ [][Next]_vars
FairSpec == Spec /\ Fairness

-----------------------------------------------------------------------------
(* Properties.                                                              *)

Messages == Events \cup Requests
Elements(s) == {s[i] : i \in 1 .. Len(s)}

\* Every variable has its type; no channel exceeds its capacity, and no event is
\* both waiting in the queue and taken from it.
TypeOK ==
    /\ format \in [Events -> Formats \cup {"none"}]
    /\ ready \subseteq Events /\ unacked \subseteq Events /\ ready \cap unacked = {}
    /\ held \in Seq(Events) /\ Len(held) <= HandCap
    /\ sendq \in Seq(Messages) /\ Len(sendq) <= SendCap
    /\ sending.msg \in Messages \cup {"none"}
    /\ sending.stage \in {"idle", "write", "sent", "failed"}
    /\ written \subseteq Events /\ unread \subseteq Events
    /\ link \in {"none", "up", "lost"} /\ marshal \in Formats /\ cancelled \in BOOLEAN
    /\ manager \in {"connect", "greet", "loop"}
    /\ request \in [Requests -> {"none", "received", "spawned", "running", "done"}]
    /\ inProgress \in BOOLEAN /\ breaks \in 0 .. MaxBreaks /\ crashes \in 0 .. MaxCrashes

OnItsWay == (Elements(held) \cup Elements(sendq) \cup {sending.msg}) \cap Events

\* An event that the API accepted is in the durable queue until it was written to a
\* connection, whatever breaks and crashes in between; and one that was taken from
\* the queue is on its way, none is left there unacknowledged until the agent is
\* started again (api.go:87-136, 139-170, transport.go:262-266).
KeptUntilSent ==
    /\ \A e \in Events : format[e] # "none" => e \in ready \cup unacked \cup written
    /\ unacked = OnItsWay

\* Every event that the API accepted is sent in the end, and no check is refused
\* for good, although channels fill up while there is no connection, and
\* executeCheck waits for room with its check marked (check_handler.go:102-104, 285).
SentInTheEnd == /\ \A e \in Events : format[e] # "none" ~> e \in written
                /\ []<>(~inProgress)

\* "addEvent accepts an event and send it to the backend" (api.go:138): the backend
\* can decode what it gets.
BackendCanDecode == unread = {}

=============================================================================
