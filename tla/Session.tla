------------------------------ MODULE Session ------------------------------
(***************************************************************************)
(* The messages on their way to one client: the bounded queue, the writer  *)
(* goroutine and the closing of a Session (backend/pkg/ws/session.go), and *)
(* the code around it in the handler (backend/pkg/httpapi/server.go): the  *)
(* function write that it gives to the hub, and its deferred cleanup.      *)
(*                                                                         *)
(* Messages are numbered in the order in which Enqueue sees them.  The     *)
(* handler of the connection (Own) and the handlers of other connections   *)
(* (Others) send; a broadcast looks the client up in the hub first and     *)
(* calls write later, when the client may be gone.  One of the others may  *)
(* take the place of this connection in the hub, and closes it then.       *)
(*                                                                         *)
(* The connection belongs to the WebSocket library: Close writes a close   *)
(* frame, after which no message goes out, and waits for the peer's answer *)
(* for a bounded time; a cancelled or failed read or write ends the        *)
(* connection at once.                                                     *)
(***************************************************************************)
EXTENDS Integers, SequencesExt

CONSTANTS
    Own,            \* the handler of this connection
    Others,         \* handlers of other connections to the room
    QueueSize,      \* websocket.outbound_queue_size
    MaxMessages     \* bound: messages sent to the client

ASSUME SessionAssumption ==
    /\ Own \notin Others
    /\ QueueSize \in Nat \ {0}
    /\ MaxMessages \in Nat

VARIABLES
    queue,      \* the messages in the channel
    once,       \* Session.Close: open, flagged (closed is set) or done
    closer,     \* who is in Session.Close
    cancelled,  \* connectionCtx is cancelled
    link,       \* the connection: open, closing or closed
    writer,     \* where Run is
    hand,       \* the message Run is writing, in a sequence
    delivered,  \* what was written to the client
    sent,       \* messages so far
    lost,       \* those that Enqueue refused
    call,       \* where each sender is in its call to write
    handler,    \* where the handler is
    inHub       \* the hub has the connection

writerVars == <<writer, hand, delivered>>
sendVars == <<sent, lost, call>>
vars == <<queue, once, closer, cancelled, link, writerVars, sendVars, handler, inHub>>

Senders == Others \cup {Own}

Run == "Run"    \* as a caller of Session.Close

Init ==
    /\ queue = <<>>
    /\ once = "open"
    /\ closer = {}
    /\ cancelled = FALSE
    /\ link = "open"
    /\ writer = "started"
    /\ hand = <<>>
    /\ delivered = <<>>
    /\ sent = 0
    /\ lost = {}
    /\ call = [ x \in Senders |-> "none" ]
    /\ handler = "serving"
    /\ inHub = TRUE

-----------------------------------------------------------------------------
(* write, for anybody who sends to the client *)

\* The bound on messages, those that are about to be queued included.
MoreMessages == sent + Cardinality({ x \in Senders : call[x] = "held" }) < MaxMessages

\* Broadcast has copied the sender, or the handler is about to write itself.
Hold(x) ==
    /\ call[x] = "none" /\ MoreMessages
    /\ IF x = Own THEN handler = "serving" ELSE inHub
    /\ call' = [ call EXCEPT ![x] = "held" ]
    /\ UNCHANGED <<queue, once, closer, cancelled, link, writerVars, sent, lost, handler, inHub>>

\* Mutant: there is always room.
HasRoomAlways == once = "open"

HasRoom == once = "open" /\ Len(queue) < QueueSize

\* Session.Enqueue, under its mutex.
Enqueue(x) ==
    /\ call[x] = "held"
    /\ sent' = sent + 1
    /\ IF HasRoom
       THEN /\ queue' = Append(queue, sent')
            /\ call' = [ call EXCEPT ![x] = "none" ]
            /\ UNCHANGED lost
       ELSE /\ lost' = lost \cup {sent'}
            /\ call' = [ call EXCEPT ![x] = "refused" ]
            /\ UNCHANGED queue
    /\ UNCHANGED <<once, closer, cancelled, link, writerVars, handler, inHub>>

\* The client is too slow, or gone: cancelConnection.
GiveUp(x) ==
    /\ call[x] = "refused"
    /\ cancelled' = TRUE
    /\ call' = [ call EXCEPT ![x] = "closing" ]
    /\ UNCHANGED <<queue, once, closer, link, writerVars, sent, lost, handler, inHub>>

\* Conn.Close: the close frame, and the wait for the answer.
CloseFrame == link' = IF link = "open" THEN "closing" ELSE link

CloseAsSender(x) ==
    /\ call[x] = "closing"
    /\ CloseFrame
    /\ call' = [ call EXCEPT ![x] = "waiting" ]
    /\ UNCHANGED <<queue, once, closer, cancelled, writerVars, sent, lost, handler, inHub>>

\* Mutant: whoever closes a slow client waits until its handler has gone.
ClosedBySenderWhenGone(x) ==
    /\ call[x] = "waiting" /\ handler = "ended"
    /\ link' = "closed"
    /\ call' = [ call EXCEPT ![x] = "none" ]
    /\ UNCHANGED <<queue, once, closer, cancelled, writerVars, sent, lost, handler, inHub>>

ClosedBySender(x) ==
    /\ call[x] = "waiting"
    /\ link' = "closed"
    /\ call' = [ call EXCEPT ![x] = "none" ]
    /\ UNCHANGED <<queue, once, closer, cancelled, writerVars, sent, lost, handler, inHub>>

-----------------------------------------------------------------------------
(* Session.Close *)

\* The first caller sets closed; any other waits for it, as sync.Once has it.
FlagClosed(x) ==
    /\ once = "open"
    /\ once' = "flagged"
    /\ closer' = {x}

\* Mutant: Close waits for the writer.
CloseDoneAfterRun(x) ==
    /\ once = "flagged" /\ closer = {x} /\ writer = "ended"
    /\ once' = "done"
    /\ closer' = {}

CloseDone(x) ==
    /\ once = "flagged" /\ closer = {x}
    /\ once' = "done"
    /\ closer' = {}

-----------------------------------------------------------------------------
(* Session.Run *)

RunTo(from, to) == writer = from /\ writer' = to

Start ==
    /\ RunTo("started", IF cancelled THEN "stopping" ELSE "select")
    /\ UNCHANGED <<queue, once, closer, cancelled, link, hand, delivered, sendVars, handler, inHub>>

\* select, on a cancelled context or a closed session.
SelectEnd ==
    /\ \/ cancelled /\ RunTo("select", "stopping")
       \/ once = "done" /\ RunTo("select", "returned")
    /\ UNCHANGED <<queue, once, closer, cancelled, link, hand, delivered, sendVars, handler, inHub>>

\* Mutant: the newest message goes first.
SelectNewestMessage ==
    /\ RunTo("select", "writing")
    /\ queue # <<>>
    /\ hand' = <<Last(queue)>>
    /\ queue' = Front(queue)
    /\ UNCHANGED <<once, closer, cancelled, link, delivered, sendVars, handler, inHub>>

SelectMessage ==
    /\ RunTo("select", "writing")
    /\ queue # <<>>
    /\ hand' = <<Head(queue)>>
    /\ queue' = Tail(queue)
    /\ UNCHANGED <<once, closer, cancelled, link, delivered, sendVars, handler, inHub>>

SelectTick ==
    /\ RunTo("select", "pinging")
    /\ UNCHANGED <<queue, once, closer, cancelled, link, hand, delivered, sendVars, handler, inHub>>

\* The message or the ping goes out, unless the connection has begun to close.
WriteSucceeds ==
    /\ writer \in {"writing", "pinging"}
    /\ link = "open"
    /\ writer' = "select"
    /\ delivered' = delivered \o hand
    /\ hand' = <<>>
    /\ UNCHANGED <<queue, once, closer, cancelled, link, sendVars, handler, inHub>>

\* Mutant: a message that cannot be written in time is passed over.
WriteFailsUnnoticed ==
    /\ writer \in {"writing", "pinging"}
    /\ writer' = "select"
    /\ hand' = <<>>
    /\ UNCHANGED <<queue, once, closer, cancelled, link, delivered, sendVars, handler, inHub>>

\* It fails or times out, which ends the connection.
WriteFails ==
    /\ writer \in {"writing", "pinging"}
    /\ writer' = "stopping"
    /\ link' = "closed"
    /\ hand' = <<>>
    /\ UNCHANGED <<queue, once, closer, cancelled, delivered, sendVars, handler, inHub>>

StopFlag ==
    /\ writer = "stopping"
    /\ FlagClosed(Run)
    /\ UNCHANGED <<queue, cancelled, link, writerVars, sendVars, handler, inHub>>

StopDone ==
    /\ writer = "stopping"
    /\ CloseDone(Run)
    /\ UNCHANGED <<queue, cancelled, link, writerVars, sendVars, handler, inHub>>

StopReturn ==
    /\ once = "done"
    /\ RunTo("stopping", "returned")
    /\ UNCHANGED <<queue, once, closer, cancelled, link, hand, delivered, sendVars, handler, inHub>>

\* Run returned an error, as it always does: the goroutine around it ends all.
RunCancels ==
    /\ RunTo("returned", "closing")
    /\ cancelled' = TRUE
    /\ UNCHANGED <<queue, once, closer, link, hand, delivered, sendVars, handler, inHub>>

RunCloses ==
    /\ RunTo("closing", "waiting")
    /\ CloseFrame
    /\ UNCHANGED <<queue, once, closer, cancelled, hand, delivered, sendVars, handler, inHub>>

RunEnds ==
    /\ RunTo("waiting", "ended")
    /\ link' = "closed"
    /\ UNCHANGED <<queue, once, closer, cancelled, hand, delivered, sendVars, handler, inHub>>

-----------------------------------------------------------------------------
(* The handler *)

HandlerTo(from, to) == handler = from /\ call[Own] = "none" /\ handler' = to

\* Read fails on a cancelled context, and then ends the connection, or on a
\* connection that is closed.
ReadFails ==
    /\ cancelled \/ link = "closed"
    /\ HandlerTo("serving", "leaving")
    /\ link' = "closed"
    /\ UNCHANGED <<queue, once, closer, cancelled, writerVars, sendVars, inHub>>

\* A message it refuses: it writes the error and returns.
Refuse ==
    /\ HandlerTo("serving", "refusing") /\ MoreMessages
    /\ call' = [ call EXCEPT ![Own] = "held" ]
    /\ UNCHANGED <<queue, once, closer, cancelled, link, writerVars, sent, lost, inHub>>

RefusalWritten ==
    /\ HandlerTo("refusing", "leaving")
    /\ UNCHANGED <<queue, once, closer, cancelled, link, writerVars, sendVars, inHub>>

LeaveFlag ==
    /\ handler = "leaving"
    /\ FlagClosed(Own)
    /\ UNCHANGED <<queue, cancelled, link, writerVars, sendVars, handler, inHub>>

LeaveDone ==
    /\ handler = "leaving"
    /\ CloseDone(Own)
    /\ UNCHANGED <<queue, cancelled, link, writerVars, sendVars, handler, inHub>>

\* Hub.RemoveConnection.
LeaveHub ==
    /\ once = "done"
    /\ HandlerTo("leaving", "removed")
    /\ inHub' = FALSE
    /\ UNCHANGED <<queue, once, closer, cancelled, link, writerVars, sendVars>>

\* The deferred cancelConnection, and after it Conn.Close.
LeaveCancel ==
    /\ HandlerTo("removed", "closing")
    /\ cancelled' = TRUE
    /\ UNCHANGED <<queue, once, closer, link, writerVars, sendVars, inHub>>

LeaveClose ==
    /\ HandlerTo("closing", "waiting")
    /\ CloseFrame
    /\ UNCHANGED <<queue, once, closer, cancelled, writerVars, sendVars, inHub>>

LeaveEnd ==
    /\ HandlerTo("waiting", "ended")
    /\ link' = "closed"
    /\ UNCHANGED <<queue, once, closer, cancelled, writerVars, sendVars, inHub>>

-----------------------------------------------------------------------------

PeerLeaves ==
    /\ link # "closed"
    /\ link' = "closed"
    /\ UNCHANGED <<queue, once, closer, cancelled, writerVars, sendVars, handler, inHub>>

\* x is the handler of a newer connection of the same participant, and will
\* call previousClose, which does what write does to a client that is too slow:
\* it cancels the context and closes the connection.
Replaced(x) ==
    /\ inHub /\ call[x] = "none"
    /\ inHub' = FALSE
    /\ call' = [ call EXCEPT ![x] = "refused" ]
    /\ UNCHANGED <<queue, once, closer, cancelled, link, writerVars, sent, lost, handler>>

SenderStep(x) == Enqueue(x) \/ GiveUp(x) \/ CloseAsSender(x) \/ ClosedBySender(x)

WriterStep ==
    \/ Start \/ SelectEnd \/ SelectTick \/ WriteSucceeds \/ WriteFails
    \/ StopFlag \/ StopDone \/ StopReturn \/ RunCancels \/ RunCloses \/ RunEnds

HandlerStep ==
    \/ ReadFails \/ RefusalWritten \/ LeaveFlag \/ LeaveDone
    \/ LeaveHub \/ LeaveCancel \/ LeaveClose \/ LeaveEnd

Next ==
    \/ \E x \in Senders : Hold(x) \/ SenderStep(x)
    \/ WriterStep \/ SelectMessage
    \/ HandlerStep \/ Refuse
    \/ PeerLeaves
    \/ \E x \in Others : Replaced(x)

Spec == Init /\ [][Next]_vars

\* Goroutines run, and what they wait for in the library ends: every write
\* and ping has a timeout, and so has the wait for the peer's close frame.
\* select chooses among the ready cases at random, so neither the messages
\* nor the end is passed over for ever.
Fairness ==
    /\ \A x \in Senders : WF_vars(SenderStep(x))
    /\ WF_vars(WriterStep \/ SelectMessage)
    /\ SF_vars(SelectMessage)
    /\ SF_vars(SelectEnd)
    /\ WF_vars(HandlerStep)

FairSpec == Spec /\ Fairness

-----------------------------------------------------------------------------

(***************************************************************************)
(* The variables have their types; nobody is in Session.Close unless it is *)
(* under way, and the queue keeps to its size.                             *)
(***************************************************************************)
SessionTypeOK ==
    /\ queue \in Seq(1 .. sent) /\ Len(queue) <= QueueSize
    /\ once \in {"open", "flagged", "done"}
    /\ closer \subseteq {Run, Own}
    /\ closer # {} <=> once = "flagged"
    /\ cancelled \in BOOLEAN /\ inHub \in BOOLEAN
    /\ link \in {"open", "closing", "closed"}
    /\ writer \in { "started", "select", "writing", "pinging", "stopping",
                    "returned", "closing", "waiting", "ended" }
    /\ hand \in Seq(1 .. sent) /\ (hand # <<>> <=> writer = "writing")
    /\ delivered \in Seq(1 .. sent)
    /\ sent \in 0 .. MaxMessages
    /\ lost \subseteq 1 .. sent
    /\ call \in [ Senders -> {"none", "held", "refused", "closing", "waiting"} ]
    /\ handler \in { "serving", "refusing", "leaving", "removed",
                     "closing", "waiting", "ended" }

\* The messages that Enqueue accepted.
Accepted == (1 .. sent) \ lost

\* Each at most once, in the order in which Enqueue saw them.
InOrder(s) == \A i, j \in DOMAIN s : i < j => s[i] < s[j]

(***************************************************************************)
(* As long as the connection is open, whatever happens to the session, the *)
(* client has got, or will get if the connection lasts, every message that *)
(* Enqueue accepted, once each and in the order in which it accepted them. *)
(***************************************************************************)
AcceptedAreOnTheirWay ==
    LET way == delivered \o hand \o queue IN
    link = "open" => ToSet(way) = Accepted /\ InOrder(way)

\* The connection is closed, the hub has forgotten it and its handler and its
\* writer have ended.
Gone == link = "closed" /\ ~ inHub /\ handler = "ended" /\ writer = "ended"

(***************************************************************************)
(* However a connection begins to end (its peer leaves, a write or a ping  *)
(* fails, the handler refuses a message, a newer connection replaces it,   *)
(* or the queue has refused a message: "slow clients are disconnected when *)
(* full", docker/README.md), both of its goroutines end, although each of  *)
(* them closes the session and the connection and either may come first.   *)
(***************************************************************************)
EndedConnectionsLeaveNothing ==
    \/ lost # {}
    \/ cancelled \/ link # "open" \/ handler # "serving" \/ writer = "stopping"
    ~> Gone

(***************************************************************************)
(* A message that Enqueue accepted is written, unless the connection ends  *)
(* first: pings do not hold it up, and nor do the messages that follow.    *)
(***************************************************************************)
AcceptedArrive ==
    \A m \in 1 .. MaxMessages :
        (m \in Accepted) ~> (m \in ToSet(delivered) \/ link # "open")

(***************************************************************************)
(* Whoever broadcasts comes back from a slow client: the handler of        *)
(* another client, which closes the connection itself, the handler of this *)
(* one, and the handler that replaces it.                                  *)
(***************************************************************************)
BroadcastsEnd == \A x \in Senders : (call[x] # "none") ~> (call[x] = "none")

=============================================================================
