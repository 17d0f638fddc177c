---------------------------- MODULE SessionProofs ----------------------------
(***************************************************************************)
(* The queue of a connection, for every number of senders, every size of   *)
(* the queue and every number of messages: the variables keep their types, *)
(* the queue its bound, and as long as the connection is open what the     *)
(* client has been sent and what is still on its way are the messages that *)
(* Enqueue accepted, each once and in order.                               *)
(***************************************************************************)
EXTENDS Session, SequenceTheorems, FiniteSetTheorems, TLAPS

-----------------------------------------------------------------------------
(* Type correctness *)

\* Those who are about to call Enqueue.
Holding == { x \in Senders : call[x] = "held" }

\* MoreMessages is looked at before a message is counted in sent, so the bound
\* on sent needs the messages that are about to be queued.
HeldCounted ==
    /\ IsFiniteSet(Holding)
    /\ sent + Cardinality(Holding) <= MaxMessages

TypeInv == SessionTypeOK /\ HeldCounted

LEMMA HoldingShrinks ==
    ASSUME TypeInv, Holding' \subseteq Holding, sent' = sent
    PROVE  HeldCounted'
<1>1. IsFiniteSet(Holding') /\ Cardinality(Holding') <= Cardinality(Holding)
  BY FS_Subset DEF TypeInv, HeldCounted
<1>2. Cardinality(Holding') \in Nat /\ Cardinality(Holding) \in Nat
  BY <1>1, FS_CardinalityType DEF TypeInv, HeldCounted
<1> QED
  BY <1>1, <1>2, SessionAssumption DEF TypeInv, HeldCounted, SessionTypeOK

\* A sender that was idle is about to send one more message.
LEMMA HoldingGrows ==
    ASSUME TypeInv, NEW x \in Senders, call[x] # "held", MoreMessages,
           call' = [ call EXCEPT ![x] = "held" ], sent' = sent
    PROVE  HeldCounted'
<1>1. Holding' = Holding \cup {x} /\ x \notin Holding
  BY DEF Holding, TypeInv, SessionTypeOK
<1>2. /\ IsFiniteSet(Holding')
      /\ Cardinality(Holding') = Cardinality(Holding) + 1
  BY <1>1, FS_AddElement DEF TypeInv, HeldCounted
<1>3. Cardinality(Holding) \in Nat
  BY FS_CardinalityType DEF TypeInv, HeldCounted
<1>4. sent + Cardinality(Holding) < MaxMessages
  BY DEF MoreMessages, Holding
<1> QED
  BY <1>2, <1>3, <1>4, SessionAssumption DEF TypeInv, HeldCounted, SessionTypeOK

\* It calls Enqueue.
LEMMA HoldingCounts ==
    ASSUME TypeInv, NEW x \in Senders, call[x] = "held", NEW v, v # "held",
           call' = [ call EXCEPT ![x] = v ], sent' = sent + 1
    PROVE  HeldCounted' /\ sent' \in 0 .. MaxMessages
<1>1. Holding' = Holding \ {x} /\ x \in Holding
  BY DEF Holding, TypeInv, SessionTypeOK
<1>2. /\ IsFiniteSet(Holding')
      /\ Cardinality(Holding') = Cardinality(Holding) - 1
  BY <1>1, FS_RemoveElement DEF TypeInv, HeldCounted
<1>3. Cardinality(Holding) \in Nat /\ Cardinality(Holding') \in Nat
  BY <1>2, FS_CardinalityType DEF TypeInv, HeldCounted
<1> QED
  BY <1>2, <1>3, SessionAssumption DEF TypeInv, HeldCounted, SessionTypeOK

LEMMA InitTypeInv == Init => TypeInv
<1> SUFFICES ASSUME Init
             PROVE  TypeInv
  OBVIOUS
<1>1. Holding = {}
  BY DEF Init, Holding
<1>2. HeldCounted
  BY <1>1, FS_EmptySet, SessionAssumption DEF Init, HeldCounted
<1>3. SessionTypeOK
  <2>1. /\ <<>> \in Seq(1 .. sent)
        /\ Len(<<>>) = 0
    BY EmptySeq
  <2>2. sent \in 0 .. MaxMessages /\ lost \subseteq 1 .. sent
    BY SessionAssumption DEF Init
  <2>3. queue \in Seq(1 .. sent) /\ Len(queue) <= QueueSize
    BY <2>1, SessionAssumption DEF Init
  <2>4. /\ hand \in Seq(1 .. sent) /\ (hand # <<>> <=> writer = "writing")
        /\ delivered \in Seq(1 .. sent)
    BY <2>1 DEF Init
  <2>5. closer \subseteq {Run, Own} /\ (closer # {} <=> once = "flagged")
    BY DEF Init
  <2>6. call \in [ Senders -> {"none", "held", "refused", "closing", "waiting"} ]
    BY DEF Init
  <2> QED
    BY <2>2, <2>3, <2>4, <2>5, <2>6 DEF Init, SessionTypeOK
<1> QED
  BY <1>2, <1>3 DEF TypeInv

\* A sequence of messages remains one when there are more messages.
LEMMA MoreSeq ==
    ASSUME NEW n \in Nat, NEW s \in Seq(1 .. n)
    PROVE  s \in Seq(1 .. (n + 1))
<1>1. 1 .. n \subseteq 1 .. (n + 1)
  OBVIOUS
<1> QED
  BY <1>1, SeqMonotonic

LEMMA NextTypeInv == TypeInv /\ [Next]_vars => TypeInv'
<1> SUFFICES ASSUME TypeInv, [Next]_vars
             PROVE  TypeInv'
  OBVIOUS
<1>0. SessionTypeOK /\ HeldCounted
  BY DEF TypeInv
<1>1. ASSUME UNCHANGED sendVars
      PROVE  HeldCounted'
  BY <1>0, <1>1 DEF sendVars, HeldCounted, Holding
<1>2. ASSUME NEW x \in Senders, Hold(x)
      PROVE  TypeInv'
  <2>1. HeldCounted'
    BY <1>2, HoldingGrows DEF Hold
  <2>2. SessionTypeOK'
    BY <1>0, <1>2 DEF Hold, writerVars, SessionTypeOK
  <2> QED
    BY <2>1, <2>2 DEF TypeInv
<1>3. ASSUME NEW x \in Senders, Enqueue(x)
      PROVE  TypeInv'
  <2> DEFINE v == IF HasRoom THEN "none" ELSE "refused"
  <2>1. HeldCounted' /\ sent' \in 0 .. MaxMessages
    <3>1. call[x] = "held" /\ call' = [ call EXCEPT ![x] = v ] /\ sent' = sent + 1
      BY <1>3 DEF Enqueue
    <3>2. v # "held"
      OBVIOUS
    <3> HIDE DEF v
    <3> QED
      BY <3>1, <3>2, HoldingCounts
  <2>2. sent \in Nat /\ sent' = sent + 1
    BY <1>0, <1>3, SessionAssumption DEF Enqueue, SessionTypeOK
  <2>3. /\ queue \in Seq(1 .. sent') /\ hand \in Seq(1 .. sent')
        /\ delivered \in Seq(1 .. sent') /\ sent' \in 1 .. sent'
    BY <1>0, <2>2, MoreSeq DEF SessionTypeOK
  <2>4. queue' \in Seq(1 .. sent') /\ Len(queue') <= QueueSize
    <3>1. CASE HasRoom
      <4>1. queue' = Append(queue, sent') /\ Len(queue) < QueueSize
        BY <1>3, <3>1 DEF Enqueue, HasRoom
      <4>2. queue' \in Seq(1 .. sent') /\ Len(queue') = Len(queue) + 1
        BY <2>3, <4>1, AppendProperties
      <4>3. Len(queue) \in Nat
        BY <2>3, LenProperties
      <4> QED
        BY <4>1, <4>2, <4>3, SessionAssumption
    <3>2. CASE ~ HasRoom
      BY <1>0, <1>3, <2>3, <3>2 DEF Enqueue, SessionTypeOK
    <3> QED
      BY <3>1, <3>2
  <2>5. lost' \subseteq 1 .. sent'
    <3>1. lost' = lost \/ lost' = lost \cup {sent'}
      BY <1>3 DEF Enqueue
    <3>2. lost \subseteq 1 .. sent /\ 1 .. sent \subseteq 1 .. (sent + 1)
      BY <1>0, <2>2 DEF SessionTypeOK
    <3> QED
      BY <2>2, <2>3, <3>1, <3>2
  <2>6. call' \in [ Senders -> {"none", "held", "refused", "closing", "waiting"} ]
    BY <1>0, <1>3 DEF Enqueue, SessionTypeOK
  <2>7. SessionTypeOK'
    BY <1>0, <1>3, <2>1, <2>3, <2>4, <2>5, <2>6 DEF Enqueue, writerVars, SessionTypeOK
  <2> QED
    BY <2>1, <2>7 DEF TypeInv
<1>4. ASSUME NEW x \in Senders, GiveUp(x) \/ CloseAsSender(x) \/ ClosedBySender(x)
      PROVE  TypeInv'
  <2>1. Holding' \subseteq Holding /\ sent' = sent
    BY <1>0, <1>4 DEF GiveUp, CloseAsSender, ClosedBySender, Holding, SessionTypeOK
  <2>2. HeldCounted'
    BY <2>1, HoldingShrinks
  <2>3. SessionTypeOK'
    <3>1. CASE GiveUp(x)
      BY <1>0, <3>1 DEF GiveUp, writerVars, SessionTypeOK
    <3>2. CASE CloseAsSender(x)
      BY <1>0, <3>2 DEF CloseAsSender, CloseFrame, writerVars, SessionTypeOK
    <3>3. CASE ClosedBySender(x)
      BY <1>0, <3>3 DEF ClosedBySender, writerVars, SessionTypeOK
    <3> QED
      BY <1>4, <3>1, <3>2, <3>3
  <2> QED
    BY <2>2, <2>3 DEF TypeInv
<1>5. CASE WriterStep /\ ~ WriteSucceeds
  <2>1. HeldCounted'
    BY <1>1, <1>5 DEF WriterStep, Start, SelectEnd, SelectTick, WriteFails, StopFlag,
                      StopDone, StopReturn, RunCancels, RunCloses, RunEnds
  <2>2. /\ sent' = sent /\ delivered' = delivered /\ queue' = queue
        /\ lost' = lost /\ call' = call /\ handler' = handler /\ inHub' = inHub
    BY <1>5 DEF WriterStep, Start, SelectEnd, SelectTick, WriteFails, StopFlag,
                StopDone, StopReturn, RunCancels, RunCloses, RunEnds, writerVars, sendVars
  <2>3. hand' \in Seq(1 .. sent') /\ (hand' # <<>> <=> writer' = "writing")
    BY <1>0, <1>5, EmptySeq DEF WriterStep, Start, SelectEnd, SelectTick, WriteFails,
                StopFlag, StopDone, StopReturn, RunCancels, RunCloses, RunEnds, RunTo,
                writerVars, sendVars, SessionTypeOK
  <2>4. /\ closer' \subseteq {Run, Own}
        /\ closer' # {} <=> once' = "flagged"
        /\ once' \in {"open", "flagged", "done"}
    BY <1>0, <1>5 DEF WriterStep, Start, SelectEnd, SelectTick, WriteFails,
                StopFlag, StopDone, StopReturn, RunCancels, RunCloses, RunEnds, FlagClosed,
                CloseDone, SessionTypeOK
  <2>5. /\ cancelled' \in BOOLEAN
        /\ link' \in {"open", "closing", "closed"}
        /\ writer' \in { "started", "select", "writing", "pinging", "stopping",
                         "returned", "closing", "waiting", "ended" }
    BY <1>0, <1>5 DEF WriterStep, Start, SelectEnd, SelectTick, WriteFails,
                StopFlag, StopDone, StopReturn, RunCancels, RunCloses, RunEnds, RunTo,
                CloseFrame, writerVars, SessionTypeOK
  <2>6. SessionTypeOK'
    BY <1>0, <2>2, <2>3, <2>4, <2>5 DEF SessionTypeOK
  <2> QED
    BY <2>1, <2>6 DEF TypeInv
<1>6. CASE WriteSucceeds
  <2>1. HeldCounted'
    BY <1>1, <1>6 DEF WriteSucceeds
  <2>2. delivered' \in Seq(1 .. sent)
    BY <1>0, <1>6, ConcatProperties DEF WriteSucceeds, SessionTypeOK
  <2>3. hand' \in Seq(1 .. sent) /\ hand' = <<>> /\ writer' = "select"
    BY <1>6, EmptySeq DEF WriteSucceeds
  <2>4. SessionTypeOK'
    BY <1>0, <1>6, <2>2, <2>3 DEF WriteSucceeds, sendVars, SessionTypeOK
  <2> QED
    BY <2>1, <2>4 DEF TypeInv
<1>7. CASE SelectMessage
  <2>1. HeldCounted'
    BY <1>1, <1>7 DEF SelectMessage
  <2>2. /\ Head(queue) \in 1 .. sent
        /\ queue' \in Seq(1 .. sent)
        /\ Len(queue') = Len(queue) - 1
        /\ Len(queue) \in Nat
    BY <1>0, <1>7, HeadTailProperties, LenProperties DEF SelectMessage, SessionTypeOK
  <2>3. Len(queue') <= QueueSize
    BY <1>0, <2>2, SessionAssumption DEF SessionTypeOK
  <2>4. hand' \in Seq(1 .. sent) /\ hand' # <<>> /\ writer' = "writing"
    BY <1>7, <2>2 DEF SelectMessage, RunTo
  <2>5. SessionTypeOK'
    BY <1>0, <1>7, <2>2, <2>3, <2>4 DEF SelectMessage, sendVars, SessionTypeOK
  <2> QED
    BY <2>1, <2>5 DEF TypeInv
<1>8. CASE HandlerStep
  <2>1. HeldCounted'
    BY <1>1, <1>8 DEF HandlerStep, ReadFails, RefusalWritten, LeaveFlag, LeaveDone, LeaveHub,
                      LeaveCancel, LeaveClose, LeaveEnd
  <2>2. SessionTypeOK'
    BY <1>0, <1>8 DEF HandlerStep, ReadFails, RefusalWritten, LeaveFlag, LeaveDone, LeaveHub,
                      LeaveCancel, LeaveClose, LeaveEnd, HandlerTo, CloseFrame, FlagClosed,
                      CloseDone, writerVars, sendVars, SessionTypeOK
  <2> QED
    BY <2>1, <2>2 DEF TypeInv
<1>9. CASE Refuse
  <2>1. HeldCounted'
    BY <1>9, HoldingGrows DEF Refuse, HandlerTo, Senders
  <2>2. SessionTypeOK'
    BY <1>0, <1>9 DEF Refuse, HandlerTo, Senders, writerVars, SessionTypeOK
  <2> QED
    BY <2>1, <2>2 DEF TypeInv
<1>10. CASE PeerLeaves
  <2>1. HeldCounted'
    BY <1>1, <1>10 DEF PeerLeaves
  <2>2. SessionTypeOK'
    BY <1>0, <1>10 DEF PeerLeaves, writerVars, sendVars, SessionTypeOK
  <2> QED
    BY <2>1, <2>2 DEF TypeInv
<1>12. ASSUME NEW x \in Others, Replaced(x)
       PROVE  TypeInv'
  <2>1. x \in Senders
    BY DEF Senders
  <2>2. HeldCounted'
    <3>1. Holding' \subseteq Holding
      BY <1>0, <1>12, <2>1 DEF Replaced, Holding, SessionTypeOK
    <3> QED
      BY <1>12, <3>1, HoldingShrinks DEF Replaced
  <2>3. SessionTypeOK'
    BY <1>0, <1>12, <2>1 DEF Replaced, writerVars, SessionTypeOK
  <2> QED
    BY <2>2, <2>3 DEF TypeInv
<1>11. CASE UNCHANGED vars
  <2>1. HeldCounted'
    BY <1>1, <1>11 DEF vars
  <2>2. SessionTypeOK'
    BY <1>0, <1>11 DEF vars, writerVars, sendVars, SessionTypeOK
  <2> QED
    BY <2>1, <2>2 DEF TypeInv
<1> QED
  BY <1>2, <1>3, <1>4, <1>5, <1>6, <1>7, <1>8, <1>9, <1>10, <1>11, <1>12 DEF Next, SenderStep

(***************************************************************************)
(* The state of a session keeps its types; nobody is in Session.Close      *)
(* unless it is under way, and no interleaving of senders makes the queue  *)
(* longer than websocket.outbound_queue_size.                              *)
(***************************************************************************)
THEOREM SessionTypeCorrect == Spec => []SessionTypeOK
<1>1. TypeInv => SessionTypeOK
  BY DEF TypeInv
<1> QED
  BY <1>1, InitTypeInv, NextTypeInv, PTL DEF Spec

-----------------------------------------------------------------------------
(* The order of the messages *)

\* What the client has been sent, and what is on its way to it.
Way == delivered \o hand \o queue

WayOK == link = "open" => ToSet(Way) = Accepted /\ InOrder(Way)

\* A sequence of earlier messages, and a later one at its end.
LEMMA OneMore ==
    ASSUME NEW n \in Nat, NEW s \in Seq(1 .. n), InOrder(s)
    PROVE  /\ InOrder(Append(s, n + 1))
           /\ ToSet(Append(s, n + 1)) = ToSet(s) \cup {n + 1}
<1> DEFINE t == Append(s, n + 1)
<1>1. s \in Seq(1 .. (n + 1))
  BY MoreSeq
<1>2. /\ Len(s) \in Nat /\ DOMAIN s = 1 .. Len(s)
      /\ t \in Seq(1 .. (n + 1))
      /\ Len(t) = Len(s) + 1
      /\ \A i \in 1 .. Len(s) : t[i] = s[i]
      /\ t[Len(s) + 1] = n + 1
  BY <1>1, AppendProperties, LenProperties
<1>3. \A i \in 1 .. Len(s) : s[i] \in 1 .. n
  BY ElementOfSeq
<1> HIDE DEF t
<1>4. DOMAIN t = 1 .. (Len(s) + 1)
  BY <1>2, LenProperties
<1>5. InOrder(t)
  <2> SUFFICES ASSUME NEW i \in 1 .. (Len(s) + 1), NEW j \in 1 .. (Len(s) + 1), i < j
               PROVE  t[i] < t[j]
    BY <1>4 DEF InOrder
  <2>1. i \in 1 .. Len(s) /\ t[i] = s[i] /\ s[i] \in 1 .. n
    BY <1>2, <1>3
  <2>2. CASE j = Len(s) + 1
    BY <1>2, <2>1, <2>2
  <2>3. CASE j # Len(s) + 1
    <3>1. j \in 1 .. Len(s)
      BY <1>2, <2>3
    <3>2. t[j] = s[j]
      BY <1>2, <3>1
    <3> QED
      BY <1>2, <2>1, <3>1, <3>2 DEF InOrder
  <2> QED
    BY <2>2, <2>3
<1>6. ToSet(t) = ToSet(s) \cup {n + 1}
  <2>1. \A i \in 1 .. (Len(s) + 1) : i \in 1 .. Len(s) \/ i = Len(s) + 1
    BY <1>2
  <2>2. 1 .. Len(s) \subseteq 1 .. (Len(s) + 1) /\ Len(s) + 1 \in 1 .. (Len(s) + 1)
    BY <1>2
  <2> QED
    BY <1>2, <1>4, <2>1, <2>2 DEF ToSet
<1> QED
  BY <1>5, <1>6 DEF t

LEMMA InitWay == Init => WayOK
<1> SUFFICES ASSUME Init
             PROVE  WayOK
  OBVIOUS
<1>1. Way = <<>>
  <2>1. <<>> \in Seq({}) /\ <<>> \o <<>> = <<>>
    BY EmptySeq, ConcatEmptySeq
  <2> QED
    BY <2>1 DEF Init, Way
<1>2. DOMAIN Way = {}
  BY <1>1, LenProperties, EmptySeq
<1>3. ToSet(Way) = {} /\ InOrder(Way)
  BY <1>2 DEF ToSet, InOrder
<1>4. Accepted = {}
  BY DEF Init, Accepted
<1> QED
  BY <1>3, <1>4 DEF WayOK

LEMMA NextWay == TypeInv /\ WayOK /\ [Next]_vars => WayOK'
<1> SUFFICES ASSUME TypeInv, WayOK, [Next]_vars
             PROVE  WayOK'
  OBVIOUS
<1>0. /\ delivered \in Seq(1 .. sent) /\ hand \in Seq(1 .. sent) /\ queue \in Seq(1 .. sent)
      /\ sent \in Nat
      /\ link \in {"open", "closing", "closed"}
      /\ lost \subseteq 1 .. sent
      /\ hand # <<>> <=> writer = "writing"
  BY SessionAssumption DEF TypeInv, SessionTypeOK
<1>1. ASSUME link' = "open" => link = "open" /\ Way' = Way, UNCHANGED <<sent, lost>>
      PROVE  WayOK'
  BY <1>1 DEF WayOK, Accepted
<1>2. ASSUME NEW x \in Senders, Enqueue(x)
      PROVE  WayOK'
  <2>1. sent' = sent + 1 /\ link' = link /\ delivered' = delivered /\ hand' = hand
    BY <1>2 DEF Enqueue, writerVars
  <2>2. CASE HasRoom
    <3>1. queue' = Append(queue, sent + 1) /\ lost' = lost
      BY <1>2, <2>2 DEF Enqueue
    <3>2. /\ delivered \in Seq(1 .. (sent + 1)) /\ hand \in Seq(1 .. (sent + 1))
          /\ queue \in Seq(1 .. (sent + 1)) /\ sent + 1 \in 1 .. (sent + 1)
      BY <1>0, MoreSeq
    <3> DEFINE d == delivered \o hand
               S == 1 .. (sent + 1)
    <3>3. d \in Seq(S) /\ Way \in Seq(S)
      BY <3>2, ConcatProperties DEF Way
    <3>4. Way' = Append(Way, sent + 1)
      <4>1. Way' = d \o Append(queue, sent + 1)
        BY <2>1, <3>1 DEF Way
      <4>2. Way = d \o queue
        BY DEF Way
      <4>3. <<sent + 1>> \in Seq(S)
        BY <3>2
      <4> HIDE DEF d, S
      <4>4. Append(queue, sent + 1) = queue \o <<sent + 1>>
        BY <3>2, AppendIsConcat DEF S
      <4>5. d \o (queue \o <<sent + 1>>) = (d \o queue) \o <<sent + 1>>
        BY <3>2, <3>3, <4>3, ConcatAssociative DEF S
      <4>6. Append(Way, sent + 1) = Way \o <<sent + 1>>
        BY <3>2, <3>3, AppendIsConcat DEF S
      <4> QED
        BY <4>1, <4>2, <4>4, <4>5, <4>6
    <3>5. Way \in Seq(1 .. sent)
      BY <1>0, ConcatProperties DEF Way
    <3>6. Accepted' = Accepted \cup {sent + 1}
      BY <1>0, <2>1, <3>1 DEF Accepted
    <3> QED
      BY <1>0, <2>1, <3>4, <3>5, <3>6, OneMore DEF WayOK
  <2>3. CASE ~ HasRoom
    <3>1. queue' = queue /\ lost' = lost \cup {sent + 1}
      BY <1>2, <2>1, <2>3 DEF Enqueue
    <3>2. Way' = Way
      BY <2>1, <3>1 DEF Way
    <3>3. Accepted' = Accepted
      BY <1>0, <2>1, <3>1 DEF Accepted
    <3> QED
      BY <2>1, <3>2, <3>3 DEF WayOK
  <2> QED
    BY <2>2, <2>3
<1>3. CASE SelectMessage
  <2>1. /\ hand = <<>> /\ queue # <<>>
        /\ hand' = <<Head(queue)>> /\ queue' = Tail(queue)
        /\ delivered' = delivered
    BY <1>0, <1>3 DEF SelectMessage, RunTo
  <2>2. Head(queue) \in 1 .. sent /\ Tail(queue) \in Seq(1 .. sent)
    BY <1>0, <2>1, HeadTailProperties
  <2>3. <<Head(queue)>> \o Tail(queue) = queue
    BY <1>0, <2>1, <2>2
  <2>4. (delivered \o <<Head(queue)>>) \o Tail(queue)
            = delivered \o (<<Head(queue)>> \o Tail(queue))
    <3> DEFINE h == <<Head(queue)>>
               S == 1 .. sent
    <3>1. delivered \in Seq(S) /\ h \in Seq(S) /\ Tail(queue) \in Seq(S)
      BY <1>0, <2>2
    <3> HIDE DEF h, S
    <3>2. (delivered \o h) \o Tail(queue) = delivered \o (h \o Tail(queue))
      BY <3>1, ConcatAssociative
    <3> QED
      BY <3>2 DEF h
  <2>5. delivered \o <<>> = delivered
    BY <1>0, ConcatEmptySeq
  <2>6. Way' = Way
    BY <2>1, <2>3, <2>4, <2>5 DEF Way
  <2> QED
    BY <1>1, <1>3, <2>6 DEF SelectMessage, sendVars
<1>4. CASE WriteSucceeds
  <2>1. delivered' = delivered \o hand /\ hand' = <<>> /\ queue' = queue
    BY <1>4 DEF WriteSucceeds
  <2>2. (delivered \o hand) \o <<>> = delivered \o hand
    BY <1>0, ConcatProperties, ConcatEmptySeq
  <2>3. Way' = Way
    BY <2>1, <2>2 DEF Way
  <2> QED
    BY <1>1, <1>4, <2>3 DEF WriteSucceeds, sendVars
<1>5. CASE WriteFails
  BY <1>1, <1>5 DEF WriteFails, sendVars
<1>6. ASSUME UNCHANGED <<queue, hand, delivered, sent, lost>>, link' = "open" => link = "open"
      PROVE  WayOK'
  <2>1. Way' = Way
    BY <1>6 DEF Way
  <2> QED
    BY <1>1, <1>6, <2>1
<1>7. ASSUME NEW x \in Senders,
             Hold(x) \/ GiveUp(x) \/ CloseAsSender(x) \/ ClosedBySender(x)
      PROVE  WayOK'
  BY <1>0, <1>6, <1>7 DEF Hold, GiveUp, CloseAsSender, ClosedBySender, CloseFrame, writerVars
<1>8. CASE WriterStep /\ ~ WriteSucceeds /\ ~ WriteFails
  BY <1>0, <1>6, <1>8 DEF WriterStep, Start, SelectEnd, SelectTick, StopFlag, StopDone,
                     StopReturn, RunCancels, RunCloses, RunEnds, CloseFrame, writerVars, sendVars
<1>9. CASE HandlerStep
  BY <1>0, <1>6, <1>9 DEF HandlerStep, ReadFails, RefusalWritten, LeaveFlag, LeaveDone, LeaveHub,
                     LeaveCancel, LeaveClose, LeaveEnd, CloseFrame, writerVars, sendVars
<1>10. CASE Refuse \/ PeerLeaves \/ (\E x \in Others : Replaced(x)) \/ UNCHANGED vars
  BY <1>6, <1>10 DEF Refuse, PeerLeaves, Replaced, vars, writerVars, sendVars
<1> QED
  BY <1>2, <1>3, <1>4, <1>5, <1>7, <1>8, <1>9, <1>10 DEF Next, SenderStep

(***************************************************************************)
(* As long as the connection is open, what the client has been sent, what  *)
(* the writer holds and what is in the queue are together the messages     *)
(* that Enqueue accepted, each once and in the order in which it did:      *)
(* however sends, pings, closings and failures interleave, the client is   *)
(* never sent a message past one that it will not get.                     *)
(***************************************************************************)
THEOREM AcceptedAreNotLost == Spec => []AcceptedAreOnTheirWay
<1>1. WayOK => AcceptedAreOnTheirWay
  BY DEF WayOK, Way, AcceptedAreOnTheirWay
<1> QED
  BY <1>1, InitTypeInv, NextTypeInv, InitWay, NextWay, PTL DEF Spec

=============================================================================
