-------------------------- MODULE MiSessionProofs --------------------------
(***************************************************************************)
(* Proofs about a session, for every number of tasks, every counter width  *)
(* and every capacity of its queues.                                       *)
(***************************************************************************)
EXTENDS MiSessionProperties, SequenceTheorems, TLAPS

-----------------------------------------------------------------------------
(* Types.                                                                  *)

\* A queue that makes room for x keeps to its elements and its capacity.
LEMMA PutType ==
    ASSUME NEW S, NEW q \in Seq(S), NEW x \in S, Len(q) <= QueueMax
    PROVE  Put(q, x) \in Seq(S) /\ Len(Put(q, x)) <= QueueMax
<1>1. CASE Len(q) = QueueMax
  <2>1. q # <<>>
    BY <1>1, SessionConstants, EmptySeq
  <2>2. Tail(q) \in Seq(S) /\ Len(Tail(q)) = Len(q) - 1
    BY <2>1, HeadTailProperties
  <2> QED
    BY <1>1, <2>2, SessionConstants, AppendProperties, LenProperties DEF Put
<1>2. CASE Len(q) # QueueMax
  BY <1>2, SessionConstants, AppendProperties, LenProperties DEF Put
<1> QED
  BY <1>1, <1>2

\* What is taken off a queue, and what remains.
LEMMA TakeType ==
    ASSUME NEW S, NEW q \in Seq(S), q # <<>>
    PROVE  Head(q) \in S /\ Tail(q) \in Seq(S) /\ Len(Tail(q)) = Len(q) - 1
BY HeadTailProperties, LenProperties

\* The frames that stand for none are frames, and so on.
LEMMA Blanks ==
    /\ NoFrame \in Frames /\ Failure \in Frames
    /\ NoCall \in Calls /\ NoPending \in Pendings
    /\ \A w \in {"off", "top", "get", "parts", "ack", "dead"} :
          Reader(w) \in Readers
BY SessionConstants
   DEF NoFrame, Failure, Frame, Frames, Reader, Readers, NoCall, Calls,
       NoPending, Pendings

LEMMA InitType == Init => TypeOK
<1> SUFFICES ASSUME Init PROVE TypeOK
  OBVIOUS
<1>1. SessionTypeOK
  BY SessionConstants DEF Init, SessionTypeOK
<1>2. RequestTypeOK
  BY Blanks DEF Init, RequestTypeOK
<1>3. WorkerTypeOK
  BY SessionConstants, Blanks, EmptySeq DEF Init, WorkerTypeOK
<1>4. QueuesTypeOK
  <2>1. /\ resp \in Seq(Items) /\ Len(resp) <= QueueMax
        /\ ctl \in Seq(Controls) /\ Len(ctl) <= QueueMax
    BY SessionConstants, EmptySeq DEF Init
  <2>2. gap = FALSE /\ ctlGap = FALSE
    BY DEF Init
  <2> QED
    BY <2>1, <2>2 DEF QueuesTypeOK
<1>5. ChargerTypeOK
  BY SessionConstants, Blanks, EmptySeq DEF Init, ChargerTypeOK, NoTransfer
<1>6. HistoryTypeOK
  BY SessionConstants, EmptySeq DEF Init, HistoryTypeOK
<1> QED
  BY <1>1, <1>2, <1>3, <1>4, <1>5, <1>6 DEF TypeOK

LEMMA ReportType ==
    ASSUME SessionTypeOK, Report
    PROVE  told' \in 0 .. 1
BY DEF SessionTypeOK, Report

\* The reader's death keeps the types.
LEMMA DiesType ==
    ASSUME SessionTypeOK, NEW p \in Pendings, NEW reason \in Reasons,
           Dies(reason, p)
    PROVE  /\ reader' \in Readers /\ why' \in Reasons
           /\ pending' \in Pendings /\ told' \in 0 .. 1
<1>1. pending' \in Pendings
  BY Blanks DEF Dies, Pendings
<1> QED
  BY <1>1, ReportType, Blanks DEF Dies

LEMMA RouteType ==
    ASSUME RequestTypeOK, NEW f \in Frames
    PROVE  Route(f) \in Pendings
BY DEF Route, RequestTypeOK, Pendings

\* Routing a frame keeps the types.
LEMMA HandleType ==
    ASSUME TypeOK, NEW f \in Frames, Handle(f)
    PROVE  /\ reader' \in Readers /\ why' \in Reasons \cup {"none"}
           /\ pending' \in Pendings /\ told' \in 0 .. 1
           /\ rx' \in 0 .. MaxCounter + 1
           /\ seen' \in Seq(0 .. MaxCounter) /\ since' \in Nat
<1>0. /\ SessionTypeOK /\ RequestTypeOK /\ WorkerTypeOK /\ HistoryTypeOK
      /\ pending \in Pendings /\ told \in 0 .. 1
  BY DEF TypeOK, RequestTypeOK, SessionTypeOK
<1>1. CASE /\ Dies("reauth", pending)
           /\ UNCHANGED <<rx, seen, since>>
  BY <1>0, <1>1, DiesType DEF Reasons, WorkerTypeOK, HistoryTypeOK
<1>2. CASE /\ reader' = Reader("top")
           /\ UNCHANGED <<rx, seen, since, why, pending, told>>
  BY <1>0, <1>2, Blanks DEF WorkerTypeOK, HistoryTypeOK
<1>3. CASE /\ Genuine(f) /\ seen' = Append(seen, f.ctr)
           /\ since' = IF gap THEN since + 1 ELSE since
           /\ IF f.ctr = MaxCounter THEN Dies("spent", Route(f))
              ELSE /\ reader' = Reader("top") /\ pending' = Route(f)
                   /\ UNCHANGED <<why, told>>
  <2>1. f.ctr \in 0 .. MaxCounter
    BY DEF Frames
  <2>2. rx' \in 0 .. MaxCounter + 1
    BY <1>3, <2>1, SessionConstants DEF Genuine
  <2>3. seen' \in Seq(0 .. MaxCounter) /\ since' \in Nat
    BY <1>0, <1>3, <2>1, AppendProperties DEF HistoryTypeOK
  <2>4. CASE f.ctr = MaxCounter
    BY <1>0, <1>3, <2>2, <2>3, <2>4, DiesType, RouteType DEF Reasons
  <2>5. CASE f.ctr # MaxCounter
    BY <1>0, <1>3, <2>2, <2>3, <2>5, RouteType, Blanks DEF WorkerTypeOK
  <2> QED
    BY <2>4, <2>5
<1> QED
  BY <1>1, <1>2, <1>3 DEF Handle

LEMMA LeaveType ==
    ASSUME RequestTypeOK, NEW t \in Tasks, Leave(t)
    PROVE  RequestTypeOK'
BY Blanks DEF Leave, RequestTypeOK

\* What a request does.
LEMMA RequestsType ==
    ASSUME TypeOK, NEW t \in Tasks, Requests(t)
    PROVE  TypeOK'
<1>0. /\ SessionTypeOK /\ RequestTypeOK /\ WorkerTypeOK
      /\ QueuesTypeOK /\ ChargerTypeOK /\ HistoryTypeOK
  BY DEF TypeOK
<1>1. CASE Call(t)
  <2>1. SessionTypeOK'
    BY <1>0, <1>1, SessionConstants
       DEF Call, NextSequence, SessionTypeOK
  <2>2. RequestTypeOK'
    <3>1. [seq |-> seqNext, ticket |-> calls + 1] \in Calls
      BY <1>0, <1>1, SessionConstants
         DEF Call, Calls, SessionTypeOK, HistoryTypeOK
    <3> QED
      BY <1>0, <1>1, <3>1 DEF Call, Goto, RequestTypeOK
  <2>3. HistoryTypeOK'
    BY <1>0, <1>1, SessionConstants DEF Call, HistoryTypeOK
  <2> QED
    BY <1>0, <1>1, <2>1, <2>2, <2>3
       DEF Call, TypeOK, WorkerTypeOK, QueuesTypeOK, ChargerTypeOK, worker,
           inbox, control, charger
<1>2. CASE EnterRefused(t) \/ Return(t) \/ RequestFails(t)
  BY <1>0, <1>2, LeaveType
     DEF EnterRefused, Return, RequestFails, TypeOK, SessionTypeOK,
         WorkerTypeOK, QueuesTypeOK, ChargerTypeOK, HistoryTypeOK, session,
         worker, inbox, control, charger, history
<1>3. CASE EnterExhausted(t)
  <2>1. SessionTypeOK'
    BY <1>0, <1>3, ReportType DEF EnterExhausted, SessionTypeOK
  <2> QED
    BY <1>0, <1>3, <2>1, LeaveType
       DEF EnterExhausted, TypeOK, WorkerTypeOK, QueuesTypeOK,
           ChargerTypeOK, HistoryTypeOK, worker, inbox, control, charger,
           history
<1>4. CASE EnterSend(t)
  <2>1. SessionTypeOK'
    BY <1>0, <1>4, SessionConstants
       DEF EnterSend, MayBegin, Spend, SessionTypeOK
  <2>2. RequestTypeOK'
    <3>1. pending' \in Pendings
      BY <1>0, <1>4, Blanks DEF EnterSend, Pendings, RequestTypeOK, Calls
    <3> QED
      BY <1>0, <1>4, <3>1 DEF EnterSend, Goto, RequestTypeOK
  <2>3. ChargerTypeOK'
    <3>1. owed' \in Seq(Controls)
      BY <1>0, <1>4, AppendProperties
         DEF EnterSend, Controls, ChargerTypeOK
    <3> QED
      BY <1>0, <1>4, <3>1 DEF EnterSend, ChargerTypeOK
  <2>4. HistoryTypeOK'
    <3>1. tx \in 0 .. MaxCounter
      BY <1>0, <1>4, SessionConstants DEF EnterSend, MayBegin, SessionTypeOK
    <3> QED
      BY <1>0, <1>4, <3>1, AppendProperties DEF EnterSend, HistoryTypeOK
  <2> QED
    BY <1>0, <1>4, <2>1, <2>2, <2>3, <2>4
       DEF EnterSend, TypeOK, WorkerTypeOK, QueuesTypeOK, worker, inbox,
           control
<1>5. CASE Written(t)
  <2>1. RequestTypeOK'
    BY <1>0, <1>5 DEF Written, Goto, RequestTypeOK
  <2> QED
    BY <1>0, <1>5, <2>1
       DEF Written, TypeOK, SessionTypeOK, WorkerTypeOK, QueuesTypeOK,
           ChargerTypeOK, HistoryTypeOK, session, worker, inbox, control,
           charger, history
<1>6. CASE TakeReady(t) \/ TakeOk(t) \/ TakeOther(t)
  <2>1. RequestTypeOK'
    BY <1>0, <1>6 DEF TakeReady, TakeOk, TakeOther, Goto, RequestTypeOK,
                      request
  <2>2. QueuesTypeOK'
    <3>1. /\ ctl \in Seq(Controls) /\ Len(ctl) <= QueueMax
          /\ ctl # <<>> /\ ctl' = Tail(ctl)
      BY <1>0, <1>6 DEF TakeReady, TakeOk, TakeOther, QueuesTypeOK
    <3>2. Tail(ctl) \in Seq(Controls) /\ Len(Tail(ctl)) = Len(ctl) - 1
      BY <3>1, TakeType
    <3>3. Len(Tail(ctl)) <= QueueMax
      BY <3>1, <3>2, LenProperties, SessionConstants
    <3> QED
      BY <1>0, <1>6, <3>1, <3>2, <3>3
         DEF TakeReady, TakeOk, TakeOther, QueuesTypeOK, inbox
  <2>3. ChargerTypeOK'
    <3>1. CASE TakeReady(t)
      <4>1. owed' \in Seq(Controls)
        BY <1>0, <3>1, AppendProperties
           DEF TakeReady, Controls, ChargerTypeOK
      <4>2. todo' \subseteq Calls
        BY <1>0, <3>1 DEF TakeReady, ChargerTypeOK, RequestTypeOK
      <4> QED
        BY <1>0, <3>1, <4>1, <4>2 DEF TakeReady, ChargerTypeOK
    <3>2. CASE TakeOk(t) \/ TakeOther(t)
      BY <1>0, <3>2 DEF TakeOk, TakeOther, ChargerTypeOK, charger
    <3> QED
      BY <1>6, <3>1, <3>2
  <2> QED
    BY <1>0, <1>6, <2>1, <2>2, <2>3
       DEF TakeReady, TakeOk, TakeOther, TypeOK, SessionTypeOK,
           WorkerTypeOK, HistoryTypeOK, session, worker, history
<1> QED
  BY <1>1, <1>2, <1>3, <1>4, <1>5, <1>6 DEF Requests

\* What the reader does.
LEMMA ReaderType ==
    ASSUME TypeOK, ReaderLoop
    PROVE  TypeOK'
<1>0. /\ SessionTypeOK /\ RequestTypeOK /\ WorkerTypeOK
      /\ QueuesTypeOK /\ ChargerTypeOK /\ HistoryTypeOK
      /\ pending \in Pendings /\ reader \in Readers
  BY DEF TypeOK, RequestTypeOK, WorkerTypeOK
<1>1. CASE ReaderOverflow \/ ReaderFails
  <2>1. /\ reader' \in Readers /\ why' \in Reasons
        /\ pending' \in Pendings /\ told' \in 0 .. 1
    BY <1>0, <1>1, DiesType DEF ReaderOverflow, ReaderFails, Reasons
  <2> QED
    BY <1>0, <1>1, <2>1
       DEF ReaderOverflow, ReaderFails, TypeOK, SessionTypeOK,
           RequestTypeOK, WorkerTypeOK, QueuesTypeOK, ChargerTypeOK,
           HistoryTypeOK, inbox, control, charger, history
<1>2. CASE ReaderDeferred \/ ReaderHandles
  <2>1. /\ reader' \in Readers /\ why' \in Reasons \cup {"none"}
        /\ pending' \in Pendings /\ told' \in 0 .. 1
        /\ rx' \in 0 .. MaxCounter + 1
        /\ seen' \in Seq(0 .. MaxCounter) /\ since' \in Nat
    <3>1. CASE ReaderDeferred
      <4>1. Head(deferred) \in Frames
        BY <1>0, <3>1, TakeType DEF ReaderDeferred, WorkerTypeOK
      <4>2. Handle(Head(deferred))
        BY <3>1 DEF ReaderDeferred
      <4> QED
        BY <4>1, <4>2, HandleType
    <3>2. CASE ReaderHandles
      <4>1. reader.cur \in Frames
        BY <1>0 DEF Readers
      <4> QED
        BY <3>2, <4>1, HandleType DEF ReaderHandles
    <3> QED
      BY <1>2, <3>1, <3>2
  <2>2. deferred' \in Seq(Frames) /\ Len(deferred') <= DeferMax
    <3>1. deferred \in Seq(Frames) /\ Len(deferred) <= DeferMax
      BY <1>0 DEF WorkerTypeOK
    <3>2. CASE ReaderDeferred
      <4>1. deferred # <<>> /\ deferred' = Tail(deferred)
        BY <3>2 DEF ReaderDeferred
      <4>2. /\ Tail(deferred) \in Seq(Frames)
            /\ Len(Tail(deferred)) = Len(deferred) - 1
        BY <3>1, <4>1, TakeType
      <4> QED
        BY <3>1, <4>1, <4>2, LenProperties, SessionConstants
    <3>3. CASE ReaderHandles
      BY <3>1, <3>3 DEF ReaderHandles
    <3> QED
      BY <1>2, <3>2, <3>3
  <2> QED
    BY <1>0, <1>2, <2>1, <2>2
       DEF ReaderDeferred, ReaderHandles, TypeOK, SessionTypeOK,
           RequestTypeOK, WorkerTypeOK, QueuesTypeOK, ChargerTypeOK,
           HistoryTypeOK, inbox, control, charger
<1>3. CASE ReaderGet
  BY <1>0, <1>3, Blanks
     DEF ReaderGet, TypeOK, SessionTypeOK, RequestTypeOK, WorkerTypeOK,
         QueuesTypeOK, ChargerTypeOK, HistoryTypeOK, session, request, inbox,
         control, charger, history
<1>4. ASSUME NEW where, NEW tag, Takes(where, tag)
      PROVE  /\ Head(resp) \in Items
             /\ QueuesTypeOK' /\ HistoryTypeOK'
             /\ told' \in 0 .. 1 => SessionTypeOK'
             /\ pending' \in Pendings => RequestTypeOK'
             /\ (xfer' = xfer) => ChargerTypeOK'
  <2>1. /\ Head(resp) \in Items /\ resp' \in Seq(Items)
        /\ Len(resp') <= QueueMax
    BY <1>0, <1>4, TakeType, LenProperties, SessionConstants
       DEF Takes, QueuesTypeOK
  <2>2. QueuesTypeOK'
    BY <1>0, <1>4, <2>1 DEF Takes, QueuesTypeOK, control
  <2> QED
    BY <1>0, <1>4, <2>1, <2>2
       DEF Takes, SessionTypeOK, RequestTypeOK, ChargerTypeOK,
           HistoryTypeOK, history
<1>5. CASE ReaderTakesInline
  <2>1. reader' \in Readers
    BY <1>4, <1>5, Blanks
       DEF ReaderTakesInline, Reader, Readers, Items
  <2> QED
    BY <1>0, <1>4, <1>5, <2>1
       DEF ReaderTakesInline, TypeOK, WorkerTypeOK, SessionTypeOK, Takes
<1>6. CASE ReaderSkipsPart
  BY <1>0, <1>4, <1>6
     DEF ReaderSkipsPart, TypeOK, WorkerTypeOK, SessionTypeOK, Takes
<1>7. CASE ReaderTakesAnnounce
  <2>1. ChargerTypeOK'
    BY <1>0, <1>7 DEF ReaderTakesAnnounce, Takes, ChargerTypeOK
  <2> QED
    BY <1>0, <1>4, <1>7, <2>1, Blanks
       DEF ReaderTakesAnnounce, TypeOK, WorkerTypeOK, SessionTypeOK, Takes
<1>8. CASE ReaderDefers
  <2>1. CASE Len(deferred) < DeferMax
    <3>1. deferred' \in Seq(Frames) /\ Len(deferred') <= DeferMax
      BY <1>0, <1>4, <1>8, <2>1, AppendProperties, LenProperties,
         SessionConstants
         DEF ReaderDefers, WorkerTypeOK, Items
    <3> QED
      BY <1>0, <1>4, <1>8, <2>1, <3>1
         DEF ReaderDefers, TypeOK, WorkerTypeOK, SessionTypeOK, Takes
  <2>2. CASE ~(Len(deferred) < DeferMax)
    <3>1. Dies("framing", pending)
      BY <1>8, <2>2 DEF ReaderDefers
    <3> QED
      BY <1>0, <1>4, <1>8, <2>2, <3>1, DiesType
         DEF ReaderDefers, TypeOK, WorkerTypeOK, Takes, Reasons
  <2> QED
    BY <2>1, <2>2
<1>9. CASE ReaderMisframed
  BY <1>0, <1>4, <1>9, DiesType
     DEF ReaderMisframed, TypeOK, WorkerTypeOK, Takes, Reasons
<1>10. CASE ReaderTakesPart
  <2>1. Head(resp).idx \in 1 .. Parts /\ Head(resp).frame \in Frames
    BY <1>4, <1>10 DEF ReaderTakesPart, Takes, Items
  <2>2. reader' \in Readers
    BY <1>0, <1>10, <2>1 DEF ReaderTakesPart, Readers
  <2> QED
    BY <1>0, <1>4, <1>10, <2>2
       DEF ReaderTakesPart, TypeOK, WorkerTypeOK, SessionTypeOK, Takes
<1> QED
  BY <1>1, <1>2, <1>3, <1>5, <1>6, <1>7, <1>8, <1>9, <1>10 DEF ReaderLoop

\* What subscribing and unsubscribing do.
LEMMA LifecycleType ==
    ASSUME TypeOK, Lifecycle
    PROVE  TypeOK'
<1>0. /\ SessionTypeOK /\ RequestTypeOK /\ WorkerTypeOK
      /\ QueuesTypeOK /\ ChargerTypeOK /\ HistoryTypeOK
  BY DEF TypeOK
<1>1. CASE SubscribeResponses \/ UnsubscribeInterrupted
  BY <1>0, <1>1
     DEF SubscribeResponses, UnsubscribeInterrupted, TypeOK, SessionTypeOK,
         RequestTypeOK, WorkerTypeOK, QueuesTypeOK, ChargerTypeOK,
         HistoryTypeOK, request, worker, inbox, control, charger, history
<1>2. CASE SubscribeControl
  BY <1>0, <1>2, Blanks
     DEF SubscribeControl, TypeOK, SessionTypeOK, RequestTypeOK,
         WorkerTypeOK, QueuesTypeOK, ChargerTypeOK, HistoryTypeOK, request,
         inbox, control, charger, history
<1>3. CASE Unsubscribe
  <2>1. RequestTypeOK'
    <3>1. CASE lock \in Tasks /\ Leave(lock)
      BY <1>0, <3>1, LeaveType
    <3>2. CASE UNCHANGED request
      BY <1>0, <3>2 DEF request, RequestTypeOK
    <3> QED
      BY <1>3, <3>1, <3>2 DEF Unsubscribe
  <2> QED
    BY <1>0, <1>3, <2>1
       DEF Unsubscribe, TypeOK, SessionTypeOK, WorkerTypeOK, QueuesTypeOK,
           ChargerTypeOK, HistoryTypeOK, worker, inbox, control, charger,
           history
<1>4. CASE UnsubscribeDone
  BY <1>0, <1>4, Blanks
     DEF UnsubscribeDone, TypeOK, SessionTypeOK, RequestTypeOK,
         WorkerTypeOK, QueuesTypeOK, ChargerTypeOK, HistoryTypeOK, inbox,
         control, charger, history
<1> QED
  BY <1>1, <1>2, <1>3, <1>4 DEF Lifecycle

\* What the charger does.
LEMMA ChargerType ==
    ASSUME TypeOK, Charger
    PROVE  TypeOK'
<1>0. /\ SessionTypeOK /\ RequestTypeOK /\ WorkerTypeOK
      /\ QueuesTypeOK /\ ChargerTypeOK /\ HistoryTypeOK
  BY DEF TypeOK
<1>1. ASSUME NEW item \in Items, Arrives(item)
      PROVE  resp' \in Seq(Items) /\ Len(resp') <= QueueMax /\ gap' \in BOOLEAN
  BY <1>0, <1>1, PutType DEF Arrives, QueuesTypeOK
<1>2. CASE SendControl
  <2>1. Head(owed) \in Controls /\ owed' \in Seq(Controls)
    BY <1>0, <1>2, TakeType DEF SendControl, ChargerTypeOK
  <2>2. QueuesTypeOK'
    <3>1. CASE UNCHANGED control
      BY <1>0, <1>2, <3>1 DEF SendControl, QueuesTypeOK, inbox, control
    <3>2. CASE /\ ctl' = Put(ctl, Head(owed))
               /\ ctlGap' = (ctlGap \/ Len(ctl) = QueueMax)
      <4>1. ctl' \in Seq(Controls) /\ Len(ctl') <= QueueMax
        BY <1>0, <2>1, <3>2, PutType DEF QueuesTypeOK
      <4>2. ctlGap' \in BOOLEAN
        BY <3>2
      <4> QED
        BY <1>0, <1>2, <4>1, <4>2 DEF SendControl, QueuesTypeOK, inbox
    <3> QED
      BY <1>2, <3>1, <3>2 DEF SendControl
  <2>3. ChargerTypeOK'
    BY <1>0, <1>2, <2>1 DEF SendControl, ChargerTypeOK
  <2> QED
    BY <1>0, <1>2, <2>2, <2>3
       DEF SendControl, TypeOK, SessionTypeOK, RequestTypeOK, WorkerTypeOK,
           HistoryTypeOK, session, request, worker, history
<1>3. ASSUME NEW k \in {"reply", "event", "noise"}, NEW s \in 0 .. SeqMax,
             NEW n \in 0 .. MaxCalls, SendFrame(k, s, n), todo' \subseteq todo
      PROVE  TypeOK'
  <2>1. dctr \in 0 .. MaxCounter /\ dctr' \in 0 .. MaxCounter + 1
    BY <1>0, <1>3, SessionConstants DEF SendFrame, ChargerTypeOK
  <2>2. Frame(dctr, k, s, n) \in Frames
    BY <1>3, <2>1 DEF Frame, Frames
  <2>3. /\ Item("inline", 0, Frame(dctr, k, s, n)) \in Items
        /\ Item("announce", 0, NoFrame) \in Items
    BY <2>2, Blanks DEF Item, Items
  <2>4. /\ resp' \in Seq(Items) /\ Len(resp') <= QueueMax
        /\ gap' \in BOOLEAN
    BY <1>1, <1>3, <2>3 DEF SendFrame
  <2>5. xfer' \in [st : {"none", "announced", "granted"}, frame : Frames,
                   sent : 0 .. Parts]
    BY <1>0, <1>3, <2>2, SessionConstants DEF SendFrame, ChargerTypeOK
  <2>6. QueuesTypeOK'
    BY <1>0, <1>3, <2>4 DEF SendFrame, QueuesTypeOK, control
  <2>7. ChargerTypeOK'
    BY <1>0, <1>3, <2>1, <2>5 DEF SendFrame, ChargerTypeOK
  <2> QED
    BY <1>0, <1>3, <2>6, <2>7
       DEF SendFrame, TypeOK, SessionTypeOK, RequestTypeOK, WorkerTypeOK,
           HistoryTypeOK, session, request, worker, history
<1>4. ASSUME NEW r \in todo
      PROVE  r.seq \in 0 .. SeqMax /\ r.ticket \in 0 .. MaxCalls
  BY <1>0, <1>4 DEF ChargerTypeOK, Calls
<1>5. ASSUME NEW r \in todo, SendAnswer(r) PROVE TypeOK'
  BY <1>3, <1>4, <1>5 DEF SendAnswer
<1>6. CASE SendEvent
  <2>1. 0 \in 0 .. SeqMax /\ 0 \in 0 .. MaxCalls
    BY SessionConstants
  <2> QED
    BY <1>3, <1>4, <1>6, <2>1 DEF SendEvent
<1>7. CASE SendPart
  <2>1. /\ xfer.sent + 1 \in 1 .. Parts /\ xfer.frame \in Frames
        /\ xfer' \in [st : {"none", "announced", "granted"}, frame : Frames,
                      sent : 0 .. Parts]
    BY <1>0, <1>7, SessionConstants DEF SendPart, ChargerTypeOK
  <2>2. Item("part", xfer.sent + 1, xfer.frame) \in Items
    BY <2>1 DEF Item, Items
  <2>3. QueuesTypeOK'
    BY <1>0, <1>1, <1>7, <2>2 DEF SendPart, QueuesTypeOK, control
  <2>4. ChargerTypeOK'
    BY <1>0, <1>7, <2>1 DEF SendPart, ChargerTypeOK
  <2> QED
    BY <1>0, <1>7, <2>3, <2>4
       DEF SendPart, TypeOK, SessionTypeOK, RequestTypeOK, WorkerTypeOK,
           HistoryTypeOK, session, request, worker, history
<1>8. CASE EndTransfer
  <2>1. ChargerTypeOK'
    BY <1>0, <1>8, Blanks, SessionConstants
       DEF EndTransfer, NoTransfer, ChargerTypeOK
  <2> QED
    BY <1>0, <1>8, <2>1
       DEF EndTransfer, TypeOK, SessionTypeOK, RequestTypeOK, WorkerTypeOK,
           QueuesTypeOK, HistoryTypeOK, session, request, worker, inbox,
           control, history
<1>9. CASE Repeat
  <2>1. ASSUME NEW c \in 0 .. MaxCounter
        PROVE  Item("inline", 0, Frame(c, "event", 0, 0)) \in Items
    BY <2>1, SessionConstants DEF Item, Items, Frame, Frames
  <2>2. ASSUME xfer.sent > 0
        PROVE  Item("part", xfer.sent, xfer.frame) \in Items
    BY <1>0, <2>2, SessionConstants DEF ChargerTypeOK, Item, Items
  <2>3. QueuesTypeOK'
    BY <1>0, <1>1, <1>9, <2>1, <2>2 DEF Repeat, QueuesTypeOK, control
  <2>4. ChargerTypeOK'
    BY <1>0, <1>9, SessionConstants DEF Repeat, ChargerTypeOK
  <2> QED
    BY <1>0, <1>9, <2>3, <2>4
       DEF Repeat, TypeOK, SessionTypeOK, RequestTypeOK, WorkerTypeOK,
           HistoryTypeOK, session, request, worker, history
<1> QED
  BY <1>2, <1>5, <1>6, <1>7, <1>8, <1>9 DEF Charger

\* One step keeps the types.
LEMMA NextType ==
    ASSUME TypeOK, [Next]_vars
    PROVE  TypeOK'
<1>1. CASE Next
  BY <1>1, RequestsType, ReaderType, LifecycleType, ChargerType DEF Next
<1>2. CASE UNCHANGED vars
  BY <1>2
     DEF vars, session, request, worker, inbox, control, charger, history,
         TypeOK, SessionTypeOK, RequestTypeOK, WorkerTypeOK, QueuesTypeOK,
         ChargerTypeOK, HistoryTypeOK
<1> QED
  BY <1>1, <1>2

\* Every variable of a session keeps to its type: no counter passes its
\* limit, no queue its capacity, and the owner is told at most once.
THEOREM SessionTypeCorrect == Spec => []TypeOK
<1>1. Init => TypeOK
  BY InitType
<1>2. TypeOK /\ [Next]_vars => TypeOK'
  BY NextType
<1> QED
  BY <1>1, <1>2, PTL DEF Spec

-----------------------------------------------------------------------------
(* What the properties rest on.                                            *)

\* The task past the lock holds it, and the request that is pending is its
\* own; there is none before the session is open nor while it is closed.
Owned ==
    /\ \A t \in Tasks : pc[t] \notin {"off", "lock"} <=> lock = t
    /\ \A t \in Tasks : pc[t] # "off" => mine[t].ticket > 0
    /\ lock = NoTask => pending = NoPending
    /\ lock # NoTask => pending.ticket > 0 /\ life = "open"

\* An open session has a reader, and one that died has answered the request
\* it left behind and, unless the owner was closing, told the owner.
Alive ==
    /\ life \in {"new", "half", "closed"} => reader.at = "off"
    /\ life = "open" => reader.at # "off"
    /\ lock # NoTask /\ reader.at = "dead" => pending.got # NoFrame
    /\ reader.at = "dead" /\ ~Closing => told = 1

\* The transmit counter counts the encryptions.
Counted == Len(nonces) = tx

\* The receive counter is above all that was taken as genuine.
Above ==
    /\ NoReplay
    /\ \A i \in DOMAIN seen : seen[i] < rx

\* A frame is used after a loss only if it was being received, and then the
\* reader has come to the place where it notices.
Noticed == since > 0 => since = 1 /\ gap /\ reader.at \in {"top", "dead", "off"}

IInv == TypeOK /\ Owned /\ Alive /\ Counted /\ Above /\ Noticed

-----------------------------------------------------------------------------
(* What the steps have in common.                                          *)

\* The charger disturbs nothing but the queues.
LEMMA ChargerKeeps ==
    ASSUME TypeOK, Charger
    PROVE  UNCHANGED <<session, request, worker, history>> /\ (gap => gap')
BY DEF TypeOK, QueuesTypeOK, Charger, SendControl, SendAnswer, SendEvent,
       SendFrame, SendPart, EndTransfer, Repeat, Arrives, inbox

\* The reader's death answers the request and reports to the owner.
LEMMA DiesKeeps ==
    ASSUME NEW p \in Pendings, NEW reason, Dies(reason, p)
    PROVE  /\ reader'.at = "dead" /\ Report
           /\ pending'.ticket = p.ticket
           /\ p.ticket > 0 => pending'.got # NoFrame
           /\ p.ticket = 0 => pending' = p
<1>1. NoFrame # Failure
  BY DEF NoFrame, Failure, Frame
<1>2. CASE p.ticket # 0 /\ p.got = NoFrame
  BY <1>1, <1>2 DEF Dies, Reader, Pendings
<1>3. CASE ~(p.ticket # 0 /\ p.got = NoFrame)
  <2>1. p.ticket > 0 => p.ticket # 0
    OBVIOUS
  <2> QED
    BY <1>3, <2>1 DEF Dies, Reader
<1> QED
  BY <1>2, <1>3

\* Routing a frame leaves it open whose request it answers.
LEMMA RouteKeeps ==
    ASSUME RequestTypeOK, NEW f \in Frames
    PROVE  /\ Route(f) \in Pendings
           /\ Route(f).ticket = pending.ticket
           /\ pending.ticket = 0 => Route(f) = pending
BY RouteType DEF Route, RequestTypeOK, Pendings

\* What one turn of the reader does to the request and to the owner.
LEMMA HandleKeeps ==
    ASSUME TypeOK, NEW f \in Frames, Handle(f)
    PROVE  /\ pending'.ticket = pending.ticket
           /\ pending.ticket = 0 => pending' = pending
           /\ \/ reader'.at = "top" /\ told' = told
              \/ /\ reader'.at = "dead" /\ Report
                 /\ pending.ticket > 0 => pending'.got # NoFrame
<1>0. RequestTypeOK /\ pending \in Pendings
  BY DEF TypeOK, RequestTypeOK
<1>1. CASE Dies("reauth", pending)
  BY <1>0, <1>1, DiesKeeps
<1>2. CASE /\ reader' = Reader("top")
           /\ UNCHANGED <<rx, seen, since, why, pending, told>>
  BY <1>2 DEF Reader
<1>3. CASE Dies("spent", Route(f))
  BY <1>0, <1>3, DiesKeeps, RouteKeeps
<1>4. CASE reader' = Reader("top") /\ pending' = Route(f) /\ told' = told
  BY <1>0, <1>4, RouteKeeps DEF Reader
<1> QED
  BY <1>1, <1>2, <1>3, <1>4 DEF Handle

LEMMA ReaderKeeps ==
    ASSUME TypeOK, ReaderLoop
    PROVE  /\ UNCHANGED <<life, tx, seqNext, lock, pc, mine, nonces>>
           /\ reader.at \notin {"off", "dead"}
           /\ pending'.ticket = pending.ticket
           /\ pending.ticket = 0 => pending' = pending
           /\ \/ reader'.at \notin {"off", "dead"} /\ told' = told
              \/ /\ reader'.at = "dead" /\ Report
                 /\ pending.ticket > 0 => pending'.got # NoFrame
<1>0. /\ pending \in Pendings /\ WorkerTypeOK /\ reader \in Readers
  BY DEF TypeOK, RequestTypeOK, WorkerTypeOK
<1>1. CASE \/ ReaderOverflow \/ ReaderFails \/ ReaderMisframed
           \/ ReaderDefers /\ ~(Len(deferred) < DeferMax)
  <2>1. \E reason \in Reasons : Dies(reason, pending)
    BY <1>1
       DEF ReaderOverflow, ReaderFails, ReaderMisframed, ReaderDefers,
           Reasons
  <2>2. /\ UNCHANGED <<life, tx, seqNext, lock, pc, mine, nonces>>
        /\ reader.at \notin {"off", "dead"}
    BY <1>1
       DEF ReaderOverflow, ReaderFails, ReaderMisframed, ReaderDefers,
           Takes, history
  <2> QED
    BY <1>0, <2>1, <2>2, DiesKeeps
<1>2. CASE ReaderDeferred
  <2>1. Head(deferred) \in Frames /\ Handle(Head(deferred))
    BY <1>0, <1>2, TakeType DEF ReaderDeferred, WorkerTypeOK
  <2>2. /\ UNCHANGED <<life, tx, seqNext, lock, pc, mine, nonces>>
        /\ reader.at \notin {"off", "dead"}
    BY <1>2 DEF ReaderDeferred
  <2> QED
    BY <2>1, <2>2, HandleKeeps
<1>3. CASE ReaderHandles
  <2>1. reader.cur \in Frames /\ Handle(reader.cur)
    BY <1>0, <1>3 DEF ReaderHandles, Readers
  <2>2. /\ UNCHANGED <<life, tx, seqNext, lock, pc, mine, nonces>>
        /\ reader.at \notin {"off", "dead"}
    BY <1>3 DEF ReaderHandles
  <2> QED
    BY <2>1, <2>2, HandleKeeps
<1>4. CASE ReaderGet
  BY <1>4 DEF ReaderGet, Reader, session, request, history
<1>5. CASE \/ ReaderTakesInline \/ ReaderSkipsPart \/ ReaderTakesAnnounce
           \/ ReaderTakesPart
           \/ ReaderDefers /\ Len(deferred) < DeferMax
  BY <1>0, <1>5
     DEF ReaderTakesInline, ReaderSkipsPart, ReaderTakesAnnounce,
         ReaderTakesPart, ReaderDefers, Takes, Reader, Readers, history
<1> QED
  BY <1>1, <1>2, <1>3, <1>4, <1>5 DEF ReaderLoop

\* A request that leaves gives up the lock and what was pending, if its own.
LEMMA LeaveKeeps ==
    ASSUME TypeOK, Owned, NEW t \in Tasks, Leave(t)
    PROVE  /\ \A u \in Tasks : pc'[u] \notin {"off", "lock"} <=> lock' = u
           /\ \A u \in Tasks : pc'[u] # "off" => mine'[u].ticket > 0
           /\ lock' = NoTask => pending' = NoPending
           /\ lock' # NoTask => UNCHANGED <<lock, pending>>
           /\ lock = t => lock' = NoTask
<1>0. RequestTypeOK /\ NoTask \notin Tasks
  BY SessionConstants DEF TypeOK
<1>1. CASE lock = t
  BY <1>0, <1>1 DEF Leave, Owned, RequestTypeOK
<1>2. CASE lock # t
  BY <1>0, <1>2 DEF Leave, Owned, RequestTypeOK
<1> QED
  BY <1>1, <1>2

-----------------------------------------------------------------------------
(* The invariant is inductive.                                             *)

LEMMA InitInv == Init => IInv
<1> SUFFICES ASSUME Init PROVE IInv
  OBVIOUS
<1>1. Owned
  BY SessionConstants DEF Init, Owned
<1>2. Alive
  BY DEF Init, Alive, Reader, Closing
<1>3. Counted
  BY EmptySeq DEF Init, Counted
<1>4. Above
  BY EmptySeq DEF Init, Above, NoReplay
<1>5. Noticed
  BY DEF Init, Noticed
<1> QED
  BY <1>1, <1>2, <1>3, <1>4, <1>5, InitType DEF IInv

LEMMA OwnedStep ==
    ASSUME IInv, [Next]_vars
    PROVE  Owned'
<1>0. /\ TypeOK /\ Owned /\ Alive /\ RequestTypeOK /\ pending \in Pendings
      /\ NoTask \notin Tasks
  BY SessionConstants DEF IInv, TypeOK, RequestTypeOK
<1>1. ASSUME NEW t \in Tasks, Requests(t) PROVE Owned'
  <2>1. CASE Call(t)
    <3>1. mine'[t].ticket > 0
      BY <1>0, <2>1 DEF Call, TypeOK, RequestTypeOK, HistoryTypeOK
    <3> QED
      BY <1>0, <2>1, <3>1 DEF Call, Goto, Owned, RequestTypeOK
  <2>2. CASE \/ EnterRefused(t) \/ EnterExhausted(t) \/ Return(t)
             \/ RequestFails(t)
    <3>1. Leave(t) /\ life' = life
      BY <2>2 DEF EnterRefused, EnterExhausted, Return, RequestFails, session
    <3> QED
      BY <1>0, <3>1, LeaveKeeps DEF Owned
  <2>3. CASE EnterSend(t)
    <3>1. /\ lock = NoTask /\ pc[t] = "lock" /\ lock' = t
          /\ life = "open" /\ life' = life
      BY <1>0, <2>3
         DEF EnterSend, Entering, MayBegin, Closing, Running, Alive, TypeOK,
             SessionTypeOK
    <3>2. mine[t].ticket > 0 /\ pending'.ticket > 0
      BY <1>0, <2>3, <3>1 DEF EnterSend, Owned
    <3> QED
      BY <1>0, <2>3, <3>1, <3>2
         DEF EnterSend, Goto, Owned, RequestTypeOK
  <2>4. CASE Written(t) \/ TakeReady(t) \/ TakeOk(t) \/ TakeOther(t)
    <3>1. /\ UNCHANGED <<life, lock, mine, pending>>
          /\ \/ pc' = pc
             \/ /\ pc[t] \notin {"off", "lock"}
                /\ \E w \in {"ready", "upload", "ok", "wait"} :
                      pc' = [pc EXCEPT ![t] = w]
      BY <2>4 DEF Written, TakeReady, TakeOk, TakeOther, Goto, session,
                  request
    <3> QED
      BY <1>0, <3>1 DEF Owned, RequestTypeOK
  <2> QED
    BY <1>1, <2>1, <2>2, <2>3, <2>4 DEF Requests
<1>2. CASE ReaderLoop
  <2>1. pending = NoPending => pending.ticket = 0
    BY DEF NoPending
  <2>2. \/ lock = NoTask /\ pending' = NoPending
        \/ lock # NoTask /\ pending'.ticket > 0
    BY <1>0, <1>2, <2>1, ReaderKeeps DEF Owned
  <2> QED
    BY <1>0, <1>2, <2>2, ReaderKeeps DEF Owned
<1>3. CASE Lifecycle
  <2>1. CASE SubscribeResponses \/ SubscribeControl \/ UnsubscribeInterrupted
    BY <1>0, <2>1
       DEF SubscribeResponses, SubscribeControl, UnsubscribeInterrupted,
           Owned, request
  <2>2. CASE Unsubscribe
    <3>1. CASE lock \in Tasks
      <4>1. Leave(lock)
        BY <2>2, <3>1 DEF Unsubscribe
      <4> QED
        BY <1>0, <3>1, <4>1, LeaveKeeps DEF Owned
    <3>2. CASE lock \notin Tasks
      BY <1>0, <2>2, <3>2
         DEF Unsubscribe, Owned, request, RequestTypeOK
    <3> QED
      BY <3>1, <3>2
  <2>3. CASE UnsubscribeDone
    BY <1>0, <2>3 DEF UnsubscribeDone, Owned
  <2> QED
    BY <1>3, <2>1, <2>2, <2>3 DEF Lifecycle
<1>4. CASE Charger
  BY <1>0, <1>4, ChargerKeeps DEF Owned, session, request
<1>5. CASE UNCHANGED vars
  BY <1>0, <1>5 DEF vars, session, request, Owned
<1> QED
  BY <1>1, <1>2, <1>3, <1>4, <1>5 DEF Next

LEMMA AliveStep ==
    ASSUME IInv, [Next]_vars
    PROVE  Alive'
<1>0. /\ TypeOK /\ Owned /\ Alive /\ pending \in Pendings /\ told \in 0 .. 1
      /\ NoTask \notin Tasks
  BY SessionConstants DEF IInv, TypeOK, RequestTypeOK, SessionTypeOK
<1>1. ASSUME NEW t \in Tasks, Requests(t) PROVE Alive'
  <2>1. CASE Call(t)
    BY <1>0, <2>1 DEF Call, Alive, Closing, worker
  <2>2. CASE EnterRefused(t) \/ Return(t) \/ RequestFails(t)
    <3>1. Leave(t) /\ UNCHANGED <<life, told, reader>>
      BY <2>2 DEF EnterRefused, Return, RequestFails, session, worker
    <3> QED
      BY <1>0, <3>1, LeaveKeeps DEF Alive, Closing
  <2>3. CASE EnterExhausted(t)
    <3>1. /\ Leave(t) /\ UNCHANGED <<life, reader>>
          /\ reader.at # "dead"
      BY <2>3 DEF EnterExhausted, Running, worker
    <3> QED
      BY <1>0, <3>1, LeaveKeeps DEF Alive, Closing
  <2>4. CASE EnterSend(t)
    <3>1. reader.at # "dead" /\ UNCHANGED <<life, told, reader>>
      BY <2>4 DEF EnterSend, MayBegin, Running, worker
    <3> QED
      BY <1>0, <3>1 DEF Alive, Closing
  <2>5. CASE Written(t) \/ TakeReady(t) \/ TakeOk(t) \/ TakeOther(t)
    <3>1. UNCHANGED <<life, told, reader, lock, pending>>
      BY <2>5 DEF Written, TakeReady, TakeOk, TakeOther, session, request,
                  worker
    <3> QED
      BY <1>0, <3>1 DEF Alive, Closing
  <2> QED
    BY <1>1, <2>1, <2>2, <2>3, <2>4, <2>5 DEF Requests
<1>2. CASE ReaderLoop
  <2>1. lock # NoTask => pending.ticket > 0
    BY <1>0 DEF Owned
  <2>2. Report => (~Closing => told' = 1)
    BY <1>0 DEF Report
  <2> QED
    BY <1>0, <1>2, <2>1, <2>2, ReaderKeeps DEF Alive, Closing
<1>3. CASE Lifecycle
  <2>1. CASE SubscribeResponses \/ SubscribeControl \/ UnsubscribeInterrupted
    BY <1>0, <2>1
       DEF SubscribeResponses, SubscribeControl, UnsubscribeInterrupted,
           Alive, Closing, request, worker, Reader
  <2>2. CASE Unsubscribe
    <3>1. life' = "stopping" /\ reader' = reader
      BY <2>2 DEF Unsubscribe, worker
    <3>2. lock' = NoTask
      <4>1. CASE lock \in Tasks
        BY <1>0, <2>2, <4>1, LeaveKeeps DEF Unsubscribe
      <4>2. CASE lock \notin Tasks
        BY <1>0, <2>2, <4>2
           DEF Unsubscribe, request, TypeOK, RequestTypeOK
      <4> QED
        BY <4>1, <4>2
    <3> QED
      BY <3>1, <3>2 DEF Alive, Closing
  <2>3. CASE UnsubscribeDone
    BY <1>0, <2>3 DEF UnsubscribeDone, Alive, Closing, Reader
  <2> QED
    BY <1>3, <2>1, <2>2, <2>3 DEF Lifecycle
<1>4. CASE Charger
  BY <1>0, <1>4, ChargerKeeps DEF Alive, Closing, session, request, worker
<1>5. CASE UNCHANGED vars
  BY <1>0, <1>5 DEF vars, session, request, worker, Alive, Closing
<1> QED
  BY <1>1, <1>2, <1>3, <1>4, <1>5 DEF Next

LEMMA CountedStep ==
    ASSUME IInv, [Next]_vars
    PROVE  Counted'
<1>0. /\ TypeOK /\ Counted /\ nonces \in Seq(0 .. MaxCounter)
      /\ tx \in 0 .. MaxCounter + 1
  BY DEF IInv, TypeOK, SessionTypeOK, HistoryTypeOK
<1>1. ASSUME NEW t \in Tasks, EnterSend(t) PROVE Counted'
  <2>1. /\ tx \in 0 .. MaxCounter /\ tx' = tx + 1
        /\ nonces' = Append(nonces, tx)
    BY <1>0, <1>1, SessionConstants DEF EnterSend, MayBegin, Spend
  <2> QED
    BY <1>0, <2>1, AppendProperties DEF Counted
<1>2. ASSUME UNCHANGED <<tx, nonces>> PROVE Counted'
  BY <1>0, <1>2 DEF Counted
<1>3. ASSUME NEW t \in Tasks, Requests(t), ~EnterSend(t)
      PROVE  UNCHANGED <<tx, nonces>>
  BY <1>3
     DEF Requests, Call, EnterRefused, EnterExhausted, Written, TakeReady,
         TakeOk, TakeOther, Return, RequestFails, session, history
<1>4. Lifecycle => UNCHANGED <<tx, nonces>>
  BY DEF Lifecycle, SubscribeResponses, SubscribeControl, Unsubscribe,
         UnsubscribeInterrupted, UnsubscribeDone, history
<1>5. Charger => UNCHANGED <<tx, nonces>>
  BY <1>0, ChargerKeeps DEF session, history
<1>6. ReaderLoop => UNCHANGED <<tx, nonces>>
  BY <1>0, ReaderKeeps
<1>7. UNCHANGED vars => UNCHANGED <<tx, nonces>>
  BY DEF vars, session, history
<1> QED
  BY <1>1, <1>2, <1>3, <1>4, <1>5, <1>6, <1>7 DEF Next

\* Only a frame that is handled moves the receive counter, and what counts
\* as genuine changes with it.
LEMMA AboveHandled ==
    ASSUME TypeOK, Above, NEW f \in Frames, Handle(f)
    PROVE  Above'
<1>0. seen \in Seq(0 .. MaxCounter) /\ rx \in 0 .. MaxCounter + 1
  BY DEF TypeOK, HistoryTypeOK, WorkerTypeOK
<1>1. CASE UNCHANGED <<rx, seen>>
  BY <1>1 DEF Above, NoReplay
<1>2. CASE /\ f.ctr >= rx /\ rx' = f.ctr + 1
           /\ seen' = Append(seen, f.ctr)
  <2>1. f.ctr \in 0 .. MaxCounter
    BY DEF Frames
  <2>2. /\ seen' \in Seq(0 .. MaxCounter) /\ Len(seen') = Len(seen) + 1
        /\ \A i \in 1 .. Len(seen) : seen'[i] = seen[i]
        /\ seen'[Len(seen) + 1] = f.ctr
    BY <1>0, <1>2, <2>1, AppendProperties
  <2>3. /\ DOMAIN seen = 1 .. Len(seen) /\ Len(seen) \in Nat
        /\ DOMAIN seen' = 1 .. Len(seen) + 1
    BY <1>0, <2>2, LenProperties
  <2>4. \A i \in 1 .. Len(seen) : seen[i] \in 0 .. MaxCounter
    BY <1>0, <2>3, ElementOfSeq
  <2>5. \A i \in DOMAIN seen' :
           /\ seen'[i] < rx'
           /\ i \in DOMAIN seen => seen'[i] < f.ctr
    BY <1>0, <1>2, <2>1, <2>2, <2>3, <2>4, SessionConstants DEF Above
  <2>6. ASSUME NEW i \in DOMAIN seen', NEW j \in DOMAIN seen', i < j
        PROVE  seen'[i] < seen'[j]
    <3>1. CASE j \in DOMAIN seen
      BY <2>2, <2>3, <2>6, <3>1 DEF Above, NoReplay
    <3>2. CASE j \notin DOMAIN seen
      <4>1. j = Len(seen) + 1 /\ i \in DOMAIN seen
        BY <2>3, <2>6, <3>2
      <4> QED
        BY <2>2, <2>5, <4>1
    <3> QED
      BY <3>1, <3>2
  <2> QED
    BY <2>5, <2>6 DEF Above, NoReplay
<1> QED
  BY <1>1, <1>2 DEF Handle, Genuine

LEMMA AboveStep ==
    ASSUME IInv, [Next]_vars
    PROVE  Above'
<1>0. TypeOK /\ Above
  BY DEF IInv
<1>1. ASSUME UNCHANGED <<rx, seen>> PROVE Above'
  BY <1>0, <1>1 DEF Above, NoReplay
<1>2. CASE ReaderDeferred \/ ReaderHandles
  <2>1. CASE ReaderDeferred
    <3>1. Head(deferred) \in Frames /\ Handle(Head(deferred))
      BY <1>0, <2>1, TakeType DEF ReaderDeferred, TypeOK, WorkerTypeOK
    <3> QED
      BY <1>0, <3>1, AboveHandled
  <2>2. CASE ReaderHandles
    <3>1. reader.cur \in Frames /\ Handle(reader.cur)
      BY <1>0, <2>2 DEF ReaderHandles, TypeOK, WorkerTypeOK, Readers
    <3> QED
      BY <1>0, <3>1, AboveHandled
  <2> QED
    BY <1>2, <2>1, <2>2
<1>3. ASSUME ReaderLoop, ~(ReaderDeferred \/ ReaderHandles)
      PROVE  UNCHANGED <<rx, seen>>
  BY <1>3
     DEF ReaderLoop, ReaderOverflow, ReaderGet, ReaderTakesInline,
         ReaderSkipsPart, ReaderTakesAnnounce, ReaderDefers,
         ReaderMisframed, ReaderTakesPart, ReaderFails, Takes, history
<1>4. ASSUME NEW t \in Tasks, Requests(t) PROVE UNCHANGED <<rx, seen>>
  BY <1>4
     DEF Requests, Call, EnterRefused, EnterExhausted, EnterSend, Written,
         TakeReady, TakeOk, TakeOther, Return, RequestFails, worker, history
<1>5. Lifecycle => UNCHANGED <<rx, seen>>
  BY DEF Lifecycle, SubscribeResponses, SubscribeControl, Unsubscribe,
         UnsubscribeInterrupted, UnsubscribeDone, worker, history
<1>6. Charger => UNCHANGED <<rx, seen>>
  BY <1>0, ChargerKeeps DEF worker, history
<1>7. UNCHANGED vars => UNCHANGED <<rx, seen>>
  BY DEF vars, worker, history
<1> QED
  BY <1>1, <1>2, <1>3, <1>4, <1>5, <1>6, <1>7 DEF Next

LEMMA NoticedStep ==
    ASSUME IInv, [Next]_vars
    PROVE  Noticed'
<1>0. /\ TypeOK /\ Noticed /\ Alive /\ gap \in BOOLEAN /\ since \in Nat
  BY DEF IInv, TypeOK, QueuesTypeOK, HistoryTypeOK
<1>1. ASSUME NEW f \in Frames, Handle(f), gap' = gap,
             gap => reader.at = "ack"
      PROVE  Noticed'
  <2>1. since' # since => gap /\ since' = since + 1
    BY <1>1 DEF Handle
  <2>2. gap => since = 0
    BY <1>0, <1>1 DEF Noticed
  <2>3. since > 0 => gap
    BY <1>0 DEF Noticed
  <2>4. reader'.at \in {"top", "dead"}
    BY <1>0, <1>1, HandleKeeps
  <2> QED
    BY <1>0, <1>1, <2>1, <2>2, <2>3, <2>4 DEF Noticed
<1>2. CASE ReaderDeferred
  <2>1. Head(deferred) \in Frames /\ Handle(Head(deferred))
    BY <1>0, <1>2, TakeType DEF ReaderDeferred, TypeOK, WorkerTypeOK
  <2> QED
    BY <1>1, <1>2, <2>1 DEF ReaderDeferred, inbox
<1>3. CASE ReaderHandles
  <2>1. reader.cur \in Frames
    BY <1>0 DEF TypeOK, WorkerTypeOK, Readers
  <2> QED
    BY <1>1, <1>3, <2>1 DEF ReaderHandles, inbox
<1>4. CASE ReaderGet
  BY <1>0, <1>4 DEF ReaderGet, Noticed, inbox, history
<1>5. CASE ReaderOverflow \/ ReaderFails
  BY <1>0, <1>5
     DEF ReaderOverflow, ReaderFails, Noticed, Dies, Reader, inbox, history
<1>6. ASSUME NEW where \in {"get", "parts"}, NEW tag, Takes(where, tag)
      PROVE  since' = 0
  BY <1>0, <1>6 DEF Takes, Noticed, history
<1>7. CASE \/ ReaderTakesInline \/ ReaderSkipsPart \/ ReaderTakesAnnounce
           \/ ReaderDefers \/ ReaderMisframed \/ ReaderTakesPart
  BY <1>6, <1>7
     DEF ReaderTakesInline, ReaderSkipsPart, ReaderTakesAnnounce,
         ReaderDefers, ReaderMisframed, ReaderTakesPart, Noticed
<1>8. ASSUME reader' = reader, since' = since, gap => gap'
      PROVE  Noticed'
  BY <1>0, <1>8 DEF Noticed
<1>9. ASSUME NEW t \in Tasks, Requests(t)
      PROVE  reader' = reader /\ since' = since /\ gap' = gap
  BY <1>9
     DEF Requests, Call, EnterRefused, EnterExhausted, EnterSend, Written,
         TakeReady, TakeOk, TakeOther, Return, RequestFails, worker, inbox,
         history
<1>10. CASE Lifecycle
  <2>1. since' = since /\ gap' = gap
    BY <1>10
       DEF Lifecycle, SubscribeResponses, SubscribeControl, Unsubscribe,
           UnsubscribeInterrupted, UnsubscribeDone, inbox, history
  <2>2. reader' = reader \/ reader'.at \in {"top", "off"}
    BY <1>10
       DEF Lifecycle, SubscribeResponses, SubscribeControl, Unsubscribe,
           UnsubscribeInterrupted, UnsubscribeDone, worker, Reader
  <2> QED
    BY <1>0, <2>1, <2>2 DEF Noticed
<1>11. CASE Charger
  BY <1>0, <1>8, <1>11, ChargerKeeps DEF worker, history
<1>12. CASE UNCHANGED vars
  BY <1>8, <1>12 DEF vars, worker, inbox, history
<1> QED
  BY <1>2, <1>3, <1>4, <1>5, <1>7, <1>8, <1>9, <1>10, <1>11, <1>12
     DEF Next, ReaderLoop

LEMMA Inductive == Spec => []IInv
<1>1. IInv /\ [Next]_vars => IInv'
  BY NextType, OwnedStep, AliveStep, CountedStep, AboveStep, NoticedStep
     DEF IInv
<1> QED
  BY <1>1, InitInv, PTL DEF Spec

-----------------------------------------------------------------------------
(* What follows.                                                           *)

\* No task waits for an answer after the reader has stopped, for any number
\* of tasks: the reader answers the request it leaves behind, and a closing
\* session cancels it.
THEOREM Answered == Spec => []NobodyWaitsInVain
<1>1. IInv => NobodyWaitsInVain
  <2> SUFFICES ASSUME IInv, NEW t \in Tasks, pc[t] = "wait", ~Running
               PROVE  pending.got # NoFrame
    BY DEF NobodyWaitsInVain
  <2>1. lock = t /\ lock # NoTask /\ life = "open"
    BY SessionConstants DEF IInv, Owned
  <2>2. reader.at = "dead"
    BY <2>1 DEF Running, IInv, Alive
  <2> QED
    BY <2>1, <2>2 DEF IInv, Alive
<1> QED
  BY <1>1, Inductive, PTL

\* When unsubscribe() has returned there is no reader, no request and nothing
\* pending.
THEOREM Quiet == Spec => []ClosedIsQuiet
<1>1. IInv => ClosedIsQuiet
  <2> SUFFICES ASSUME IInv, life = "closed" PROVE ClosedIsQuiet
    BY DEF ClosedIsQuiet
  <2>1. lock = NoTask /\ reader.at = "off"
    BY DEF IInv, Owned, Alive
  <2> QED
    BY <2>1, SessionConstants DEF IInv, Owned, ClosedIsQuiet
<1> QED
  BY <1>1, Inductive, PTL

\* No received counter is taken as genuine twice, nor out of order, however
\* often frames are repeated.
THEOREM NeverReplayed == Spec => []NoReplay
<1>1. IInv => NoReplay
  BY DEF IInv, Above
<1> QED
  BY <1>1, Inductive, PTL

\* After the queue lost a frame, one more frame at most is used.
THEOREM StopsAtGap == Spec => []GapStops
<1>1. IInv => GapStops
  BY DEF IInv, Noticed, GapStops, TypeOK, HistoryTypeOK
<1> QED
  BY <1>1, Inductive, PTL

\* The owner is told of a reader that dies before the session is closed, and
\* it is told of nothing twice or while it is closing.
THEOREM ToldOnce == Spec => OwnerToldOnce
<1>1. /\ IInv /\ IInv' /\ [Next]_vars
      => [/\ reader'.at = "dead" /\ ~Closing => told' = 1
          /\ told' # told => told = 0 /\ ~Closing]_vars
  <2> SUFFICES ASSUME IInv, IInv', [Next]_vars
               PROVE  /\ reader'.at = "dead" /\ ~Closing => told' = 1
                      /\ told' # told => told = 0 /\ ~Closing
    OBVIOUS
  <2>0. TypeOK /\ told \in 0 .. 1
    BY DEF IInv, TypeOK, SessionTypeOK
  <2>1. told' # told => Report
    <3>1. ASSUME NEW t \in Tasks, Requests(t)
          PROVE  told' # told => Report
      BY <3>1
         DEF Requests, Call, EnterRefused, EnterExhausted, EnterSend,
             Written, TakeReady, TakeOk, TakeOther, Return, RequestFails,
             session
    <3>2. ReaderLoop => (told' # told => Report)
      BY <2>0, ReaderKeeps
    <3>3. Lifecycle => told' = told
      BY DEF Lifecycle, SubscribeResponses, SubscribeControl, Unsubscribe,
             UnsubscribeInterrupted, UnsubscribeDone
    <3>4. Charger => told' = told
      BY <2>0, ChargerKeeps DEF session
    <3>5. UNCHANGED vars => told' = told
      BY DEF vars, session
    <3> QED
      BY <3>1, <3>2, <3>3, <3>4, <3>5 DEF Next
  <2>2. told' # told => told = 0 /\ ~Closing
    BY <2>0, <2>1 DEF Report
  <2>3. reader'.at = "dead" /\ ~Closing => told' = 1
    <3>1. CASE Closing'
      <4>1. ~Closing /\ reader'.at = "dead" => reader.at = "dead" /\ told' = told
        <5>1. ASSUME NEW t \in Tasks, Requests(t) PROVE life' = life
          BY <5>1
             DEF Requests, Call, EnterRefused, EnterExhausted, EnterSend,
                 Written, TakeReady, TakeOk, TakeOther, Return,
                 RequestFails, session
        <5>2. ReaderLoop => life' = life
          BY <2>0, ReaderKeeps
        <5>3. Charger => life' = life
          BY <2>0, ChargerKeeps DEF session
        <5>4. Lifecycle /\ ~Closing /\ reader'.at = "dead"
              => reader.at = "dead" /\ told' = told
          BY DEF Lifecycle, SubscribeResponses, SubscribeControl,
                 Unsubscribe, UnsubscribeInterrupted, UnsubscribeDone,
                 Closing, worker, Reader
        <5>5. UNCHANGED vars => life' = life
          BY DEF vars, session
        <5> QED
          BY <3>1, <5>1, <5>2, <5>3, <5>4, <5>5 DEF Next, Closing
      <4> QED
        BY <4>1 DEF IInv, Alive
    <3>2. CASE ~Closing'
      BY <3>2 DEF IInv, Alive, Closing
    <3> QED
      BY <3>1, <3>2
  <2> QED
    BY <2>2, <2>3
<1> QED
  BY <1>1, Inductive, PTL DEF OwnerToldOnce, Spec

\* The transmit key is used as NonceKey demands: counters in order, none
\* twice, none above the limit, and none once the session is closing.
THEOREM KeyKept == Spec => KeySpec
<1>1. Init => Key!Init
  BY DEF Init, Key!Init, Closing
<1>2. IInv /\ [Next]_vars => [Key!Next]_Key!vars
  <2> SUFFICES ASSUME IInv, [Next]_vars
               PROVE  Key!Next \/ UNCHANGED <<nonces, Closing>>
    BY DEF Key!vars
  <2>0. TypeOK /\ Len(nonces) = tx /\ tx \in 0 .. MaxCounter + 1
    BY DEF IInv, Counted, TypeOK, SessionTypeOK
  <2>1. ASSUME NEW t \in Tasks, EnterSend(t) PROVE Key!Next
    <3>1. /\ ~Closing /\ tx <= MaxCounter /\ life' = life
          /\ nonces' = Append(nonces, tx)
      BY <2>1 DEF EnterSend, MayBegin
    <3>2. Key!Encrypt
      BY <2>0, <3>1 DEF Key!Encrypt, Closing
    <3> QED
      BY <3>2 DEF Key!Next
  <2>2. ASSUME NEW t \in Tasks, Requests(t), ~EnterSend(t)
        PROVE  UNCHANGED <<nonces, life>>
    BY <2>2
       DEF Requests, Call, EnterRefused, EnterExhausted, Written, TakeReady,
           TakeOk, TakeOther, Return, RequestFails, session, history
  <2>3. ReaderLoop => UNCHANGED <<nonces, life>>
    BY <2>0, ReaderKeeps
  <2>4. Charger => UNCHANGED <<nonces, life>>
    BY <2>0, ChargerKeeps DEF session, history
  <2>5. UNCHANGED vars => UNCHANGED <<nonces, life>>
    BY DEF vars, session, history
  <2>6. CASE Lifecycle
    <3>1. CASE SubscribeResponses \/ SubscribeControl
               \/ UnsubscribeInterrupted \/ UnsubscribeDone
      BY <3>1
         DEF SubscribeResponses, SubscribeControl, UnsubscribeInterrupted,
             UnsubscribeDone, history, Closing
    <3>2. CASE Unsubscribe
      <4>1. Closing' /\ nonces' = nonces
        BY <3>2 DEF Unsubscribe, history, Closing
      <4>2. CASE Closing
        BY <4>1, <4>2
      <4>3. CASE ~Closing
        BY <4>1, <4>3 DEF Key!Next, Key!GiveUp
      <4> QED
        BY <4>2, <4>3
    <3> QED
      BY <2>6, <3>1, <3>2 DEF Lifecycle
  <2>7. UNCHANGED <<nonces, life>> => UNCHANGED <<nonces, Closing>>
    BY DEF Closing
  <2> QED
    BY <2>1, <2>2, <2>3, <2>4, <2>5, <2>6, <2>7 DEF Next
<1> QED
  BY <1>1, <1>2, Inductive, PTL DEF Spec, KeySpec, Key!Spec

-----------------------------------------------------------------------------
(* The numbers of the requests.                                            *)

\* The sequence number of the nth request of a session is n + 1 less the rounds
\* the numbers have made; an answer bears that of the request it answers.
Numbers(n, seq) ==
    seq \in 1 .. SeqMax /\ \E k \in Nat : n + 1 = SeqMax * k + seq
Numbered(r) == Numbers(r.ticket, r.seq)
AnswerNumbered(f) == f.kind = "reply" => Numbered(f)

RequestsNumbered ==
    /\ Numbers(calls + 1, seqNext)
    /\ \A t \in Tasks : pc[t] # "off" => Numbered(mine[t])
    /\ pending.ticket # 0 => Numbered(pending)
    /\ \A r \in todo : Numbered(r)
AnswersNumbered ==
    /\ \A i \in DOMAIN resp : AnswerNumbered(resp[i].frame)
    /\ \A i \in DOMAIN deferred : AnswerNumbered(deferred[i])
    /\ AnswerNumbered(reader.cur) /\ AnswerNumbered(xfer.frame)
Matches(p) ==
    p.got \notin {NoFrame, Failure} =>
        /\ p.got.kind = "reply" /\ p.got.seq = p.seq
        /\ Numbered(p.got) /\ p.ticket # 0
AnswerMatches == Matches(pending)
NumberInv == RequestsNumbered /\ AnswersNumbered /\ AnswerMatches

\* Multiples of the round.
LEMMA Rounds ==
    ASSUME NEW k \in Nat
    PROVE  /\ SeqMax * k \in Nat
           /\ SeqMax * (k + 1) = SeqMax * k + SeqMax
           /\ \A j \in Nat : j >= k + 1 => SeqMax * j >= SeqMax * k + SeqMax
<1> DEFINE s == SeqMax
<1>1. s \in Nat
  BY SessionConstants
<1> HIDE DEF s
<1>2. s * k \in Nat /\ s * (k + 1) = s * k + s
  BY <1>1, Z3
<1>3. ASSUME NEW j \in Nat, j >= k + 1
      PROVE  s * j >= s * k + s
  <2>1. PICK d \in Nat : j = (k + 1) + d
    <3>1. j - (k + 1) \in Nat /\ j = (k + 1) + (j - (k + 1))
      BY <1>3
    <3> QED
      BY <3>1
  <2>2. s * j = s * (k + 1) + s * d
    BY <1>1, <2>1, Z3
  <2>3. s * d \in Nat
    BY <1>1, Z3
  <2> QED
    BY <1>1, <1>2, <2>2, <2>3
<1> QED
  BY <1>2, <1>3 DEF s

\* Sequence numbers follow one another round a circle of SeqMax.
LEMMA NextInCircle ==
    ASSUME NEW n \in Nat, NEW seq, Numbers(n, seq)
    PROVE  Numbers(n + 1, IF seq = SeqMax THEN 1 ELSE seq + 1)
<1>1. PICK k \in Nat : n + 1 = SeqMax * k + seq
  BY DEF Numbers
<1>2. SeqMax * k \in Nat /\ SeqMax * (k + 1) = SeqMax * k + SeqMax
  BY Rounds
<1>3. seq \in 1 .. SeqMax /\ SeqMax \in Nat /\ SeqMax >= 2
  BY SessionConstants DEF Numbers
<1>4. CASE seq = SeqMax
  <2>1. (n + 1) + 1 = SeqMax * (k + 1) + 1
    BY <1>1, <1>2, <1>3, <1>4
  <2>2. k + 1 \in Nat /\ 1 \in 1 .. SeqMax
    BY <1>3
  <2> QED
    BY <1>4, <2>1, <2>2 DEF Numbers
<1>5. CASE seq # SeqMax
  <2>1. (n + 1) + 1 = SeqMax * k + (seq + 1) /\ seq + 1 \in 1 .. SeqMax
    BY <1>1, <1>2, <1>3, <1>5
  <2> QED
    BY <1>5, <2>1 DEF Numbers
<1> QED
  BY <1>4, <1>5

\* Two requests with the same number are the same one, or a whole round apart.
LEMMA RoundApart ==
    ASSUME NEW n \in Nat, NEW m \in Nat, NEW seq,
           Numbers(n, seq), Numbers(m, seq)
    PROVE  n = m \/ n >= m + SeqMax \/ m >= n + SeqMax
<1>1. PICK p \in Nat : n + 1 = SeqMax * p + seq
  BY DEF Numbers
<1>2. PICK q \in Nat : m + 1 = SeqMax * q + seq
  BY DEF Numbers
<1>3. /\ SeqMax * p \in Nat /\ SeqMax * q \in Nat
      /\ p >= q + 1 => SeqMax * p >= SeqMax * q + SeqMax
      /\ q >= p + 1 => SeqMax * q >= SeqMax * p + SeqMax
  BY Rounds
<1>4. seq \in Nat /\ SeqMax \in Nat
  BY SessionConstants DEF Numbers
<1>5. p = q \/ p >= q + 1 \/ q >= p + 1
  OBVIOUS
<1> QED
  BY <1>1, <1>2, <1>3, <1>4, <1>5

\* Frames that answer nothing have no number to bear.
LEMMA Unnumbered ==
    /\ AnswerNumbered(NoFrame)
    /\ \A w : AnswerNumbered(Reader(w).cur)
BY DEF AnswerNumbered, NoFrame, Frame, Reader

\* The elements of a queue that has made room for x, in order.
LEMMA PutElements ==
    ASSUME NEW S, NEW q \in Seq(S), NEW x \in S
    PROVE  \E k \in {0, 1} :
              /\ k = 1 <=> Len(q) = QueueMax
              /\ DOMAIN Put(q, x) = 1 .. Len(q) + 1 - k
              /\ Put(q, x)[Len(q) + 1 - k] = x
              /\ \A i \in 1 .. Len(q) - k :
                    /\ i + k \in DOMAIN q
                    /\ Put(q, x)[i] = q[i + k]
<1>1. CASE Len(q) = QueueMax
  <2>1. q # <<>>
    BY <1>1, SessionConstants, EmptySeq
  <2>2. /\ Tail(q) \in Seq(S) /\ Len(Tail(q)) = Len(q) - 1
        /\ \A i \in 1 .. Len(q) - 1 : Tail(q)[i] = q[i + 1]
    BY <2>1, HeadTailProperties
  <2>3. /\ DOMAIN Put(q, x) = 1 .. Len(q)
        /\ Put(q, x)[Len(q)] = x
        /\ \A i \in 1 .. Len(q) - 1 : Put(q, x)[i] = q[i + 1]
    BY <1>1, <2>2, AppendProperties, LenProperties DEF Put
  <2> QED
    BY <1>1, <2>3, LenProperties
<1>2. CASE Len(q) # QueueMax
  <2>1. /\ DOMAIN Put(q, x) = 1 .. Len(q) + 1
        /\ Put(q, x)[Len(q) + 1] = x
        /\ \A i \in 1 .. Len(q) : Put(q, x)[i] = q[i]
    BY <1>2, AppendProperties, LenProperties DEF Put
  <2> QED
    BY <1>2, <2>1, LenProperties
<1> QED
  BY <1>1, <1>2

LEMMA TailElements ==
    ASSUME NEW S, NEW q \in Seq(S), q # <<>>
    PROVE  /\ Head(q) = q[1] /\ 1 \in DOMAIN q
           /\ DOMAIN Tail(q) = 1 .. Len(q) - 1
           /\ \A i \in DOMAIN Tail(q) :
                 i + 1 \in DOMAIN q /\ Tail(q)[i] = q[i + 1]
BY HeadTailProperties, LenProperties, EmptySeq

\* A request that ends leaves no number behind that was not there.
LEMMA LeaveNumbers ==
    ASSUME TypeOK, RequestsNumbered, AnswerMatches,
           NEW t \in Tasks, Leave(t)
    PROVE  /\ \A u \in Tasks : pc'[u] # "off" => Numbered(mine'[u])
           /\ pending'.ticket # 0 => Numbered(pending')
           /\ Matches(pending')
<1>0. RequestTypeOK
  BY DEF TypeOK
<1>1. pending' = pending \/ pending' = NoPending
  BY DEF Leave
<1>2. NoPending.ticket = 0 /\ NoPending.got = NoFrame
  BY DEF NoPending
<1>3. ASSUME NEW u \in Tasks, pc'[u] # "off"
      PROVE  Numbered(mine'[u])
  <2>1. pc[u] # "off" /\ mine'[u] = mine[u]
    BY <1>0, <1>3 DEF Leave, RequestTypeOK
  <2> QED
    BY <2>1 DEF RequestsNumbered
<1>4. pending'.ticket # 0 => Numbered(pending')
  BY <1>1, <1>2 DEF RequestsNumbered
<1>5. Matches(pending')
  BY <1>1, <1>2 DEF AnswerMatches, Matches
<1> QED
  BY <1>3, <1>4, <1>5

LEMMA RouteMatches ==
    ASSUME RequestTypeOK, AnswerMatches,
           NEW f \in Frames, AnswerNumbered(f)
    PROVE  /\ Route(f).seq = pending.seq /\ Route(f).ticket = pending.ticket
           /\ Matches(Route(f))
<1>0. pending \in Pendings
  BY DEF RequestTypeOK
<1>1. CASE /\ pending.ticket # 0 /\ pending.got = NoFrame
           /\ f.kind = "reply" /\ f.seq = pending.seq
  <2>1. Route(f) = [pending EXCEPT !.got = f]
    BY <1>1 DEF Route
  <2>2. /\ Route(f).seq = pending.seq /\ Route(f).ticket = pending.ticket
        /\ Route(f).got = f
    BY <1>0, <2>1 DEF Pendings
  <2> QED
    BY <1>1, <2>2 DEF Matches, AnswerNumbered
<1>2. CASE ~(/\ pending.ticket # 0 /\ pending.got = NoFrame
             /\ f.kind = "reply" /\ f.seq = pending.seq)
  <2>1. Route(f) = pending
    BY <1>2 DEF Route
  <2> QED
    BY <2>1 DEF AnswerMatches
<1> QED
  BY <1>1, <1>2

LEMMA DiesMatches ==
    ASSUME NEW p \in Pendings, Matches(p), NEW reason, Dies(reason, p)
    PROVE  /\ pending'.seq = p.seq /\ pending'.ticket = p.ticket
           /\ Matches(pending')
<1>1. CASE p.ticket # 0 /\ p.got = NoFrame
  <2>1. pending' = [p EXCEPT !.got = Failure]
    BY <1>1 DEF Dies
  <2>2. /\ pending'.seq = p.seq /\ pending'.ticket = p.ticket
        /\ pending'.got = Failure
    BY <2>1 DEF Pendings
  <2> QED
    BY <2>2 DEF Matches
<1>2. CASE ~(p.ticket # 0 /\ p.got = NoFrame)
  BY <1>2 DEF Dies
<1> QED
  BY <1>1, <1>2

LEMMA HandleMatches ==
    ASSUME TypeOK, AnswerMatches,
           NEW f \in Frames, AnswerNumbered(f), Handle(f)
    PROVE  /\ pending'.seq = pending.seq /\ pending'.ticket = pending.ticket
           /\ Matches(pending') /\ AnswerNumbered(reader'.cur)
<1>0. RequestTypeOK /\ pending \in Pendings
  BY DEF TypeOK, RequestTypeOK
<1>1. CASE Dies("reauth", pending)
  BY <1>0, <1>1, DiesMatches, Unnumbered DEF AnswerMatches, Dies
<1>2. CASE reader' = Reader("top") /\ pending' = pending
  BY <1>2, Unnumbered DEF AnswerMatches
<1>3. CASE Dies("spent", Route(f))
  <2>1. /\ Route(f) \in Pendings /\ Matches(Route(f))
        /\ Route(f).seq = pending.seq /\ Route(f).ticket = pending.ticket
    BY <1>0, RouteType, RouteMatches
  <2> QED
    BY <1>3, <2>1, DiesMatches, Unnumbered DEF Dies
<1>4. CASE reader' = Reader("top") /\ pending' = Route(f)
  BY <1>0, <1>4, RouteMatches, Unnumbered
<1> QED
  BY <1>1, <1>2, <1>3, <1>4 DEF Handle

\* What a frame that arrives adds to the queue is numbered.
LEMMA ArrivesNumbered ==
    ASSUME TypeOK, AnswersNumbered, NEW item \in Items,
           AnswerNumbered(item.frame), Arrives(item)
    PROVE  \A i \in DOMAIN resp' : AnswerNumbered(resp'[i].frame)
<1>1. resp \in Seq(Items) /\ resp' = Put(resp, item)
  BY DEF TypeOK, QueuesTypeOK, Arrives
<1>2. PICK k \in {0, 1} :
         /\ DOMAIN resp' = 1 .. Len(resp) + 1 - k
         /\ resp'[Len(resp) + 1 - k] = item
         /\ \A i \in 1 .. Len(resp) - k :
               i + k \in DOMAIN resp /\ resp'[i] = resp[i + k]
  BY <1>1, PutElements
<1>3. Len(resp) \in Nat
  BY <1>1, LenProperties
<1>4. ASSUME NEW i \in DOMAIN resp' PROVE AnswerNumbered(resp'[i].frame)
  <2>1. CASE i = Len(resp) + 1 - k
    BY <1>2, <2>1
  <2>2. CASE i # Len(resp) + 1 - k
    <3>1. i \in 1 .. Len(resp) - k
      BY <1>2, <1>3, <1>4, <2>2
    <3> QED
      BY <1>2, <3>1 DEF AnswersNumbered
  <2> QED
    BY <2>1, <2>2
<1> QED
  BY <1>4

\* The requests keep to their numbers.
LEMMA RequestsNumbers ==
    ASSUME TypeOK, NumberInv, NEW t \in Tasks, Requests(t)
    PROVE  NumberInv'
<1>0. /\ RequestTypeOK /\ RequestsNumbered /\ AnswersNumbered
      /\ AnswerMatches /\ calls \in Nat
  BY DEF TypeOK, NumberInv, HistoryTypeOK
<1>1. UNCHANGED <<resp, deferred, reader, xfer>>
  BY DEF Requests, Call, EnterRefused, EnterExhausted, EnterSend, Written,
         TakeReady, TakeOk, TakeOther, Return, RequestFails, worker, inbox,
         charger
<1>2. AnswersNumbered'
  BY <1>0, <1>1 DEF AnswersNumbered
<1>3. CASE Call(t)
  <2>1. Numbers(calls + 1, seqNext) /\ calls + 1 \in Nat
    BY <1>0 DEF RequestsNumbered
  <2>2. Numbers((calls + 1) + 1, NextSequence)
    BY <2>1, NextInCircle DEF NextSequence
  <2>3. /\ calls' = calls + 1 /\ seqNext' = NextSequence
        /\ mine' = [mine EXCEPT ![t] = [seq |-> seqNext,
                                        ticket |-> calls + 1]]
        /\ UNCHANGED <<pending, todo>>
        /\ pc' = [pc EXCEPT ![t] = "lock"]
    BY <1>3 DEF Call, Goto, charger
  <2>4. Numbers(calls' + 1, seqNext')
    BY <2>2, <2>3
  <2>5. ASSUME NEW u \in Tasks, pc'[u] # "off" PROVE Numbered(mine'[u])
    <3>1. CASE u = t
      <4>1. mine'[u] = [seq |-> seqNext, ticket |-> calls + 1]
        BY <1>0, <2>3, <3>1 DEF RequestTypeOK
      <4> QED
        BY <2>1, <4>1 DEF Numbered
    <3>2. CASE u # t
      BY <1>0, <2>3, <2>5, <3>2 DEF RequestTypeOK, RequestsNumbered
    <3> QED
      BY <3>1, <3>2
  <2>6. RequestsNumbered'
    BY <1>0, <2>3, <2>4, <2>5 DEF RequestsNumbered
  <2>7. AnswerMatches'
    BY <1>0, <2>3 DEF AnswerMatches
  <2> QED
    BY <1>2, <2>6, <2>7 DEF NumberInv
<1>4. CASE \/ EnterRefused(t) \/ EnterExhausted(t) \/ Return(t)
           \/ RequestFails(t)
  <2>1. Leave(t) /\ UNCHANGED <<calls, seqNext, todo>>
    BY <1>4 DEF EnterRefused, EnterExhausted, Return, RequestFails, session,
                charger, history
  <2>2. /\ \A u \in Tasks : pc'[u] # "off" => Numbered(mine'[u])
        /\ pending'.ticket # 0 => Numbered(pending')
        /\ Matches(pending')
    BY <1>0, <2>1, LeaveNumbers
  <2>3. RequestsNumbered'
    BY <1>0, <2>1, <2>2 DEF RequestsNumbered
  <2> QED
    BY <1>2, <2>2, <2>3 DEF NumberInv, AnswerMatches
<1>5. CASE EnterSend(t)
  <2>1. /\ UNCHANGED <<calls, seqNext, mine, todo>>
        /\ pc[t] = "lock" /\ pc' = [pc EXCEPT ![t] = "announce"]
        /\ pending' = [seq |-> mine[t].seq, ticket |-> mine[t].ticket,
                       got |-> NoFrame]
    BY <1>5 DEF EnterSend, Entering, Goto
  <2>2. ASSUME NEW u \in Tasks, pc'[u] # "off" PROVE pc[u] # "off"
    BY <1>0, <2>1, <2>2 DEF RequestTypeOK
  <2>3. Numbered(pending')
    <3>1. Numbered(mine[t])
      BY <1>0, <2>1 DEF RequestsNumbered
    <3>2. pending'.ticket = mine[t].ticket /\ pending'.seq = mine[t].seq
      BY <2>1
    <3> QED
      BY <3>1, <3>2 DEF Numbered
  <2>4. RequestsNumbered'
    BY <1>0, <2>1, <2>2, <2>3 DEF RequestsNumbered
  <2>5. AnswerMatches'
    <3>1. pending'.got = NoFrame
      BY <2>1
    <3> QED
      BY <3>1 DEF AnswerMatches, Matches
  <2> QED
    BY <1>2, <2>4, <2>5 DEF NumberInv
<1>6. CASE Written(t) \/ TakeReady(t) \/ TakeOk(t) \/ TakeOther(t)
  <2>1. /\ UNCHANGED <<calls, seqNext, mine, pending>>
        /\ \A u \in Tasks : pc'[u] # "off" => pc[u] # "off"
    BY <1>0, <1>6
       DEF Written, TakeReady, TakeOk, TakeOther, Goto, session, request,
           history, RequestTypeOK
  <2>2. todo' \subseteq todo \/ (pc[t] # "off" /\ todo' = todo \cup {mine[t]})
    BY <1>6 DEF Written, TakeReady, TakeOk, TakeOther, charger
  <2>3. \A r \in todo' : Numbered(r)
    BY <1>0, <2>2 DEF RequestsNumbered
  <2>4. RequestsNumbered'
    BY <1>0, <2>1, <2>3 DEF RequestsNumbered
  <2> QED
    BY <1>0, <1>2, <2>1, <2>4 DEF NumberInv, AnswerMatches
<1> QED
  BY <1>3, <1>4, <1>5, <1>6 DEF Requests

\* So do the frames the reader takes and puts off, and what it hands over.
LEMMA ReaderNumbers ==
    ASSUME TypeOK, NumberInv, ReaderLoop
    PROVE  NumberInv'
<1>0. /\ RequestTypeOK /\ RequestsNumbered /\ AnswersNumbered
      /\ AnswerMatches /\ Matches(pending) /\ pending \in Pendings
      /\ resp \in Seq(Items) /\ deferred \in Seq(Frames) /\ reader \in Readers
  BY DEF TypeOK, NumberInv, AnswerMatches, RequestTypeOK, QueuesTypeOK,
         WorkerTypeOK
<1>1. /\ UNCHANGED <<calls, seqNext, pc, mine, todo>>
      /\ xfer'.frame = xfer.frame
  BY DEF ReaderLoop, ReaderOverflow, ReaderDeferred, ReaderGet,
         ReaderTakesInline, ReaderSkipsPart, ReaderTakesAnnounce,
         ReaderDefers, ReaderMisframed, ReaderTakesPart, ReaderHandles,
         ReaderFails, Takes, session, request, charger, history, TypeOK,
         ChargerTypeOK
<1>2. ASSUME pending'.seq = pending.seq, pending'.ticket = pending.ticket,
             Matches(pending'), AnswerNumbered(reader'.cur),
             \A i \in DOMAIN resp' : AnswerNumbered(resp'[i].frame),
             \A i \in DOMAIN deferred' : AnswerNumbered(deferred'[i])
      PROVE  NumberInv'
  <2>1. Numbered(pending) => Numbered(pending')
    BY <1>2 DEF Numbered
  <2>2. RequestsNumbered'
    BY <1>0, <1>1, <1>2, <2>1 DEF RequestsNumbered
  <2>3. AnswersNumbered'
    BY <1>0, <1>1, <1>2 DEF AnswersNumbered
  <2> QED
    BY <1>2, <2>2, <2>3 DEF NumberInv, AnswerMatches
<1>3. /\ \A i \in DOMAIN resp : AnswerNumbered(resp[i].frame)
      /\ \A i \in DOMAIN deferred : AnswerNumbered(deferred[i])
      /\ AnswerNumbered(reader.cur)
  BY <1>0 DEF AnswersNumbered
<1>4. CASE ReaderOverflow \/ ReaderFails
  <2>1. \E reason \in Reasons : Dies(reason, pending)
    BY <1>4 DEF ReaderOverflow, ReaderFails, Reasons
  <2>2. UNCHANGED <<resp, deferred>>
    BY <1>4 DEF ReaderOverflow, ReaderFails, inbox
  <2> QED
    BY <1>0, <1>2, <1>3, <2>1, <2>2, DiesMatches, Unnumbered DEF Dies
<1>5. CASE ReaderDeferred
  <2>1. deferred # <<>> /\ deferred' = Tail(deferred) /\ resp' = resp
    BY <1>5 DEF ReaderDeferred, inbox
  <2>2. /\ Head(deferred) \in Frames /\ AnswerNumbered(Head(deferred))
        /\ \A i \in DOMAIN deferred' : AnswerNumbered(deferred'[i])
    BY <1>0, <1>3, <2>1, TailElements, TakeType
  <2>3. Handle(Head(deferred))
    BY <1>5 DEF ReaderDeferred
  <2> QED
    BY <1>0, <1>2, <1>3, <2>1, <2>2, <2>3, HandleMatches
<1>6. CASE ReaderHandles
  <2>1. reader.cur \in Frames /\ Handle(reader.cur)
    BY <1>0, <1>6 DEF ReaderHandles, Readers
  <2>2. UNCHANGED <<resp, deferred>>
    BY <1>6 DEF ReaderHandles, inbox
  <2> QED
    BY <1>0, <1>2, <1>3, <2>1, <2>2, HandleMatches
<1>7. CASE ReaderGet
  <2>1. UNCHANGED <<resp, deferred, pending>> /\ reader' = Reader("get")
    BY <1>7 DEF ReaderGet, request, inbox
  <2> QED
    BY <1>0, <1>2, <1>3, <2>1, Unnumbered
<1>8. ASSUME NEW where, NEW tag, Takes(where, tag)
      PROVE  /\ AnswerNumbered(Head(resp).frame)
             /\ \A i \in DOMAIN resp' : AnswerNumbered(resp'[i].frame)
  <2>1. resp # <<>> /\ resp' = Tail(resp)
    BY <1>8 DEF Takes
  <2> QED
    BY <1>0, <1>3, <2>1, TailElements
<1>9. CASE ReaderTakesInline
  <2>1. /\ UNCHANGED <<deferred, pending>>
        /\ reader' = [Reader("ack") EXCEPT !.cur = Head(resp).frame]
        /\ Takes("get", "inline")
    BY <1>9 DEF ReaderTakesInline
  <2>2. reader'.cur = Head(resp).frame
    BY <2>1 DEF Reader
  <2> QED
    BY <1>0, <1>2, <1>3, <1>8, <2>1, <2>2
<1>10. CASE ReaderSkipsPart
  <2>1. UNCHANGED <<deferred, pending, reader>> /\ Takes("get", "part")
    BY <1>10 DEF ReaderSkipsPart
  <2> QED
    BY <1>0, <1>2, <1>3, <1>8, <2>1
<1>11. CASE ReaderTakesAnnounce
  <2>1. /\ UNCHANGED <<deferred, pending>> /\ reader' = Reader("parts")
        /\ Takes("get", "announce")
    BY <1>11 DEF ReaderTakesAnnounce
  <2> QED
    BY <1>0, <1>2, <1>3, <1>8, <2>1, Unnumbered
<1>12. CASE ReaderDefers
  <2>0. Takes("parts", "inline")
    BY <1>12 DEF ReaderDefers
  <2>1. CASE Len(deferred) < DeferMax
    <3>1. /\ deferred' = Append(deferred, Head(resp).frame)
          /\ UNCHANGED <<pending, reader>>
      BY <1>12, <2>1 DEF ReaderDefers
    <3>2. Head(resp).frame \in Frames
      BY <1>0, <2>0, TakeType DEF Takes, Items
    <3>3. /\ DOMAIN deferred' = 1 .. Len(deferred) + 1
          /\ \A i \in 1 .. Len(deferred) : deferred'[i] = deferred[i]
          /\ deferred'[Len(deferred) + 1] = Head(resp).frame
          /\ DOMAIN deferred = 1 .. Len(deferred) /\ Len(deferred) \in Nat
      BY <1>0, <3>1, <3>2, AppendProperties, LenProperties
    <3>4. \A i \in DOMAIN deferred' : AnswerNumbered(deferred'[i])
      BY <1>3, <1>8, <2>0, <3>3
    <3> QED
      BY <1>0, <1>2, <1>3, <1>8, <2>0, <3>1, <3>4
  <2>2. CASE ~(Len(deferred) < DeferMax)
    <3>1. Dies("framing", pending) /\ deferred' = deferred
      BY <1>12, <2>2 DEF ReaderDefers
    <3> QED
      BY <1>0, <1>2, <1>3, <1>8, <2>0, <3>1, DiesMatches, Unnumbered DEF Dies
  <2> QED
    BY <2>1, <2>2
<1>13. CASE ReaderMisframed
  <2>1. /\ Dies("framing", pending) /\ deferred' = deferred
        /\ Takes("parts", "announce")
    BY <1>13 DEF ReaderMisframed
  <2> QED
    BY <1>0, <1>2, <1>3, <1>8, <2>1, DiesMatches, Unnumbered DEF Dies
<1>14. CASE ReaderTakesPart
  <2>1. UNCHANGED <<deferred, pending>> /\ Takes("parts", "part")
    BY <1>14 DEF ReaderTakesPart
  <2>2. reader'.cur \in {Head(resp).frame, reader.cur}
    BY <1>14 DEF ReaderTakesPart
  <2> QED
    BY <1>0, <1>2, <1>3, <1>8, <2>1, <2>2
<1> QED
  BY <1>4, <1>5, <1>6, <1>7, <1>9, <1>10, <1>11, <1>12, <1>13, <1>14
     DEF ReaderLoop

\* The charger answers under the number of the request.
LEMMA ChargerNumbers ==
    ASSUME TypeOK, NumberInv, Charger
    PROVE  NumberInv'
<1>0. /\ ChargerTypeOK /\ RequestsNumbered /\ AnswersNumbered /\ AnswerMatches
      /\ resp \in Seq(Items)
  BY DEF TypeOK, NumberInv, QueuesTypeOK
<1>1. /\ UNCHANGED <<calls, seqNext, pc, mine, pending, deferred, reader>>
      /\ todo' \subseteq todo
  BY DEF Charger, SendControl, SendAnswer, SendEvent, SendFrame, SendPart,
         EndTransfer, Repeat, session, request, worker, history
<1>2. RequestsNumbered' /\ AnswerMatches'
  BY <1>0, <1>1 DEF RequestsNumbered, AnswerMatches
<1>3. ASSUME AnswerNumbered(xfer'.frame),
             \A i \in DOMAIN resp' : AnswerNumbered(resp'[i].frame)
      PROVE  NumberInv'
  BY <1>0, <1>1, <1>2, <1>3 DEF NumberInv, AnswersNumbered
<1>4. /\ AnswerNumbered(xfer.frame)
      /\ \A i \in DOMAIN resp : AnswerNumbered(resp[i].frame)
  BY <1>0 DEF AnswersNumbered
<1>5. ASSUME NEW k \in {"reply", "event", "noise"}, NEW s \in 0 .. SeqMax,
             NEW n \in 0 .. MaxCalls, SendFrame(k, s, n),
             k = "reply" => Numbers(n, s)
      PROVE  NumberInv'
  <2>1. dctr \in 0 .. MaxCounter
    BY <1>0, <1>5, SessionConstants DEF SendFrame, ChargerTypeOK
  <2>2. Frame(dctr, k, s, n) \in Frames
    BY <1>5, <2>1 DEF Frame, Frames
  <2>3. AnswerNumbered(Frame(dctr, k, s, n))
    BY <1>5 DEF AnswerNumbered, Numbered, Frame
  <2>4. CASE Arrives(Item("inline", 0, Frame(dctr, k, s, n))) /\ xfer' = xfer
    <3>1. /\ Item("inline", 0, Frame(dctr, k, s, n)) \in Items
          /\ Item("inline", 0, Frame(dctr, k, s, n)).frame
             = Frame(dctr, k, s, n)
      BY <2>2 DEF Item, Items
    <3> QED
      BY <1>0, <1>3, <1>4, <2>3, <2>4, <3>1, ArrivesNumbered
  <2>5. CASE /\ Arrives(Item("announce", 0, NoFrame))
             /\ xfer' = [st |-> "announced", frame |-> Frame(dctr, k, s, n),
                         sent |-> 0]
    <3>1. /\ Item("announce", 0, NoFrame) \in Items
          /\ Item("announce", 0, NoFrame).frame = NoFrame
      BY Blanks DEF Item, Items
    <3> QED
      BY <1>0, <1>3, <2>3, <2>5, <3>1, ArrivesNumbered, Unnumbered
  <2> QED
    BY <1>5, <2>4, <2>5 DEF SendFrame
<1>6. ASSUME NEW r \in todo
      PROVE  /\ r.seq \in 0 .. SeqMax /\ r.ticket \in 0 .. MaxCalls
             /\ Numbers(r.ticket, r.seq)
  BY <1>0, <1>6 DEF ChargerTypeOK, Calls, RequestsNumbered, Numbered
<1>7. ASSUME NEW r \in todo, SendAnswer(r) PROVE NumberInv'
  BY <1>5, <1>6, <1>7 DEF SendAnswer
<1>8. CASE SendEvent
  <2>1. 0 \in 0 .. SeqMax /\ 0 \in 0 .. MaxCalls
    BY SessionConstants
  <2>2. "event" # "reply" /\ "noise" # "reply"
    OBVIOUS
  <2> QED
    BY <1>5, <1>6, <1>8, <2>1, <2>2 DEF SendEvent
<1>9. CASE SendControl \/ EndTransfer
  <2>1. /\ resp' = resp /\ (xfer' = xfer \/ xfer'.frame = NoFrame)
    BY <1>9 DEF SendControl, EndTransfer, NoTransfer, inbox
  <2> QED
    BY <1>3, <1>4, <2>1, Unnumbered
<1>10. ASSUME NEW i \in 1 .. Parts, Arrives(Item("part", i, xfer.frame)),
              xfer'.frame = xfer.frame
       PROVE  NumberInv'
  <2>1. /\ Item("part", i, xfer.frame) \in Items
        /\ Item("part", i, xfer.frame).frame = xfer.frame
    BY <1>0 DEF Item, Items, ChargerTypeOK
  <2> QED
    BY <1>0, <1>3, <1>4, <1>10, <2>1, ArrivesNumbered
<1>11. CASE SendPart
  <2>1. xfer.sent + 1 \in 1 .. Parts /\ xfer'.frame = xfer.frame
    BY <1>0, <1>11, SessionConstants DEF SendPart, ChargerTypeOK
  <2> QED
    BY <1>10, <1>11, <2>1 DEF SendPart
<1>12. CASE Repeat
  <2>1. ASSUME NEW c \in 0 .. MaxCounter,
               Arrives(Item("inline", 0, Frame(c, "event", 0, 0))),
               xfer' = xfer
        PROVE  NumberInv'
    <3>1. /\ Item("inline", 0, Frame(c, "event", 0, 0)) \in Items
          /\ Item("inline", 0, Frame(c, "event", 0, 0)).frame
             = Frame(c, "event", 0, 0)
      BY <2>1, SessionConstants DEF Item, Items, Frame, Frames
    <3>2. AnswerNumbered(Frame(c, "event", 0, 0))
      BY DEF AnswerNumbered, Frame
    <3> QED
      BY <1>0, <1>3, <1>4, <2>1, <3>1, <3>2, ArrivesNumbered
  <2>2. ASSUME xfer.sent > 0 PROVE xfer.sent \in 1 .. Parts
    BY <1>0, <2>2, SessionConstants DEF ChargerTypeOK
  <2> QED
    BY <1>10, <1>12, <2>1, <2>2 DEF Repeat
<1> QED
  BY <1>7, <1>8, <1>9, <1>11, <1>12 DEF Charger

LEMMA LifecycleNumbers ==
    ASSUME TypeOK, NumberInv, Lifecycle
    PROVE  NumberInv'
<1>0. RequestsNumbered /\ AnswersNumbered /\ AnswerMatches
  BY DEF NumberInv
<1>1. UNCHANGED <<calls, seqNext, todo, resp, deferred, xfer>>
  BY DEF Lifecycle, SubscribeResponses, SubscribeControl, Unsubscribe,
         UnsubscribeInterrupted, UnsubscribeDone, worker, inbox, charger,
         history
<1>2. AnswersNumbered'
  <2>1. AnswerNumbered(reader'.cur)
    BY <1>0, Unnumbered
       DEF Lifecycle, SubscribeResponses, SubscribeControl, Unsubscribe,
           UnsubscribeInterrupted, UnsubscribeDone, worker, AnswersNumbered
  <2> QED
    BY <1>0, <1>1, <2>1 DEF AnswersNumbered
<1>3. RequestsNumbered' /\ AnswerMatches'
  <2>1. CASE UNCHANGED request
    BY <1>0, <1>1, <2>1 DEF request, RequestsNumbered, AnswerMatches
  <2>2. CASE lock \in Tasks /\ Leave(lock)
    <3>1. /\ \A u \in Tasks : pc'[u] # "off" => Numbered(mine'[u])
          /\ pending'.ticket # 0 => Numbered(pending')
          /\ Matches(pending')
      BY <1>0, <2>2, LeaveNumbers
    <3> QED
      BY <1>0, <1>1, <3>1 DEF RequestsNumbered, AnswerMatches
  <2>3. CASE UnsubscribeDone
    <3>1. UNCHANGED <<pc, mine>> /\ pending' = NoPending
      BY <2>3 DEF UnsubscribeDone
    <3>2. pending'.ticket = 0 /\ pending'.got = NoFrame
      BY <3>1 DEF NoPending
    <3> QED
      BY <1>0, <1>1, <3>1, <3>2 DEF RequestsNumbered, AnswerMatches, Matches
  <2> QED
    BY <2>1, <2>2, <2>3
       DEF Lifecycle, SubscribeResponses, SubscribeControl, Unsubscribe,
           UnsubscribeInterrupted
<1> QED
  BY <1>2, <1>3 DEF NumberInv

LEMMA InitNumbers == Init => NumberInv
<1> SUFFICES ASSUME Init PROVE NumberInv
  OBVIOUS
<1>1. Numbers(calls + 1, seqNext)
  <2>1. calls = 0 /\ seqNext = 2 /\ 2 \in 1 .. SeqMax
    BY SessionConstants DEF Init
  <2>2. SeqMax * 0 = 0
    BY SessionConstants
  <2>3. (calls + 1) + 1 = SeqMax * 0 + seqNext
    BY <2>1, <2>2
  <2> QED
    BY <2>1, <2>3 DEF Numbers
<1>2. /\ pending.ticket = 0 /\ pending.got = NoFrame /\ todo = {}
      /\ \A t \in Tasks : pc[t] = "off"
  BY DEF Init, NoPending
<1>3. /\ resp = <<>> /\ deferred = <<>> /\ reader.cur = NoFrame
      /\ xfer.frame = NoFrame
  BY DEF Init, Reader, NoTransfer
<1>4. DOMAIN resp = {} /\ DOMAIN deferred = {}
  BY <1>3
<1> QED
  BY <1>1, <1>2, <1>3, <1>4, Unnumbered
     DEF NumberInv, RequestsNumbered, AnswersNumbered, AnswerMatches, Matches

LEMMA NumberInductive == Spec => []NumberInv
<1>1. TypeOK /\ NumberInv /\ [Next]_vars => NumberInv'
  <2> SUFFICES ASSUME TypeOK, NumberInv, [Next]_vars PROVE NumberInv'
    OBVIOUS
  <2>1. UNCHANGED vars => NumberInv'
    BY DEF vars, session, request, worker, inbox, charger, history,
           NumberInv, RequestsNumbered, AnswersNumbered, AnswerMatches
  <2> QED
    BY <2>1, RequestsNumbers, ReaderNumbers, LifecycleNumbers, ChargerNumbers
       DEF Next
<1> QED
  BY <1>1, InitNumbers, SessionTypeCorrect, PTL DEF Spec

\* An answer that is handed to a request is the answer of this request, unless
\* the sequence numbers have come round between the two, for every number of
\* tasks and requests, every order in which frames are put off, and every
\* answer that comes late.
THEOREM OwnAnswer == Spec => []AnswerOfItsOwn
<1>1. TypeOK /\ NumberInv => AnswerOfItsOwn
  <2> SUFFICES ASSUME TypeOK, NumberInv,
                      pending.got \notin {NoFrame, Failure}
               PROVE  /\ pending.got.kind = "reply"
                      /\ \/ pending.got.ticket = pending.ticket
                         \/ pending.ticket >= pending.got.ticket + SeqMax
                         \/ pending.got.ticket >= pending.ticket + SeqMax
    BY DEF AnswerOfItsOwn
  <2>1. /\ pending.got.kind = "reply" /\ pending.got.seq = pending.seq
        /\ Numbered(pending.got) /\ Numbered(pending)
    BY DEF NumberInv, AnswerMatches, Matches, RequestsNumbered
  <2>2. pending.ticket \in Nat /\ pending.got.ticket \in Nat
    BY DEF TypeOK, RequestTypeOK, Pendings, Frames
  <2>3. /\ Numbers(pending.got.ticket, pending.seq)
        /\ Numbers(pending.ticket, pending.seq)
    BY <2>1 DEF Numbered
  <2> QED
    BY <2>1, <2>2, <2>3, RoundApart
<1> QED
  BY <1>1, NumberInductive, SessionTypeCorrect, PTL

-----------------------------------------------------------------------------
(* The order of the frames.                                                *)

\* What is in the queue of responses, and the counter it bears.
IsInline(i) == resp[i].tag = "inline"
IsAnnounce(i) == resp[i].tag = "announce"
IsPart(i) == resp[i].tag = "part"
Ctr(i) == resp[i].frame.ctr

\* The reader has a frame whose counter it knows.
HasCur == reader.at = "ack" \/ (reader.at = "parts" /\ 1 \in reader.parts)

\* The reader handles no further frame, or none but the one it is at.
Doomed == reader.at = "dead" \/ (reader.at = "top" /\ gap) \/ life = "closed"

\* Counter c comes before all that is still to be handled.  The reader does not
\* come to place i of the queue in the middle of a transfer: a frame was lost, or
\* there is another announcement before it.
InOrder(c) ==
    /\ \A i \in DOMAIN deferred : c < deferred[i].ctr
    /\ \A i \in DOMAIN resp : IsInline(i) => c < Ctr(i)
Blocked(i) == gap \/ \E j \in DOMAIN resp : j < i /\ IsAnnounce(j)

Rising ==
    /\ rx <= dctr
    /\ \A i \in DOMAIN resp : IsInline(i) => rx <= Ctr(i) /\ Ctr(i) < dctr
    /\ \A i, j \in DOMAIN resp :
          i < j /\ IsInline(i) /\ IsInline(j) => Ctr(i) < Ctr(j)

PutOff ==
    /\ reader.at \in {"off", "get"} => deferred = <<>>
    /\ \A i \in DOMAIN deferred :
          rx <= deferred[i].ctr /\ deferred[i].ctr < dctr
    /\ \A i, j \in DOMAIN deferred : i < j => deferred[i].ctr < deferred[j].ctr
    /\ \A i \in DOMAIN deferred, j \in DOMAIN resp :
          IsInline(j) => deferred[i].ctr < Ctr(j)

\* The place of the announcement is the place of the frame it announces.
PlaceOf(i, c) ==
    /\ IsAnnounce(i)
    /\ \A j \in DOMAIN resp : IsInline(j) => /\ j < i => Ctr(j) < c
                                             /\ i < j => c < Ctr(j)
    /\ \A j \in DOMAIN resp : IsPart(j) => Ctr(j) < c
    /\ \A j \in DOMAIN deferred : deferred[j].ctr < c
    /\ HasCur => reader.cur.ctr < c
Announced ==
    xfer.st = "announced" =>
        /\ xfer.sent = 0 /\ rx <= xfer.frame.ctr
        /\ gap \/ \E i \in DOMAIN resp : PlaceOf(i, xfer.frame.ctr)

Granted ==
    /\ xfer.st # "none" => xfer.frame.ctr < dctr
    /\ xfer.st = "granted" /\ xfer.sent < Parts =>
          /\ reader.at = "parts" /\ rx <= xfer.frame.ctr
          /\ Blocked(Len(resp) + 1) \/ InOrder(xfer.frame.ctr)

PartsComing ==
    /\ \A i \in DOMAIN resp : IsPart(i) =>
          /\ reader.at = "parts" /\ rx <= Ctr(i) /\ Ctr(i) < dctr
          /\ \A k \in reader.parts : k < resp[i].idx
          /\ xfer.st = "granted" => resp[i].idx <= xfer.sent
          /\ Blocked(i) \/ InOrder(Ctr(i))
    /\ \A i, j \in DOMAIN resp :
          i < j /\ IsPart(i) /\ IsPart(j) => resp[i].idx < resp[j].idx
    /\ reader.at = "parts" /\ xfer.st = "granted" =>
          \A k \in reader.parts : k <= xfer.sent

Current ==
    HasCur => /\ rx <= reader.cur.ctr /\ reader.cur.ctr < dctr
              /\ gap \/ InOrder(reader.cur.ctr)

\* As long as nothing is repeated, the reader comes to the frames in the order
\* of their counters, wherever they wait.
InSequence ==
    Rising /\ PutOff /\ Announced /\ Granted /\ PartsComing /\ Current
OrderInv ==
    repeats = 0 => /\ ~Doomed => InSequence
                   /\ why # "reauth"

\* What the queues hold is numbered by naturals, and has one tag.
LEMMA Waiting ==
    ASSUME TypeOK
    PROVE  /\ \A i \in DOMAIN resp :
                 /\ i \in Nat /\ 1 <= i /\ i <= Len(resp)
                 /\ Ctr(i) \in Nat /\ resp[i].idx \in Nat
                 /\ IsPart(i) => resp[i].idx \in 1 .. Parts
                 /\ IsInline(i) => ~IsPart(i) /\ ~IsAnnounce(i)
                 /\ IsPart(i) => ~IsAnnounce(i)
           /\ \A i \in DOMAIN deferred :
                 i \in 1 .. Len(deferred) /\ deferred[i].ctr \in Nat
           /\ reader.cur.ctr \in Nat /\ xfer.frame.ctr \in Nat
           /\ xfer.sent \in 0 .. Parts /\ Parts \in Nat
           /\ rx \in Nat /\ dctr \in Nat
           /\ Len(resp) \in Nat /\ Len(deferred) \in Nat
<1>1. /\ resp \in Seq(Items) /\ deferred \in Seq(Frames) /\ reader \in Readers
      /\ rx \in Nat /\ dctr \in Nat /\ Parts \in Nat
      /\ xfer.frame \in Frames /\ xfer.sent \in 0 .. Parts
  BY SessionConstants DEF TypeOK, QueuesTypeOK, WorkerTypeOK, ChargerTypeOK
<1>2. /\ DOMAIN resp = 1 .. Len(resp) /\ Len(resp) \in Nat
      /\ DOMAIN deferred = 1 .. Len(deferred) /\ Len(deferred) \in Nat
      /\ \A i \in DOMAIN resp : resp[i] \in Items
      /\ \A i \in DOMAIN deferred : deferred[i] \in Frames
  BY <1>1, LenProperties, ElementOfSeq
<1>3. \A f \in Frames : f.ctr \in Nat
  BY SessionConstants DEF Frames
<1>4. ASSUME NEW i \in DOMAIN resp
      PROVE  /\ resp[i].idx \in Nat /\ resp[i].frame \in Frames
             /\ IsPart(i) => resp[i].idx \in 1 .. Parts
             /\ IsInline(i) => ~IsPart(i) /\ ~IsAnnounce(i)
             /\ IsPart(i) => ~IsAnnounce(i)
  BY <1>1, <1>2 DEF Items, IsPart, IsInline, IsAnnounce
<1>5. reader.cur \in Frames
  BY <1>1 DEF Readers
<1> QED
  BY <1>1, <1>2, <1>3, <1>4, <1>5 DEF Ctr

\* The queue moves up by one when its head is taken.
LEMMA MovesUp ==
    ASSUME TypeOK, NEW where, NEW tag, Takes(where, tag)
    PROVE  /\ 1 \in DOMAIN resp /\ Head(resp) = resp[1] /\ resp[1].tag = tag
           /\ Len(resp) = Len(resp') + 1
           /\ \A i \in DOMAIN resp' :
                 /\ i \in Nat /\ 1 <= i /\ i <= Len(resp')
                 /\ i + 1 \in DOMAIN resp /\ resp'[i] = resp[i + 1]
           /\ \A i \in DOMAIN resp : i # 1 =>
                 i - 1 \in DOMAIN resp' /\ resp'[i - 1] = resp[i]
           /\ reader.at = where
           /\ UNCHANGED <<life, rx, gap, dctr, repeats>>
<1>1. resp \in Seq(Items) /\ resp # <<>> /\ resp' = Tail(resp)
  BY DEF Takes, TypeOK, QueuesTypeOK
<1>2. /\ Head(resp) = resp[1] /\ 1 \in DOMAIN resp
      /\ DOMAIN resp' = 1 .. Len(resp) - 1 /\ Len(resp') = Len(resp) - 1
      /\ \A i \in DOMAIN resp' : i + 1 \in DOMAIN resp /\ resp'[i] = resp[i + 1]
  BY <1>1, TailElements, TakeType
<1>3. DOMAIN resp = 1 .. Len(resp) /\ Len(resp) \in Nat
  BY <1>1, LenProperties
<1>4. ASSUME NEW i \in DOMAIN resp, i # 1
      PROVE  i - 1 \in DOMAIN resp' /\ resp'[i - 1] = resp[i]
  <2>1. i - 1 \in DOMAIN resp' /\ (i - 1) + 1 = i
    BY <1>2, <1>3, <1>4
  <2> QED
    BY <1>2, <2>1
<1>5. Len(resp) = Len(resp') + 1
  BY <1>2, <1>3
<1>6. \A i \in DOMAIN resp' : i \in Nat /\ 1 <= i /\ i <= Len(resp')
  BY <1>2, <1>3
<1>7. /\ reader.at = where /\ resp[1].tag = tag
      /\ UNCHANGED <<life, rx, gap, dctr, repeats>>
  BY <1>2 DEF Takes
<1> QED
  BY <1>2, <1>4, <1>5, <1>6, <1>7

\* What an arrival does to the queue: it keeps its order, and loses at most its
\* head, with the mark set.
LEMMA MovesBack ==
    ASSUME TypeOK, NEW item \in Items, Arrives(item)
    PROVE  \E k \in {0, 1} :
              /\ k = 1 => gap'
              /\ k = 0 => Len(resp') = Len(resp) + 1 /\ gap' = gap
              /\ gap => gap'
              /\ Len(resp') \in DOMAIN resp' /\ resp'[Len(resp')] = item
              /\ \A i \in DOMAIN resp' :
                    /\ i \in Nat /\ 1 <= i /\ i <= Len(resp')
                    /\ i # Len(resp') =>
                          i + k \in DOMAIN resp /\ resp'[i] = resp[i + k]
              /\ k = 0 => \A i \in DOMAIN resp :
                    i \in DOMAIN resp' /\ resp'[i] = resp[i]
<1>1. /\ resp \in Seq(Items) /\ resp' = Put(resp, item) /\ gap \in BOOLEAN
      /\ gap' = (gap \/ Len(resp) = QueueMax)
  BY DEF TypeOK, QueuesTypeOK, Arrives
<1>2. PICK k \in {0, 1} :
         /\ k = 1 <=> Len(resp) = QueueMax
         /\ DOMAIN resp' = 1 .. Len(resp) + 1 - k
         /\ resp'[Len(resp) + 1 - k] = item
         /\ \A i \in 1 .. Len(resp) - k :
               i + k \in DOMAIN resp /\ resp'[i] = resp[i + k]
  BY <1>1, PutElements
<1>3. /\ Len(resp) \in Nat /\ DOMAIN resp = 1 .. Len(resp)
      /\ k = 1 => Len(resp) \in Nat \ {0}
  BY <1>1, <1>2, LenProperties, SessionConstants
<1>4. Len(resp') = Len(resp) + 1 - k
  <2>1. resp' \in Seq(Items)
    BY <1>1, PutType DEF TypeOK, QueuesTypeOK
  <2>2. DOMAIN resp' = 1 .. Len(resp') /\ Len(resp') \in Nat
    BY <2>1, LenProperties
  <2>3. Len(resp) + 1 - k \in Nat \ {0}
    BY <1>3
  <2> QED
    BY <1>2, <2>2, <2>3
<1>5. ASSUME NEW i \in DOMAIN resp', i # Len(resp')
      PROVE  i + k \in DOMAIN resp /\ resp'[i] = resp[i + k]
  <2>1. i \in 1 .. Len(resp) - k
    BY <1>2, <1>3, <1>4, <1>5
  <2> QED
    BY <1>2, <2>1
<1>6. ASSUME k = 0, NEW i \in DOMAIN resp
      PROVE  i \in DOMAIN resp' /\ resp'[i] = resp[i]
  <2>1. i \in 1 .. Len(resp) - k /\ i + k = i
    BY <1>3, <1>6
  <2> QED
    BY <1>2, <1>3, <1>6, <2>1
<1>7. k = 1 => gap'
  BY <1>1, <1>2
<1>8. k = 0 => Len(resp') = Len(resp) + 1 /\ gap' = gap
  BY <1>1, <1>2, <1>3, <1>4
<1>9. /\ gap => gap'
      /\ Len(resp') \in DOMAIN resp' /\ resp'[Len(resp')] = item
      /\ \A i \in DOMAIN resp' : i \in Nat /\ 1 <= i /\ i <= Len(resp')
  BY <1>1, <1>2, <1>3, <1>4
<1> QED
  BY <1>5, <1>6, <1>7, <1>8, <1>9

\* Taking from the queue: what is in order remains so.
LEMMA OrderTaken ==
    ASSUME TypeOK, NEW where, NEW tag, Takes(where, tag)
    PROVE  /\ Rising => Rising'
           /\ \A i \in DOMAIN resp' :
                 /\ IsInline(i)' <=> IsInline(i + 1)
                 /\ IsAnnounce(i)' <=> IsAnnounce(i + 1)
                 /\ IsPart(i)' <=> IsPart(i + 1)
                 /\ Ctr(i)' = Ctr(i + 1)
           /\ \A c : InOrder(c) /\ deferred' = deferred => InOrder(c)'
           /\ \A i \in Nat : tag # "announce" /\ Blocked(i + 1) => Blocked(i)'
<1>1. /\ \A i \in DOMAIN resp' :
            /\ i \in Nat /\ i + 1 \in DOMAIN resp /\ resp'[i] = resp[i + 1]
      /\ \A i \in DOMAIN resp : i # 1 =>
            i - 1 \in DOMAIN resp' /\ resp'[i - 1] = resp[i]
      /\ \A i \in DOMAIN resp : i \in Nat
      /\ resp[1].tag = tag /\ UNCHANGED <<rx, gap, dctr>>
  BY MovesUp, Waiting
<1>2. \A i \in DOMAIN resp' :
         /\ IsInline(i)' <=> IsInline(i + 1)
         /\ IsAnnounce(i)' <=> IsAnnounce(i + 1)
         /\ IsPart(i)' <=> IsPart(i + 1)
         /\ Ctr(i)' = Ctr(i + 1)
  BY <1>1 DEF IsInline, IsAnnounce, IsPart, Ctr
<1>3. ASSUME Rising PROVE Rising'
  <2>1. rx' <= dctr'
    BY <1>1, <1>3 DEF Rising
  <2>2. ASSUME NEW i \in DOMAIN resp', IsInline(i)'
        PROVE  rx' <= Ctr(i)' /\ Ctr(i)' < dctr'
    BY <1>1, <1>2, <1>3, <2>2 DEF Rising
  <2>3. ASSUME NEW i \in DOMAIN resp', NEW j \in DOMAIN resp', i < j,
               IsInline(i)', IsInline(j)'
        PROVE  Ctr(i)' < Ctr(j)'
    <3>1. /\ i + 1 \in DOMAIN resp /\ j + 1 \in DOMAIN resp /\ i + 1 < j + 1
          /\ IsInline(i + 1) /\ IsInline(j + 1)
      BY <1>1, <1>2, <2>3
    <3>2. Ctr(i + 1) < Ctr(j + 1)
      BY <1>3, <3>1 DEF Rising
    <3> QED
      BY <1>2, <3>2
  <2> QED
    BY <2>1, <2>2, <2>3 DEF Rising
<1>4. ASSUME NEW c, InOrder(c), deferred' = deferred PROVE InOrder(c)'
  BY <1>1, <1>2, <1>4 DEF InOrder
<1>5. ASSUME NEW i \in Nat, tag # "announce", Blocked(i + 1)
      PROVE  Blocked(i)'
  <2>1. CASE gap
    BY <1>1, <2>1 DEF Blocked
  <2>2. CASE ~gap
    <3>1. PICK j \in DOMAIN resp : j < i + 1 /\ IsAnnounce(j)
      BY <1>5, <2>2 DEF Blocked
    <3>2. j # 1
      BY <1>1, <1>5, <3>1 DEF IsAnnounce
    <3>3. j - 1 \in DOMAIN resp' /\ resp'[j - 1] = resp[j] /\ j - 1 < i
      BY <1>1, <3>1, <3>2
    <3>4. IsAnnounce(j - 1)'
      BY <3>1, <3>3 DEF IsAnnounce
    <3> QED
      BY <3>3, <3>4 DEF Blocked
  <2> QED
    BY <2>1, <2>2
<1> QED
  BY <1>2, <1>3, <1>4, <1>5

\* The announcement moves up with the rest of the queue.
LEMMA PlaceTaken ==
    ASSUME TypeOK, NEW where, NEW tag, Takes(where, tag), NEW c \in Nat,
           NEW i \in DOMAIN resp, i # 1, PlaceOf(i, c),
           \A j \in DOMAIN deferred' : deferred'[j].ctr < c,
           HasCur' => reader'.cur.ctr < c
    PROVE  \E j \in DOMAIN resp' : PlaceOf(j, c)'
<1>1. /\ \A j \in DOMAIN resp' :
            /\ j \in Nat /\ j + 1 \in DOMAIN resp /\ resp'[j] = resp[j + 1]
      /\ i - 1 \in DOMAIN resp' /\ i \in Nat
  BY MovesUp, Waiting
<1>2. \A j \in DOMAIN resp' :
         /\ IsInline(j)' <=> IsInline(j + 1)
         /\ IsAnnounce(j)' <=> IsAnnounce(j + 1)
         /\ IsPart(j)' <=> IsPart(j + 1)
         /\ Ctr(j)' = Ctr(j + 1)
  BY OrderTaken
<1>3. IsAnnounce(i - 1)'
  BY <1>1, <1>2 DEF PlaceOf
<1>4. ASSUME NEW j \in DOMAIN resp', IsInline(j)'
      PROVE  (j < i - 1 => Ctr(j)' < c) /\ (i - 1 < j => c < Ctr(j)')
  <2>1. /\ j + 1 \in DOMAIN resp /\ IsInline(j + 1) /\ Ctr(j)' = Ctr(j + 1)
        /\ j \in Nat
    BY <1>1, <1>2, <1>4
  <2>2. /\ j + 1 < i => Ctr(j + 1) < c
        /\ i < j + 1 => c < Ctr(j + 1)
    BY <2>1 DEF PlaceOf
  <2> QED
    BY <1>1, <2>1, <2>2
<1>5. \A j \in DOMAIN resp' : IsPart(j)' => Ctr(j)' < c
  BY <1>1, <1>2 DEF PlaceOf
<1> QED
  BY <1>1, <1>3, <1>4, <1>5 DEF PlaceOf

\* An inline frame becomes the current one: nothing was put off before it.
LEMMA TakesInlineOrder ==
    ASSUME TypeOK, InSequence, ReaderTakesInline
    PROVE  InSequence'
<1>0. /\ Rising /\ PutOff /\ Announced /\ Granted /\ PartsComing
      /\ Takes("get", "inline")
  BY DEF InSequence, ReaderTakesInline
<1>1. /\ 1 \in DOMAIN resp /\ Head(resp) = resp[1] /\ IsInline(1)
      /\ reader.at = "get" /\ deferred = <<>> /\ deferred' = deferred
      /\ UNCHANGED <<rx, gap, dctr, xfer>>
  BY <1>0, MovesUp DEF IsInline, ReaderTakesInline, PutOff
<1>2. reader'.at = "ack" /\ reader'.cur.ctr = Ctr(1)
  BY <1>1 DEF ReaderTakesInline, Reader, Ctr
<1>3. DOMAIN deferred = {}
  BY <1>1
<1>4. \A i \in DOMAIN resp : ~IsPart(i)
  BY <1>0, <1>1 DEF PartsComing
<1>5. /\ \A i \in DOMAIN resp' :
            /\ i \in Nat /\ 1 <= i /\ i + 1 \in DOMAIN resp
            /\ IsInline(i)' <=> IsInline(i + 1)
            /\ IsPart(i)' <=> IsPart(i + 1)
            /\ Ctr(i)' = Ctr(i + 1)
      /\ Rising'
  BY <1>0, MovesUp, OrderTaken
<1>6. PutOff'
  BY <1>1, <1>2, <1>3 DEF PutOff
<1>7. Announced'
  <2> SUFFICES ASSUME xfer.st = "announced", ~gap
               PROVE  \E j \in DOMAIN resp' : PlaceOf(j, xfer.frame.ctr)'
    BY <1>0, <1>1 DEF Announced
  <2>1. PICK i \in DOMAIN resp : PlaceOf(i, xfer.frame.ctr)
    BY <1>0 DEF Announced
  <2>2. i # 1 /\ i \in Nat /\ 1 < i
    BY <1>1, <2>1, Waiting DEF PlaceOf
  <2>3. reader'.cur.ctr < xfer.frame.ctr
    BY <1>1, <1>2, <2>1, <2>2 DEF PlaceOf
  <2> QED
    BY <1>0, <1>1, <1>3, <2>1, <2>2, <2>3, PlaceTaken, Waiting
<1>8. Granted'
  BY <1>0, <1>1 DEF Granted
<1>9. PartsComing'
  BY <1>2, <1>4, <1>5 DEF PartsComing
<1>10. Current'
  <2>1. rx <= Ctr(1) /\ Ctr(1) < dctr
    BY <1>0, <1>1 DEF Rising
  <2>2. \A i \in DOMAIN resp' : IsInline(i)' => Ctr(1) < Ctr(i)'
    <3> SUFFICES ASSUME NEW i \in DOMAIN resp', IsInline(i)'
                 PROVE  Ctr(1) < Ctr(i)'
      OBVIOUS
    <3>1. i + 1 \in DOMAIN resp /\ IsInline(i + 1) /\ 1 < i + 1
      BY <1>5
    <3>2. Ctr(1) < Ctr(i + 1)
      BY <1>0, <1>1, <3>1 DEF Rising
    <3> QED
      BY <1>5, <3>2
  <2>3. InOrder(reader.cur.ctr)'
    BY <1>1, <1>2, <1>3, <2>2 DEF InOrder
  <2> QED
    BY <1>1, <1>2, <2>1, <2>3 DEF Current
<1> QED
  BY <1>5, <1>6, <1>7, <1>8, <1>9, <1>10 DEF InSequence

\* The announcement is granted where it stood in the order.
LEMMA TakesAnnounceOrder ==
    ASSUME TypeOK, InSequence, ReaderTakesAnnounce
    PROVE  InSequence'
<1>0. /\ Rising /\ PutOff /\ Announced /\ Granted /\ PartsComing
      /\ Takes("get", "announce")
  BY DEF InSequence, ReaderTakesAnnounce
<1>1. /\ 1 \in DOMAIN resp /\ reader.at = "get"
      /\ deferred = <<>> /\ deferred' = deferred
      /\ reader'.at = "parts" /\ reader'.parts = {}
      /\ UNCHANGED <<rx, gap, dctr>>
  BY <1>0, MovesUp DEF ReaderTakesAnnounce, PutOff, Reader
<1>2. /\ xfer'.frame = xfer.frame /\ xfer'.sent = xfer.sent
      /\ xfer'.st = IF xfer.st = "announced" THEN "granted" ELSE xfer.st
  BY DEF ReaderTakesAnnounce, TypeOK, ChargerTypeOK
<1>3. DOMAIN deferred = {}
  BY <1>1
<1>4. \A i \in DOMAIN resp : ~IsPart(i)
  BY <1>0, <1>1 DEF PartsComing
<1>5. /\ \A i \in DOMAIN resp' :
            /\ i \in Nat /\ 1 <= i /\ i + 1 \in DOMAIN resp
            /\ IsInline(i)' <=> IsInline(i + 1)
            /\ IsPart(i)' <=> IsPart(i + 1)
            /\ Ctr(i)' = Ctr(i + 1)
      /\ Rising'
  BY <1>0, MovesUp, OrderTaken
<1>6. PutOff'
  BY <1>1, <1>3 DEF PutOff
<1>7. Announced'
  BY <1>2 DEF Announced
<1>8. Granted'
  <2>1. xfer'.st # "none" => xfer'.frame.ctr < dctr'
    BY <1>0, <1>1, <1>2 DEF Granted
  <2>2. ASSUME xfer.st = "announced"
        PROVE  /\ rx <= xfer.frame.ctr
               /\ Blocked(Len(resp) + 1)' \/ InOrder(xfer.frame.ctr)'
    <3>1. CASE gap
      BY <1>0, <1>1, <2>2, <3>1 DEF Announced, Blocked
    <3>2. CASE ~gap
      <4>1. PICK i \in DOMAIN resp : PlaceOf(i, xfer.frame.ctr)
        BY <1>0, <2>2, <3>2 DEF Announced
      <4>2. CASE i = 1
        <5>1. ASSUME NEW j \in DOMAIN resp', IsInline(j)'
              PROVE  xfer.frame.ctr < Ctr(j)'
          BY <1>5, <4>1, <4>2, <5>1 DEF PlaceOf
        <5> QED
          BY <1>0, <1>1, <1>2, <1>3, <2>2, <5>1 DEF InOrder, Announced
      <4>3. CASE i # 1
        <5>1. /\ i - 1 \in DOMAIN resp' /\ resp'[i - 1] = resp[i]
              /\ i - 1 < Len(resp') + 1
          <6>1. i - 1 \in DOMAIN resp' /\ resp'[i - 1] = resp[i]
            BY <1>0, <4>3, MovesUp
          <6>2. Len(resp) = Len(resp') + 1
            BY <1>0, MovesUp
          <6>3. i \in Nat /\ i <= Len(resp) /\ Len(resp) \in Nat
            BY Waiting
          <6> QED
            BY <6>1, <6>2, <6>3
        <5>2. IsAnnounce(i - 1)'
          BY <4>1, <5>1 DEF PlaceOf, IsAnnounce
        <5> QED
          BY <1>0, <2>2, <5>1, <5>2 DEF Blocked, Announced
      <4> QED
        BY <4>2, <4>3
    <3> QED
      BY <3>1, <3>2
  <2>3. ASSUME xfer'.st = "granted", xfer'.sent < Parts
        PROVE  xfer.st = "announced"
    BY <1>0, <1>1, <1>2, <2>3 DEF Granted
  <2> QED
    BY <1>1, <1>2, <2>1, <2>2, <2>3 DEF Granted
<1>9. PartsComing'
  BY <1>1, <1>4, <1>5 DEF PartsComing
<1>10. Current'
  BY <1>1 DEF Current, HasCur
<1> QED
  BY <1>5, <1>6, <1>7, <1>8, <1>9, <1>10 DEF InSequence

\* A frame that is put off is later than those put off before it, and earlier
\* than those that still come.
LEMMA DefersOrder ==
    ASSUME TypeOK, InSequence, ReaderDefers, Len(deferred) < DeferMax
    PROVE  InSequence'
<1>0. /\ Rising /\ PutOff /\ Announced /\ Granted /\ PartsComing /\ Current
      /\ Takes("parts", "inline")
  BY DEF InSequence, ReaderDefers
<1>1. /\ 1 \in DOMAIN resp /\ Head(resp) = resp[1] /\ IsInline(1)
      /\ reader.at = "parts" /\ Head(resp).frame.ctr = Ctr(1)
      /\ deferred' = Append(deferred, Head(resp).frame)
      /\ UNCHANGED <<rx, gap, dctr, xfer, reader>>
  BY <1>0, MovesUp DEF IsInline, Ctr, ReaderDefers
<1>2. /\ DOMAIN deferred' = 1 .. Len(deferred) + 1
      /\ \A i \in 1 .. Len(deferred) : deferred'[i] = deferred[i]
      /\ deferred'[Len(deferred) + 1].ctr = Ctr(1)
      /\ DOMAIN deferred = 1 .. Len(deferred) /\ Len(deferred) \in Nat
  <2>1. deferred \in Seq(Frames) /\ Head(resp).frame \in Frames
    BY <1>0, TakeType
       DEF TypeOK, WorkerTypeOK, QueuesTypeOK, Takes, Items
  <2> QED
    BY <1>1, <2>1, AppendProperties, LenProperties
<1>3. \A i \in DOMAIN deferred' :
         i = Len(deferred) + 1 \/ (i \in DOMAIN deferred /\ i < Len(deferred) + 1)
  BY <1>2
<1>5. /\ \A i \in DOMAIN resp' :
            /\ i \in Nat /\ 1 <= i /\ i + 1 \in DOMAIN resp
            /\ resp'[i] = resp[i + 1]
            /\ IsInline(i)' <=> IsInline(i + 1)
            /\ IsPart(i)' <=> IsPart(i + 1)
            /\ Ctr(i)' = Ctr(i + 1)
      /\ Rising'
  BY <1>0, MovesUp, OrderTaken
<1>6. \A i \in DOMAIN resp' : IsInline(i)' => Ctr(1) < Ctr(i)'
  <2> SUFFICES ASSUME NEW i \in DOMAIN resp', IsInline(i)'
               PROVE  Ctr(1) < Ctr(i)'
    OBVIOUS
  <2>1. i + 1 \in DOMAIN resp /\ IsInline(i + 1) /\ 1 < i + 1
    BY <1>5
  <2> QED
    BY <1>0, <1>1, <1>5, <2>1 DEF Rising
<1>7. ASSUME NEW c, InOrder(c) PROVE InOrder(c)'
  <2>1. ASSUME NEW i \in DOMAIN deferred' PROVE c < deferred'[i].ctr
    BY <1>1, <1>2, <1>3, <1>7 DEF InOrder
  <2>2. ASSUME NEW i \in DOMAIN resp', IsInline(i)' PROVE c < Ctr(i)'
    BY <1>5, <1>7, <2>2 DEF InOrder
  <2> QED
    BY <2>1, <2>2 DEF InOrder
<1>8. PutOff'
  <2>1. \A i \in DOMAIN deferred' :
           rx <= deferred'[i].ctr /\ deferred'[i].ctr < dctr
    BY <1>0, <1>1, <1>2, <1>3 DEF PutOff, Rising
  <2>2. ASSUME NEW i \in DOMAIN deferred', NEW j \in DOMAIN deferred', i < j
        PROVE  deferred'[i].ctr < deferred'[j].ctr
    <3>1. i \in DOMAIN deferred /\ i < Len(deferred) + 1
      BY <1>2, <1>3, <2>2
    <3>2. CASE j = Len(deferred) + 1
      BY <1>0, <1>1, <1>2, <3>1, <3>2 DEF PutOff
    <3>3. CASE j # Len(deferred) + 1
      BY <1>0, <1>2, <1>3, <2>2, <3>1, <3>3 DEF PutOff
    <3> QED
      BY <3>2, <3>3
  <2>3. ASSUME NEW i \in DOMAIN deferred', NEW j \in DOMAIN resp',
               IsInline(j)'
        PROVE  deferred'[i].ctr < Ctr(j)'
    <3>1. CASE i = Len(deferred) + 1
      BY <1>2, <1>6, <2>3, <3>1
    <3>2. CASE i # Len(deferred) + 1
      <4>1. i \in DOMAIN deferred /\ deferred'[i] = deferred[i]
        BY <1>2, <1>3, <3>2
      <4>2. j + 1 \in DOMAIN resp /\ IsInline(j + 1) /\ Ctr(j)' = Ctr(j + 1)
        BY <1>5, <2>3
      <4> QED
        BY <1>0, <4>1, <4>2 DEF PutOff
    <3> QED
      BY <3>1, <3>2
  <2> QED
    BY <1>1, <2>1, <2>2, <2>3 DEF PutOff
<1>9. Announced'
  <2> SUFFICES ASSUME xfer.st = "announced", ~gap
               PROVE  \E j \in DOMAIN resp' : PlaceOf(j, xfer.frame.ctr)'
    BY <1>0, <1>1 DEF Announced
  <2>1. PICK i \in DOMAIN resp : PlaceOf(i, xfer.frame.ctr)
    BY <1>0 DEF Announced
  <2>2. i # 1 /\ i \in Nat /\ 1 < i
    BY <1>1, <2>1, Waiting DEF PlaceOf
  <2>3. \A j \in DOMAIN deferred' : deferred'[j].ctr < xfer.frame.ctr
    BY <1>1, <1>2, <1>3, <2>1, <2>2 DEF PlaceOf
  <2>4. HasCur' => reader'.cur.ctr < xfer.frame.ctr
    BY <1>1, <2>1 DEF PlaceOf, HasCur
  <2> QED
    BY <1>0, <1>1, <2>1, <2>2, <2>3, <2>4, PlaceTaken, Waiting
<1>10. \A i \in Nat : Blocked(i + 1) => Blocked(i)'
  BY <1>0, OrderTaken
<1>11. Granted'
  <2>1. Len(resp) = Len(resp') + 1 /\ Len(resp) \in Nat /\ Len(resp') + 1 \in Nat
    <3>1. Len(resp) = Len(resp') + 1
      BY <1>0, MovesUp
    <3> QED
      BY <3>1, Waiting
  <2>2. Blocked(Len(resp) + 1) => Blocked(Len(resp) + 1)'
    BY <1>10, <2>1
  <2> QED
    BY <1>0, <1>1, <1>7, <2>2 DEF Granted
<1>12. PartsComing'
  <2>1. ASSUME NEW i \in DOMAIN resp', IsPart(i)'
        PROVE  /\ reader'.at = "parts" /\ rx' <= Ctr(i)' /\ Ctr(i)' < dctr'
               /\ \A k \in reader'.parts : k < resp'[i].idx
               /\ xfer'.st = "granted" => resp'[i].idx <= xfer'.sent
               /\ Blocked(i)' \/ InOrder(Ctr(i))'
    <3>1. /\ i + 1 \in DOMAIN resp /\ IsPart(i + 1) /\ Ctr(i)' = Ctr(i + 1)
          /\ resp'[i] = resp[i + 1] /\ i \in Nat
      BY <1>5, <2>1
    <3>2. Blocked(i + 1) \/ InOrder(Ctr(i + 1))
      BY <1>0, <3>1 DEF PartsComing
    <3>3. ASSUME InOrder(Ctr(i + 1)) PROVE InOrder(Ctr(i))'
      <4>1. PICK c : c = Ctr(i + 1)
        OBVIOUS
      <4>2. InOrder(c)'
        BY <1>7, <3>3, <4>1
      <4> QED
        BY <3>1, <4>1, <4>2 DEF InOrder
    <3>4. Blocked(i)' \/ InOrder(Ctr(i))'
      BY <1>10, <3>1, <3>2, <3>3
    <3> QED
      BY <1>0, <1>1, <3>1, <3>4 DEF PartsComing
  <2>2. ASSUME NEW i \in DOMAIN resp', NEW j \in DOMAIN resp', i < j,
               IsPart(i)', IsPart(j)'
        PROVE  resp'[i].idx < resp'[j].idx
    <3>1. /\ i + 1 \in DOMAIN resp /\ j + 1 \in DOMAIN resp /\ i + 1 < j + 1
          /\ IsPart(i + 1) /\ IsPart(j + 1)
          /\ resp'[i] = resp[i + 1] /\ resp'[j] = resp[j + 1]
      BY <1>5, <2>2
    <3> QED
      BY <1>0, <3>1 DEF PartsComing
  <2> QED
    BY <1>0, <1>1, <2>1, <2>2 DEF PartsComing
<1>13. Current'
  BY <1>0, <1>1, <1>7 DEF Current, HasCur
<1> QED
  BY <1>5, <1>8, <1>9, <1>11, <1>12, <1>13 DEF InSequence

\* A parcel is added to those of the current transfer, in turn.
LEMMA TakesPartOrder ==
    ASSUME TypeOK, InSequence, ReaderTakesPart
    PROVE  InSequence'
<1>0. /\ Rising /\ PutOff /\ Announced /\ Granted /\ PartsComing /\ Current
      /\ Takes("parts", "part")
  BY DEF InSequence, ReaderTakesPart
<1> DEFINE n == resp[1].idx
           got == reader.parts \cup {n}
<1>1. /\ 1 \in DOMAIN resp /\ Head(resp) = resp[1] /\ IsPart(1)
      /\ reader.at = "parts" /\ deferred' = deferred
      /\ UNCHANGED <<rx, gap, dctr, xfer>>
  BY <1>0, MovesUp DEF IsPart, ReaderTakesPart
<1>2. /\ reader'.at = IF got = 1 .. Parts THEN "ack" ELSE "parts"
      /\ reader'.parts = got
      /\ reader'.cur = IF n = 1 THEN resp[1].frame ELSE reader.cur
  BY <1>1 DEF ReaderTakesPart
<1>3. /\ n \in 1 .. Parts /\ Parts \in Nat /\ Parts > 0
      /\ reader.parts \in SUBSET (1 .. Parts)
  BY <1>1, Waiting, SessionConstants DEF TypeOK, WorkerTypeOK, Readers
<1>4. /\ \A k \in reader.parts : k < n
      /\ rx <= Ctr(1) /\ Ctr(1) < dctr
      /\ xfer.st = "granted" => n <= xfer.sent
      /\ gap \/ InOrder(Ctr(1))
  <2>1. ~gap => ~Blocked(1)
    <3>1. \A j \in DOMAIN resp : ~(j < 1)
      BY Waiting
    <3> QED
      BY <3>1 DEF Blocked
  <2> QED
    BY <1>0, <1>1, <2>1 DEF PartsComing
<1>5. /\ \A i \in DOMAIN resp' :
            /\ i \in Nat /\ 1 <= i /\ i + 1 \in DOMAIN resp
            /\ resp'[i] = resp[i + 1]
            /\ IsInline(i)' <=> IsInline(i + 1)
            /\ IsPart(i)' <=> IsPart(i + 1)
            /\ Ctr(i)' = Ctr(i + 1)
      /\ Rising'
  BY <1>0, MovesUp, OrderTaken
<1>6. \A c : InOrder(c) => InOrder(c)'
  BY <1>0, <1>1, OrderTaken
<1>7. \A i \in Nat : Blocked(i + 1) => Blocked(i)'
  <2>1. "part" # "announce"
    OBVIOUS
  <2> QED
    BY <1>0, <2>1, OrderTaken
\* The current frame is that of the first parcel.
<1>8. ASSUME HasCur'
      PROVE  \/ reader'.cur.ctr = Ctr(1)
             \/ HasCur /\ reader'.cur = reader.cur
  <2>1. 1 \in got
    BY <1>2, <1>3, <1>8 DEF HasCur
  <2> QED
    BY <1>1, <1>2, <2>1 DEF HasCur, Ctr
<1>9. PutOff'
  <2>1. ASSUME NEW i \in DOMAIN deferred, NEW j \in DOMAIN resp', IsInline(j)'
        PROVE  deferred[i].ctr < Ctr(j)'
    BY <1>0, <1>5, <2>1 DEF PutOff
  <2>2. reader'.at \notin {"off", "get"}
    BY <1>2
  <2> QED
    BY <1>0, <1>1, <2>1, <2>2 DEF PutOff
<1>10. Announced'
  <2> SUFFICES ASSUME xfer.st = "announced", ~gap
               PROVE  \E j \in DOMAIN resp' : PlaceOf(j, xfer.frame.ctr)'
    BY <1>0, <1>1 DEF Announced
  <2>1. PICK i \in DOMAIN resp : PlaceOf(i, xfer.frame.ctr)
    BY <1>0 DEF Announced
  <2>2. i # 1
    BY <1>1, <2>1, Waiting DEF PlaceOf
  <2>3. HasCur' => reader'.cur.ctr < xfer.frame.ctr
    BY <1>1, <1>8, <2>1 DEF PlaceOf
  <2>4. \A j \in DOMAIN deferred' : deferred'[j].ctr < xfer.frame.ctr
    BY <1>1, <2>1 DEF PlaceOf
  <2> QED
    BY <1>0, <1>1, <2>1, <2>2, <2>3, <2>4, PlaceTaken, Waiting
<1>11. Granted'
  <2>1. ASSUME xfer.st = "granted", xfer.sent < Parts
        PROVE  reader'.at = "parts"
    <3>1. Parts \notin reader.parts /\ Parts # n
      BY <1>0, <1>1, <1>3, <1>4, <2>1, Waiting DEF PartsComing
    <3>2. Parts \in 1 .. Parts
      BY <1>3
    <3> QED
      BY <1>2, <3>1, <3>2
  <2>2. Blocked(Len(resp) + 1) => Blocked(Len(resp) + 1)'
    <3>1. Len(resp) = Len(resp') + 1 /\ Len(resp) \in Nat
      BY <1>0, MovesUp, Waiting
    <3>2. Len(resp') + 1 \in Nat /\ (Len(resp') + 1) + 1 = Len(resp) + 1
      BY <3>1
    <3>3. PICK m \in Nat : m = Len(resp') + 1
      BY <3>2
    <3>4. Blocked(Len(resp) + 1) => Blocked(m)'
      BY <1>7, <3>1, <3>3
    <3> QED
      BY <3>3, <3>4 DEF Blocked
  <2>3. InOrder(xfer.frame.ctr) => InOrder(xfer.frame.ctr)'
    <3>1. PICK c : c = xfer.frame.ctr
      OBVIOUS
    <3> QED
      BY <1>1, <1>6, <3>1 DEF InOrder
  <2> QED
    BY <1>0, <1>1, <2>1, <2>2, <2>3 DEF Granted
<1>12. PartsComing'
  <2>1. ASSUME NEW i \in DOMAIN resp', IsPart(i)'
        PROVE  /\ reader'.at = "parts" /\ rx' <= Ctr(i)' /\ Ctr(i)' < dctr'
               /\ \A k \in reader'.parts : k < resp'[i].idx
               /\ xfer'.st = "granted" => resp'[i].idx <= xfer'.sent
               /\ Blocked(i)' \/ InOrder(Ctr(i))'
    <3>1. /\ i + 1 \in DOMAIN resp /\ IsPart(i + 1) /\ Ctr(i)' = Ctr(i + 1)
          /\ resp'[i] = resp[i + 1] /\ i \in Nat /\ 1 < i + 1
      BY <1>5, <2>1
    <3>2. /\ Blocked(i + 1) \/ InOrder(Ctr(i + 1))
          /\ rx <= Ctr(i + 1) /\ Ctr(i + 1) < dctr
          /\ \A k \in reader.parts : k < resp[i + 1].idx
          /\ xfer.st = "granted" => resp[i + 1].idx <= xfer.sent
          /\ n < resp[i + 1].idx
      BY <1>0, <1>1, <3>1 DEF PartsComing
    <3>3. \A k \in reader'.parts : k < resp'[i].idx
      BY <1>2, <3>1, <3>2
    <3>4. reader'.at = "parts"
      <4>1. resp'[i].idx \in 1 .. Parts
        BY <3>1, Waiting
      <4>2. got # 1 .. Parts
        BY <1>2, <3>3, <4>1
      <4> QED
        BY <1>2, <4>2
    <3>5. ASSUME InOrder(Ctr(i + 1)) PROVE InOrder(Ctr(i))'
      <4>1. PICK c : c = Ctr(i + 1)
        OBVIOUS
      <4>2. InOrder(c)'
        BY <1>6, <3>5, <4>1
      <4> QED
        BY <3>1, <4>1, <4>2 DEF InOrder
    <3>6. Blocked(i)' \/ InOrder(Ctr(i))'
      BY <1>7, <3>1, <3>2, <3>5
    <3> QED
      BY <1>1, <3>1, <3>2, <3>3, <3>4, <3>6
  <2>2. ASSUME NEW i \in DOMAIN resp', NEW j \in DOMAIN resp', i < j,
               IsPart(i)', IsPart(j)'
        PROVE  resp'[i].idx < resp'[j].idx
    <3>1. /\ i + 1 \in DOMAIN resp /\ j + 1 \in DOMAIN resp /\ i + 1 < j + 1
          /\ IsPart(i + 1) /\ IsPart(j + 1)
          /\ resp'[i] = resp[i + 1] /\ resp'[j] = resp[j + 1]
      BY <1>5, <2>2
    <3> QED
      BY <1>0, <3>1 DEF PartsComing
  <2>3. ASSUME xfer'.st = "granted" PROVE \A k \in reader'.parts : k <= xfer'.sent
    BY <1>0, <1>1, <1>2, <1>4, <2>3 DEF PartsComing
  <2> QED
    BY <2>1, <2>2, <2>3 DEF PartsComing
<1>13. Current'
  <2> SUFFICES ASSUME HasCur'
               PROVE  /\ rx' <= reader'.cur.ctr /\ reader'.cur.ctr < dctr'
                      /\ gap' \/ InOrder(reader.cur.ctr)'
    BY DEF Current
  <2>1. PICK c : c = reader'.cur.ctr
    OBVIOUS
  <2>2. rx <= c /\ c < dctr /\ (gap \/ InOrder(c))
    BY <1>0, <1>4, <1>8, <2>1 DEF Current
  <2>3. gap \/ InOrder(c)'
    BY <1>6, <2>2
  <2> QED
    BY <1>1, <2>1, <2>2, <2>3 DEF InOrder
<1> QED
  BY <1>5, <1>9, <1>10, <1>11, <1>12, <1>13 DEF InSequence

\* A frame that comes before all that waits is no replay, and what waits is in
\* order behind it.
LEMMA HandlesOrder ==
    ASSUME TypeOK, NEW f \in Frames, Handle(f),
           UNCHANGED <<resp, gap, dctr, xfer>>,
           rx <= f.ctr, f.ctr < dctr, Rising, PutOff, Granted,
           InOrder(f.ctr)', \A i \in DOMAIN resp : ~IsPart(i),
           reader.at # "parts",
           xfer.st = "announced" =>
              /\ xfer.sent = 0 /\ f.ctr < xfer.frame.ctr
              /\ gap \/ \E i \in DOMAIN resp : PlaceOf(i, xfer.frame.ctr),
           \/ deferred' = deferred
           \/ deferred # <<>> /\ deferred' = Tail(deferred)
    PROVE  /\ why' = why \/ why' = "spent"
           /\ ~Doomed' => InSequence'
<1>0. /\ f.ctr \in Nat /\ rx \in Nat /\ dctr \in Nat /\ xfer.frame.ctr \in Nat
      /\ deferred \in Seq(Frames)
      /\ \A i \in DOMAIN resp : Ctr(i) \in Nat
      /\ \A i \in DOMAIN deferred : i \in Nat /\ deferred[i].ctr \in Nat
  <2>1. f.ctr \in Nat
    BY SessionConstants DEF Frames
  <2>2. deferred \in Seq(Frames)
    BY DEF TypeOK, WorkerTypeOK
  <2>3. \A i \in 1 .. Len(deferred) : i \in Nat
    OBVIOUS
  <2> QED
    BY <2>1, <2>2, <2>3, Waiting
<1>1. ~(f.ctr < rx)
  BY <1>0
<1>2. why' = why \/ why' = "spent"
  BY <1>1 DEF Handle, Dies
<1>3. rx' = rx \/ rx' = f.ctr + 1
  BY <1>1 DEF Handle, Genuine
<1>4. ~Doomed' => reader'.at = "top"
  BY <1>1 DEF Handle, Dies, Doomed, Reader
<1>5. ASSUME ~Doomed' PROVE InSequence'
  <2>1. reader'.at = "top" /\ ~HasCur'
    BY <1>4, <1>5 DEF HasCur
  <2>2. \A c \in Nat : f.ctr < c /\ rx <= c => rx' <= c
    BY <1>0, <1>3
  <2>3. rx' <= dctr
    BY <1>0, <1>3
  <2>4. ASSUME NEW i \in DOMAIN deferred'
        PROVE  \E k \in {0, 1} : i + k \in DOMAIN deferred
                                 /\ deferred'[i] = deferred[i + k] /\ i \in Nat
    <3>1. CASE deferred' = deferred
      <4>1. i + 0 = i /\ i \in Nat
        BY <1>0, <2>4, <3>1
      <4> QED
        BY <2>4, <3>1, <4>1
    <3>2. CASE deferred # <<>> /\ deferred' = Tail(deferred)
      <4>1. /\ i + 1 \in DOMAIN deferred /\ deferred'[i] = deferred[i + 1]
            /\ DOMAIN deferred' = 1 .. Len(deferred) - 1
        BY <1>0, <2>4, <3>2, TailElements
      <4> QED
        BY <2>4, <4>1
    <3> QED
      BY <3>1, <3>2
  <2>5. Rising'
    <3>1. \A i \in DOMAIN resp : IsInline(i)' => rx' <= Ctr(i)' /\ Ctr(i)' < dctr'
      BY <1>0, <2>2 DEF Rising, InOrder, IsInline, Ctr
    <3> QED
      BY <2>3, <3>1 DEF Rising, IsInline, Ctr
  <2>6. PutOff'
    <3>1. ASSUME NEW i \in DOMAIN deferred'
          PROVE  rx' <= deferred'[i].ctr /\ deferred'[i].ctr < dctr
      <4>1. PICK k \in {0, 1} :
               i + k \in DOMAIN deferred /\ deferred'[i] = deferred[i + k]
        BY <2>4
      <4>2. f.ctr < deferred'[i].ctr
        BY DEF InOrder
      <4> QED
        BY <1>0, <2>2, <4>1, <4>2 DEF PutOff
    <3>2. ASSUME NEW i \in DOMAIN deferred', NEW j \in DOMAIN deferred', i < j
          PROVE  deferred'[i].ctr < deferred'[j].ctr
      <4>1. CASE deferred' = deferred
        BY <3>2, <4>1 DEF PutOff
      <4>2. CASE deferred # <<>> /\ deferred' = Tail(deferred)
        <5>1. /\ i + 1 \in DOMAIN deferred /\ deferred'[i] = deferred[i + 1]
              /\ j + 1 \in DOMAIN deferred /\ deferred'[j] = deferred[j + 1]
              /\ i \in Nat /\ j \in Nat
          BY <1>0, <2>4, <4>2, TailElements
        <5> QED
          BY <3>2, <5>1 DEF PutOff
      <4> QED
        BY <4>1, <4>2
    <3>3. ASSUME NEW i \in DOMAIN deferred', NEW j \in DOMAIN resp, IsInline(j)
          PROVE  deferred'[i].ctr < Ctr(j)
      <4>1. PICK k \in {0, 1} :
               i + k \in DOMAIN deferred /\ deferred'[i] = deferred[i + k]
        BY <2>4
      <4> QED
        BY <3>3, <4>1 DEF PutOff
    <3>4. \A i \in DOMAIN deferred', j \in DOMAIN resp' :
             IsInline(j)' => deferred'[i].ctr < Ctr(j)'
      BY <3>3 DEF IsInline, Ctr
    <3> QED
      BY <2>1, <3>1, <3>2, <3>4 DEF PutOff
  <2>7. Announced'
    <3> SUFFICES ASSUME xfer.st = "announced"
                 PROVE  /\ rx' <= xfer.frame.ctr
                        /\ gap \/ \E i \in DOMAIN resp :
                                     PlaceOf(i, xfer.frame.ctr)'
      BY DEF Announced
    <3>1. rx' <= xfer.frame.ctr
      BY <1>0, <1>3
    <3>2. ASSUME NEW i \in DOMAIN resp, PlaceOf(i, xfer.frame.ctr)
          PROVE  PlaceOf(i, xfer.frame.ctr)'
      <4>1. \A j \in DOMAIN deferred' : deferred'[j].ctr < xfer.frame.ctr
        BY <2>4, <3>2 DEF PlaceOf
      <4> QED
        BY <2>1, <3>2, <4>1 DEF PlaceOf, IsAnnounce, IsInline, IsPart, Ctr
    <3> QED
      BY <3>1, <3>2
  <2>8. Granted'
    <3>1. ~(xfer.st = "granted" /\ xfer.sent < Parts)
      BY DEF Granted
    <3> QED
      BY <3>1 DEF Granted
  <2>9. PartsComing'
    BY <2>1 DEF PartsComing, IsPart
  <2>10. Current'
    BY <2>1 DEF Current
  <2> QED
    BY <2>5, <2>6, <2>7, <2>8, <2>9, <2>10 DEF InSequence
<1> QED
  BY <1>2, <1>5

\* The frames that were put off are first in order, and the current one is
\* before all others.
LEMMA DeferredOrder ==
    ASSUME TypeOK, InSequence, ReaderDeferred
    PROVE  /\ why' = why \/ why' = "spent"
           /\ ~Doomed' => InSequence'
<1>0. /\ Rising /\ PutOff /\ Announced /\ Granted /\ PartsComing
      /\ reader.at = "top" /\ deferred # <<>> /\ ~gap
      /\ deferred' = Tail(deferred) /\ Handle(Head(deferred))
      /\ UNCHANGED <<resp, gap, dctr, xfer>>
      /\ deferred \in Seq(Frames)
  BY DEF InSequence, ReaderDeferred, inbox, charger, TypeOK, WorkerTypeOK
<1>1. /\ Head(deferred) = deferred[1] /\ 1 \in DOMAIN deferred
      /\ Head(deferred) \in Frames
      /\ DOMAIN deferred' = 1 .. Len(deferred) - 1
      /\ \A i \in DOMAIN deferred' :
            i + 1 \in DOMAIN deferred /\ deferred'[i] = deferred[i + 1]
  BY <1>0, TailElements, TakeType
<1>2. PICK f \in Frames : f = deferred[1]
  BY <1>1
<1>3. rx <= f.ctr /\ f.ctr < dctr /\ Handle(f)
  BY <1>0, <1>1, <1>2 DEF PutOff
<1>4. InOrder(f.ctr)'
  <2>1. ASSUME NEW i \in DOMAIN deferred' PROVE f.ctr < deferred'[i].ctr
    <3>1. 1 < i + 1
      BY <1>1, <2>1
    <3> QED
      BY <1>0, <1>1, <1>2, <3>1 DEF PutOff
  <2>2. \A i \in DOMAIN resp' : IsInline(i)' => f.ctr < Ctr(i)'
    BY <1>0, <1>1, <1>2 DEF PutOff, IsInline, Ctr
  <2> QED
    BY <2>1, <2>2 DEF InOrder
<1>5. \A i \in DOMAIN resp : ~IsPart(i)
  BY <1>0 DEF PartsComing
<1>6. xfer.st = "announced" =>
         /\ xfer.sent = 0 /\ f.ctr < xfer.frame.ctr
         /\ gap \/ \E i \in DOMAIN resp : PlaceOf(i, xfer.frame.ctr)
  BY <1>0, <1>1, <1>2 DEF Announced, PlaceOf
<1> QED
  BY <1>0, <1>3, <1>4, <1>5, <1>6, HandlesOrder

\* The current frame is before all others, unless one was lost, and then the
\* reader stops.
LEMMA CurrentOrder ==
    ASSUME TypeOK, InSequence, ReaderHandles
    PROVE  /\ why' = why \/ why' = "spent"
           /\ ~Doomed' => InSequence'
<1>0. /\ Rising /\ PutOff /\ Announced /\ Granted /\ PartsComing /\ Current
      /\ reader.at = "ack" /\ Handle(reader.cur) /\ HasCur
      /\ UNCHANGED <<resp, gap, dctr, xfer, deferred>>
      /\ reader.cur \in Frames
  BY DEF InSequence, ReaderHandles, inbox, charger, HasCur, TypeOK,
         WorkerTypeOK, Readers
<1>1. PICK f \in Frames : f = reader.cur
  BY <1>0
<1>2. /\ rx <= f.ctr /\ f.ctr < dctr /\ Handle(f)
      /\ gap \/ InOrder(f.ctr)
  BY <1>0, <1>1 DEF Current
<1>3. CASE gap
  <2>1. ~(f.ctr < rx)
    BY <1>2, Waiting, SessionConstants DEF Frames
  <2>2. /\ why' = why \/ why' = "spent"
        /\ reader'.at \in {"top", "dead"}
    BY <1>2, <2>1 DEF Handle, Dies, Reader
  <2> QED
    BY <1>0, <1>3, <2>2 DEF Doomed
<1>4. CASE ~gap
  <2>1. InOrder(f.ctr)'
    BY <1>0, <1>2, <1>4 DEF InOrder, IsInline, Ctr
  <2>2. \A i \in DOMAIN resp : ~IsPart(i)
    BY <1>0 DEF PartsComing
  <2>3. xfer.st = "announced" =>
           /\ xfer.sent = 0 /\ f.ctr < xfer.frame.ctr
           /\ gap \/ \E i \in DOMAIN resp : PlaceOf(i, xfer.frame.ctr)
    BY <1>0, <1>1, <1>4 DEF Announced, PlaceOf
  <2> QED
    BY <1>0, <1>2, <2>1, <2>2, <2>3, HandlesOrder
<1> QED
  BY <1>3, <1>4

\* What arrives fits in behind what waits.
Fits(item) ==
    /\ item.tag = "inline" => item.frame.ctr = dctr /\ dctr' = dctr + 1
    /\ item.tag = "part" =>
          /\ reader.at = "parts"
          /\ rx <= item.frame.ctr /\ item.frame.ctr < dctr
          /\ \A k \in reader.parts : k < item.idx
          /\ \A i \in DOMAIN resp : IsPart(i) => resp[i].idx < item.idx
          /\ xfer'.st = "granted" => item.idx <= xfer'.sent
          /\ Blocked(Len(resp) + 1) \/ InOrder(item.frame.ctr)

\* Nothing is put before what waits already; what was lost is marked.
LEMMA OrderArrived ==
    ASSUME TypeOK, NEW item \in Items, Arrives(item),
           UNCHANGED <<rx, deferred, reader>>
    PROVE  /\ \A c \in Nat : InOrder(c) /\ (item.tag = "inline" => c < item.frame.ctr)
                 => InOrder(c)'
           /\ \A i \in DOMAIN resp : Blocked(i) /\ i \in DOMAIN resp' => Blocked(i)'
           /\ Blocked(Len(resp) + 1) => Blocked(Len(resp))' /\ Blocked(Len(resp) + 1)'
<1>1. PICK k \in {0, 1} :
         /\ k = 1 => gap'
         /\ k = 0 => Len(resp') = Len(resp) + 1 /\ gap' = gap
         /\ gap => gap'
         /\ Len(resp') \in DOMAIN resp' /\ resp'[Len(resp')] = item
         /\ \A i \in DOMAIN resp' :
               /\ i \in Nat /\ 1 <= i /\ i <= Len(resp')
               /\ i # Len(resp') =>
                     i + k \in DOMAIN resp /\ resp'[i] = resp[i + k]
         /\ k = 0 => \A i \in DOMAIN resp :
               i \in DOMAIN resp' /\ resp'[i] = resp[i]
  BY MovesBack
<1>2. ASSUME NEW c \in Nat, InOrder(c),
             item.tag = "inline" => c < item.frame.ctr
      PROVE  InOrder(c)'
  <2>1. ASSUME NEW i \in DOMAIN resp', IsInline(i)' PROVE c < Ctr(i)'
    <3>1. CASE i = Len(resp')
      BY <1>1, <1>2, <2>1, <3>1 DEF IsInline, Ctr
    <3>2. CASE i # Len(resp')
      <4>1. i + k \in DOMAIN resp /\ resp'[i] = resp[i + k]
        BY <1>1, <3>2
      <4> QED
        BY <1>2, <2>1, <4>1 DEF InOrder, IsInline, Ctr
    <3> QED
      BY <3>1, <3>2
  <2> QED
    BY <1>2, <2>1 DEF InOrder
<1>3. ASSUME NEW i \in DOMAIN resp, Blocked(i), i \in DOMAIN resp'
      PROVE  Blocked(i)'
  <2>1. CASE gap'
    BY <2>1 DEF Blocked
  <2>2. CASE ~gap'
    <3>1. k = 0 /\ ~gap
      BY <1>1, <2>2
    <3>2. PICK j \in DOMAIN resp : j < i /\ IsAnnounce(j)
      BY <1>3, <3>1 DEF Blocked
    <3>3. j \in DOMAIN resp' /\ IsAnnounce(j)'
      BY <1>1, <3>1, <3>2 DEF IsAnnounce
    <3> QED
      BY <3>2, <3>3 DEF Blocked
  <2> QED
    BY <2>1, <2>2
<1>4. ASSUME Blocked(Len(resp) + 1)
      PROVE  Blocked(Len(resp))' /\ Blocked(Len(resp) + 1)'
  <2>1. CASE gap'
    BY <2>1 DEF Blocked
  <2>2. CASE ~gap'
    <3>1. k = 0 /\ ~gap
      BY <1>1, <2>2
    <3>2. PICK j \in DOMAIN resp : j < Len(resp) + 1 /\ IsAnnounce(j)
      BY <1>4, <3>1 DEF Blocked
    <3>3. j \in DOMAIN resp' /\ IsAnnounce(j)' /\ Len(resp') = Len(resp) + 1
      BY <1>1, <3>1, <3>2 DEF IsAnnounce
    <3>4. j \in Nat /\ Len(resp) \in Nat
      BY Waiting
    <3>5. j < Len(resp') /\ j < Len(resp') + 1
      BY <3>2, <3>3, <3>4
    <3> QED
      BY <3>3, <3>5 DEF Blocked
  <2> QED
    BY <2>1, <2>2
<1> QED
  BY <1>2, <1>3, <1>4

LEMMA ArrivalOrder ==
    ASSUME TypeOK, InSequence, NEW item \in Items, Arrives(item), Fits(item),
           UNCHANGED <<rx, deferred, reader>>, dctr' \in {dctr, dctr + 1},
           xfer'.st = "granted" => xfer.st = "granted" /\ xfer.sent <= xfer'.sent,
           xfer'.sent \in Nat
    PROVE  Rising' /\ PutOff' /\ PartsComing' /\ Current'
<1>0. /\ Rising /\ PutOff /\ Announced /\ Granted /\ PartsComing /\ Current
      /\ rx \in Nat /\ dctr \in Nat /\ dctr <= dctr' /\ dctr' \in Nat
      /\ xfer.sent \in Nat
      /\ \A i \in DOMAIN resp : Ctr(i) \in Nat /\ i \in Nat /\ resp[i].idx \in Nat
      /\ item.frame.ctr \in Nat /\ reader.cur.ctr \in Nat
  <2>1. item.frame \in Frames
    BY DEF Items
  <2>2. item.frame.ctr \in Nat
    BY <2>1, SessionConstants DEF Frames
  <2>3. \A n \in 0 .. Parts : n \in Nat
    OBVIOUS
  <2>4. rx \in Nat /\ dctr \in Nat /\ xfer.sent \in Nat /\ reader.cur.ctr \in Nat
    BY <2>3, Waiting
  <2>5. dctr <= dctr' /\ dctr' \in Nat
    BY <2>4
  <2> QED
    BY <2>2, <2>4, <2>5, Waiting DEF InSequence
<1>1. PICK k \in {0, 1} :
         /\ k = 1 => gap'
         /\ k = 0 => Len(resp') = Len(resp) + 1 /\ gap' = gap
         /\ gap => gap'
         /\ Len(resp') \in DOMAIN resp' /\ resp'[Len(resp')] = item
         /\ \A i \in DOMAIN resp' :
               /\ i \in Nat /\ 1 <= i /\ i <= Len(resp')
               /\ i # Len(resp') =>
                     i + k \in DOMAIN resp /\ resp'[i] = resp[i + k]
         /\ k = 0 => \A i \in DOMAIN resp :
               i \in DOMAIN resp' /\ resp'[i] = resp[i]
  BY MovesBack
<1>2. /\ Len(resp') \in DOMAIN resp'
      /\ IsInline(Len(resp))' <=> item.tag = "inline"
      /\ IsPart(Len(resp))' <=> item.tag = "part"
      /\ Ctr(Len(resp))' = item.frame.ctr /\ resp'[Len(resp')].idx = item.idx
  BY <1>1 DEF IsInline, IsPart, Ctr
<1>3. ASSUME NEW i \in DOMAIN resp', i # Len(resp')
      PROVE  /\ i + k \in DOMAIN resp /\ resp'[i] = resp[i + k]
             /\ IsInline(i)' <=> IsInline(i + k)
             /\ IsPart(i)' <=> IsPart(i + k)
             /\ Ctr(i)' = Ctr(i + k)
             /\ i \in Nat /\ i < Len(resp')
  <2>1. i + k \in DOMAIN resp /\ resp'[i] = resp[i + k] /\ i \in Nat /\ i <= Len(resp')
    BY <1>1, <1>3
  <2>2. i < Len(resp')
    BY <1>1, <1>3, <2>1
  <2> QED
    BY <2>1, <2>2 DEF IsInline, IsPart, Ctr
<1>4. Rising'
  <2>1. rx' <= dctr'
    BY <1>0 DEF Rising
  <2>2. ASSUME NEW i \in DOMAIN resp', IsInline(i)'
        PROVE  rx' <= Ctr(i)' /\ Ctr(i)' < dctr'
    <3>1. CASE i = Len(resp')
      BY <1>0, <1>2, <2>2, <3>1 DEF Rising, Fits
    <3>2. CASE i # Len(resp')
      BY <1>0, <1>3, <2>2, <3>2 DEF Rising
    <3> QED
      BY <3>1, <3>2
  <2>3. ASSUME NEW i \in DOMAIN resp', NEW j \in DOMAIN resp', i < j,
               IsInline(i)', IsInline(j)'
        PROVE  Ctr(i)' < Ctr(j)'
    <3>1. i # Len(resp')
      BY <1>1, <2>3
    <3>2. CASE j = Len(resp')
      BY <1>0, <1>2, <1>3, <2>3, <3>1, <3>2 DEF Rising, Fits
    <3>3. CASE j # Len(resp')
      <4>1. i + k < j + k /\ IsInline(i + k) /\ IsInline(j + k)
        BY <1>3, <2>3, <3>1, <3>3
      <4> QED
        BY <1>0, <1>3, <3>1, <3>3, <4>1 DEF Rising
    <3> QED
      BY <3>2, <3>3
  <2> QED
    BY <2>1, <2>2, <2>3 DEF Rising
<1>5. PutOff'
  <2>1. \A i \in DOMAIN deferred : deferred[i].ctr \in Nat
    BY Waiting
  <2>2. ASSUME NEW i \in DOMAIN deferred, NEW j \in DOMAIN resp', IsInline(j)'
        PROVE  deferred[i].ctr < Ctr(j)'
    <3>1. CASE j = Len(resp')
      BY <1>0, <1>2, <2>2, <3>1 DEF PutOff, Fits
    <3>2. CASE j # Len(resp')
      BY <1>0, <1>3, <2>2, <3>2 DEF PutOff
    <3> QED
      BY <3>1, <3>2
  <2>3. \A i \in DOMAIN deferred : deferred[i].ctr < dctr'
    BY <1>0, <2>1 DEF PutOff
  <2> QED
    BY <1>0, <2>2, <2>3 DEF PutOff
<1>6. \A c \in Nat : InOrder(c) /\ c < dctr => InOrder(c)'
  BY <1>0, OrderArrived DEF Fits
<1>7. PartsComing'
  <2>1. ASSUME NEW i \in DOMAIN resp', IsPart(i)'
        PROVE  /\ reader'.at = "parts" /\ rx' <= Ctr(i)' /\ Ctr(i)' < dctr'
               /\ \A m \in reader'.parts : m < resp'[i].idx
               /\ xfer'.st = "granted" => resp'[i].idx <= xfer'.sent
               /\ Blocked(i)' \/ InOrder(Ctr(i))'
    <3>1. CASE i = Len(resp')
      <4>1. /\ reader.at = "parts"
            /\ rx <= item.frame.ctr /\ item.frame.ctr < dctr
            /\ \A m \in reader.parts : m < item.idx
            /\ xfer'.st = "granted" => item.idx <= xfer'.sent
            /\ Blocked(Len(resp) + 1) \/ InOrder(item.frame.ctr)
        BY <1>2, <2>1, <3>1 DEF Fits
      <4>2. Blocked(Len(resp) + 1) => Blocked(Len(resp))'
        BY OrderArrived
      <4>3. InOrder(item.frame.ctr) => InOrder(item.frame.ctr)'
        BY <1>0, <1>6, <4>1
      <4>4. Blocked(i)' \/ InOrder(Ctr(i))'
        BY <1>2, <3>1, <4>1, <4>2, <4>3 DEF Blocked, InOrder
      <4> QED
        BY <1>0, <1>2, <3>1, <4>1, <4>4
    <3>2. CASE i # Len(resp')
      <4>1. /\ i + k \in DOMAIN resp /\ IsPart(i + k)
            /\ resp'[i] = resp[i + k] /\ Ctr(i)' = Ctr(i + k)
        BY <1>3, <2>1, <3>2
      <4>2. /\ reader.at = "parts" /\ rx <= Ctr(i + k) /\ Ctr(i + k) < dctr
            /\ \A m \in reader.parts : m < resp[i + k].idx
            /\ xfer.st = "granted" => resp[i + k].idx <= xfer.sent
            /\ Blocked(i + k) \/ InOrder(Ctr(i + k))
        BY <1>0, <4>1 DEF PartsComing
      <4>3. Blocked(i + k) => Blocked(i)'
        <5>1. CASE k = 1
          BY <1>1, <5>1 DEF Blocked
        <5>2. CASE k = 0
          <6>1. i + k = i
            BY <1>3, <3>2, <5>2
          <6> QED
            BY <4>1, <6>1, OrderArrived
        <5> QED
          BY <5>1, <5>2
      <4>4. InOrder(Ctr(i + k)) => InOrder(Ctr(i))'
        <5>1. PICK c \in Nat : c = Ctr(i + k)
          BY <1>0, <4>1
        <5>2. InOrder(c) => InOrder(c)'
          BY <1>6, <4>2, <5>1
        <5> QED
          BY <4>1, <5>1, <5>2 DEF InOrder
      <4>5. xfer'.st = "granted" => resp'[i].idx <= xfer'.sent
        BY <1>0, <4>1, <4>2
      <4> QED
        BY <1>0, <4>1, <4>2, <4>3, <4>4, <4>5
    <3> QED
      BY <3>1, <3>2
  <2>2. ASSUME NEW i \in DOMAIN resp', NEW j \in DOMAIN resp', i < j,
               IsPart(i)', IsPart(j)'
        PROVE  resp'[i].idx < resp'[j].idx
    <3>1. i # Len(resp')
      BY <1>1, <2>2
    <3>2. CASE j = Len(resp')
      BY <1>2, <1>3, <2>2, <3>1, <3>2 DEF Fits
    <3>3. CASE j # Len(resp')
      <4>1. i + k < j + k /\ IsPart(i + k) /\ IsPart(j + k)
        BY <1>3, <2>2, <3>1, <3>3
      <4> QED
        BY <1>0, <1>3, <3>1, <3>3, <4>1 DEF PartsComing
    <3> QED
      BY <3>2, <3>3
  <2>3. ASSUME reader'.at = "parts", xfer'.st = "granted"
        PROVE  \A m \in reader'.parts : m <= xfer'.sent
    <3>1. \A m \in reader.parts : m <= xfer.sent /\ m \in Nat
      BY <1>0, <2>3 DEF PartsComing, TypeOK, WorkerTypeOK, Readers
    <3> QED
      BY <1>0, <2>3, <3>1
  <2> QED
    BY <2>1, <2>2, <2>3 DEF PartsComing
<1>8. Current'
  <2> SUFFICES ASSUME HasCur
               PROVE  /\ rx <= reader.cur.ctr /\ reader.cur.ctr < dctr'
                      /\ gap' \/ InOrder(reader.cur.ctr)'
    BY DEF Current, HasCur
  <2>1. PICK c \in Nat : c = reader.cur.ctr
    BY <1>0
  <2>2. rx <= c /\ c < dctr /\ (gap \/ InOrder(c))
    BY <1>0, <2>1 DEF Current
  <2>3. InOrder(c) => InOrder(c)'
    BY <1>6, <2>2
  <2>4. c < dctr'
    BY <1>0, <2>2
  <2> QED
    BY <1>1, <2>1, <2>2, <2>3, <2>4 DEF InOrder
<1> QED
  BY <1>4, <1>5, <1>7, <1>8

\* An announcement keeps its place when an inline frame arrives behind it.
LEMMA PlaceArrived ==
    ASSUME TypeOK, NEW item \in Items, Arrives(item), item.tag = "inline",
           UNCHANGED <<deferred, reader>>, ~gap',
           NEW i \in DOMAIN resp, NEW c \in Nat, PlaceOf(i, c),
           c < item.frame.ctr
    PROVE  i \in DOMAIN resp' /\ PlaceOf(i, c)'
<1>1. /\ resp'[Len(resp')] = item
      /\ \A j \in DOMAIN resp' :
            j # Len(resp') => j \in DOMAIN resp /\ resp'[j] = resp[j]
      /\ \A j \in DOMAIN resp : j \in DOMAIN resp' /\ resp'[j] = resp[j]
      /\ \A j \in DOMAIN resp : j \in Nat /\ j < Len(resp')
  <2>1. PICK k \in {0, 1} :
           /\ k = 1 => gap'
           /\ k = 0 => Len(resp') = Len(resp) + 1
           /\ resp'[Len(resp')] = item
           /\ \A j \in DOMAIN resp' :
                 /\ j \in Nat
                 /\ j # Len(resp') =>
                       j + k \in DOMAIN resp /\ resp'[j] = resp[j + k]
           /\ k = 0 => \A j \in DOMAIN resp :
                 j \in DOMAIN resp' /\ resp'[j] = resp[j]
    BY MovesBack
  <2>2. k = 0 /\ \A j \in Nat : j + k = j
    BY <2>1
  <2>3. Len(resp') = Len(resp) + 1
    BY <2>1, <2>2
  <2>4. \A j \in DOMAIN resp : j \in Nat /\ j < Len(resp')
    <3>1. \A j \in DOMAIN resp : j \in Nat /\ j <= Len(resp)
      BY Waiting
    <3>2. Len(resp) \in Nat
      BY Waiting
    <3> QED
      BY <2>3, <3>1, <3>2
  <2> QED
    BY <2>1, <2>2, <2>4
<1>2. i \in DOMAIN resp' /\ IsAnnounce(i)' /\ i < Len(resp') /\ i \in Nat
  BY <1>1 DEF PlaceOf, IsAnnounce
<1>3. ASSUME NEW j \in DOMAIN resp'
      PROVE  /\ IsInline(j)' => /\ j < i => Ctr(j)' < c
                                /\ i < j => c < Ctr(j)'
             /\ IsPart(j)' => Ctr(j)' < c
  <2>1. CASE j = Len(resp')
    <3>1. Ctr(j)' = item.frame.ctr /\ ~IsPart(j)'
      BY <1>1, <2>1 DEF Ctr, IsPart
    <3>2. ~(j < i)
      <4>1. Len(resp') \in Nat
        <5>1. resp' \in Seq(Items)
          BY PutType DEF Arrives, TypeOK, QueuesTypeOK
        <5> QED
          BY <5>1, LenProperties
      <4> QED
        BY <1>2, <2>1, <4>1
    <3> QED
      BY <3>1, <3>2
  <2>2. CASE j # Len(resp')
    <3>1. j \in DOMAIN resp /\ resp'[j] = resp[j]
      BY <1>1, <2>2
    <3> QED
      BY <3>1 DEF PlaceOf, IsInline, IsPart, Ctr
  <2> QED
    BY <2>1, <2>2
<1> QED
  BY <1>2, <1>3 DEF PlaceOf, HasCur

\* A frame the charger sends is later than all it has sent.
LEMMA SendFrameOrder ==
    ASSUME TypeOK, InSequence, NEW k \in {"reply", "event", "noise"},
           NEW s \in 0 .. SeqMax, NEW n \in 0 .. MaxCalls, SendFrame(k, s, n)
    PROVE  InSequence'
<1>0. /\ Rising /\ PutOff /\ Announced /\ Granted /\ PartsComing /\ Current
      /\ dctr \in Nat /\ dctr' = dctr + 1 /\ rx \in Nat
      /\ xfer.frame.ctr \in Nat /\ xfer.sent \in Nat /\ reader.cur.ctr \in Nat
      /\ UNCHANGED <<rx, deferred, reader>>
  <2>1. \A m \in 0 .. Parts : m \in Nat
    OBVIOUS
  <2>2. /\ dctr \in Nat /\ rx \in Nat /\ xfer.frame.ctr \in Nat
        /\ xfer.sent \in Nat /\ reader.cur.ctr \in Nat
    BY <2>1, Waiting
  <2> QED
    BY <2>2 DEF InSequence, SendFrame, worker
<1>1. PICK f \in Frames : f = Frame(dctr, k, s, n) /\ f.ctr = dctr
  <2>1. dctr \in 0 .. MaxCounter
    BY SessionConstants DEF SendFrame, TypeOK, ChargerTypeOK
  <2>2. Frame(dctr, k, s, n) \in Frames
    BY <2>1 DEF Frame, Frames
  <2>3. Frame(dctr, k, s, n).ctr = dctr
    BY DEF Frame
  <2> QED
    BY <2>2, <2>3
<1>2. CASE Arrives(Item("inline", 0, f)) /\ xfer' = xfer
  <2>1. PICK item \in Items :
           /\ item = Item("inline", 0, f)
           /\ item.tag = "inline" /\ item.frame.ctr = dctr
    <3>1. Item("inline", 0, f) \in Items
      BY DEF Item, Items
    <3>2. /\ Item("inline", 0, f).tag = "inline"
          /\ Item("inline", 0, f).frame = f
      BY DEF Item
    <3> QED
      BY <1>1, <3>1, <3>2
  <2>2. Arrives(item) /\ Fits(item)
    BY <1>0, <1>2, <2>1 DEF Fits
  <2>3. Rising' /\ PutOff' /\ PartsComing' /\ Current'
    BY <1>0, <1>2, <2>2, ArrivalOrder
  <2>4. Announced'
    <3> SUFFICES ASSUME xfer.st = "announced", ~gap'
                 PROVE  \E i \in DOMAIN resp' : PlaceOf(i, xfer.frame.ctr)'
      BY <1>0, <1>2 DEF Announced
    <3>1. ~gap
      BY <2>2 DEF Arrives
    <3>2. PICK c \in Nat : c = xfer.frame.ctr
      BY <1>0
    <3>3. PICK i \in DOMAIN resp : PlaceOf(i, c)
      BY <1>0, <3>1, <3>2 DEF Announced
    <3>4. c < item.frame.ctr
      BY <1>0, <2>1, <3>2 DEF Granted
    <3>5. i \in DOMAIN resp' /\ PlaceOf(i, c)'
      BY <1>0, <2>1, <2>2, <3>3, <3>4, PlaceArrived
    <3> QED
      BY <1>2, <3>2, <3>5
  <2>5. Granted'
    <3>1. Blocked(Len(resp) + 1) => Blocked(Len(resp) + 1)'
      BY <1>0, <2>2, OrderArrived
    <3>2. PICK c \in Nat : c = xfer.frame.ctr
      BY <1>0
    <3>3. xfer.st # "none" => c < dctr /\ c < dctr'
      BY <1>0, <3>2 DEF Granted
    <3>4. xfer.st # "none" /\ InOrder(c) => InOrder(c)'
      BY <1>0, <2>1, <2>2, <3>3, OrderArrived
    <3>5. InOrder(c)' => InOrder(xfer.frame.ctr)'
      BY <1>2, <3>2 DEF InOrder
    <3> QED
      BY <1>0, <1>2, <3>1, <3>2, <3>3, <3>4, <3>5 DEF Granted
  <2> QED
    BY <2>3, <2>4, <2>5 DEF InSequence
<1>3. CASE /\ xfer.st = "none" /\ Arrives(Item("announce", 0, NoFrame))
           /\ xfer' = [st |-> "announced", frame |-> f, sent |-> 0]
  <2>1. PICK item \in Items :
           item = Item("announce", 0, NoFrame) /\ item.tag = "announce"
    <3>1. Item("announce", 0, NoFrame) \in Items
      BY Blanks DEF Item, Items
    <3>2. Item("announce", 0, NoFrame).tag = "announce"
      BY DEF Item
    <3> QED
      BY <3>1, <3>2
  <2>2. /\ xfer'.st = "announced" /\ xfer'.frame.ctr = dctr /\ xfer'.sent = 0
        /\ Arrives(item) /\ Fits(item)
    BY <1>1, <1>3, <2>1 DEF Fits
  <2>3. Rising' /\ PutOff' /\ PartsComing' /\ Current'
    BY <1>0, <2>2, ArrivalOrder
  <2>4. PICK m \in {0, 1} :
           /\ Len(resp') \in DOMAIN resp' /\ resp'[Len(resp')] = item
           /\ \A i \in DOMAIN resp' :
                 /\ i \in Nat /\ i <= Len(resp')
                 /\ i # Len(resp') =>
                       i + m \in DOMAIN resp /\ resp'[i] = resp[i + m]
    BY <2>2, MovesBack
  <2>5. ASSUME NEW i \in DOMAIN resp'
        PROVE  /\ i \in Nat /\ i <= Len(resp')
               /\ IsInline(i)' => Ctr(i)' < dctr
               /\ IsPart(i)' => Ctr(i)' < dctr
    <3>1. CASE i = Len(resp')
      BY <2>1, <2>4, <3>1 DEF IsInline, IsPart
    <3>2. CASE i # Len(resp')
      <4>1. i + m \in DOMAIN resp /\ resp'[i] = resp[i + m]
        BY <2>4, <3>2
      <4> QED
        BY <1>0, <2>4, <4>1 DEF Rising, PartsComing, IsInline, IsPart, Ctr
    <3> QED
      BY <3>1, <3>2
  <2>6. Announced'
    <3>1. PICK p \in DOMAIN resp' : p = Len(resp')
      BY <2>4
    <3>2. IsAnnounce(p)'
      BY <2>1, <2>4, <3>1 DEF IsAnnounce
    <3>3. \A j \in DOMAIN resp' : j <= p /\ j \in Nat /\ p \in Nat
      BY <2>5, <3>1
    <3>4. \A j \in DOMAIN resp' : ~(p < j)
      BY <3>3
    <3>5. \A j \in DOMAIN deferred' : deferred'[j].ctr < dctr
      BY <1>0 DEF PutOff
    <3>6. HasCur' => reader'.cur.ctr < dctr
      BY <1>0 DEF Current, HasCur
    <3>7. PlaceOf(p, xfer.frame.ctr)'
      BY <2>2, <2>5, <3>2, <3>4, <3>5, <3>6 DEF PlaceOf
    <3>8. rx <= dctr
      BY <1>0 DEF Rising
    <3> QED
      BY <1>0, <2>2, <3>7, <3>8 DEF Announced
  <2>7. Granted'
    BY <1>0, <2>2 DEF Granted
  <2> QED
    BY <2>3, <2>6, <2>7 DEF InSequence
<1> QED
  BY <1>1, <1>2, <1>3 DEF SendFrame

\* The next parcel of the frame that was granted is behind the ones before it.
LEMMA SendPartOrder ==
    ASSUME TypeOK, InSequence, SendPart
    PROVE  InSequence'
<1>0. /\ Rising /\ PutOff /\ Announced /\ Granted /\ PartsComing /\ Current
      /\ dctr \in Nat /\ rx \in Nat /\ xfer.frame \in Frames
      /\ xfer.frame.ctr \in Nat /\ xfer.sent \in Nat /\ Parts \in Nat
      /\ xfer.st = "granted" /\ xfer.sent < Parts
      /\ UNCHANGED <<rx, deferred, reader, dctr>>
  <2>1. \A m \in 0 .. Parts : m \in Nat
    OBVIOUS
  <2>2. /\ dctr \in Nat /\ rx \in Nat /\ xfer.frame.ctr \in Nat
        /\ xfer.sent \in Nat /\ Parts \in Nat
    BY <2>1, Waiting
  <2>3. xfer.frame \in Frames
    BY DEF TypeOK, ChargerTypeOK
  <2> QED
    BY <2>2, <2>3 DEF InSequence, SendPart, worker
<1>1. /\ xfer'.st = "granted" /\ xfer'.sent = xfer.sent + 1
      /\ xfer'.frame = xfer.frame
  BY DEF SendPart, TypeOK, ChargerTypeOK
<1>2. PICK item \in Items :
         /\ item = Item("part", xfer.sent + 1, xfer.frame)
         /\ item.tag = "part" /\ item.idx = xfer.sent + 1
         /\ item.frame = xfer.frame
  <2>1. xfer.sent + 1 \in 1 .. Parts
    BY <1>0
  <2>2. Item("part", xfer.sent + 1, xfer.frame) \in Items
    BY <1>0, <2>1 DEF Item, Items
  <2>3. /\ Item("part", xfer.sent + 1, xfer.frame).tag = "part"
        /\ Item("part", xfer.sent + 1, xfer.frame).idx = xfer.sent + 1
        /\ Item("part", xfer.sent + 1, xfer.frame).frame = xfer.frame
    BY DEF Item
  <2> QED
    BY <2>2, <2>3
<1>3. /\ reader.at = "parts" /\ rx <= xfer.frame.ctr
      /\ xfer.frame.ctr < dctr
      /\ Blocked(Len(resp) + 1) \/ InOrder(xfer.frame.ctr)
  BY <1>0 DEF Granted
<1>4. Arrives(item)
  BY <1>2 DEF SendPart
<1>5. Fits(item)
  <2>1. \A i \in DOMAIN resp :
           IsPart(i) => resp[i].idx <= xfer.sent /\ resp[i].idx \in Nat
    BY <1>0, Waiting DEF PartsComing
  <2>2. \A i \in DOMAIN resp : IsPart(i) => resp[i].idx < xfer.sent + 1
    BY <1>0, <2>1
  <2>3. \A k \in reader.parts : k <= xfer.sent /\ k \in Nat
    BY <1>0, <1>3 DEF PartsComing, TypeOK, WorkerTypeOK, Readers
  <2>4. \A k \in reader.parts : k < xfer.sent + 1
    BY <1>0, <2>3
  <2>5. xfer.sent + 1 <= xfer'.sent
    BY <1>0, <1>1
  <2> QED
    BY <1>2, <1>3, <2>2, <2>4, <2>5 DEF Fits
<1>6. Rising' /\ PutOff' /\ PartsComing' /\ Current'
  <2>1. xfer'.sent \in Nat /\ xfer.sent <= xfer'.sent /\ dctr' = dctr
    BY <1>0, <1>1
  <2> QED
    BY <1>0, <1>4, <1>5, <2>1, ArrivalOrder
<1>7. Announced'
  BY <1>1 DEF Announced
<1>8. Granted'
  <2>1. Blocked(Len(resp) + 1) => Blocked(Len(resp) + 1)'
    BY <1>0, <1>4, OrderArrived
  <2>2. PICK c \in Nat : c = xfer.frame.ctr
    BY <1>0
  <2>3. InOrder(c) => InOrder(c)'
    BY <1>0, <1>2, <1>4, OrderArrived
  <2>4. InOrder(c)' => InOrder(xfer.frame.ctr)'
    BY <1>1, <2>2 DEF InOrder
  <2> QED
    BY <1>0, <1>1, <1>3, <2>1, <2>2, <2>3, <2>4 DEF Granted
<1> QED
  BY <1>6, <1>7, <1>8 DEF InSequence

\* What the order depends on.
waiting == <<rx, deferred, resp, gap, dctr, xfer, reader>>

LEMMA OrderQuiet ==
    ASSUME InSequence, UNCHANGED waiting
    PROVE  InSequence'
BY DEF waiting, InSequence, Rising, PutOff, Announced, Granted, PartsComing,
       Current, PlaceOf, InOrder, Blocked, HasCur, IsInline, IsAnnounce,
       IsPart, Ctr

\* A reader that begins has nothing before it.
LEMMA OrderBegun ==
    ASSUME InSequence, UNCHANGED <<rx, deferred, resp, gap, dctr, xfer>>,
           reader.at \in {"off", "top"}, reader'.at \in {"top", "get"},
           reader'.at = "get" => deferred = <<>>
    PROVE  InSequence'
<1>0. /\ Rising /\ PutOff /\ Announced /\ Granted /\ PartsComing
      /\ ~HasCur /\ ~HasCur'
  BY DEF InSequence, HasCur
<1>1. Rising' /\ Current'
  BY <1>0 DEF Rising, Current, IsInline, Ctr
<1>2. PutOff'
  BY <1>0 DEF PutOff, IsInline, Ctr
<1>3. Announced'
  BY <1>0 DEF Announced, PlaceOf, IsInline, IsAnnounce, IsPart, Ctr
<1>4. Granted'
  BY <1>0 DEF Granted
<1>5. PartsComing'
  BY <1>0 DEF PartsComing, IsPart
<1> QED
  BY <1>1, <1>2, <1>3, <1>4, <1>5 DEF InSequence

\* A transfer that ends leaves nothing to wait for.
LEMMA EndTransferOrder ==
    ASSUME InSequence, EndTransfer
    PROVE  InSequence'
<1>0. /\ Rising /\ PutOff /\ PartsComing /\ Current
      /\ UNCHANGED <<rx, deferred, resp, gap, dctr, reader>>
      /\ xfer'.st = "none"
  BY DEF InSequence, EndTransfer, NoTransfer, worker, inbox
<1>1. Rising' /\ PutOff' /\ Current'
  BY <1>0 DEF Rising, PutOff, Current, InOrder, HasCur, IsInline, Ctr
<1>2. Announced' /\ Granted'
  BY <1>0 DEF Announced, Granted
<1>3. PartsComing'
  BY <1>0 DEF PartsComing, InOrder, Blocked, IsInline, IsAnnounce, IsPart, Ctr
<1> QED
  BY <1>1, <1>2, <1>3 DEF InSequence

\* What is lost stays lost, and who is dead stays dead.
LEMMA DoomLasts ==
    ASSUME IInv, Next, Doomed
    PROVE  Doomed'
<1>0. /\ TypeOK /\ gap \in BOOLEAN
      /\ life \in {"new", "half", "closed"} => reader.at = "off"
  BY DEF IInv, TypeOK, QueuesTypeOK, Alive
<1>1. ASSUME NEW t \in Tasks, Requests(t) PROVE UNCHANGED <<life, reader, gap>>
  BY <1>1
     DEF Requests, Call, EnterRefused, EnterExhausted, EnterSend, Written,
         TakeReady, TakeOk, TakeOther, Return, RequestFails, session, worker,
         inbox
<1>2. CASE ReaderLoop
  <2>1. reader.at \notin {"off", "dead"} /\ life' = life
    BY <1>0, <1>2, ReaderKeeps
  <2>2. CASE life = "closed"
    BY <2>1, <2>2 DEF Doomed
  <2>3. CASE reader.at = "top" /\ gap
    <3>1. ReaderOverflow
      BY <1>2, <2>3
         DEF ReaderLoop, ReaderDeferred, ReaderGet, ReaderTakesInline,
             ReaderSkipsPart, ReaderTakesAnnounce, ReaderDefers,
             ReaderMisframed, ReaderTakesPart, ReaderHandles, ReaderFails,
             Takes
    <3> QED
      BY <3>1 DEF ReaderOverflow, Dies, Reader, Doomed
  <2> QED
    BY <2>1, <2>2, <2>3 DEF Doomed
<1>3. CASE Lifecycle
  <2>1. gap' = gap
    BY <1>3
       DEF Lifecycle, SubscribeResponses, SubscribeControl, Unsubscribe,
           UnsubscribeInterrupted, UnsubscribeDone, inbox
  <2>2. CASE UnsubscribeDone
    BY <2>2 DEF UnsubscribeDone, Doomed
  <2>3. CASE SubscribeControl
    BY <1>0, <2>3 DEF SubscribeControl, Doomed
  <2>4. CASE SubscribeResponses \/ Unsubscribe \/ UnsubscribeInterrupted
    BY <2>1, <2>4
       DEF SubscribeResponses, Unsubscribe, UnsubscribeInterrupted, worker,
           Doomed
  <2> QED
    BY <1>3, <2>2, <2>3, <2>4 DEF Lifecycle
<1>4. CASE Charger
  BY <1>0, <1>4, ChargerKeeps DEF session, worker, Doomed
<1> QED
  BY <1>1, <1>2, <1>3, <1>4 DEF Next, Doomed

\* Repetitions are counted.
LEMMA RepeatsStay ==
    ASSUME TypeOK, Next, repeats' = 0
    PROVE  repeats = 0 /\ ~Repeat
<1>1. repeats \in Nat
  BY SessionConstants DEF TypeOK, ChargerTypeOK
<1>2. ~Repeat
  BY <1>1 DEF Repeat
<1>3. ASSUME NEW t \in Tasks, Requests(t) PROVE repeats' = repeats
  BY <1>3
     DEF Requests, Call, EnterRefused, EnterExhausted, EnterSend, Written,
         TakeReady, TakeOk, TakeOther, Return, RequestFails, charger
<1>4. ReaderLoop => repeats' = repeats
  BY DEF ReaderLoop, ReaderOverflow, ReaderDeferred, ReaderGet,
         ReaderTakesInline, ReaderSkipsPart, ReaderTakesAnnounce,
         ReaderDefers, ReaderMisframed, ReaderTakesPart, ReaderHandles,
         ReaderFails, Takes, charger
<1>5. Lifecycle => repeats' = repeats
  BY DEF Lifecycle, SubscribeResponses, SubscribeControl, Unsubscribe,
         UnsubscribeInterrupted, UnsubscribeDone, charger
<1>6. Charger => repeats' = repeats
  BY <1>2 DEF Charger, SendControl, SendAnswer, SendEvent, SendFrame,
              SendPart, EndTransfer
<1> QED
  BY <1>2, <1>3, <1>4, <1>5, <1>6 DEF Next

LEMMA InitOrder == Init => OrderInv
<1> SUFFICES ASSUME Init PROVE OrderInv
  OBVIOUS
<1>1. /\ rx = 0 /\ dctr = 0 /\ reader.at = "off" /\ xfer.st = "none"
      /\ why = "none" /\ ~HasCur /\ deferred = <<>> /\ resp = <<>>
  BY DEF Init, Reader, NoTransfer, HasCur
<1>2. DOMAIN deferred = {} /\ DOMAIN resp = {}
  BY <1>1
<1>3. InSequence
  BY <1>1, <1>2
     DEF InSequence, Rising, PutOff, Announced, Granted, PartsComing, Current
<1> QED
  BY <1>1, <1>3 DEF OrderInv

\* One step keeps the order, and without a repetition nobody is accused.
LEMMA OrderStep ==
    ASSUME IInv, OrderInv, Next
    PROVE  OrderInv'
<1> SUFFICES ASSUME repeats' = 0
             PROVE  (~Doomed' => InSequence') /\ why' # "reauth"
  BY DEF OrderInv
<1>0. /\ TypeOK /\ repeats = 0 /\ ~Repeat /\ why # "reauth"
      /\ ~Doomed' => ~Doomed
      /\ ~Doomed => InSequence
      /\ life \in {"new", "half", "closed"} => reader.at = "off"
  BY RepeatsStay, DoomLasts DEF IInv, OrderInv, Alive
<1>1. ASSUME NEW reason \in Reasons \ {"reauth"}, Dies(reason, pending)
      PROVE  (~Doomed' => InSequence') /\ why' # "reauth"
  BY <1>1 DEF Dies, Reader, Doomed
<1>2. ASSUME UNCHANGED waiting, why' = why
      PROVE  (~Doomed' => InSequence') /\ why' # "reauth"
  BY <1>0, <1>2, OrderQuiet
<1>3. ASSUME NEW t \in Tasks, Requests(t)
      PROVE  UNCHANGED waiting /\ why' = why
  BY <1>3
     DEF Requests, Call, EnterRefused, EnterExhausted, EnterSend, Written,
         TakeReady, TakeOk, TakeOther, Return, RequestFails, worker, inbox,
         charger, waiting
<1>4. CASE Lifecycle
  <2>1. CASE SubscribeResponses \/ Unsubscribe \/ UnsubscribeInterrupted
    BY <1>2, <2>1
       DEF SubscribeResponses, Unsubscribe, UnsubscribeInterrupted, worker,
           inbox, charger, waiting
  <2>2. CASE UnsubscribeDone
    BY <1>0, <2>2 DEF UnsubscribeDone, Doomed
  <2>3. CASE SubscribeControl
    <3>1. /\ UNCHANGED <<rx, deferred, resp, gap, dctr, xfer, why>>
          /\ reader.at = "off" /\ reader'.at = "top"
      BY <1>0, <2>3 DEF SubscribeControl, Reader, inbox, charger
    <3> QED
      BY <1>0, <3>1, OrderBegun
  <2> QED
    BY <1>4, <2>1, <2>2, <2>3 DEF Lifecycle
<1>5. CASE Charger
  <2>1. why' = why
    BY <1>0, <1>5, ChargerKeeps DEF worker
  <2>2. ASSUME InSequence PROVE InSequence'
    <3>1. CASE SendControl
      BY <2>2, <3>1, OrderQuiet DEF SendControl, worker, inbox, waiting
    <3>2. ASSUME NEW r \in todo
          PROVE  r.seq \in 0 .. SeqMax /\ r.ticket \in 0 .. MaxCalls
      BY <1>0, <3>2 DEF TypeOK, ChargerTypeOK, Calls
    <3>3. ASSUME NEW r \in todo, SendAnswer(r) PROVE InSequence'
      BY <1>0, <2>2, <3>2, <3>3, SendFrameOrder DEF SendAnswer
    <3>4. CASE SendEvent
      <4>1. 0 \in 0 .. SeqMax /\ 0 \in 0 .. MaxCalls
        BY SessionConstants
      <4> QED
        BY <1>0, <2>2, <3>2, <3>4, <4>1, SendFrameOrder DEF SendEvent
    <3> QED
      BY <1>0, <1>5, <2>2, <3>1, <3>3, <3>4, SendPartOrder, EndTransferOrder
         DEF Charger
  <2> QED
    BY <1>0, <2>1, <2>2
<1>6. CASE ReaderLoop
  <2>1. CASE ReaderOverflow \/ ReaderMisframed \/ ReaderFails
    BY <1>1, <2>1 DEF ReaderOverflow, ReaderMisframed, ReaderFails, Reasons
  <2>2. CASE ReaderDefers
    <3>1. CASE Len(deferred) < DeferMax
      <4>1. why' = why
        BY <2>2, <3>1 DEF ReaderDefers
      <4> QED
        BY <1>0, <2>2, <3>1, <4>1, DefersOrder
    <3>2. CASE ~(Len(deferred) < DeferMax)
      BY <1>1, <2>2, <3>2 DEF ReaderDefers, Reasons
    <3> QED
      BY <3>1, <3>2
  <2>3. CASE ReaderGet
    <3>1. /\ UNCHANGED <<rx, deferred, resp, gap, dctr, xfer, why>>
          /\ reader.at = "top" /\ reader'.at = "get" /\ deferred = <<>>
      BY <2>3 DEF ReaderGet, Reader, inbox, charger
    <3> QED
      BY <1>0, <3>1, OrderBegun
  <2>4. CASE ReaderTakesInline \/ ReaderTakesAnnounce \/ ReaderTakesPart
    <3>1. why' = why
      BY <2>4 DEF ReaderTakesInline, ReaderTakesAnnounce, ReaderTakesPart
    <3> QED
      BY <1>0, <2>4, <3>1, TakesInlineOrder, TakesAnnounceOrder,
         TakesPartOrder
  <2>5. CASE ReaderSkipsPart
    <3>1. /\ 1 \in DOMAIN resp /\ IsPart(1) /\ reader.at = "get" /\ why' = why
      BY <1>0, <2>5, MovesUp DEF ReaderSkipsPart, IsPart
    <3>2. ~InSequence
      BY <3>1 DEF InSequence, PartsComing
    <3> QED
      BY <1>0, <3>1, <3>2
  <2>6. CASE ReaderDeferred
    <3>1. ~Doomed \/ life = "closed"
      BY <2>6 DEF ReaderDeferred, Doomed
    <3>2. life # "closed"
      BY <1>0, <2>6 DEF ReaderDeferred
    <3> QED
      BY <1>0, <2>6, <3>1, <3>2, DeferredOrder
  <2>7. CASE ReaderHandles
    <3>1. reader.at = "ack" /\ life # "closed"
      BY <1>0, <2>7 DEF ReaderHandles
    <3>2. ~Doomed
      BY <3>1 DEF Doomed
    <3> QED
      BY <1>0, <2>7, <3>2, CurrentOrder
  <2> QED
    BY <1>6, <2>1, <2>2, <2>3, <2>4, <2>5, <2>6, <2>7 DEF ReaderLoop
<1> QED
  BY <1>2, <1>3, <1>4, <1>5, <1>6 DEF Next

\* A charger that counts and sends in order is never accused of a replay, for
\* every width of the counter, every number of parcels and every capacity of
\* the queue and of the frames put off: if nothing was repeated, the session
\* does not end with the demand to authenticate again.
THEOREM NeverAccused == Spec => []NoFalseAlarm
<1>1. IInv /\ OrderInv /\ [Next]_vars => OrderInv'
  <2>1. IInv /\ OrderInv /\ Next => OrderInv'
    BY OrderStep
  <2>2. OrderInv /\ UNCHANGED vars => OrderInv'
    <3> SUFFICES ASSUME OrderInv, UNCHANGED vars PROVE OrderInv'
      OBVIOUS
    <3>1. UNCHANGED waiting /\ UNCHANGED <<life, why, repeats>>
      BY DEF vars, session, worker, inbox, charger, waiting
    <3>2. Doomed' <=> Doomed
      BY <3>1 DEF waiting, Doomed
    <3> QED
      BY <3>1, <3>2, OrderQuiet DEF OrderInv
  <2> QED
    BY <2>1, <2>2
<1>2. TypeOK /\ OrderInv => NoFalseAlarm
  BY SessionConstants
     DEF TypeOK, ChargerTypeOK, OrderInv, NoFalseAlarm
<1>3. IInv => TypeOK
  BY DEF IInv
<1> QED
  BY <1>1, <1>2, <1>3, InitOrder, Inductive, PTL DEF Spec

=============================================================================
