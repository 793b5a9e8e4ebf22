----------------------------- MODULE MiSession -----------------------------
(***************************************************************************)
(* MiSession (lib/xiaomi/session.py): encrypted requests and pushes on one *)
(* authenticated BLE connection.  Requests take a lock, spend one transmit *)
(* nonce, announce and upload their parcels between control frames, and    *)
(* wait for an answer; one reader task takes every inbound frame off a     *)
(* bounded queue and routes it to the request or to the owner's callback;  *)
(* unsubscribe() may come at any time.  One action is one run of the event *)
(* loop between two awaits, or a notification that arrives.                *)
(*                                                                         *)
(* The charger and the GATT layer are external.  A write takes effect when *)
(* it is started or, if it is lost, never: the charger then stays silent.  *)
(***************************************************************************)
EXTENDS Naturals, Sequences

CONSTANTS
    Tasks,          \* tasks that may send a request
    NoTask,         \* nobody holds the request lock
    MaxCounter,     \* MAX_MIOT_COUNTER
    SeqMax,         \* the largest request sequence number, 0xFFFF
    Parts,          \* parcels of a long inbound frame
    QueueMax,       \* capacity of a notification queue
    DeferMax,       \* MAX_CAPTURED_FRAMES
    Forms,          \* how the charger sends: "inline", "parcel"
    MaxCalls,       \* bound: requests made
    MaxRepeats      \* bound: frames that arrive a second time

ASSUME SessionConstants ==
    /\ NoTask \notin Tasks
    /\ MaxCounter \in Nat
    /\ SeqMax \in Nat /\ SeqMax >= 2
    /\ Parts \in Nat \ {0} /\ QueueMax \in Nat \ {0} /\ DeferMax \in Nat
    /\ Forms \subseteq {"inline", "parcel"}
    /\ MaxCalls \in Nat /\ MaxRepeats \in Nat

VARIABLES
    life,           \* how far subscribe() and unsubscribe() have come
    tx,             \* _tx_counter
    told,           \* _fatal_error_reported, counted
    seqNext,        \* _request_seq
    \* Requests.
    lock,           \* the holder of _request_lock; also _request_task
    pc,             \* where each task is suspended
    mine,           \* the sequence number and the ticket of its request
    pending,        \* _pending_seq, _pending_opcodes and _pending_response
    \* The reader.
    reader,         \* _reader_task and the locals of _recv_encrypted
    rx,             \* _rx_counter
    deferred,       \* _deferred_frames
    why,            \* _reader_error
    \* The two notification queues and their "dropped" marks.
    resp, gap,
    ctl, ctlGap,
    \* The charger.
    owed,           \* control frames it is about to send
    todo,           \* requests it has received and not answered
    dctr,           \* its own next counter
    xfer,           \* the long frame it is sending
    repeats,        \* frames that arrived a second time
    \* History.
    calls,          \* requests made; each has its number as a ticket
    nonces,         \* transmit counters as something was encrypted with them
    seen,           \* receive counters of the frames taken as genuine, in order
    since           \* frames taken as genuine after the queue lost one

session == <<life, tx, told, seqNext>>
request == <<lock, pc, mine, pending>>
worker == <<reader, rx, deferred, why>>
inbox == <<resp, gap>>
control == <<ctl, ctlGap>>
charger == <<owed, todo, dctr, xfer, repeats>>
history == <<calls, nonces, seen, since>>
vars == <<session, request, worker, inbox, control, charger, history>>

Frame(c, k, s, n) == [ctr |-> c, kind |-> k, seq |-> s, ticket |-> n]
NoFrame == Frame(0, "none", 0, 0)
Failure == Frame(0, "error", 0, 0)
Frames == [ctr : 0 .. MaxCounter, seq : 0 .. SeqMax, ticket : 0 .. MaxCalls,
           kind : {"none", "error", "reply", "event", "noise"}]

Item(tag, i, f) == [tag |-> tag, idx |-> i, frame |-> f]
Items == [tag : {"inline", "announce"}, idx : {0}, frame : Frames]
            \cup [tag : {"part"}, idx : 1 .. Parts, frame : Frames]

NoCall == [seq |-> 0, ticket |-> 0]
NoPending == [seq |-> 0, ticket |-> 0, got |-> NoFrame]
Reader(where) == [at |-> where, cur |-> NoFrame, parts |-> {}]
NoTransfer == [st |-> "none", frame |-> NoFrame, sent |-> 0]

Init ==
    /\ life = "new" /\ tx = 0 /\ told = 0 /\ seqNext = 2
    /\ lock = NoTask /\ pending = NoPending
    /\ pc = [t \in Tasks |-> "off"]
    /\ mine = [t \in Tasks |-> NoCall]
    /\ reader = Reader("off") /\ rx = 0 /\ deferred = <<>> /\ why = "none"
    /\ resp = <<>> /\ gap = FALSE
    /\ ctl = <<>> /\ ctlGap = FALSE
    /\ owed = <<>> /\ todo = {} /\ dctr = 0 /\ xfer = NoTransfer
    /\ repeats = 0
    /\ calls = 0 /\ nonces = <<>> /\ seen = <<>> /\ since = 0

-----------------------------------------------------------------------------
(* Pieces the operations share.                                            *)

\* _closing: unsubscribe() has been called.
Closing == life \in {"stopping", "left", "closed"}

Running == reader.at \notin {"off", "dead"}

\* The notification handler of _ChannelQueue: the oldest frame makes room.
Put(q, x) == Append(IF Len(q) = QueueMax THEN Tail(q) ELSE q, x)

Arrives(item) ==
    /\ resp' = Put(resp, item)
    /\ gap' = (gap \/ Len(resp) = QueueMax)

\* Mutant: every cause of death is reported.
Report_Always == told' = told + 1

\* _report_fatal_error: once, and not to an owner that is unsubscribing.
Report == told' = IF Closing \/ told > 0 THEN told ELSE told + 1

\* Mutant: the sequence number does not count.
Route_AnySequence(f) ==
    IF pending.ticket # 0 /\ pending.got = NoFrame /\ f.kind = "reply"
    THEN [pending EXCEPT !.got = f] ELSE pending

\* A frame is the answer if sequence number and opcode say so and no other
\* one was; all else goes to the notification callback, or nowhere.
Route(f) ==
    IF /\ pending.ticket # 0 /\ pending.got = NoFrame
       /\ f.kind = "reply" /\ f.seq = pending.seq
    THEN [pending EXCEPT !.got = f] ELSE pending

\* Mutant: the request in flight is left to its timeout.
Dies_Silently(reason, p) ==
    /\ reader' = Reader("dead") /\ why' = reason
    /\ pending' = p
    /\ Report

\* The reader stops: it fails the request in flight and tells the owner.
Dies(reason, p) ==
    /\ reader' = Reader("dead") /\ why' = reason
    /\ pending' = IF p.ticket # 0 /\ p.got = NoFrame
                  THEN [p EXCEPT !.got = Failure] ELSE p
    /\ Report

\* Mutant: the counter of the frame itself would be taken again.
Genuine_Again(f) == rx' = f.ctr

\* The next frame must have a larger counter.
Genuine(f) == rx' = f.ctr + 1

\* _reader_loop, once a frame is complete.
Handle(f) ==
    \/ /\ f.ctr < rx /\ Dies("reauth", pending)
       /\ UNCHANGED <<rx, seen, since>>
    \/ /\ f.ctr >= rx /\ f.kind = "noise"       \* not decryptable: skipped
       /\ reader' = Reader("top")
       /\ UNCHANGED <<rx, seen, since, why, pending, told>>
    \/ /\ f.ctr >= rx /\ f.kind # "noise"
       /\ Genuine(f) /\ seen' = Append(seen, f.ctr)
       /\ since' = IF gap THEN since + 1 ELSE since
       /\ IF f.ctr = MaxCounter THEN Dies("spent", Route(f))
          ELSE /\ reader' = Reader("top") /\ pending' = Route(f)
               /\ UNCHANGED <<why, told>>

\* The finally clause of send_request; the lock goes to whoever waits.
Leave(t) ==
    /\ pc' = [pc EXCEPT ![t] = "off"] /\ mine' = [mine EXCEPT ![t] = NoCall]
    /\ IF lock = t THEN lock' = NoTask /\ pending' = NoPending
       ELSE UNCHANGED <<lock, pending>>

Goto(t, where) == pc' = [pc EXCEPT ![t] = where]

-----------------------------------------------------------------------------
(* subscribe() and unsubscribe().                                          *)

\* Responses are subscribed to first, and arrive from then on.
SubscribeResponses ==
    /\ life = "new" /\ life' = "half"
    /\ UNCHANGED <<tx, told, seqNext, request, worker, inbox, control,
                   charger, history>>

SubscribeControl ==
    /\ life = "half" /\ life' = "open" /\ reader' = Reader("top")
    /\ UNCHANGED <<tx, told, seqNext, request, rx, deferred, why, inbox,
                   control, charger, history>>

\* A request in flight is cancelled, which it turns into an error.
Unsubscribe ==
    /\ life \in {"new", "half", "open", "left"} /\ life' = "stopping"
    /\ IF lock \in Tasks THEN Leave(lock) ELSE UNCHANGED request
    /\ UNCHANGED <<tx, told, seqNext, worker, inbox, control, charger,
                   history>>

\* The caller gives up on unsubscribe() inside a stop_notify().
UnsubscribeInterrupted ==
    /\ life = "stopping" /\ life' = "left"
    /\ UNCHANGED <<tx, told, seqNext, request, worker, inbox, control,
                   charger, history>>

\* Both stop_notify() are through: the reader is cancelled and awaited.
UnsubscribeDone ==
    /\ life = "stopping" /\ life' = "closed"
    /\ reader' = Reader("off") /\ pending' = NoPending
    /\ UNCHANGED <<tx, told, seqNext, lock, pc, mine, rx, deferred, why,
                   inbox, control, charger, history>>

-----------------------------------------------------------------------------
(* send_request().                                                         *)

\* next_sequence(): never zero.
NextSequence == IF seqNext = SeqMax THEN 1 ELSE seqNext + 1

\* The caller builds its request, then queues for the lock.
Call(t) ==
    /\ pc[t] = "off" /\ calls < MaxCalls
    /\ calls' = calls + 1
    /\ mine' = [mine EXCEPT ![t] = [seq |-> seqNext, ticket |-> calls + 1]]
    /\ seqNext' = NextSequence
    /\ Goto(t, "lock")
    /\ UNCHANGED <<life, tx, told, lock, pending, worker, inbox, control,
                   charger, nonces, seen, since>>

Entering(t) == pc[t] = "lock" /\ lock = NoTask

\* Unsubscribed, or the reader has stopped.
EnterRefused(t) ==
    /\ Entering(t) /\ (Closing \/ ~Running)
    /\ Leave(t)
    /\ UNCHANGED <<session, worker, inbox, control, charger, history>>

EnterExhausted(t) ==
    /\ Entering(t) /\ ~Closing /\ Running /\ tx > MaxCounter
    /\ Report /\ Leave(t)
    /\ UNCHANGED <<life, tx, seqNext, worker, inbox, control, charger,
                   history>>

\* Mutant: the nonce is spent only when its frame has been uploaded.
Spend_Later == UNCHANGED tx

\* The nonce is spent before the first operation that may fail.
Spend == tx' = tx + 1

\* Mutant: a request may still begin while the session is closing.
MayBegin_Closing == Running /\ tx <= MaxCounter

MayBegin == ~Closing /\ Running /\ tx <= MaxCounter

\* The answer is expected before anything is written; then the announcement.
EnterSend(t) ==
    /\ Entering(t) /\ MayBegin
    /\ lock' = t /\ Goto(t, "announce")
    /\ pending' = [seq |-> mine[t].seq, ticket |-> mine[t].ticket,
                   got |-> NoFrame]
    /\ Spend /\ nonces' = Append(nonces, tx)
    /\ owed' = Append(owed, "RCV_RDY")
    /\ UNCHANGED <<life, told, seqNext, mine, worker, inbox, control, todo,
                   dctr, xfer, repeats, calls, seen, since>>

\* A write is through; _recv_until looks at the dropped mark, then waits.
Written(t) ==
    /\ \/ pc[t] = "announce" /\ Goto(t, "ready")
       \/ pc[t] = "upload" /\ Goto(t, "ok")
    /\ ~ctlGap
    /\ UNCHANGED <<session, lock, mine, pending, worker, inbox, control,
                   charger, history>>

\* Control frames carry no number: one that was meant for an earlier request
\* is as good.
TakeReady(t) ==
    /\ pc[t] = "ready" /\ ctl # <<>> /\ Head(ctl) = "RCV_RDY"
    /\ ctl' = Tail(ctl) /\ Goto(t, "upload")
    /\ todo' = todo \cup {mine[t]} /\ owed' = Append(owed, "RCV_OK")
    /\ UNCHANGED <<session, lock, mine, pending, worker, inbox, ctlGap, dctr,
                   xfer, repeats, history>>

TakeOk(t) ==
    /\ pc[t] = "ok" /\ ctl # <<>> /\ Head(ctl) = "RCV_OK"
    /\ ctl' = Tail(ctl) /\ Goto(t, "wait")
    /\ UNCHANGED <<session, lock, mine, pending, worker, inbox, ctlGap,
                   charger, history>>

\* Any other control frame is ignored, and the dropped mark looked at again.
TakeOther(t) ==
    /\ ctl # <<>> /\ ~ctlGap
    /\ \/ pc[t] = "ready" /\ Head(ctl) # "RCV_RDY"
       \/ pc[t] = "ok" /\ Head(ctl) # "RCV_OK"
    /\ ctl' = Tail(ctl)
    /\ UNCHANGED <<session, request, worker, inbox, ctlGap, charger, history>>

\* The future is done: an answer, or the reader's failure.
Return(t) ==
    /\ pc[t] = "wait" /\ pending.got # NoFrame
    /\ Leave(t)
    /\ UNCHANGED <<session, worker, inbox, control, charger, history>>

\* A timeout, a failed write, an overflow, or a cancellation from outside;
\* whatever was on its way for this request may still come.
RequestFails(t) ==
    /\ pc[t] # "off"
    /\ Leave(t)
    /\ UNCHANGED <<session, worker, inbox, control, charger, history>>

-----------------------------------------------------------------------------
(* _reader_loop() and _recv_encrypted().                                   *)

\* The dropped mark is looked at only between two complete frames.
ReaderOverflow ==
    /\ reader.at = "top" /\ gap
    /\ Dies("overflow", pending)
    /\ UNCHANGED <<life, tx, seqNext, lock, pc, mine, rx, deferred, inbox,
                   control, charger, history>>

ReaderDeferred ==
    /\ reader.at = "top" /\ ~gap /\ deferred # <<>>
    /\ deferred' = Tail(deferred) /\ Handle(Head(deferred))
    /\ UNCHANGED <<life, tx, seqNext, lock, pc, mine, inbox, control,
                   charger, calls, nonces>>

\* Mutant: the dropped mark is not looked at.
ReaderGet_Anyway ==
    /\ reader.at = "top" /\ deferred = <<>>
    /\ reader' = Reader("get")
    /\ UNCHANGED <<session, request, rx, deferred, why, inbox, control,
                   charger, history>>

\* Mutant: what was deferred waits until the queue is empty.
ReaderGet_DeferredLast ==
    /\ reader.at = "top" /\ ~gap /\ (deferred = <<>> \/ resp # <<>>)
    /\ reader' = Reader("get")
    /\ UNCHANGED <<session, request, rx, deferred, why, inbox, control,
                   charger, history>>

ReaderGet ==
    /\ reader.at = "top" /\ ~gap /\ deferred = <<>>
    /\ reader' = Reader("get")
    /\ UNCHANGED <<session, request, rx, deferred, why, inbox, control,
                   charger, history>>

\* The reader takes the next item of this kind off the queue.
Takes(where, tag) ==
    /\ reader.at = where /\ resp # <<>> /\ Head(resp).tag = tag
    /\ resp' = Tail(resp)
    /\ UNCHANGED <<life, tx, seqNext, lock, pc, mine, rx, gap, control, owed,
                   todo, dctr, repeats, history>>

ReaderTakesInline ==
    /\ Takes("get", "inline")
    /\ reader' = [Reader("ack") EXCEPT !.cur = Head(resp).frame]
    /\ UNCHANGED <<told, pending, deferred, why, xfer>>

\* A parcel without its announcement is an unknown frame.
ReaderSkipsPart ==
    /\ Takes("get", "part")
    /\ UNCHANGED <<told, pending, reader, deferred, why, xfer>>

\* The announcement is granted with RCV_RDY.
ReaderTakesAnnounce ==
    /\ Takes("get", "announce")
    /\ reader' = Reader("parts")
    /\ xfer' = IF xfer.st = "announced" THEN [xfer EXCEPT !.st = "granted"]
               ELSE xfer
    /\ UNCHANGED <<told, pending, deferred, why>>

\* An inline frame between two parcels is acknowledged and put off.
ReaderDefers ==
    /\ Takes("parts", "inline")
    /\ IF Len(deferred) < DeferMax
       THEN /\ deferred' = Append(deferred, Head(resp).frame)
            /\ UNCHANGED <<told, pending, reader, why>>
       ELSE Dies("framing", pending) /\ UNCHANGED deferred
    /\ UNCHANGED xfer

\* A second announcement reads as a parcel with index 0.
ReaderMisframed ==
    /\ Takes("parts", "announce")
    /\ Dies("framing", pending)
    /\ UNCHANGED <<deferred, xfer>>

\* The first parcel has the counter; the last one is answered with RCV_OK.
ReaderTakesPart ==
    /\ Takes("parts", "part")
    /\ LET i == Head(resp).idx
           got == reader.parts \cup {i}
       IN  reader' = [at |-> IF got = 1 .. Parts THEN "ack" ELSE "parts",
                      cur |-> IF i = 1 THEN Head(resp).frame ELSE reader.cur,
                      parts |-> got]
    /\ UNCHANGED <<told, pending, deferred, why, xfer>>

\* The acknowledgement is written: the frame is decrypted and routed.
ReaderHandles ==
    /\ reader.at = "ack"
    /\ Handle(reader.cur)
    /\ UNCHANGED <<life, tx, seqNext, lock, pc, mine, deferred, inbox,
                   control, charger, calls, nonces>>

\* A write fails, or the next parcel does not come in time.
ReaderFails ==
    /\ reader.at \in {"ack", "parts"}
    /\ Dies("io", pending)
    /\ UNCHANGED <<life, tx, seqNext, lock, pc, mine, rx, deferred, inbox,
                   control, charger, history>>

-----------------------------------------------------------------------------
(* The charger.                                                            *)

\* Notifications are delivered from subscribe() on until stop_notify().
Listening == life \notin {"new", "closed"}

\* A control frame comes, at last, or never.
SendControl ==
    /\ owed # <<>> /\ owed' = Tail(owed)
    /\ \/ /\ Listening /\ life # "half"
          /\ ctl' = Put(ctl, Head(owed))
          /\ ctlGap' = (ctlGap \/ Len(ctl) = QueueMax)
       \/ UNCHANGED control
    /\ UNCHANGED <<session, request, worker, inbox, todo, dctr, xfer,
                   repeats, history>>

\* One frame under the charger's next counter, inline or announced.
SendFrame(k, s, n) ==
    /\ Listening /\ dctr <= MaxCounter /\ dctr' = dctr + 1
    /\ LET f == Frame(dctr, k, s, n)
       IN  \/ /\ "inline" \in Forms
              /\ Arrives(Item("inline", 0, f))
              /\ UNCHANGED xfer
           \/ /\ "parcel" \in Forms /\ xfer.st = "none"
              /\ Arrives(Item("announce", 0, NoFrame))
              /\ xfer' = [st |-> "announced", frame |-> f, sent |-> 0]
    /\ UNCHANGED <<session, request, worker, control, owed, repeats, history>>

\* A request is answered, however late, and only once.
SendAnswer(r) ==
    /\ r \in todo /\ todo' = todo \ {r}
    /\ SendFrame("reply", r.seq, r.ticket)

\* A setting that was written is echoed under the sequence number of the
\* request; telemetry has one of its own; a frame may arrive damaged.
SendEvent ==
    /\ \/ \E r \in todo : SendFrame("event", r.seq, r.ticket)
       \/ SendFrame("event", 0, 0)
       \/ SendFrame("noise", 0, 0)
    /\ UNCHANGED todo

SendPart ==
    /\ Listening /\ xfer.st = "granted" /\ xfer.sent < Parts
    /\ xfer' = [xfer EXCEPT !.sent = @ + 1]
    /\ Arrives(Item("part", xfer.sent + 1, xfer.frame))
    /\ UNCHANGED <<session, request, worker, control, owed, todo, dctr,
                   repeats, history>>

\* The long frame has been confirmed, or the charger gives up on it.
EndTransfer ==
    /\ xfer.st # "none" /\ xfer' = NoTransfer
    /\ UNCHANGED <<session, request, worker, inbox, control, owed, todo,
                   dctr, repeats, history>>

\* A frame or a parcel that was sent before arrives once more.
Repeat ==
    /\ Listening /\ repeats < MaxRepeats
    /\ repeats' = repeats + 1
    /\ \/ \E c \in 0 .. MaxCounter :
            c < dctr /\ Arrives(Item("inline", 0, Frame(c, "event", 0, 0)))
       \/ xfer.sent > 0 /\ Arrives(Item("part", xfer.sent, xfer.frame))
    /\ UNCHANGED <<session, request, worker, control, owed, todo, dctr, xfer,
                   history>>

-----------------------------------------------------------------------------
Requests(t) ==
    \/ Call(t) \/ EnterRefused(t) \/ EnterExhausted(t) \/ EnterSend(t)
    \/ Written(t) \/ TakeReady(t) \/ TakeOk(t) \/ TakeOther(t)
    \/ Return(t) \/ RequestFails(t)

ReaderLoop ==
    \/ ReaderOverflow \/ ReaderDeferred \/ ReaderGet
    \/ ReaderTakesInline \/ ReaderSkipsPart \/ ReaderTakesAnnounce
    \/ ReaderDefers \/ ReaderMisframed \/ ReaderTakesPart
    \/ ReaderHandles \/ ReaderFails

Lifecycle ==
    \/ SubscribeResponses \/ SubscribeControl
    \/ Unsubscribe \/ UnsubscribeInterrupted \/ UnsubscribeDone

Charger ==
    \/ SendControl
    \/ \E r \in todo : SendAnswer(r)
    \/ SendEvent \/ SendPart \/ EndTransfer \/ Repeat

Next == (\E t \in Tasks : Requests(t)) \/ ReaderLoop \/ Lifecycle \/ Charger

Spec == Init /\ [][Next]_vars

Calls == [seq : 0 .. SeqMax, ticket : 0 .. MaxCalls]
Pendings == [seq : 0 .. SeqMax, ticket : 0 .. MaxCalls, got : Frames]
Readers == [at : {"off", "top", "get", "parts", "ack", "dead"},
            cur : Frames, parts : SUBSET (1 .. Parts)]
Controls == {"RCV_RDY", "RCV_OK"}
Reasons == {"reauth", "spent", "overflow", "framing", "io"}

SessionTypeOK ==
    /\ life \in {"new", "half", "open", "stopping", "left", "closed"}
    /\ tx \in 0 .. MaxCounter + 1 /\ told \in 0 .. 1
    /\ seqNext \in 1 .. SeqMax

RequestTypeOK ==
    /\ lock \in Tasks \cup {NoTask}
    /\ pc \in [Tasks -> {"off", "lock", "announce", "ready", "upload", "ok",
                         "wait"}]
    /\ mine \in [Tasks -> Calls]
    /\ pending \in Pendings

WorkerTypeOK ==
    /\ reader \in Readers
    /\ rx \in 0 .. MaxCounter + 1
    /\ deferred \in Seq(Frames) /\ Len(deferred) <= DeferMax
    /\ why \in Reasons \cup {"none"}

QueuesTypeOK ==
    /\ resp \in Seq(Items) /\ Len(resp) <= QueueMax /\ gap \in BOOLEAN
    /\ ctl \in Seq(Controls) /\ Len(ctl) <= QueueMax /\ ctlGap \in BOOLEAN

ChargerTypeOK ==
    /\ owed \in Seq(Controls)
    /\ todo \subseteq Calls
    /\ dctr \in 0 .. MaxCounter + 1
    /\ xfer \in [st : {"none", "announced", "granted"}, frame : Frames,
                 sent : 0 .. Parts]
    /\ repeats \in 0 .. MaxRepeats

HistoryTypeOK ==
    /\ calls \in 0 .. MaxCalls
    /\ nonces \in Seq(0 .. MaxCounter) /\ seen \in Seq(0 .. MaxCounter)
    /\ since \in Nat

\* Every variable keeps to the values the code can give it.
TypeOK ==
    /\ SessionTypeOK /\ RequestTypeOK /\ WorkerTypeOK
    /\ QueuesTypeOK /\ ChargerTypeOK /\ HistoryTypeOK
=============================================================================
