---------------------------- MODULE Coordinator ----------------------------
(***************************************************************************)
(* AD1204UCoordinator (coordinator.py): the one owner of the BLE           *)
(* connection to the charger.  Polls and writes take an asyncio lock,      *)
(* (re)connect and log in when needed, and exchange one MIOT request; next *)
(* to them an idle lease, a background cleanup and the shutdown want the   *)
(* same lock, while disconnect callbacks, session failures and pushed      *)
(* property values arrive between any two awaits.  One action is one run   *)
(* of the event loop from an await (or a callback's start) to the next.    *)
(*                                                                         *)
(* The charger, BlueZ and Home Assistant's refresh loop are external: they *)
(* are modelled by what the coordinator can see of them.                   *)
(***************************************************************************)
EXTENDS Naturals, Sequences

CONSTANTS
    Tasks,          \* tasks that may poll or write at the same time
    Conns,          \* BLE clients (and their sessions); reused when forgotten
    NoConn,         \* "None" for a client or a session
    Keys,           \* the charger's property keys
    IdleRelease,    \* ticks of the idle lease; 0: never release
    MaxVersion,     \* bound: how often the charger changes a property
    CancelAt        \* where a task may be cancelled from outside

Agents == {"free", "idle", "cleanup", "shutdown"}

ASSUME ConstantsAssumption ==
    /\ NoConn \notin Conns
    /\ IdleRelease \in Nat
    /\ MaxVersion \in Nat \ {0}
    /\ Agents \cap Tasks = {}

Versions == 0 .. MaxVersion         \* 0: the key is absent
Values == [Keys -> Versions]
Nothing == [k \in Keys |-> 0]

VARIABLES
    \* The charger and the radio.
    link,           \* client.is_connected
    readers,        \* sessions whose notification reader is running
    spent,          \* sessions with requires_reauthentication
    notices,        \* disconnect callbacks waiting on the event loop
    wire,           \* frames each session has not read yet
    dev,            \* the charger's own property values, as versions
    \* Connections.
    open,           \* clients established and not yet disconnect()ed
    current,        \* _client, _auth and _session
    connecting,     \* _connecting_client
    failed,         \* open clients reported as failed while they were current
    \* The lock and what its holder is doing.
    lock,
    pc,             \* where each task is suspended
    mode,           \* what each task is doing: a poll or a write
    op,             \* the lock holder's locals around its request
    rel,            \* the resources being released
    \* The cache and what Home Assistant shows.
    props,          \* _property_values
    pend,           \* _pending_notification_values
    baseline,       \* _baseline_session
    pubPending,     \* _notification_publish_pending
    pubs,           \* _publish_notification_update calls on the event loop
    data,           \* the snapshot of the last update
    success,        \* last_update_success
    \* Background tasks.
    idle,           \* _idle_task
    cleanup,        \* _disconnect_task
    stop            \* async_shutdown

peer == <<link, readers, spent, notices, wire, dev>>
conns == <<open, current, connecting, failed>>
work == <<lock, pc, mode, op, rel>>
cache == <<props, pend, baseline, pubPending>>
shown == <<pubs, data, success>>
bg == <<idle, cleanup, stop>>
vars == <<peer, conns, work, cache, shown, bg>>

NoOp == [conn |-> NoConn, same |-> FALSE, req |-> "none", vals |-> Nothing]
NoRel == [conn |-> NoConn, at |-> "none"]
NoIdle == [at |-> "none", conn |-> NoConn, left |-> 0]
NoCleanup == [at |-> "none", conn |-> NoConn]

Push(k, v) == [tag |-> "push", key |-> k, ver |-> v]
Reply(vs) == [tag |-> "reply", vals |-> vs]
Frames == [tag : {"push"}, key : Keys, ver : Versions]
            \cup [tag : {"reply"}, vals : Values]
IsPush(f) == f.tag = "push"

\* The frames of w without the one answer that may be among them.
WithoutAnswer(w) ==
    IF \A i \in DOMAIN w : IsPush(w[i]) THEN w
    ELSE LET a == CHOOSE i \in DOMAIN w : ~IsPush(w[i])
         IN  SubSeq(w, 1, a - 1) \o SubSeq(w, a + 1, Len(w))

Queued(s, x) == \E i \in DOMAIN s : s[i] = x

Init ==
    /\ link = [c \in Conns |-> "down"]
    /\ readers = {} /\ spent = {} /\ notices = {}
    /\ wire = [c \in Conns |-> <<>>]
    /\ dev = [k \in Keys |-> 1]
    /\ open = {} /\ current = NoConn /\ connecting = NoConn /\ failed = {}
    /\ lock = "free"
    /\ pc = [t \in Tasks |-> "off"]
    /\ mode = [t \in Tasks |-> "none"]
    /\ op = NoOp /\ rel = NoRel
    /\ props = Nothing /\ pend = Nothing /\ baseline = NoConn
    /\ pubPending = FALSE /\ pubs = <<>>
    /\ data = Nothing /\ success = FALSE
    /\ idle = NoIdle /\ cleanup = NoCleanup /\ stop = "no"

-----------------------------------------------------------------------------
(* Pieces the operations share.                                            *)

Goto(t, where) == pc' = [pc EXCEPT ![t] = where]

\* The operation is over: back to the caller.
Leave(t) ==
    /\ Goto(t, "off")
    /\ mode' = [mode EXCEPT ![t] = "none"]

\* Mutant: the resources are looked up after they have been forgotten.
Captured_TooLate == NoRel

\* session, auth and client as _disconnect() captures them.
Captured == IF current = NoConn THEN NoRel
            ELSE [conn |-> current, at |-> "session"]

\* The synchronous half of _disconnect(): the coordinator forgets the
\* connection and its cache at once, then starts to release the resources.
\* The generation moves on, so whatever the holder had captured is void.
ForgetConnection ==
    /\ current' = NoConn /\ rel' = Captured /\ op' = NoOp
    /\ props' = Nothing /\ pend' = Nothing
    /\ baseline' = NoConn /\ pubPending' = FALSE

\* Home Assistant's refresh records a failed poll; a failed write only raises.
Reported(t) == IF mode[t] = "poll" THEN FALSE ELSE success

\* The except clauses of both operations: _disconnect(), then raise.
Fail(t) ==
    /\ ForgetConnection
    /\ IF current = NoConn
       THEN lock' = "free" /\ Leave(t) /\ success' = Reported(t)
       ELSE lock' = t /\ Goto(t, "drop") /\ UNCHANGED <<mode, success>>

\* client, generation and request of the operation that now talks to c.
BeginCall(t, c) ==
    /\ Goto(t, "call")
    /\ op' = [conn |-> c, same |-> TRUE, req |-> "sent", vals |-> Nothing]
    /\ pend' = IF mode[t] = "poll" THEN Nothing ELSE pend

\* setup_generation is captured before the first await of the connection.
BeginDial(t) ==
    /\ Goto(t, "dial")
    /\ op' = [NoOp EXCEPT !.same = TRUE]

\* Mutant: a timer that is still running is kept for the new connection.
ArmIdleRelease_KeepsTimer(c) ==
    idle' = IF IdleRelease = 0 THEN NoIdle
            ELSE IF idle.at # "none" THEN idle
            ELSE [at |-> "sleep", conn |-> c, left |-> IdleRelease]

\* A fresh lease for c; a timer that is still running is cancelled.
ArmIdleRelease(c) ==
    idle' = IF IdleRelease = 0 THEN NoIdle
            ELSE [at |-> "sleep", conn |-> c, left |-> IdleRelease]

\* _disconnect_task is started unless an earlier one is still alive.
ScheduleCleanup(c) ==
    cleanup' = IF cleanup.at # "none" THEN cleanup
               ELSE [at |-> "wait", conn |-> c]

\* The common tail of _handle_disconnect and _handle_session_error.
MarkFailed(c) ==
    /\ op' = [op EXCEPT !.same = FALSE]
    /\ baseline' = NoConn /\ pubPending' = FALSE
    /\ success' = FALSE /\ failed' = failed \cup {c}
    /\ ScheduleCleanup(c)

\* Mutant: only identity and link are compared, not the generation.
ConnectionUnchanged_NoGeneration ==
    /\ current = op.conn /\ link[op.conn] = "up"

\* The answer is used only for the connection the request was made on.
ConnectionUnchanged ==
    /\ op.same /\ current = op.conn /\ link[op.conn] = "up"

SetupStillValid ==
    /\ stop = "no" /\ op.same /\ link[connecting] = "up"

\* Mutant: the shutdown is not looked at before connecting.
MayConnect_Always == TRUE

MayConnect == stop = "no"
Reusable(c) == link[c] = "up" /\ c \notin spent

\* Mutant: only a live connection is looked at before the next is made.
Attached_Live == current # NoConn /\ link[current] = "up"

\* _client, _auth or _session is not None.
Attached == current # NoConn

\* Mutant: whatever is attached is taken for the connection meant.
StillAttached_Any(c) == current # NoConn

\* The connection a timer, a cleanup or a push was about is still the one.
StillAttached(c) == current = c

\* Mutant: the answer replaces what was pushed during the read.
Overlay_Ignored(vs) == vs

\* values.update(pending): what was pushed during the read is newer.
Overlay(vs) == [k \in Keys |-> IF pend[k] # 0 THEN pend[k] ELSE vs[k]]

\* The reader of session c has a frame to take.
Readable(c) == c \in readers /\ wire[c] # <<>>

\* Nothing of the old client can be seen any more: a new one takes its name.
Forgotten(c) ==
    /\ c \notin open \cup notices
    /\ ~Readable(c)
    /\ link[c] = "down"
    /\ c \notin {idle.conn, cleanup.conn}
    /\ ~Queued(pubs, c)

-----------------------------------------------------------------------------
(* Entering an operation.                                                  *)

\* Home Assistant starts no refresh once the shutdown has been requested.
Start(t, what) ==
    /\ pc[t] = "off"
    /\ what = "poll" => stop = "no"
    /\ mode' = [mode EXCEPT ![t] = what]
    /\ Goto(t, "lock")
    /\ UNCHANGED <<peer, conns, lock, op, rel, cache, shown, bg>>

Acquiring(t) == pc[t] = "lock" /\ lock = "free"

AcquireRefused(t) ==
    /\ Acquiring(t)
    /\ ~MayConnect
    /\ Fail(t)
    /\ UNCHANGED <<peer, open, connecting, failed, pubs, data, bg>>

\* Mutant: every use of the connection extends its lease.
AcquireReuse_Rearms(t) ==
    /\ Acquiring(t) /\ MayConnect
    /\ Attached /\ Reusable(current)
    /\ lock' = t /\ BeginCall(t, current)
    /\ ArmIdleRelease(current)
    /\ UNCHANGED <<peer, conns, mode, rel, props, baseline, pubPending,
                   shown, cleanup, stop>>

AcquireReuse(t) ==
    /\ Acquiring(t) /\ MayConnect
    /\ Attached /\ Reusable(current)
    /\ lock' = t /\ BeginCall(t, current)
    /\ UNCHANGED <<peer, conns, mode, rel, props, baseline, pubPending,
                   shown, bg>>

\* A connection that is down or out of nonces is released before the next.
AcquireStale(t) ==
    /\ Acquiring(t) /\ MayConnect
    /\ Attached /\ ~Reusable(current)
    /\ lock' = t /\ Goto(t, "refit") /\ ForgetConnection
    /\ UNCHANGED <<peer, open, connecting, failed, mode, shown, bg>>

AcquireFresh(t) ==
    /\ Acquiring(t) /\ MayConnect
    /\ ~Attached
    /\ lock' = t /\ BeginDial(t)
    /\ UNCHANGED <<peer, conns, mode, rel, cache, shown, bg>>

-----------------------------------------------------------------------------
(* Connecting: establish_connection, then subscribe, greet, login, the     *)
(* MIOT session and the settle delay.                                      *)

\* Not visible, or every attempt to connect failed.
DialFails(t) ==
    /\ pc[t] = "dial"
    /\ Fail(t)
    /\ UNCHANGED <<peer, open, connecting, failed, pubs, data, bg>>

DialOk(t, c) ==
    /\ pc[t] = "dial"
    /\ Forgotten(c)
    /\ link' = [link EXCEPT ![c] = "up"]
    /\ wire' = [wire EXCEPT ![c] = <<>>]
    /\ readers' = readers \cup {c}
    /\ open' = open \cup {c} /\ connecting' = c
    /\ Goto(t, "setup")
    /\ UNCHANGED <<spent, notices, dev, current, failed, lock, mode, op, rel,
                   cache, shown, bg>>

\* What the setup has created so far is released by a shielded task.
UndoSetup(t) ==
    /\ pc[t] = "setup"
    /\ \E at \in {"session", "auth", "client"} :
           rel' = [conn |-> connecting, at |-> at]
    /\ connecting' = NoConn /\ op' = NoOp
    /\ Goto(t, "undo")
    /\ UNCHANGED <<peer, open, current, failed, lock, cache, shown, bg>>

\* Any await of the setup raises, or the check at its end does.
SetupFails(t) == UndoSetup(t) /\ UNCHANGED mode

SetupOk(t) ==
    /\ pc[t] = "setup"
    /\ SetupStillValid
    /\ connecting' = NoConn /\ current' = connecting
    /\ ArmIdleRelease(connecting)
    /\ BeginCall(t, connecting)
    /\ UNCHANGED <<peer, open, failed, lock, mode, rel, props, baseline,
                   pubPending, shown, cleanup, stop>>

-----------------------------------------------------------------------------
(* The request and its answer.                                             *)

\* The charger serves the request: a read is answered with a snapshot; a
\* write that changes a value is echoed as a push before its answer.
Serve ==
    /\ op.req = "sent" /\ op.conn \in readers /\ link[op.conn] = "up"
    /\ op' = [op EXCEPT !.req = "served"]
    /\ \E t \in Tasks :
        /\ lock = t
        /\ \/ /\ wire' = [wire EXCEPT ![op.conn] = Append(@, Reply(dev))]
              /\ UNCHANGED dev
           \/ \E k \in Keys :
                /\ mode[t] = "write"
                /\ dev[k] < MaxVersion
                /\ dev' = [dev EXCEPT ![k] = @ + 1]
                /\ wire' = [wire EXCEPT ![op.conn] =
                                @ \o <<Push(k, dev'[k]), Reply(dev')>>]
    /\ UNCHANGED <<link, readers, spent, notices, conns, lock, pc, mode, rel,
                   cache, shown, bg>>

\* An answer to the request of a holder that has gone is ignored.
DeliverReply(c) ==
    /\ Readable(c) /\ ~IsPush(Head(wire[c]))
    /\ wire' = [wire EXCEPT ![c] = Tail(@)]
    /\ op' = IF op.conn = c /\ op.req = "served"
             THEN [op EXCEPT !.req = "answered", !.vals = Head(wire[c]).vals]
             ELSE op
    /\ UNCHANGED <<link, readers, spent, notices, dev, conns, lock, pc, mode,
                   rel, cache, shown, bg>>

\* _handle_notification: merge one pushed value; publish once per turn, and
\* only on top of a completed read of the same session.
HandleNotification(c, k, v) ==
    /\ pend' = [pend EXCEPT ![k] = v] /\ props' = [props EXCEPT ![k] = v]
    /\ IF props[k] # v /\ baseline = c /\ ~pubPending
       THEN pubPending' = TRUE /\ pubs' = Append(pubs, c)
       ELSE UNCHANGED <<pubPending, pubs>>

DeliverPush(c) ==
    /\ Readable(c) /\ IsPush(Head(wire[c]))
    /\ wire' = [wire EXCEPT ![c] = Tail(@)]
    /\ IF StillAttached(c)
       THEN HandleNotification(c, Head(wire[c]).key, Head(wire[c]).ver)
       ELSE UNCHANGED <<pend, props, pubPending, pubs>>
    /\ UNCHANGED <<link, readers, spent, notices, dev, conns, work, baseline,
                   data, success, bg>>

\* Mutant: the pending flag is never cleared by the publication.
Publish_KeepsPending ==
    /\ pubs # <<>> /\ pubs' = Tail(pubs)
    /\ IF current = Head(pubs) /\ baseline = Head(pubs)
       THEN data' = props /\ success' = TRUE
       ELSE UNCHANGED <<data, success>>
    /\ UNCHANGED <<peer, conns, work, cache, bg>>

\* _publish_notification_update.
Publish ==
    /\ pubs # <<>> /\ pubs' = Tail(pubs)
    /\ pubPending' = FALSE
    /\ IF current = Head(pubs) /\ baseline = Head(pubs)
       THEN data' = props /\ success' = TRUE
       ELSE UNCHANGED <<data, success>>
    /\ UNCHANGED <<peer, conns, work, props, pend, baseline, bg>>

\* The tail of _async_update_data and of Home Assistant's refresh around it.
PollOk(t) ==
    /\ pc[t] = "call" /\ mode[t] = "poll"
    /\ op.req = "answered" /\ ConnectionUnchanged
    /\ props' = Overlay(op.vals) /\ pend' = Nothing /\ baseline' = current
    /\ data' = props' /\ success' = TRUE
    /\ lock' = "free" /\ op' = NoOp /\ Leave(t)
    /\ UNCHANGED <<peer, conns, rel, pubPending, pubs, bg>>

\* A completed write extends the lease, waits a moment and refreshes.
WriteOk(t) ==
    /\ pc[t] = "call" /\ mode[t] = "write"
    /\ op.req = "answered" /\ ConnectionUnchanged
    /\ ArmIdleRelease(current)
    /\ lock' = "free" /\ op' = NoOp /\ Goto(t, "settle")
    /\ UNCHANGED <<peer, conns, mode, rel, cache, shown, cleanup, stop>>

\* Timeout, rejected request, dead reader, or the connection has changed.
CallFails(t) ==
    /\ pc[t] = "call"
    /\ Fail(t)
    /\ UNCHANGED <<peer, open, connecting, failed, pubs, data, bg>>

\* async_refresh after a write; it returns at once during the shutdown.
SettleDone(t) ==
    /\ pc[t] = "settle"
    /\ IF stop = "no"
       THEN Goto(t, "lock") /\ mode' = [mode EXCEPT ![t] = "poll"]
       ELSE Leave(t)
    /\ UNCHANGED <<peer, conns, lock, op, rel, cache, shown, bg>>

-----------------------------------------------------------------------------
(* Releasing a connection: session.unsubscribe(), auth.unsubscribe(),      *)
(* client.disconnect(), each bounded by a timeout and its errors dropped.  *)

\* unsubscribe() stops the reader, unless it times out before it gets there.
ReleaseNext ==
    /\ \/ /\ rel.at = "session"
          /\ rel' = [rel EXCEPT !.at = "auth"]
          /\ readers' \in {readers, readers \ {rel.conn}}
       \/ /\ rel.at = "auth"
          /\ rel' = [rel EXCEPT !.at = "client"]
          /\ UNCHANGED readers
    /\ UNCHANGED <<link, spent, notices, wire, dev, conns, lock, pc, mode, op,
                   cache, shown, bg>>

\* disconnect() ends the link, with or without a callback, or times out.
ClientReleased ==
    /\ rel.at = "client" /\ rel' = NoRel /\ open' = open \ {rel.conn}
    /\ spent' = spent \ {rel.conn} /\ failed' = failed \ {rel.conn}
    /\ \/ UNCHANGED <<link, notices>>
       \/ /\ link' = [link EXCEPT ![rel.conn] = "down"]
          /\ notices' \in {notices, notices \cup {rel.conn}}
    /\ UNCHANGED <<readers, wire, dev, current, connecting, cache, pubs, data>>

\* The reconnect goes on once the stale connection is gone.
RefitReleased(t) ==
    /\ pc[t] = "refit"
    /\ ClientReleased
    /\ BeginDial(t)
    /\ UNCHANGED <<lock, mode, success, bg>>

\* A failed operation raises once its connection is gone.
DropReleased(t) ==
    /\ pc[t] = "drop"
    /\ ClientReleased
    /\ lock' = "free" /\ Leave(t) /\ success' = Reported(t)
    /\ UNCHANGED <<op, bg>>

\* A failed or cancelled setup raises once its client is gone; the
\* _disconnect() on the way out finds nothing attached.
UndoReleased(t) ==
    /\ pc[t] \in {"undo", "undoBare"}
    /\ ClientReleased
    /\ lock' = "free" /\ Leave(t) /\ success' = Reported(t)
    /\ UNCHANGED <<op, bg>>

\* Mutant: the cleanup is joined with the lock still held.
ShutdownReleased_KeepsLock ==
    /\ lock = "shutdown"
    /\ stop' = "join"
    /\ UNCHANGED <<lock, idle, cleanup>>

ShutdownReleased ==
    /\ lock = "shutdown"
    /\ stop' = "join" /\ lock' = "free"
    /\ UNCHANGED <<idle, cleanup>>

IdleReleased ==
    /\ lock = "idle"
    /\ idle' = NoIdle /\ lock' = "free"
    /\ UNCHANGED <<cleanup, stop>>

CleanupReleased ==
    /\ lock = "cleanup"
    /\ cleanup' = NoCleanup /\ lock' = "free"
    /\ UNCHANGED <<idle, stop>>

\* The idle timer, the cleanup or the shutdown is done with its release.
AgentReleased ==
    /\ ClientReleased
    /\ IdleReleased \/ CleanupReleased \/ ShutdownReleased
    /\ UNCHANGED <<pc, mode, op, success>>

-----------------------------------------------------------------------------
(* A task is cancelled from outside (CancelledError at its await).         *)

\* Before a connection is attached, and after a write, only the lock is
\* given back.
CancelPlain(t) ==
    /\ pc[t] \in {"lock", "dial", "settle"} \cap CancelAt
    /\ lock' = IF lock = t THEN "free" ELSE lock
    /\ op' = IF lock = t THEN NoOp ELSE op
    /\ Leave(t)
    /\ UNCHANGED <<peer, conns, rel, cache, shown, bg>>

\* The connection in use stays attached; an answer that still comes has no
\* matching sequence number, so it is taken off the wire here.
CancelCall(t) ==
    /\ pc[t] = "call" /\ "call" \in CancelAt
    /\ lock' = "free" /\ op' = NoOp
    /\ wire' = [wire EXCEPT ![op.conn] = WithoutAnswer(@)]
    /\ Leave(t)
    /\ UNCHANGED <<link, readers, spent, notices, dev, conns, rel, cache,
                   shown, bg>>

\* The setup cleans up after a cancellation as after any other exception.
CancelSetup(t) ==
    /\ "setup" \in CancelAt
    /\ UndoSetup(t)
    /\ mode' = [mode EXCEPT ![t] = "cancelled"]

\* asyncio.shield() keeps the cleanup running; the task now awaits it bare.
CancelShielded(t) ==
    /\ pc[t] = "undo" /\ "undo" \in CancelAt
    /\ Goto(t, "undoBare")
    /\ UNCHANGED <<peer, conns, lock, mode, op, rel, cache, shown, bg>>

\* Anywhere else in a release CancelledError passes every except clause of
\* _cleanup_resources: what is not released yet stays behind.
CancelRelease(t) ==
    /\ pc[t] \in {"undoBare", "refit", "drop"} \cap CancelAt
    /\ rel' = NoRel /\ lock' = "free" /\ Leave(t)
    /\ UNCHANGED <<peer, conns, op, cache, shown, bg>>

Cancel(t) ==
    \/ CancelPlain(t) \/ CancelCall(t) \/ CancelSetup(t)
    \/ CancelShielded(t) \/ CancelRelease(t)

-----------------------------------------------------------------------------
(* What the radio and the charger do on their own.                         *)

\* The link is lost; BlueZ may fail to tell the client's callback.
LinkDrop(c) ==
    /\ link[c] = "up"
    /\ link' = [link EXCEPT ![c] = "down"]
    /\ notices' \in {notices, notices \cup {c}}
    /\ UNCHANGED <<readers, spent, wire, dev, conns, work, cache, shown, bg>>

\* _handle_disconnect.
HandleDisconnect(c) ==
    /\ c \in notices
    /\ notices' = notices \ {c}
    /\ \/ /\ connecting = c
          /\ op' = [op EXCEPT !.same = FALSE]
          /\ UNCHANGED <<failed, baseline, pubPending, success, cleanup>>
       \/ /\ current = c
          /\ MarkFailed(c)
       \/ /\ c \notin {connecting, current}
          /\ UNCHANGED <<failed, op, baseline, pubPending, success, cleanup>>
    /\ UNCHANGED <<link, readers, spent, wire, dev, open, current,
                   connecting, lock, pc, mode, rel, props, pend, pubs, data,
                   idle, stop>>

\* The reader of an attached or half set-up session stops with an error;
\* _handle_session_error looks at it only if the session is the current one.
ReaderDies(c) ==
    /\ c \in {current, connecting} \cap readers
    /\ readers' = readers \ {c}
    /\ IF current = c
       THEN MarkFailed(c)
       ELSE UNCHANGED <<failed, op, baseline, pubPending, success, cleanup>>
    /\ UNCHANGED <<link, spent, notices, wire, dev, open, current,
                   connecting, lock, pc, mode, rel, props, pend, pubs, data,
                   idle, stop>>

\* The last nonce of the current session has been used.
NoncesSpent ==
    /\ current \notin spent \cup {NoConn}
    /\ spent' = spent \cup {current}
    /\ UNCHANGED <<link, readers, notices, wire, dev, conns, work, cache,
                   shown, bg>>

\* A property changes on the charger, which pushes it to its peer.
Change(k) ==
    /\ dev[k] < MaxVersion
    /\ dev' = [dev EXCEPT ![k] = @ + 1]
    /\ wire' = [c \in Conns |->
                   IF link[c] = "up" THEN Append(wire[c], Push(k, dev'[k]))
                   ELSE wire[c]]
    /\ UNCHANGED <<link, readers, spent, notices, conns, work, cache, shown,
                   bg>>

-----------------------------------------------------------------------------
(* The idle lease, the background cleanup and the shutdown.                *)

\* Mutant: the timer does not stop at the end of its lease.
IdleTick_Underflow ==
    /\ idle.at = "sleep"
    /\ idle' = [idle EXCEPT !.left = @ - 1]
    /\ UNCHANGED <<peer, conns, work, cache, shown, cleanup, stop>>

IdleTick ==
    /\ idle.at = "sleep"
    /\ idle' = IF idle.left > 1 THEN [idle EXCEPT !.left = @ - 1]
               ELSE [idle EXCEPT !.at = "wait", !.left = 0]
    /\ UNCHANGED <<peer, conns, work, cache, shown, cleanup, stop>>

\* Take the lock for a release of the attached connection.
SeizeFor(agent) ==
    /\ lock' = agent
    /\ ForgetConnection

IdleAcquire ==
    /\ idle.at = "wait" /\ lock = "free"
    /\ IF StillAttached(idle.conn)
       THEN SeizeFor("idle") /\ idle' = [idle EXCEPT !.at = "release"]
       ELSE idle' = NoIdle /\ UNCHANGED <<current, lock, op, rel, cache>>
    /\ UNCHANGED <<peer, open, connecting, failed, pc, mode, shown, cleanup,
                   stop>>

CleanupAcquire ==
    /\ cleanup.at = "wait" /\ lock = "free"
    /\ IF StillAttached(cleanup.conn)
       THEN SeizeFor("cleanup") /\ cleanup' = [cleanup EXCEPT !.at = "release"]
       ELSE /\ cleanup' = NoCleanup
            /\ UNCHANGED <<current, lock, op, rel, cache>>
    /\ UNCHANGED <<peer, open, connecting, failed, pc, mode, shown, idle,
                   stop>>

RequestShutdown ==
    /\ stop = "no" /\ stop' = "wait"
    /\ UNCHANGED <<peer, conns, work, cache, shown, idle, cleanup>>

\* The timer is cancelled only now, when it cannot be inside its release.
ShutdownAcquire ==
    /\ stop = "wait" /\ lock = "free" /\ idle' = NoIdle
    /\ ForgetConnection
    /\ IF current = NoConn
       THEN stop' = "join" /\ UNCHANGED lock
       ELSE stop' = "release" /\ lock' = "shutdown"
    /\ UNCHANGED <<peer, open, connecting, failed, pc, mode, shown, cleanup>>

\* The idle task is cancelled already; a cleanup is waited for.
ShutdownJoin ==
    /\ stop = "join" /\ cleanup.at = "none" /\ stop' = "done"
    /\ UNCHANGED <<peer, conns, work, cache, shown, idle, cleanup>>

-----------------------------------------------------------------------------
Operation(t) ==
    \/ AcquireRefused(t) \/ AcquireReuse(t) \/ AcquireStale(t)
    \/ AcquireFresh(t)
    \/ DialFails(t) \/ (\E c \in Conns : DialOk(t, c))
    \/ SetupFails(t) \/ SetupOk(t)
    \/ PollOk(t) \/ WriteOk(t) \/ CallFails(t) \/ SettleDone(t)
    \/ RefitReleased(t) \/ DropReleased(t) \/ UndoReleased(t)

Background ==
    \/ ReleaseNext
    \/ AgentReleased
    \/ IdleTick \/ IdleAcquire \/ CleanupAcquire
    \/ ShutdownAcquire \/ ShutdownJoin
    \/ Publish

Peer ==
    \/ Serve
    \/ NoncesSpent
    \/ \E c \in Conns :
        \/ DeliverReply(c) \/ DeliverPush(c) \/ LinkDrop(c)
        \/ HandleDisconnect(c) \/ ReaderDies(c)
    \/ \E k \in Keys : Change(k)

Next ==
    \/ \E t \in Tasks :
        \/ \E what \in {"poll", "write"} : Start(t, what)
        \/ Operation(t) \/ Cancel(t)
    \/ Background
    \/ Peer
    \/ RequestShutdown

Spec == Init /\ [][Next]_vars

\* The task is between taking the lock and giving it back.
Holds(t) == pc[t] \in {"dial", "setup", "call", "refit", "drop", "undo",
                      "undoBare"}

Stages == {"none", "session", "auth", "client"}

\* Every variable keeps to the values the code can give it.
PeerTypeOK ==
    /\ link \in [Conns -> {"up", "down"}]
    /\ readers \subseteq Conns /\ spent \subseteq Conns
    /\ notices \subseteq Conns
    /\ wire \in [Conns -> Seq(Frames)]
    /\ dev \in Values

ConnsTypeOK ==
    /\ open \subseteq Conns /\ failed \subseteq Conns
    /\ current \in Conns \cup {NoConn}
    /\ connecting \in Conns \cup {NoConn}

WorkTypeOK ==
    /\ lock \in Agents \cup Tasks
    /\ pc \in [Tasks -> {"off", "lock", "dial", "setup", "call", "refit",
                         "drop", "undo", "undoBare", "settle"}]
    /\ mode \in [Tasks -> {"none", "poll", "write", "cancelled"}]
    /\ op \in [conn : Conns \cup {NoConn}, same : BOOLEAN,
               req : {"none", "sent", "served", "answered"}, vals : Values]
    /\ rel \in [conn : Conns \cup {NoConn}, at : Stages]

CacheTypeOK ==
    /\ props \in Values /\ pend \in Values
    /\ baseline \in Conns \cup {NoConn}
    /\ pubPending \in BOOLEAN

ShownTypeOK ==
    /\ pubs \in Seq(Conns)
    /\ data \in Values
    /\ success \in BOOLEAN

BgTypeOK ==
    /\ idle \in [at : {"none", "sleep", "wait", "release"},
                 conn : Conns \cup {NoConn}, left : 0 .. IdleRelease]
    /\ cleanup \in [at : {"none", "wait", "release"},
                    conn : Conns \cup {NoConn}]
    /\ stop \in {"no", "wait", "release", "join", "done"}

TypeOK ==
    /\ PeerTypeOK /\ ConnsTypeOK /\ WorkTypeOK
    /\ CacheTypeOK /\ ShownTypeOK /\ BgTypeOK
=============================================================================
