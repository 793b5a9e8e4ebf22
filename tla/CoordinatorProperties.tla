----------------------- MODULE CoordinatorProperties -----------------------
(***************************************************************************)
(* What the coordinator must guarantee, and the fairness under which it    *)
(* makes progress.                                                         *)
(***************************************************************************)
EXTENDS Coordinator

\* Whatever is interleaved or fails, a client that was established and not
\* yet disconnected is known to somebody who will disconnect it: it is the
\* current connection, the one being set up, or the one being released.
NoOrphan == open \subseteq {current, connecting, rel.conn}

\* A connection that was reported failed cannot make Home Assistant believe
\* again that its values are current: neither a late answer nor a queued
\* publication nor a push turns last_update_success back on.
NoResurrection == current \in failed => ~success

\* What is shown as live has a live source: a session with a completed read
\* is the attached one, its reader runs, and nobody has reported it failed,
\* even if its reader died in the settle delay, where the report is ignored.
LiveBaseline ==
    baseline # NoConn =>
        /\ baseline = current
        /\ baseline \in readers
        /\ baseline \notin failed

\* The connection is attached only under a lease: the timer that will give
\* it back runs for this very client, whoever installed or reinstalled it.
LeaseHeld ==
    IdleRelease > 0 /\ current # NoConn =>
        idle.at \in {"sleep", "wait"} /\ idle.conn = current

\* When async_shutdown has returned, everything is given back and nothing
\* that could take the charger again is left running.
ShutdownIsFinal ==
    stop = "done" =>
        /\ open = {}
        /\ idle.at = "none" /\ cleanup.at = "none"
        /\ \A t \in Tasks : ~Holds(t)

\* A background cleanup that was queued for an old connection never takes
\* down a newer, healthy one.
CleanupOnlyFailed ==
    [][cleanup'.at = "release" => rel'.conn \in failed \/ UNCHANGED rel]_vars

\* While a session has a completed read, no pushed change is lost to Home
\* Assistant: it is shown, or a publication for this session is on its way.
NoLostUpdate ==
    baseline # NoConn => data = props \/ Queued(pubs, baseline)

\* With nothing on its way, what Home Assistant shows as current is what the
\* charger has: pushes and reads, in whatever order, leave nothing stale.
QuietFresh ==
    /\ baseline # NoConn
    /\ link[baseline] = "up"
    /\ wire[baseline] = <<>>
    /\ pubs = <<>>
    => data = dev

\* What Home Assistant shows never goes back to an older value of a key, not
\* even across reconnections with frames of the old session still around.
NoRegress == [][\A k \in Keys : data[k] <= data'[k]]_vars

-----------------------------------------------------------------------------
\* Every await of the coordinator is bounded by a timeout, so a task that
\* holds the lock goes on; callbacks and timers on the event loop run.
HolderStep(t) == Holds(t) /\ Operation(t)
Acquire(t) ==
    \/ AcquireRefused(t) \/ AcquireReuse(t) \/ AcquireStale(t)
    \/ AcquireFresh(t)

\* asyncio.Lock is first come, first served; here the grant is free, so a
\* waiter that could be served again and again is served: strong fairness.
HolderFairness ==
    /\ \A t \in Tasks :
        /\ WF_vars(HolderStep(t))
        /\ WF_vars(SettleDone(t))
        /\ SF_vars(Acquire(t))
    /\ WF_vars(ReleaseNext)
    /\ WF_vars(AgentReleased)
    /\ SF_vars(ShutdownAcquire)

BackgroundFairness ==
    /\ WF_vars(IdleTick)
    /\ SF_vars(IdleAcquire)
    /\ SF_vars(CleanupAcquire)
    /\ WF_vars(ShutdownJoin)

FairSpec == Spec /\ HolderFairness /\ BackgroundFairness

\* A requested shutdown completes, whoever holds the lock or waits for it.
ShutdownCompletes == stop = "wait" ~> stop = "done"

\* The lease ends: a connection is given up although polls keep using it,
\* unless writes keep extending it.
LeaseExpires ==
    \A c \in Conns :
        current = c ~> (current # c \/ \E t \in Tasks : pc[t] = "settle")

\* The peer slot as the charger sees it.
Slot == INSTANCE PeerSlot WITH holders <- open, stopped <- stop = "done"
SlotSpec == Slot!Spec
=============================================================================
