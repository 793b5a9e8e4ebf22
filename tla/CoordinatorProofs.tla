------------------------- MODULE CoordinatorProofs -------------------------
(***************************************************************************)
(* Proofs about Coordinator for every number of tasks, clients and keys.   *)
(***************************************************************************)
EXTENDS CoordinatorProperties, SequenceTheorems, TLAPS

USE DEF Agents

-----------------------------------------------------------------------------
(* The inductive invariant: who holds the lock decides which of the three  *)
(* places a connection can be known in.                                    *)

Releasing == {"refit", "drop", "undo", "undoBare"}

\* The lock belongs to the task that is inside its critical section.
LockOwned == \A t \in Tasks : Holds(t) <=> lock = t

\* Something is being released only by the lock's holder.
ReleaseOwned ==
    /\ rel.at = "none" => rel.conn = NoConn
    /\ rel.at # "none" =>
        /\ rel.conn \in Conns
        /\ \/ lock \in {"idle", "cleanup", "shutdown"}
           \/ lock \in Tasks /\ pc[lock] \in Releasing

\* A client is being set up exactly by the holder that is in its setup.
SetupOwned ==
    /\ connecting # NoConn => lock \in Tasks /\ pc[lock] = "setup"
    /\ \A t \in Tasks : pc[t] = "setup" => connecting # NoConn

\* A connection is attached only when nobody is (re)connecting or releasing.
AttachedOwned ==
    current # NoConn =>
        \/ lock = "free"
        \/ lock \in Tasks /\ pc[lock] = "call"

Ownership == LockOwned /\ ReleaseOwned /\ SetupOwned /\ AttachedOwned

Inv == TypeOK /\ Ownership

-----------------------------------------------------------------------------
(* Frames and sequences.                                                   *)

\* A stretch of a sequence has the sequence's elements.
LEMMA SubSeqType ==
    ASSUME NEW S, NEW w \in Seq(S), NEW m \in Nat \ {0}, NEW n \in Nat,
           n <= Len(w)
    PROVE  SubSeq(w, m, n) \in Seq(S)
<1>1. \A i \in m .. n : w[i] \in S
  BY ElementOfSeq, LenProperties
<1> QED
  BY <1>1, SubSeqProperties

\* Taking the answer out of a sequence of frames leaves frames.
LEMMA WithoutAnswerType ==
    ASSUME NEW w \in Seq(Frames)
    PROVE  WithoutAnswer(w) \in Seq(Frames)
<1>1. CASE \A i \in DOMAIN w : IsPush(w[i])
  BY <1>1 DEF WithoutAnswer
<1>2. CASE ~\A i \in DOMAIN w : IsPush(w[i])
  <2> DEFINE a == CHOOSE i \in DOMAIN w : ~IsPush(w[i])
  <2>1. a \in 1 .. Len(w) /\ Len(w) \in Nat
    BY <1>2, LenProperties
  <2> HIDE DEF a
  <2>2. SubSeq(w, 1, a - 1) \in Seq(Frames)
    <3>1. a - 1 \in Nat /\ a - 1 <= Len(w)
      BY <2>1
    <3> QED
      BY <3>1, SubSeqType
  <2>3. SubSeq(w, a + 1, Len(w)) \in Seq(Frames)
    <3>1. a + 1 \in Nat \ {0}
      BY <2>1
    <3> QED
      BY <3>1, <2>1, SubSeqType
  <2>4. SubSeq(w, 1, a - 1) \o SubSeq(w, a + 1, Len(w)) \in Seq(Frames)
    BY <2>2, <2>3, ConcatProperties
  <2> QED
    BY <1>2, <2>4 DEF WithoutAnswer, a
<1> QED
  BY <1>1, <1>2

\* The frames the charger sends are frames.
LEMMA FrameTypes ==
    /\ \A k \in Keys, v \in Versions : Push(k, v) \in Frames
    /\ \A vs \in Values : Reply(vs) \in Frames
BY DEF Push, Reply, Frames

\* The versions are natural numbers that start at 0.
LEMMA NothingType == Nothing \in Values
BY ConstantsAssumption DEF Nothing, Values, Versions

-----------------------------------------------------------------------------
LEMMA InitInv == Init => Inv
<1> SUFFICES ASSUME Init PROVE Inv
  OBVIOUS
<1>1. PeerTypeOK
  BY ConstantsAssumption, EmptySeq DEF Init, PeerTypeOK, Values, Versions
<1>2. ConnsTypeOK
  BY DEF Init, ConnsTypeOK
<1>3. WorkTypeOK
  BY NothingType DEF Init, WorkTypeOK, NoOp, NoRel, Stages
<1>4. CacheTypeOK /\ ShownTypeOK
  BY NothingType, EmptySeq DEF Init, CacheTypeOK, ShownTypeOK
<1>5. BgTypeOK
  BY ConstantsAssumption DEF Init, BgTypeOK, NoIdle, NoCleanup
<1>6. Ownership
  BY ConstantsAssumption
     DEF Init, Ownership, LockOwned, ReleaseOwned, SetupOwned, AttachedOwned,
         Holds, NoRel
<1> QED
  BY <1>1, <1>2, <1>3, <1>4, <1>5, <1>6 DEF Inv, TypeOK

-----------------------------------------------------------------------------
(* Every action keeps the invariant.                                       *)

LEMMA StartInv ==
    ASSUME Inv, NEW t \in Tasks, NEW what \in {"poll", "write"}, Start(t, what)
    PROVE  Inv'
<1> USE DEF Inv, TypeOK
<1>1. PeerTypeOK' /\ ConnsTypeOK' /\ CacheTypeOK' /\ ShownTypeOK' /\ BgTypeOK'
  BY DEF PeerTypeOK, ConnsTypeOK, CacheTypeOK, ShownTypeOK, BgTypeOK, Start,
         peer, conns, cache, shown, bg
<1>2. WorkTypeOK'
  BY NothingType, ConstantsAssumption
     DEF WorkTypeOK, ConnsTypeOK, Start, Goto, Leave, NoOp, NoRel, Stages,
         work
<1>3. Ownership'
  BY ConstantsAssumption
     DEF Ownership, LockOwned, ReleaseOwned, SetupOwned, AttachedOwned, Holds,
         Releasing, Start, Goto, Leave, NoRel, conns, ConnsTypeOK, WorkTypeOK
<1> QED
  BY <1>1, <1>2, <1>3

LEMMA AcquireRefusedInv ==
    ASSUME Inv, NEW t \in Tasks, AcquireRefused(t)
    PROVE  Inv'
<1> USE DEF Inv, TypeOK
<1>1. PeerTypeOK' /\ BgTypeOK'
  BY DEF PeerTypeOK, BgTypeOK, AcquireRefused, Acquiring, Fail,
         ForgetConnection, Captured, Reported, peer, bg
<1>2. ConnsTypeOK'
  BY DEF ConnsTypeOK, AcquireRefused, Acquiring, Fail, ForgetConnection,
         Captured, Reported, NoRel, conns
<1>3. WorkTypeOK'
  BY NothingType, ConstantsAssumption
     DEF WorkTypeOK, ConnsTypeOK, AcquireRefused, Acquiring, Fail,
         ForgetConnection, Captured, Reported, Goto, Leave, NoOp, NoRel,
         Stages, work
<1>4. CacheTypeOK'
  BY NothingType
     DEF CacheTypeOK, ConnsTypeOK, WorkTypeOK, AcquireRefused, Acquiring,
         Fail, ForgetConnection, Captured, Reported, Values, cache
<1>5. ShownTypeOK'
  BY ConstantsAssumption
     DEF ShownTypeOK, CacheTypeOK, WorkTypeOK, AcquireRefused, Acquiring,
         Fail, ForgetConnection, Captured, Reported, Leave, shown
<1>6. Ownership'
  <2>1. CASE current = NoConn
    BY <2>1, ConstantsAssumption
       DEF Ownership, LockOwned, ReleaseOwned, SetupOwned, AttachedOwned,
           Holds, Releasing, AcquireRefused, Acquiring, Fail,
           ForgetConnection, Captured, Reported, Goto, Leave, NoRel,
           WorkTypeOK, ConnsTypeOK
  <2>2. CASE current # NoConn
    BY <2>2, ConstantsAssumption
       DEF Ownership, LockOwned, ReleaseOwned, SetupOwned, AttachedOwned,
           Holds, Releasing, AcquireRefused, Acquiring, Fail,
           ForgetConnection, Captured, Reported, Goto, NoRel, WorkTypeOK,
           ConnsTypeOK
  <2> QED
    BY <2>1, <2>2
<1> QED
  BY <1>1, <1>2, <1>3, <1>4, <1>5, <1>6

LEMMA AcquireReuseInv ==
    ASSUME Inv, NEW t \in Tasks, AcquireReuse(t)
    PROVE  Inv'
<1> USE DEF Inv, TypeOK
<1>1. PeerTypeOK' /\ ConnsTypeOK' /\ ShownTypeOK' /\ BgTypeOK'
  BY DEF PeerTypeOK, ConnsTypeOK, ShownTypeOK, BgTypeOK, AcquireReuse,
         Acquiring, BeginCall, Attached, peer, conns, shown, bg
<1>2. WorkTypeOK'
  BY NothingType, ConstantsAssumption
     DEF WorkTypeOK, ConnsTypeOK, AcquireReuse, Acquiring, BeginCall,
         Attached, Goto, Leave, NoOp, NoRel, Stages, work
<1>3. CacheTypeOK'
  BY NothingType
     DEF CacheTypeOK, ConnsTypeOK, WorkTypeOK, AcquireReuse, Acquiring,
         BeginCall, Attached, Values, cache
<1>4. Ownership'
  BY ConstantsAssumption
     DEF Ownership, LockOwned, ReleaseOwned, SetupOwned, AttachedOwned, Holds,
         Releasing, AcquireReuse, Acquiring, BeginCall, Attached, Goto, Leave,
         NoRel, conns, ConnsTypeOK, WorkTypeOK
<1> QED
  BY <1>1, <1>2, <1>3, <1>4

LEMMA AcquireStaleInv ==
    ASSUME Inv, NEW t \in Tasks, AcquireStale(t)
    PROVE  Inv'
<1> USE DEF Inv, TypeOK
<1>1. PeerTypeOK' /\ ShownTypeOK' /\ BgTypeOK'
  BY DEF PeerTypeOK, ShownTypeOK, BgTypeOK, AcquireStale, Acquiring,
         ForgetConnection, Captured, Attached, peer, shown, bg
<1>2. ConnsTypeOK'
  BY DEF ConnsTypeOK, AcquireStale, Acquiring, ForgetConnection, Captured,
         Attached, NoRel, conns
<1>3. WorkTypeOK'
  BY NothingType, ConstantsAssumption
     DEF WorkTypeOK, ConnsTypeOK, AcquireStale, Acquiring, ForgetConnection,
         Captured, Attached, Goto, Leave, NoOp, NoRel, Stages, work
<1>4. CacheTypeOK'
  BY NothingType
     DEF CacheTypeOK, ConnsTypeOK, WorkTypeOK, AcquireStale, Acquiring,
         ForgetConnection, Captured, Attached, Values, cache
<1>5. Ownership'
  BY ConstantsAssumption
     DEF Ownership, LockOwned, ReleaseOwned, SetupOwned, AttachedOwned, Holds,
         Releasing, AcquireStale, Acquiring, ForgetConnection, Captured,
         Attached, Goto, Leave, NoRel, ConnsTypeOK, WorkTypeOK
<1> QED
  BY <1>1, <1>2, <1>3, <1>4, <1>5

LEMMA AcquireFreshInv ==
    ASSUME Inv, NEW t \in Tasks, AcquireFresh(t)
    PROVE  Inv'
<1> USE DEF Inv, TypeOK
<1>1. PeerTypeOK' /\ ConnsTypeOK' /\ CacheTypeOK' /\ ShownTypeOK' /\ BgTypeOK'
  BY DEF PeerTypeOK, ConnsTypeOK, CacheTypeOK, ShownTypeOK, BgTypeOK,
         AcquireFresh, Acquiring, BeginDial, Attached, peer, conns, cache,
         shown, bg
<1>2. WorkTypeOK'
  BY NothingType, ConstantsAssumption
     DEF WorkTypeOK, ConnsTypeOK, AcquireFresh, Acquiring, BeginDial,
         Attached, Goto, Leave, NoOp, NoRel, Stages, work
<1>3. Ownership'
  BY ConstantsAssumption
     DEF Ownership, LockOwned, ReleaseOwned, SetupOwned, AttachedOwned, Holds,
         Releasing, AcquireFresh, Acquiring, BeginDial, Attached, Goto, Leave,
         NoRel, conns, ConnsTypeOK, WorkTypeOK
<1> QED
  BY <1>1, <1>2, <1>3

LEMMA DialFailsInv ==
    ASSUME Inv, NEW t \in Tasks, DialFails(t)
    PROVE  Inv'
<1> USE DEF Inv, TypeOK
<1>1. PeerTypeOK' /\ BgTypeOK'
  BY DEF PeerTypeOK, BgTypeOK, DialFails, Fail, ForgetConnection, Captured,
         Reported, peer, bg
<1>2. ConnsTypeOK'
  BY DEF ConnsTypeOK, DialFails, Fail, ForgetConnection, Captured, Reported,
         NoRel, conns
<1>3. WorkTypeOK'
  BY NothingType, ConstantsAssumption
     DEF WorkTypeOK, ConnsTypeOK, DialFails, Fail, ForgetConnection, Captured,
         Reported, Goto, Leave, NoOp, NoRel, Stages, work
<1>4. CacheTypeOK'
  BY NothingType
     DEF CacheTypeOK, ConnsTypeOK, WorkTypeOK, DialFails, Fail,
         ForgetConnection, Captured, Reported, Values, cache
<1>5. ShownTypeOK'
  BY ConstantsAssumption
     DEF ShownTypeOK, CacheTypeOK, WorkTypeOK, DialFails, Fail,
         ForgetConnection, Captured, Reported, Leave, shown
<1>6. Ownership'
  <2>1. CASE current = NoConn
    BY <2>1, ConstantsAssumption
       DEF Ownership, LockOwned, ReleaseOwned, SetupOwned, AttachedOwned,
           Holds, Releasing, DialFails, Fail, ForgetConnection, Captured,
           Reported, Goto, Leave, NoRel, WorkTypeOK, ConnsTypeOK
  <2>2. CASE current # NoConn
    BY <2>2, ConstantsAssumption
       DEF Ownership, LockOwned, ReleaseOwned, SetupOwned, AttachedOwned,
           Holds, Releasing, DialFails, Fail, ForgetConnection, Captured,
           Reported, Goto, NoRel, WorkTypeOK, ConnsTypeOK
  <2> QED
    BY <2>1, <2>2
<1> QED
  BY <1>1, <1>2, <1>3, <1>4, <1>5, <1>6

LEMMA DialOkInv ==
    ASSUME Inv, NEW t \in Tasks, NEW c \in Conns, DialOk(t, c)
    PROVE  Inv'
<1> USE DEF Inv, TypeOK
<1>1. CacheTypeOK' /\ ShownTypeOK' /\ BgTypeOK'
  BY DEF CacheTypeOK, ShownTypeOK, BgTypeOK, DialOk, cache, shown, bg
<1>2. PeerTypeOK'
  BY EmptySeq
     DEF PeerTypeOK, DialOk, NoRel, peer
<1>3. ConnsTypeOK'
  BY DEF ConnsTypeOK, DialOk, NoRel, conns
<1>4. WorkTypeOK'
  BY NothingType, ConstantsAssumption
     DEF WorkTypeOK, ConnsTypeOK, DialOk, Goto, Leave, NoOp, NoRel, Stages,
         work
<1>5. Ownership'
  BY ConstantsAssumption
     DEF Ownership, LockOwned, ReleaseOwned, SetupOwned, AttachedOwned, Holds,
         Releasing, DialOk, Goto, Leave, NoRel, ConnsTypeOK, WorkTypeOK
<1> QED
  BY <1>1, <1>2, <1>3, <1>4, <1>5

LEMMA UndoSetupInv ==
    ASSUME Inv, NEW t \in Tasks,
           mode' \in {mode, [mode EXCEPT ![t] = "cancelled"]},
           UndoSetup(t)
    PROVE  Inv'
<1> USE DEF Inv, TypeOK
<1>1. PeerTypeOK' /\ CacheTypeOK' /\ ShownTypeOK' /\ BgTypeOK'
  BY DEF PeerTypeOK, CacheTypeOK, ShownTypeOK, BgTypeOK, UndoSetup, peer,
         cache, shown, bg
<1>2. ConnsTypeOK'
  BY DEF ConnsTypeOK, UndoSetup, NoRel, conns
<1>3. WorkTypeOK'
  <2>1. PICK at \in {"session", "auth", "client"} :
            rel' = [conn |-> connecting, at |-> at]
    BY DEF UndoSetup
  <2> QED
    BY <2>1, NothingType
       DEF WorkTypeOK, ConnsTypeOK, UndoSetup, Goto, NoOp, Stages
<1>4. Ownership'
  BY ConstantsAssumption
     DEF Ownership, LockOwned, ReleaseOwned, SetupOwned, AttachedOwned, Holds,
         Releasing, UndoSetup, Goto, Leave, NoRel, ConnsTypeOK, WorkTypeOK
<1> QED
  BY <1>1, <1>2, <1>3, <1>4

LEMMA SetupOkInv ==
    ASSUME Inv, NEW t \in Tasks, SetupOk(t)
    PROVE  Inv'
<1> USE DEF Inv, TypeOK
<1>1. PeerTypeOK' /\ ShownTypeOK'
  BY DEF PeerTypeOK, ShownTypeOK, SetupOk, BeginCall, ArmIdleRelease, peer,
         shown
<1>2. ConnsTypeOK'
  BY DEF ConnsTypeOK, SetupOk, BeginCall, ArmIdleRelease, NoRel, conns
<1>3. WorkTypeOK'
  BY NothingType, ConstantsAssumption
     DEF WorkTypeOK, ConnsTypeOK, SetupOk, BeginCall, ArmIdleRelease, Goto,
         Leave, NoOp, NoRel, Stages, work
<1>4. CacheTypeOK'
  BY NothingType
     DEF CacheTypeOK, ConnsTypeOK, WorkTypeOK, SetupOk, BeginCall,
         ArmIdleRelease, Values, cache
<1>5. BgTypeOK'
  BY ConstantsAssumption
     DEF BgTypeOK, ConnsTypeOK, SetupOk, BeginCall, ArmIdleRelease, NoIdle,
         NoCleanup, bg
<1>6. Ownership'
  BY ConstantsAssumption
     DEF Ownership, LockOwned, ReleaseOwned, SetupOwned, AttachedOwned, Holds,
         Releasing, SetupOk, BeginCall, ArmIdleRelease, Goto, Leave, NoRel,
         ConnsTypeOK, WorkTypeOK
<1> QED
  BY <1>1, <1>2, <1>3, <1>4, <1>5, <1>6

LEMMA ServeInv ==
    ASSUME Inv, Serve
    PROVE  Inv'
<1> USE DEF Inv, TypeOK
<1>1. ConnsTypeOK' /\ CacheTypeOK' /\ ShownTypeOK' /\ BgTypeOK'
  BY DEF ConnsTypeOK, CacheTypeOK, ShownTypeOK, BgTypeOK, Serve, conns, cache,
         shown, bg
<1>2. PeerTypeOK'
  <2>1. op.conn \in Conns /\ wire[op.conn] \in Seq(Frames)
    BY DEF Serve, PeerTypeOK
  <2>2. CASE UNCHANGED dev /\ wire' = [wire EXCEPT ![op.conn] =
                                        Append(@, Reply(dev))]
    <3>1. Append(wire[op.conn], Reply(dev)) \in Seq(Frames)
      BY <2>1, FrameTypes, AppendProperties DEF PeerTypeOK
    <3> QED
      BY <2>2, <3>1 DEF PeerTypeOK, Serve
  <2>3. ASSUME NEW k \in Keys,
               dev[k] < MaxVersion,
               dev' = [dev EXCEPT ![k] = @ + 1],
               wire' = [wire EXCEPT ![op.conn] =
                            @ \o <<Push(k, dev'[k]), Reply(dev')>>]
        PROVE  PeerTypeOK'
    <3>1. dev' \in Values
      <4>1. dev[k] + 1 \in Versions
        BY <2>3, ConstantsAssumption DEF PeerTypeOK, Values, Versions
      <4> QED
        BY <2>3, <4>1 DEF PeerTypeOK, Values
    <3>2. Push(k, dev'[k]) \in Frames /\ Reply(dev') \in Frames
      BY <3>1, FrameTypes DEF Values
    <3>3. <<Push(k, dev'[k]), Reply(dev')>> \in Seq(Frames)
      BY <3>2
    <3>4. wire[op.conn] \o <<Push(k, dev'[k]), Reply(dev')>> \in Seq(Frames)
      BY <2>1, <3>3, ConcatProperties
    <3> QED
      BY <2>3, <3>1, <3>4 DEF PeerTypeOK, Serve
  <2> QED
    BY <2>2, <2>3 DEF Serve
<1>3. WorkTypeOK'
  BY NothingType, ConstantsAssumption
     DEF WorkTypeOK, ConnsTypeOK, Serve, Goto, Leave, NoOp, NoRel, Stages,
         work
<1>4. Ownership'
  BY ConstantsAssumption
     DEF Ownership, LockOwned, ReleaseOwned, SetupOwned, AttachedOwned, Holds,
         Releasing, Serve, Goto, Leave, NoRel, conns, ConnsTypeOK, WorkTypeOK
<1> QED
  BY <1>1, <1>2, <1>3, <1>4

LEMMA DeliverReplyInv ==
    ASSUME Inv, NEW c \in Conns, DeliverReply(c)
    PROVE  Inv'
<1> USE DEF Inv, TypeOK
<1>0. Head(wire[c]) \in Frames /\ Tail(wire[c]) \in Seq(Frames)
  BY HeadTailProperties DEF DeliverReply, Readable, PeerTypeOK
<1>1. ConnsTypeOK' /\ CacheTypeOK' /\ ShownTypeOK' /\ BgTypeOK'
  BY DEF ConnsTypeOK, CacheTypeOK, ShownTypeOK, BgTypeOK, DeliverReply, conns,
         cache, shown, bg
<1>2. PeerTypeOK'
  BY <1>0
     DEF PeerTypeOK, DeliverReply, NoRel, peer
<1>3. WorkTypeOK'
  <2>1. Head(wire[c]).vals \in Values
    BY <1>0 DEF DeliverReply, IsPush, Frames
  <2>2. CASE op.conn = c /\ op.req = "served"
    BY <2>1, <2>2 DEF WorkTypeOK, DeliverReply
  <2>3. CASE ~(op.conn = c /\ op.req = "served")
    BY <2>3 DEF WorkTypeOK, DeliverReply
  <2> QED
    BY <2>2, <2>3
<1>4. Ownership'
  BY ConstantsAssumption
     DEF Ownership, LockOwned, ReleaseOwned, SetupOwned, AttachedOwned, Holds,
         Releasing, DeliverReply, Goto, Leave, NoRel, conns, ConnsTypeOK,
         WorkTypeOK
<1> QED
  BY <1>1, <1>2, <1>3, <1>4

LEMMA DeliverPushInv ==
    ASSUME Inv, NEW c \in Conns, DeliverPush(c)
    PROVE  Inv'
<1> USE DEF Inv, TypeOK
<1>0. Head(wire[c]) \in Frames /\ Tail(wire[c]) \in Seq(Frames)
  BY HeadTailProperties DEF DeliverPush, Readable, PeerTypeOK
<1>1. ConnsTypeOK' /\ WorkTypeOK' /\ BgTypeOK'
  BY DEF ConnsTypeOK, WorkTypeOK, BgTypeOK, DeliverPush, HandleNotification,
         StillAttached, conns, work, bg
<1>2. PeerTypeOK'
  BY <1>0
     DEF PeerTypeOK, DeliverPush, HandleNotification, StillAttached, NoRel,
         peer
<1>3. CacheTypeOK'
  <2>1. Head(wire[c]).key \in Keys /\ Head(wire[c]).ver \in Versions
    BY <1>0 DEF DeliverPush, IsPush, Frames
  <2>2. CASE StillAttached(c)
    <3>1. props' \in Values /\ pend' \in Values
      BY <2>1, <2>2 DEF CacheTypeOK, Values, DeliverPush, HandleNotification
    <3> QED
      BY <2>2, <3>1 DEF CacheTypeOK, DeliverPush, HandleNotification
  <2>3. CASE ~StillAttached(c)
    BY <2>3 DEF CacheTypeOK, DeliverPush
  <2> QED
    BY <2>2, <2>3
<1>4. ShownTypeOK'
  <2>1. Append(pubs, c) \in Seq(Conns)
    BY AppendProperties DEF ShownTypeOK
  <2> QED
    BY <2>1 DEF ShownTypeOK, DeliverPush, HandleNotification
<1>5. Ownership'
  BY ConstantsAssumption
     DEF Ownership, LockOwned, ReleaseOwned, SetupOwned, AttachedOwned, Holds,
         Releasing, DeliverPush, HandleNotification, StillAttached, Goto,
         Leave, NoRel, conns, work, ConnsTypeOK, WorkTypeOK
<1> QED
  BY <1>1, <1>2, <1>3, <1>4, <1>5

LEMMA PublishInv ==
    ASSUME Inv, Publish
    PROVE  Inv'
<1> USE DEF Inv, TypeOK
<1>1. PeerTypeOK' /\ ConnsTypeOK' /\ WorkTypeOK' /\ BgTypeOK'
  BY DEF PeerTypeOK, ConnsTypeOK, WorkTypeOK, BgTypeOK, Publish, peer, conns,
         work, bg
<1>2. CacheTypeOK'
  BY NothingType
     DEF CacheTypeOK, ConnsTypeOK, WorkTypeOK, Publish, Values, cache
<1>3. ShownTypeOK'
  <2>1. Tail(pubs) \in Seq(Conns)
    BY HeadTailProperties DEF Publish, ShownTypeOK
  <2> QED
    BY <2>1 DEF ShownTypeOK, CacheTypeOK, Publish
<1>4. Ownership'
  BY ConstantsAssumption
     DEF Ownership, LockOwned, ReleaseOwned, SetupOwned, AttachedOwned, Holds,
         Releasing, Publish, Goto, Leave, NoRel, conns, work, ConnsTypeOK,
         WorkTypeOK
<1> QED
  BY <1>1, <1>2, <1>3, <1>4

LEMMA PollOkInv ==
    ASSUME Inv, NEW t \in Tasks, PollOk(t)
    PROVE  Inv'
<1> USE DEF Inv, TypeOK
<1>1. PeerTypeOK' /\ ConnsTypeOK' /\ BgTypeOK'
  BY DEF PeerTypeOK, ConnsTypeOK, BgTypeOK, PollOk, Overlay, peer, conns, bg
<1>2. WorkTypeOK'
  BY NothingType, ConstantsAssumption
     DEF WorkTypeOK, ConnsTypeOK, PollOk, Overlay, Goto, Leave, NoOp, NoRel,
         Stages, work
<1>3. CacheTypeOK'
  BY NothingType
     DEF CacheTypeOK, ConnsTypeOK, WorkTypeOK, PollOk, Overlay, Values, cache
<1>4. ShownTypeOK'
  BY <1>3 DEF ShownTypeOK, CacheTypeOK, PollOk
<1>5. Ownership'
  BY ConstantsAssumption
     DEF Ownership, LockOwned, ReleaseOwned, SetupOwned, AttachedOwned, Holds,
         Releasing, PollOk, Overlay, Goto, Leave, NoRel, conns, ConnsTypeOK,
         WorkTypeOK
<1> QED
  BY <1>1, <1>2, <1>3, <1>4, <1>5

LEMMA WriteOkInv ==
    ASSUME Inv, NEW t \in Tasks, WriteOk(t)
    PROVE  Inv'
<1> USE DEF Inv, TypeOK
<1>1. PeerTypeOK' /\ ConnsTypeOK' /\ CacheTypeOK' /\ ShownTypeOK'
  BY DEF PeerTypeOK, ConnsTypeOK, CacheTypeOK, ShownTypeOK, WriteOk,
         ArmIdleRelease, peer, conns, cache, shown
<1>2. WorkTypeOK'
  BY NothingType, ConstantsAssumption
     DEF WorkTypeOK, ConnsTypeOK, WriteOk, ArmIdleRelease, Goto, Leave, NoOp,
         NoRel, Stages, work
<1>3. BgTypeOK'
  BY ConstantsAssumption
     DEF BgTypeOK, ConnsTypeOK, WriteOk, ArmIdleRelease, NoIdle, NoCleanup, bg
<1>4. Ownership'
  BY ConstantsAssumption
     DEF Ownership, LockOwned, ReleaseOwned, SetupOwned, AttachedOwned, Holds,
         Releasing, WriteOk, ArmIdleRelease, Goto, Leave, NoRel, conns,
         ConnsTypeOK, WorkTypeOK
<1> QED
  BY <1>1, <1>2, <1>3, <1>4

LEMMA CallFailsInv ==
    ASSUME Inv, NEW t \in Tasks, CallFails(t)
    PROVE  Inv'
<1> USE DEF Inv, TypeOK
<1>1. PeerTypeOK' /\ BgTypeOK'
  BY DEF PeerTypeOK, BgTypeOK, CallFails, Fail, ForgetConnection, Captured,
         Reported, peer, bg
<1>2. ConnsTypeOK'
  BY DEF ConnsTypeOK, CallFails, Fail, ForgetConnection, Captured, Reported,
         NoRel, conns
<1>3. WorkTypeOK'
  BY NothingType, ConstantsAssumption
     DEF WorkTypeOK, ConnsTypeOK, CallFails, Fail, ForgetConnection, Captured,
         Reported, Goto, Leave, NoOp, NoRel, Stages, work
<1>4. CacheTypeOK'
  BY NothingType
     DEF CacheTypeOK, ConnsTypeOK, WorkTypeOK, CallFails, Fail,
         ForgetConnection, Captured, Reported, Values, cache
<1>5. ShownTypeOK'
  BY ConstantsAssumption
     DEF ShownTypeOK, CacheTypeOK, WorkTypeOK, CallFails, Fail,
         ForgetConnection, Captured, Reported, Leave, shown
<1>6. Ownership'
  <2>1. CASE current = NoConn
    BY <2>1, ConstantsAssumption
       DEF Ownership, LockOwned, ReleaseOwned, SetupOwned, AttachedOwned,
           Holds, Releasing, CallFails, Fail, ForgetConnection, Captured,
           Reported, Goto, Leave, NoRel, WorkTypeOK, ConnsTypeOK
  <2>2. CASE current # NoConn
    BY <2>2, ConstantsAssumption
       DEF Ownership, LockOwned, ReleaseOwned, SetupOwned, AttachedOwned,
           Holds, Releasing, CallFails, Fail, ForgetConnection, Captured,
           Reported, Goto, NoRel, WorkTypeOK, ConnsTypeOK
  <2> QED
    BY <2>1, <2>2
<1> QED
  BY <1>1, <1>2, <1>3, <1>4, <1>5, <1>6

LEMMA SettleDoneInv ==
    ASSUME Inv, NEW t \in Tasks, SettleDone(t)
    PROVE  Inv'
<1> USE DEF Inv, TypeOK
<1>1. PeerTypeOK' /\ ConnsTypeOK' /\ CacheTypeOK' /\ ShownTypeOK' /\ BgTypeOK'
  BY DEF PeerTypeOK, ConnsTypeOK, CacheTypeOK, ShownTypeOK, BgTypeOK,
         SettleDone, peer, conns, cache, shown, bg
<1>2. WorkTypeOK'
  <2>1. CASE stop = "no"
    BY <2>1 DEF WorkTypeOK, SettleDone, Goto
  <2>2. CASE stop # "no"
    BY <2>2 DEF WorkTypeOK, SettleDone, Goto, Leave
  <2> QED
    BY <2>1, <2>2
<1>3. Ownership'
  BY ConstantsAssumption
     DEF Ownership, LockOwned, ReleaseOwned, SetupOwned, AttachedOwned, Holds,
         Releasing, SettleDone, Goto, Leave, NoRel, conns, ConnsTypeOK,
         WorkTypeOK
<1> QED
  BY <1>1, <1>2, <1>3

LEMMA ReleaseNextInv ==
    ASSUME Inv, ReleaseNext
    PROVE  Inv'
<1> USE DEF Inv, TypeOK
<1>1. ConnsTypeOK' /\ CacheTypeOK' /\ ShownTypeOK' /\ BgTypeOK'
  BY DEF ConnsTypeOK, CacheTypeOK, ShownTypeOK, BgTypeOK, ReleaseNext, conns,
         cache, shown, bg
<1>2. PeerTypeOK'
  BY DEF PeerTypeOK, ReleaseNext, NoRel, peer
<1>3. WorkTypeOK'
  BY NothingType, ConstantsAssumption
     DEF WorkTypeOK, ConnsTypeOK, ReleaseNext, Goto, Leave, NoOp, NoRel,
         Stages, work
<1>4. Ownership'
  BY ConstantsAssumption
     DEF Ownership, LockOwned, ReleaseOwned, SetupOwned, AttachedOwned, Holds,
         Releasing, ReleaseNext, Goto, Leave, NoRel, conns, ConnsTypeOK,
         WorkTypeOK
<1> QED
  BY <1>1, <1>2, <1>3, <1>4

LEMMA RefitReleasedInv ==
    ASSUME Inv, NEW t \in Tasks, RefitReleased(t)
    PROVE  Inv'
<1> USE DEF Inv, TypeOK
<1>1. CacheTypeOK' /\ ShownTypeOK' /\ BgTypeOK'
  BY DEF CacheTypeOK, ShownTypeOK, BgTypeOK, RefitReleased, ClientReleased,
         BeginDial, cache, shown, bg
<1>2. PeerTypeOK'
  BY DEF PeerTypeOK, Ownership, ReleaseOwned, RefitReleased, ClientReleased,
         BeginDial, NoRel, peer
<1>3. ConnsTypeOK'
  BY DEF ConnsTypeOK, RefitReleased, ClientReleased, BeginDial, NoRel, conns
<1>4. WorkTypeOK'
  BY NothingType, ConstantsAssumption
     DEF WorkTypeOK, ConnsTypeOK, RefitReleased, ClientReleased, BeginDial,
         Goto, Leave, NoOp, NoRel, Stages, work
<1>5. Ownership'
  BY ConstantsAssumption
     DEF Ownership, LockOwned, ReleaseOwned, SetupOwned, AttachedOwned, Holds,
         Releasing, RefitReleased, ClientReleased, BeginDial, Goto, Leave,
         NoRel, ConnsTypeOK, WorkTypeOK
<1> QED
  BY <1>1, <1>2, <1>3, <1>4, <1>5

LEMMA DropReleasedInv ==
    ASSUME Inv, NEW t \in Tasks, DropReleased(t)
    PROVE  Inv'
<1> USE DEF Inv, TypeOK
<1>1. CacheTypeOK' /\ BgTypeOK'
  BY DEF CacheTypeOK, BgTypeOK, DropReleased, ClientReleased, Reported, cache,
         bg
<1>2. PeerTypeOK'
  BY DEF PeerTypeOK, Ownership, ReleaseOwned, DropReleased, ClientReleased,
         Reported, NoRel, peer
<1>3. ConnsTypeOK'
  BY DEF ConnsTypeOK, DropReleased, ClientReleased, Reported, NoRel, conns
<1>4. WorkTypeOK'
  BY NothingType, ConstantsAssumption
     DEF WorkTypeOK, ConnsTypeOK, DropReleased, ClientReleased, Reported,
         Goto, Leave, NoOp, NoRel, Stages, work
<1>5. ShownTypeOK'
  BY ConstantsAssumption
     DEF ShownTypeOK, CacheTypeOK, WorkTypeOK, DropReleased, ClientReleased,
         Reported, Leave, shown
<1>6. Ownership'
  BY ConstantsAssumption
     DEF Ownership, LockOwned, ReleaseOwned, SetupOwned, AttachedOwned, Holds,
         Releasing, DropReleased, ClientReleased, Reported, Goto, Leave,
         NoRel, ConnsTypeOK, WorkTypeOK
<1> QED
  BY <1>1, <1>2, <1>3, <1>4, <1>5, <1>6

LEMMA UndoReleasedInv ==
    ASSUME Inv, NEW t \in Tasks, UndoReleased(t)
    PROVE  Inv'
<1> USE DEF Inv, TypeOK
<1>1. CacheTypeOK' /\ BgTypeOK'
  BY DEF CacheTypeOK, BgTypeOK, UndoReleased, ClientReleased, Reported, cache,
         bg
<1>2. PeerTypeOK'
  BY DEF PeerTypeOK, Ownership, ReleaseOwned, UndoReleased, ClientReleased,
         Reported, NoRel, peer
<1>3. ConnsTypeOK'
  BY DEF ConnsTypeOK, UndoReleased, ClientReleased, Reported, NoRel, conns
<1>4. WorkTypeOK'
  BY NothingType, ConstantsAssumption
     DEF WorkTypeOK, ConnsTypeOK, UndoReleased, ClientReleased, Reported,
         Goto, Leave, NoOp, NoRel, Stages, work
<1>5. ShownTypeOK'
  BY ConstantsAssumption
     DEF ShownTypeOK, CacheTypeOK, WorkTypeOK, UndoReleased, ClientReleased,
         Reported, Leave, shown
<1>6. Ownership'
  BY ConstantsAssumption
     DEF Ownership, LockOwned, ReleaseOwned, SetupOwned, AttachedOwned, Holds,
         Releasing, UndoReleased, ClientReleased, Reported, Goto, Leave,
         NoRel, ConnsTypeOK, WorkTypeOK
<1> QED
  BY <1>1, <1>2, <1>3, <1>4, <1>5, <1>6

LEMMA AgentReleasedInv ==
    ASSUME Inv, AgentReleased
    PROVE  Inv'
<1> USE DEF Inv, TypeOK
<1>1. CacheTypeOK' /\ ShownTypeOK'
  BY DEF CacheTypeOK, ShownTypeOK, AgentReleased, ClientReleased,
         IdleReleased, CleanupReleased, ShutdownReleased, cache, shown
<1>2. PeerTypeOK'
  BY DEF PeerTypeOK, Ownership, ReleaseOwned, AgentReleased, ClientReleased,
         IdleReleased, CleanupReleased, ShutdownReleased, NoRel, peer
<1>3. ConnsTypeOK'
  BY DEF ConnsTypeOK, AgentReleased, ClientReleased, IdleReleased,
         CleanupReleased, ShutdownReleased, NoRel, conns
<1>4. WorkTypeOK'
  BY NothingType, ConstantsAssumption
     DEF WorkTypeOK, ConnsTypeOK, AgentReleased, ClientReleased, IdleReleased,
         CleanupReleased, ShutdownReleased, Goto, Leave, NoOp, NoRel, Stages,
         work
<1>5. BgTypeOK'
  BY ConstantsAssumption
     DEF BgTypeOK, ConnsTypeOK, AgentReleased, ClientReleased, IdleReleased,
         CleanupReleased, ShutdownReleased, NoIdle, NoCleanup, bg
<1>6. Ownership'
  BY ConstantsAssumption
     DEF Ownership, LockOwned, ReleaseOwned, SetupOwned, AttachedOwned, Holds,
         Releasing, AgentReleased, ClientReleased, IdleReleased,
         CleanupReleased, ShutdownReleased, Goto, Leave, NoRel, ConnsTypeOK,
         WorkTypeOK
<1> QED
  BY <1>1, <1>2, <1>3, <1>4, <1>5, <1>6

LEMMA CancelPlainInv ==
    ASSUME Inv, NEW t \in Tasks, CancelPlain(t)
    PROVE  Inv'
<1> USE DEF Inv, TypeOK
<1>1. PeerTypeOK' /\ ConnsTypeOK' /\ CacheTypeOK' /\ ShownTypeOK' /\ BgTypeOK'
  BY DEF PeerTypeOK, ConnsTypeOK, CacheTypeOK, ShownTypeOK, BgTypeOK,
         CancelPlain, peer, conns, cache, shown, bg
<1>2. WorkTypeOK'
  BY NothingType, ConstantsAssumption
     DEF WorkTypeOK, ConnsTypeOK, CancelPlain, Goto, Leave, NoOp, NoRel,
         Stages, work
<1>3. Ownership'
  BY ConstantsAssumption
     DEF Ownership, LockOwned, ReleaseOwned, SetupOwned, AttachedOwned, Holds,
         Releasing, CancelPlain, Goto, Leave, NoRel, conns, ConnsTypeOK,
         WorkTypeOK
<1> QED
  BY <1>1, <1>2, <1>3

LEMMA CancelCallInv ==
    ASSUME Inv, NEW t \in Tasks, CancelCall(t)
    PROVE  Inv'
<1> USE DEF Inv, TypeOK
<1>1. ConnsTypeOK' /\ CacheTypeOK' /\ ShownTypeOK' /\ BgTypeOK'
  BY DEF ConnsTypeOK, CacheTypeOK, ShownTypeOK, BgTypeOK, CancelCall, conns,
         cache, shown, bg
<1>2. PeerTypeOK'
  BY WithoutAnswerType
     DEF PeerTypeOK, CancelCall, NoRel, peer
<1>3. WorkTypeOK'
  BY NothingType, ConstantsAssumption
     DEF WorkTypeOK, ConnsTypeOK, CancelCall, Goto, Leave, NoOp, NoRel,
         Stages, work
<1>4. Ownership'
  BY ConstantsAssumption
     DEF Ownership, LockOwned, ReleaseOwned, SetupOwned, AttachedOwned, Holds,
         Releasing, CancelCall, Goto, Leave, NoRel, conns, ConnsTypeOK,
         WorkTypeOK
<1> QED
  BY <1>1, <1>2, <1>3, <1>4

LEMMA CancelShieldedInv ==
    ASSUME Inv, NEW t \in Tasks, CancelShielded(t)
    PROVE  Inv'
<1> USE DEF Inv, TypeOK
<1>1. PeerTypeOK' /\ ConnsTypeOK' /\ CacheTypeOK' /\ ShownTypeOK' /\ BgTypeOK'
  BY DEF PeerTypeOK, ConnsTypeOK, CacheTypeOK, ShownTypeOK, BgTypeOK,
         CancelShielded, peer, conns, cache, shown, bg
<1>2. WorkTypeOK'
  BY NothingType, ConstantsAssumption
     DEF WorkTypeOK, ConnsTypeOK, CancelShielded, Goto, Leave, NoOp, NoRel,
         Stages, work
<1>3. Ownership'
  BY ConstantsAssumption
     DEF Ownership, LockOwned, ReleaseOwned, SetupOwned, AttachedOwned, Holds,
         Releasing, CancelShielded, Goto, Leave, NoRel, conns, ConnsTypeOK,
         WorkTypeOK
<1> QED
  BY <1>1, <1>2, <1>3

LEMMA CancelReleaseInv ==
    ASSUME Inv, NEW t \in Tasks, CancelRelease(t)
    PROVE  Inv'
<1> USE DEF Inv, TypeOK
<1>1. PeerTypeOK' /\ ConnsTypeOK' /\ CacheTypeOK' /\ ShownTypeOK' /\ BgTypeOK'
  BY DEF PeerTypeOK, ConnsTypeOK, CacheTypeOK, ShownTypeOK, BgTypeOK,
         CancelRelease, peer, conns, cache, shown, bg
<1>2. WorkTypeOK'
  BY NothingType, ConstantsAssumption
     DEF WorkTypeOK, ConnsTypeOK, CancelRelease, Goto, Leave, NoOp, NoRel,
         Stages, work
<1>3. Ownership'
  BY ConstantsAssumption
     DEF Ownership, LockOwned, ReleaseOwned, SetupOwned, AttachedOwned, Holds,
         Releasing, CancelRelease, Goto, Leave, NoRel, conns, ConnsTypeOK,
         WorkTypeOK
<1> QED
  BY <1>1, <1>2, <1>3

LEMMA LinkDropInv ==
    ASSUME Inv, NEW c \in Conns, LinkDrop(c)
    PROVE  Inv'
<1> USE DEF Inv, TypeOK
<1>1. ConnsTypeOK' /\ WorkTypeOK' /\ CacheTypeOK' /\ ShownTypeOK' /\ BgTypeOK'
  BY DEF ConnsTypeOK, WorkTypeOK, CacheTypeOK, ShownTypeOK, BgTypeOK,
         LinkDrop, conns, work, cache, shown, bg
<1>2. PeerTypeOK'
  BY DEF PeerTypeOK, LinkDrop, NoRel, peer
<1>3. Ownership'
  BY ConstantsAssumption
     DEF Ownership, LockOwned, ReleaseOwned, SetupOwned, AttachedOwned, Holds,
         Releasing, LinkDrop, Goto, Leave, NoRel, conns, work, ConnsTypeOK,
         WorkTypeOK
<1> QED
  BY <1>1, <1>2, <1>3

LEMMA HandleDisconnectInv ==
    ASSUME Inv, NEW c \in Conns, HandleDisconnect(c)
    PROVE  Inv'
<1> USE DEF Inv, TypeOK
<1>1. PeerTypeOK'
  BY DEF PeerTypeOK, HandleDisconnect, MarkFailed, ScheduleCleanup, NoRel,
         peer
<1>2. ConnsTypeOK'
  BY DEF ConnsTypeOK, HandleDisconnect, MarkFailed, ScheduleCleanup, NoRel,
         conns
<1>3. WorkTypeOK'
  BY NothingType, ConstantsAssumption
     DEF WorkTypeOK, ConnsTypeOK, HandleDisconnect, MarkFailed,
         ScheduleCleanup, Goto, Leave, NoOp, NoRel, Stages, work
<1>4. CacheTypeOK'
  BY NothingType
     DEF CacheTypeOK, ConnsTypeOK, WorkTypeOK, HandleDisconnect, MarkFailed,
         ScheduleCleanup, Values, cache
<1>5. ShownTypeOK'
  BY ConstantsAssumption
     DEF ShownTypeOK, CacheTypeOK, WorkTypeOK, HandleDisconnect, MarkFailed,
         ScheduleCleanup, Leave, shown
<1>6. BgTypeOK'
  BY ConstantsAssumption
     DEF BgTypeOK, ConnsTypeOK, HandleDisconnect, MarkFailed, ScheduleCleanup,
         NoIdle, NoCleanup, bg
<1>7. Ownership'
  BY ConstantsAssumption
     DEF Ownership, LockOwned, ReleaseOwned, SetupOwned, AttachedOwned, Holds,
         Releasing, HandleDisconnect, MarkFailed, ScheduleCleanup, Goto,
         Leave, NoRel, ConnsTypeOK, WorkTypeOK
<1> QED
  BY <1>1, <1>2, <1>3, <1>4, <1>5, <1>6, <1>7

LEMMA ReaderDiesInv ==
    ASSUME Inv, NEW c \in Conns, ReaderDies(c)
    PROVE  Inv'
<1> USE DEF Inv, TypeOK
<1>1. PeerTypeOK'
  BY DEF PeerTypeOK, ReaderDies, MarkFailed, ScheduleCleanup, NoRel, peer
<1>2. ConnsTypeOK'
  BY DEF ConnsTypeOK, ReaderDies, MarkFailed, ScheduleCleanup, NoRel, conns
<1>3. WorkTypeOK'
  <2>1. CASE current = c
    BY <2>1 DEF WorkTypeOK, ReaderDies, MarkFailed
  <2>2. CASE current # c
    BY <2>2 DEF WorkTypeOK, ReaderDies
  <2> QED
    BY <2>1, <2>2
<1>4. CacheTypeOK'
  BY NothingType
     DEF CacheTypeOK, ConnsTypeOK, WorkTypeOK, ReaderDies, MarkFailed,
         ScheduleCleanup, Values, cache
<1>5. ShownTypeOK'
  BY ConstantsAssumption
     DEF ShownTypeOK, CacheTypeOK, WorkTypeOK, ReaderDies, MarkFailed,
         ScheduleCleanup, Leave, shown
<1>6. BgTypeOK'
  BY ConstantsAssumption
     DEF BgTypeOK, ConnsTypeOK, ReaderDies, MarkFailed, ScheduleCleanup,
         NoIdle, NoCleanup, bg
<1>7. Ownership'
  BY ConstantsAssumption
     DEF Ownership, LockOwned, ReleaseOwned, SetupOwned, AttachedOwned, Holds,
         Releasing, ReaderDies, MarkFailed, ScheduleCleanup, Goto, Leave,
         NoRel, ConnsTypeOK, WorkTypeOK
<1> QED
  BY <1>1, <1>2, <1>3, <1>4, <1>5, <1>6, <1>7

LEMMA NoncesSpentInv ==
    ASSUME Inv, NoncesSpent
    PROVE  Inv'
<1> USE DEF Inv, TypeOK
<1>1. ConnsTypeOK' /\ WorkTypeOK' /\ CacheTypeOK' /\ ShownTypeOK' /\ BgTypeOK'
  BY DEF ConnsTypeOK, WorkTypeOK, CacheTypeOK, ShownTypeOK, BgTypeOK,
         NoncesSpent, conns, work, cache, shown, bg
<1>2. PeerTypeOK'
  BY DEF PeerTypeOK, ConnsTypeOK, NoncesSpent, NoRel, peer
<1>3. Ownership'
  BY ConstantsAssumption
     DEF Ownership, LockOwned, ReleaseOwned, SetupOwned, AttachedOwned, Holds,
         Releasing, NoncesSpent, Goto, Leave, NoRel, conns, work, ConnsTypeOK,
         WorkTypeOK
<1> QED
  BY <1>1, <1>2, <1>3

LEMMA ChangeInv ==
    ASSUME Inv, NEW k \in Keys, Change(k)
    PROVE  Inv'
<1> USE DEF Inv, TypeOK
<1>1. ConnsTypeOK' /\ WorkTypeOK' /\ CacheTypeOK' /\ ShownTypeOK' /\ BgTypeOK'
  BY DEF ConnsTypeOK, WorkTypeOK, CacheTypeOK, ShownTypeOK, BgTypeOK, Change,
         conns, work, cache, shown, bg
<1>2. PeerTypeOK'
  <2>1. dev' \in Values
    <3>1. dev[k] + 1 \in Versions
      BY ConstantsAssumption DEF PeerTypeOK, Change, Values, Versions
    <3> QED
      BY <3>1 DEF PeerTypeOK, Change, Values
  <2>2. Push(k, dev'[k]) \in Frames
    BY <2>1, FrameTypes DEF Values
  <2>3. \A c \in Conns : Append(wire[c], Push(k, dev'[k])) \in Seq(Frames)
    BY <2>2, AppendProperties DEF PeerTypeOK
  <2> QED
    BY <2>1, <2>3 DEF PeerTypeOK, Change
<1>3. Ownership'
  BY ConstantsAssumption
     DEF Ownership, LockOwned, ReleaseOwned, SetupOwned, AttachedOwned, Holds,
         Releasing, Change, Goto, Leave, NoRel, conns, work, ConnsTypeOK,
         WorkTypeOK
<1> QED
  BY <1>1, <1>2, <1>3

LEMMA IdleTickInv ==
    ASSUME Inv, IdleTick
    PROVE  Inv'
<1> USE DEF Inv, TypeOK
<1>1. PeerTypeOK' /\ ConnsTypeOK' /\ WorkTypeOK' /\ CacheTypeOK' /\
          ShownTypeOK'
  BY DEF PeerTypeOK, ConnsTypeOK, WorkTypeOK, CacheTypeOK, ShownTypeOK,
         IdleTick, peer, conns, work, cache, shown
<1>2. BgTypeOK'
  <2>1. idle.left \in 0 .. IdleRelease
    BY DEF BgTypeOK
  <2>2. idle' \in [at : {"none", "sleep", "wait", "release"},
                  conn : Conns \cup {NoConn}, left : 0 .. IdleRelease]
    <3>1. CASE idle.left > 1
      <4>1. idle.left - 1 \in 0 .. IdleRelease
        BY <2>1, <3>1, ConstantsAssumption
      <4> QED
        BY <3>1, <4>1 DEF BgTypeOK, IdleTick
    <3>2. CASE ~(idle.left > 1)
      <4>1. 0 \in 0 .. IdleRelease
        BY ConstantsAssumption
      <4> QED
        BY <3>2, <4>1 DEF BgTypeOK, IdleTick
    <3> QED
      BY <3>1, <3>2
  <2> QED
    BY <2>2 DEF BgTypeOK, IdleTick
<1>3. Ownership'
  BY ConstantsAssumption
     DEF Ownership, LockOwned, ReleaseOwned, SetupOwned, AttachedOwned, Holds,
         Releasing, IdleTick, Goto, Leave, NoRel, conns, work, ConnsTypeOK,
         WorkTypeOK
<1> QED
  BY <1>1, <1>2, <1>3

LEMMA IdleAcquireInv ==
    ASSUME Inv, IdleAcquire
    PROVE  Inv'
<1> USE DEF Inv, TypeOK
<1>1. PeerTypeOK' /\ ShownTypeOK'
  BY DEF PeerTypeOK, ShownTypeOK, IdleAcquire, SeizeFor, StillAttached,
         ForgetConnection, Captured, peer, shown
<1>2. ConnsTypeOK'
  BY DEF ConnsTypeOK, IdleAcquire, SeizeFor, StillAttached, ForgetConnection,
         Captured, NoRel, conns
<1>3. WorkTypeOK'
  <2>1. CASE StillAttached(idle.conn)
    <3>1. rel' \in [conn : Conns \cup {NoConn}, at : Stages]
      BY <2>1 DEF IdleAcquire, SeizeFor, ForgetConnection, Captured, NoRel, Stages,
                  ConnsTypeOK
    <3>2. op' \in [conn : Conns \cup {NoConn}, same : BOOLEAN,
                  req : {"none", "sent", "served", "answered"}, vals : Values]
      <4>1. op' = NoOp
        BY <2>1 DEF IdleAcquire, SeizeFor, ForgetConnection
      <4> QED
        BY <4>1, NothingType DEF NoOp
    <3>3. lock' \in Agents \cup Tasks /\ UNCHANGED <<pc, mode>>
      BY <2>1 DEF IdleAcquire, SeizeFor
    <3> QED
      BY <3>1, <3>2, <3>3 DEF WorkTypeOK
  <2>2. CASE ~StillAttached(idle.conn)
    BY <2>2 DEF WorkTypeOK, IdleAcquire, cache
  <2> QED
    BY <2>1, <2>2
<1>4. CacheTypeOK'
  BY NothingType
     DEF CacheTypeOK, ConnsTypeOK, WorkTypeOK, IdleAcquire, SeizeFor,
         StillAttached, ForgetConnection, Captured, Values, cache
<1>5. BgTypeOK'
  <2>1. CASE StillAttached(idle.conn)
    BY <2>1 DEF BgTypeOK, IdleAcquire
  <2>2. CASE ~StillAttached(idle.conn)
    BY <2>2, ConstantsAssumption
       DEF BgTypeOK, IdleAcquire, NoIdle, NoCleanup
  <2> QED
    BY <2>1, <2>2
<1>6. Ownership'
  BY ConstantsAssumption
     DEF Ownership, LockOwned, ReleaseOwned, SetupOwned, AttachedOwned, Holds,
         Releasing, IdleAcquire, SeizeFor, StillAttached, ForgetConnection,
         Captured, Goto, Leave, NoRel, ConnsTypeOK, WorkTypeOK
<1> QED
  BY <1>1, <1>2, <1>3, <1>4, <1>5, <1>6

LEMMA CleanupAcquireInv ==
    ASSUME Inv, CleanupAcquire
    PROVE  Inv'
<1> USE DEF Inv, TypeOK
<1>1. PeerTypeOK' /\ ShownTypeOK'
  BY DEF PeerTypeOK, ShownTypeOK, CleanupAcquire, SeizeFor, StillAttached,
         ForgetConnection, Captured, peer, shown
<1>2. ConnsTypeOK'
  BY DEF ConnsTypeOK, CleanupAcquire, SeizeFor, StillAttached,
         ForgetConnection, Captured, NoRel, conns
<1>3. WorkTypeOK'
  <2>1. CASE StillAttached(cleanup.conn)
    <3>1. rel' \in [conn : Conns \cup {NoConn}, at : Stages]
      BY <2>1 DEF CleanupAcquire, SeizeFor, ForgetConnection, Captured, NoRel, Stages,
                  ConnsTypeOK
    <3>2. op' \in [conn : Conns \cup {NoConn}, same : BOOLEAN,
                  req : {"none", "sent", "served", "answered"}, vals : Values]
      <4>1. op' = NoOp
        BY <2>1 DEF CleanupAcquire, SeizeFor, ForgetConnection
      <4> QED
        BY <4>1, NothingType DEF NoOp
    <3>3. lock' \in Agents \cup Tasks /\ UNCHANGED <<pc, mode>>
      BY <2>1 DEF CleanupAcquire, SeizeFor
    <3> QED
      BY <3>1, <3>2, <3>3 DEF WorkTypeOK
  <2>2. CASE ~StillAttached(cleanup.conn)
    BY <2>2 DEF WorkTypeOK, CleanupAcquire, cache
  <2> QED
    BY <2>1, <2>2
<1>4. CacheTypeOK'
  BY NothingType
     DEF CacheTypeOK, ConnsTypeOK, WorkTypeOK, CleanupAcquire, SeizeFor,
         StillAttached, ForgetConnection, Captured, Values, cache
<1>5. BgTypeOK'
  <2>1. CASE StillAttached(cleanup.conn)
    BY <2>1 DEF BgTypeOK, CleanupAcquire
  <2>2. CASE ~StillAttached(cleanup.conn)
    BY <2>2, ConstantsAssumption
       DEF BgTypeOK, CleanupAcquire, NoIdle, NoCleanup
  <2> QED
    BY <2>1, <2>2
<1>6. Ownership'
  BY ConstantsAssumption
     DEF Ownership, LockOwned, ReleaseOwned, SetupOwned, AttachedOwned, Holds,
         Releasing, CleanupAcquire, SeizeFor, StillAttached, ForgetConnection,
         Captured, Goto, Leave, NoRel, ConnsTypeOK, WorkTypeOK
<1> QED
  BY <1>1, <1>2, <1>3, <1>4, <1>5, <1>6

LEMMA RequestShutdownInv ==
    ASSUME Inv, RequestShutdown
    PROVE  Inv'
<1> USE DEF Inv, TypeOK
<1>1. PeerTypeOK' /\ ConnsTypeOK' /\ WorkTypeOK' /\ CacheTypeOK' /\
          ShownTypeOK'
  BY DEF PeerTypeOK, ConnsTypeOK, WorkTypeOK, CacheTypeOK, ShownTypeOK,
         RequestShutdown, peer, conns, work, cache, shown
<1>2. BgTypeOK'
  BY ConstantsAssumption
     DEF BgTypeOK, ConnsTypeOK, RequestShutdown, NoIdle, NoCleanup, bg
<1>3. Ownership'
  BY ConstantsAssumption
     DEF Ownership, LockOwned, ReleaseOwned, SetupOwned, AttachedOwned, Holds,
         Releasing, RequestShutdown, Goto, Leave, NoRel, conns, work,
         ConnsTypeOK, WorkTypeOK
<1> QED
  BY <1>1, <1>2, <1>3

LEMMA ShutdownAcquireInv ==
    ASSUME Inv, ShutdownAcquire
    PROVE  Inv'
<1> USE DEF Inv, TypeOK
<1>1. PeerTypeOK' /\ ShownTypeOK'
  BY DEF PeerTypeOK, ShownTypeOK, ShutdownAcquire, ForgetConnection, Captured,
         peer, shown
<1>2. ConnsTypeOK'
  BY DEF ConnsTypeOK, ShutdownAcquire, ForgetConnection, Captured, NoRel,
         conns
<1>3. WorkTypeOK'
  BY NothingType, ConstantsAssumption
     DEF WorkTypeOK, ConnsTypeOK, ShutdownAcquire, ForgetConnection, Captured,
         Goto, Leave, NoOp, NoRel, Stages, work
<1>4. CacheTypeOK'
  BY NothingType
     DEF CacheTypeOK, ConnsTypeOK, WorkTypeOK, ShutdownAcquire,
         ForgetConnection, Captured, Values, cache
<1>5. BgTypeOK'
  BY ConstantsAssumption
     DEF BgTypeOK, ConnsTypeOK, ShutdownAcquire, ForgetConnection, Captured,
         NoIdle, NoCleanup, bg
<1>6. Ownership'
  BY ConstantsAssumption
     DEF Ownership, LockOwned, ReleaseOwned, SetupOwned, AttachedOwned, Holds,
         Releasing, ShutdownAcquire, ForgetConnection, Captured, Goto, Leave,
         NoRel, ConnsTypeOK, WorkTypeOK
<1> QED
  BY <1>1, <1>2, <1>3, <1>4, <1>5, <1>6

LEMMA ShutdownJoinInv ==
    ASSUME Inv, ShutdownJoin
    PROVE  Inv'
<1> USE DEF Inv, TypeOK
<1>1. PeerTypeOK' /\ ConnsTypeOK' /\ WorkTypeOK' /\ CacheTypeOK' /\
          ShownTypeOK'
  BY DEF PeerTypeOK, ConnsTypeOK, WorkTypeOK, CacheTypeOK, ShownTypeOK,
         ShutdownJoin, peer, conns, work, cache, shown
<1>2. BgTypeOK'
  BY ConstantsAssumption
     DEF BgTypeOK, ConnsTypeOK, ShutdownJoin, NoIdle, NoCleanup, bg
<1>3. Ownership'
  BY ConstantsAssumption
     DEF Ownership, LockOwned, ReleaseOwned, SetupOwned, AttachedOwned, Holds,
         Releasing, ShutdownJoin, Goto, Leave, NoRel, conns, work,
         ConnsTypeOK, WorkTypeOK
<1> QED
  BY <1>1, <1>2, <1>3

-----------------------------------------------------------------------------
(* Types.                                                                  *)

LEMMA OperationInv ==
    ASSUME Inv, NEW t \in Tasks, Operation(t)
    PROVE  Inv'
<1>1. CASE SetupFails(t)
  BY <1>1, UndoSetupInv DEF SetupFails
<1>2. ASSUME NEW c \in Conns, DialOk(t, c)
      PROVE  Inv'
  BY <1>2, DialOkInv
<1> QED
  BY <1>1, <1>2, AcquireRefusedInv, AcquireReuseInv, AcquireStaleInv,
     AcquireFreshInv, DialFailsInv, SetupOkInv, PollOkInv, WriteOkInv,
     CallFailsInv, SettleDoneInv, RefitReleasedInv, DropReleasedInv,
     UndoReleasedInv
     DEF Operation

LEMMA CancelInv ==
    ASSUME Inv, NEW t \in Tasks, Cancel(t)
    PROVE  Inv'
<1>1. CASE CancelSetup(t)
  BY <1>1, UndoSetupInv DEF CancelSetup
<1> QED
  BY <1>1, CancelPlainInv, CancelCallInv, CancelShieldedInv, CancelReleaseInv
     DEF Cancel

LEMMA PeerInv ==
    ASSUME Inv, Peer
    PROVE  Inv'
BY ServeInv, NoncesSpentInv, DeliverReplyInv, DeliverPushInv, LinkDropInv,
   HandleDisconnectInv, ReaderDiesInv, ChangeInv
   DEF Peer

LEMMA BackgroundInv ==
    ASSUME Inv, Background
    PROVE  Inv'
BY ReleaseNextInv, AgentReleasedInv, IdleTickInv, IdleAcquireInv,
   CleanupAcquireInv, ShutdownAcquireInv, ShutdownJoinInv, PublishInv
   DEF Background

LEMMA StutterInv ==
    ASSUME Inv, UNCHANGED vars
    PROVE  Inv'
BY DEF Inv, TypeOK, PeerTypeOK, ConnsTypeOK, WorkTypeOK, CacheTypeOK,
       ShownTypeOK, BgTypeOK, Ownership, LockOwned, ReleaseOwned, SetupOwned,
       AttachedOwned, Holds, vars, peer, conns, work, cache, shown, bg

LEMMA NextInv == Inv /\ [Next]_vars => Inv'
<1> SUFFICES ASSUME Inv, [Next]_vars PROVE Inv'
  OBVIOUS
<1> QED
  BY StartInv, OperationInv, CancelInv, BackgroundInv, PeerInv,
     RequestShutdownInv, StutterInv
     DEF Next

LEMMA Invariance == Spec => []Inv
<1> QED
  BY InitInv, NextInv, PTL DEF Spec

\* Every variable keeps its type in every behaviour, whatever is cancelled,
\* lost or interleaved.
THEOREM TypeCorrect == Spec => []TypeOK
<1>1. Inv => TypeOK
  BY DEF Inv
<1> QED
  BY <1>1, Invariance, PTL

-----------------------------------------------------------------------------
(* Ownership of the connection.                                            *)

\* No task is cancelled in the middle of a release it awaits unprotected.
NoReleaseCancelled == CancelAt \cap {"undoBare", "refit", "drop"} = {}

\* What a failed operation, a timer, a cleanup and the shutdown have in
\* common: the attached client becomes the one that is being released.
LEMMA ForgetOrphan ==
    ASSUME Inv, NoOrphan, rel.at = "none", ForgetConnection,
           UNCHANGED <<open, connecting>>
    PROVE  NoOrphan'
<1>1. rel.conn = NoConn
  BY DEF Inv, Ownership, ReleaseOwned
<1>2. NoConn \notin open
  BY ConstantsAssumption DEF Inv, TypeOK, ConnsTypeOK
<1>3. CASE current = NoConn
  BY <1>1, <1>2, <1>3
     DEF NoOrphan, ForgetConnection, Captured, NoRel
<1>4. CASE current # NoConn
  BY <1>1, <1>2, <1>4 DEF NoOrphan, ForgetConnection, Captured
<1> QED
  BY <1>3, <1>4

\* While the lock is free, or its holder dials or calls, nothing is being
\* released.
LEMMA NoRelease ==
    ASSUME Inv
    PROVE  /\ lock = "free" => rel.at = "none"
           /\ \A t \in Tasks : pc[t] \in {"dial", "setup", "call"} =>
                                   rel.at = "none"
<1> USE DEF Inv, Ownership, ReleaseOwned, LockOwned, Holds, Releasing
<1>1. lock = "free" => rel.at = "none"
  BY ConstantsAssumption
<1>2. ASSUME NEW t \in Tasks, pc[t] \in {"dial", "setup", "call"}
      PROVE  rel.at = "none"
  <2>1. lock = t
    BY <1>2
  <2> QED
    BY <1>2, <2>1, ConstantsAssumption
<1> QED
  BY <1>1, <1>2

\* A released client is no longer open.
LEMMA ReleasedOrphan ==
    ASSUME Inv, NoOrphan, ClientReleased
    PROVE  NoOrphan'
BY DEF NoOrphan, ClientReleased

LEMMA OperationOrphan ==
    ASSUME Inv, NoOrphan, NEW t \in Tasks, Operation(t)
    PROVE  NoOrphan'
<1>1. CASE AcquireRefused(t) \/ DialFails(t) \/ CallFails(t)
  BY <1>1, NoRelease, ForgetOrphan
     DEF AcquireRefused, Acquiring, DialFails, CallFails, Fail
<1>2. CASE AcquireStale(t)
  BY <1>2, NoRelease, ForgetOrphan DEF AcquireStale, Acquiring
<1>3. CASE AcquireReuse(t) \/ AcquireFresh(t) \/ PollOk(t) \/ WriteOk(t)
           \/ SettleDone(t)
  BY <1>3 DEF AcquireReuse, AcquireFresh, PollOk, WriteOk, SettleDone, conns,
              NoOrphan
<1>4. ASSUME NEW c \in Conns, DialOk(t, c)
      PROVE  NoOrphan'
  <2>1. connecting = NoConn
    BY <1>4 DEF DialOk, Inv, Ownership, LockOwned, SetupOwned, Holds
  <2>2. NoConn \notin open
    BY ConstantsAssumption DEF Inv, TypeOK, ConnsTypeOK
  <2> QED
    BY <1>4, <2>1, <2>2 DEF NoOrphan, DialOk
<1>5. CASE SetupFails(t)
  <2>1. rel.conn = NoConn /\ NoConn \notin open
    BY <1>5, NoRelease, ConstantsAssumption
       DEF SetupFails, UndoSetup, Inv, Ownership, ReleaseOwned, TypeOK,
           ConnsTypeOK
  <2> QED
    BY <1>5, <2>1 DEF NoOrphan, SetupFails, UndoSetup
<1>6. CASE SetupOk(t)
  <2>1. current = NoConn /\ NoConn \notin open
    BY <1>6, ConstantsAssumption
       DEF SetupOk, Inv, Ownership, LockOwned, AttachedOwned, Holds, TypeOK,
           ConnsTypeOK
  <2> QED
    BY <1>6, <2>1 DEF NoOrphan, SetupOk
<1>7. CASE RefitReleased(t) \/ DropReleased(t) \/ UndoReleased(t)
  BY <1>7, ReleasedOrphan DEF RefitReleased, DropReleased, UndoReleased
<1> QED
  BY <1>1, <1>2, <1>3, <1>4, <1>5, <1>6, <1>7 DEF Operation

LEMMA CancelOrphan ==
    ASSUME NoReleaseCancelled, Inv, NoOrphan, NEW t \in Tasks, Cancel(t)
    PROVE  NoOrphan'
<1>1. CASE CancelSetup(t)
  <2>1. rel.conn = NoConn /\ NoConn \notin open
    BY <1>1, NoRelease, ConstantsAssumption
       DEF CancelSetup, UndoSetup, Inv, Ownership, ReleaseOwned, TypeOK,
           ConnsTypeOK
  <2> QED
    BY <1>1, <2>1 DEF NoOrphan, CancelSetup, UndoSetup
<1>2. ~CancelRelease(t)
  BY DEF CancelRelease, NoReleaseCancelled
<1> QED
  BY <1>1, <1>2 DEF Cancel, CancelPlain, CancelCall, CancelShielded, conns,
                    NoOrphan

LEMMA BackgroundOrphan ==
    ASSUME Inv, NoOrphan, Background
    PROVE  NoOrphan'
<1>1. CASE ReleaseNext
  BY <1>1 DEF NoOrphan, ReleaseNext, conns, Inv, TypeOK, WorkTypeOK
<1>2. CASE AgentReleased
  BY <1>2, ReleasedOrphan DEF AgentReleased
<1>3. CASE IdleAcquire
  <2>1. CASE StillAttached(idle.conn)
    BY <1>3, <2>1, NoRelease, ForgetOrphan DEF IdleAcquire, SeizeFor
  <2>2. CASE ~StillAttached(idle.conn)
    BY <1>3, <2>2 DEF IdleAcquire, NoOrphan
  <2> QED
    BY <2>1, <2>2
<1>4. CASE CleanupAcquire
  <2>1. CASE StillAttached(cleanup.conn)
    BY <1>4, <2>1, NoRelease, ForgetOrphan DEF CleanupAcquire, SeizeFor
  <2>2. CASE ~StillAttached(cleanup.conn)
    BY <1>4, <2>2 DEF CleanupAcquire, NoOrphan
  <2> QED
    BY <2>1, <2>2
<1>5. CASE ShutdownAcquire
  BY <1>5, NoRelease, ForgetOrphan DEF ShutdownAcquire
<1>6. CASE IdleTick \/ ShutdownJoin \/ Publish
  BY <1>6 DEF IdleTick, ShutdownJoin, Publish, conns, work, NoOrphan
<1> QED
  BY <1>1, <1>2, <1>3, <1>4, <1>5, <1>6 DEF Background

\* The charger and the radio do not touch the coordinator's connections.
LEMMA PeerConns ==
    ASSUME Peer
    PROVE  UNCHANGED <<open, current, connecting, rel, lock, pc, stop>>
BY DEF Peer, Serve, NoncesSpent, DeliverReply, DeliverPush, LinkDrop,
       HandleDisconnect, ReaderDies, Change, MarkFailed, conns, work, bg

LEMMA NextOrphan ==
    ASSUME NoReleaseCancelled
    PROVE  Inv /\ NoOrphan /\ [Next]_vars => NoOrphan'
<1> SUFFICES ASSUME Inv, NoOrphan, [Next]_vars
             PROVE  NoOrphan'
  OBVIOUS
<1>1. ASSUME NEW t \in Tasks, NEW what \in {"poll", "write"}, Start(t, what)
      PROVE  NoOrphan'
  BY <1>1 DEF Start, conns, NoOrphan
<1>2. CASE Peer
  BY <1>2, PeerConns DEF NoOrphan
<1>3. CASE RequestShutdown
  BY <1>3 DEF RequestShutdown, conns, work, NoOrphan
<1>4. CASE UNCHANGED vars
  BY <1>4 DEF vars, conns, work, NoOrphan
<1> QED
  BY <1>1, <1>2, <1>3, <1>4, OperationOrphan, CancelOrphan, BackgroundOrphan
     DEF Next

LEMMA InitOrphan == Init => NoOrphan
BY DEF Init, NoOrphan

\* As long as no task is cancelled inside an unprotected release, no
\* interleaving, failure or other cancellation strands a BLE client.
THEOREM NeverOrphaned ==
    ASSUME NoReleaseCancelled
    PROVE  Spec => []NoOrphan
<1> QED
  BY InitOrphan, NextOrphan, Invariance, PTL DEF Spec

-----------------------------------------------------------------------------
(* The shutdown.                                                           *)

\* The shutdown releases under the lock; once it has, nobody can take the
\* lock again and no timer is left.
ShutdownOwned ==
    /\ stop = "release" <=> lock = "shutdown"
    /\ stop \in {"release", "join", "done"} =>
        current = NoConn /\ idle.at = "none"
    /\ stop \in {"join", "done"} => lock = "free"
    /\ cleanup.at # "none" => cleanup.conn \in Conns
    /\ stop = "done" => cleanup.at = "none"

LEMMA InitShutdown == Init => ShutdownOwned
BY ConstantsAssumption DEF Init, ShutdownOwned, NoCleanup

LEMMA OperationShutdown ==
    ASSUME Inv, ShutdownOwned, NEW t \in Tasks, Operation(t)
    PROVE  ShutdownOwned'
<1> USE ConstantsAssumption DEF ShutdownOwned
<1>1. lock # "shutdown" => lock' # "shutdown"
  BY DEF Operation, AcquireRefused, AcquireReuse, AcquireStale, AcquireFresh,
         DialFails, DialOk, SetupFails, UndoSetup, SetupOk, PollOk, WriteOk,
         CallFails, SettleDone, RefitReleased, DropReleased, UndoReleased, Fail
<1>2. CASE AcquireRefused(t)
  BY <1>2 DEF AcquireRefused, Acquiring, Fail, ForgetConnection, bg
<1>3. CASE SettleDone(t)
  BY <1>3 DEF SettleDone, conns, bg
<1>4. CASE AcquireReuse(t) \/ AcquireStale(t) \/ AcquireFresh(t)
  BY <1>4 DEF AcquireReuse, AcquireStale, AcquireFresh, Acquiring, MayConnect,
              bg
<1>5. CASE lock = t
  <2>1. lock' # "shutdown" /\ stop' = stop /\ cleanup' = cleanup
    BY <1>5, <1>1
       DEF Operation, AcquireRefused, AcquireReuse, AcquireStale, AcquireFresh,
           DialFails, DialOk, SetupFails, UndoSetup, SetupOk, PollOk, WriteOk,
           CallFails, SettleDone, RefitReleased, DropReleased, UndoReleased, bg
  <2> QED
    BY <1>5, <2>1
<1>6. CASE DialFails(t) \/ (\E c \in Conns : DialOk(t, c)) \/ SetupFails(t)
           \/ SetupOk(t) \/ PollOk(t) \/ WriteOk(t) \/ CallFails(t)
           \/ RefitReleased(t) \/ DropReleased(t) \/ UndoReleased(t)
  <2>1. Holds(t)
    BY <1>6 DEF Holds, DialFails, DialOk, SetupFails, UndoSetup, SetupOk,
                PollOk, WriteOk, CallFails, RefitReleased, DropReleased,
                UndoReleased
  <2> QED
    BY <2>1, <1>5 DEF Inv, Ownership, LockOwned
<1> QED
  BY <1>2, <1>3, <1>4, <1>6 DEF Operation

LEMMA CancelShutdown ==
    ASSUME Inv, ShutdownOwned, NEW t \in Tasks, Cancel(t)
    PROVE  ShutdownOwned'
<1> USE ConstantsAssumption DEF ShutdownOwned
<1>1. CASE CancelPlain(t)
  BY <1>1 DEF CancelPlain, conns, bg
<1>2. CASE ~CancelPlain(t)
  <2>1. Holds(t)
    BY <1>2 DEF Cancel, CancelCall, CancelSetup, CancelShielded, CancelRelease,
                UndoSetup, Holds
  <2>2. lock = t
    BY <2>1 DEF Inv, Ownership, LockOwned
  <2> QED
    BY <1>2, <2>2 DEF Cancel, CancelCall, CancelSetup, CancelShielded,
                      CancelRelease, UndoSetup, bg
<1> QED
  BY <1>1, <1>2

LEMMA BackgroundShutdown ==
    ASSUME Inv, ShutdownOwned, Background
    PROVE  ShutdownOwned'
<1> USE ConstantsAssumption DEF ShutdownOwned
<1>1. CASE ReleaseNext
  BY <1>1 DEF ReleaseNext, conns, bg
<1>2. CASE AgentReleased
  <2>1. current' = current
    BY <1>2 DEF AgentReleased, ClientReleased
  <2>2. CASE IdleReleased
    BY <2>1, <2>2 DEF IdleReleased, NoIdle
  <2>3. CASE CleanupReleased
    BY <2>1, <2>3 DEF CleanupReleased, NoCleanup
  <2>4. CASE ShutdownReleased
    BY <2>1, <2>4 DEF ShutdownReleased
  <2> QED
    BY <1>2, <2>2, <2>3, <2>4 DEF AgentReleased
<1>3. CASE IdleTick
  BY <1>3 DEF IdleTick, conns, work
<1>4. CASE IdleAcquire
  BY <1>4 DEF IdleAcquire, SeizeFor
<1>5. CASE CleanupAcquire
  <2>1. cleanup.conn \in Conns
    BY <1>5 DEF CleanupAcquire
  <2>2. CASE StillAttached(cleanup.conn)
    <3>1. stop \notin {"join", "done", "release"}
      BY <1>5, <2>1, <2>2 DEF StillAttached, CleanupAcquire
    <3>2. cleanup'.conn = cleanup.conn /\ lock' = "cleanup" /\ stop' = stop
      BY <1>5, <2>2 DEF CleanupAcquire, SeizeFor, Inv, TypeOK, BgTypeOK
    <3> QED
      BY <2>1, <3>1, <3>2
  <2>3. CASE ~StillAttached(cleanup.conn)
    BY <1>5, <2>3 DEF CleanupAcquire, NoCleanup
  <2> QED
    BY <2>2, <2>3
<1>6. CASE ShutdownAcquire
  BY <1>6 DEF ShutdownAcquire, ForgetConnection, NoIdle
<1>7. CASE ShutdownJoin
  BY <1>7 DEF ShutdownJoin, conns, work
<1>8. CASE Publish
  BY <1>8 DEF Publish, conns, work, bg
<1> QED
  BY <1>1, <1>2, <1>3, <1>4, <1>5, <1>6, <1>7, <1>8 DEF Background

LEMMA PeerShutdown ==
    ASSUME Inv, ShutdownOwned, Peer
    PROVE  ShutdownOwned'
<1>1. UNCHANGED <<current, lock, stop>>
  BY PeerConns
<1>2. UNCHANGED idle
  BY DEF Peer, Serve, NoncesSpent, DeliverReply, DeliverPush, LinkDrop,
         HandleDisconnect, ReaderDies, Change, bg
<1>3. ASSUME NEW c \in Conns, current = c, ScheduleCleanup(c)
      PROVE  ShutdownOwned'
  BY <1>1, <1>2, <1>3, ConstantsAssumption DEF ShutdownOwned, ScheduleCleanup
<1>4. CASE UNCHANGED cleanup
  BY <1>1, <1>2, <1>4 DEF ShutdownOwned
<1>5. \/ UNCHANGED cleanup
      \/ \E c \in Conns : current = c /\ ScheduleCleanup(c)
  BY DEF Peer, Serve, NoncesSpent, DeliverReply, DeliverPush, LinkDrop,
         HandleDisconnect, ReaderDies, Change, MarkFailed, bg
<1> QED
  BY <1>3, <1>4, <1>5

LEMMA NextShutdown == Inv /\ ShutdownOwned /\ [Next]_vars => ShutdownOwned'
<1> SUFFICES ASSUME Inv, ShutdownOwned, [Next]_vars
             PROVE  ShutdownOwned'
  OBVIOUS
<1>1. ASSUME NEW t \in Tasks, NEW what \in {"poll", "write"}, Start(t, what)
      PROVE  ShutdownOwned'
  BY <1>1 DEF Start, conns, bg, ShutdownOwned
<1>2. CASE RequestShutdown
  BY <1>2 DEF RequestShutdown, conns, work, ShutdownOwned
<1>3. CASE UNCHANGED vars
  BY <1>3 DEF vars, conns, work, bg, ShutdownOwned
<1> QED
  BY <1>1, <1>2, <1>3, OperationShutdown, CancelShutdown, BackgroundShutdown,
     PeerShutdown
     DEF Next

LEMMA ShutdownInvariance == Spec => []ShutdownOwned
<1> QED
  BY InitShutdown, NextShutdown, Invariance, PTL DEF Spec

\* Once the lock is free and nothing is attached, no client is open.
LEMMA NothingOpen ==
    ASSUME Inv, NoOrphan, lock = "free", current = NoConn
    PROVE  open = {}
<1>1. rel.conn = NoConn
  BY NoRelease DEF Inv, Ownership, ReleaseOwned
<1>2. connecting = NoConn
  BY ConstantsAssumption DEF Inv, Ownership, SetupOwned
<1> QED
  BY <1>1, <1>2, ConstantsAssumption DEF NoOrphan, Inv, TypeOK, ConnsTypeOK

\* async_shutdown leaves nothing behind: no open client, no timer, no cleanup
\* and no task that could still open one.
THEOREM ShutdownFinal ==
    ASSUME NoReleaseCancelled
    PROVE  Spec => []ShutdownIsFinal
<1>1. Inv /\ NoOrphan /\ ShutdownOwned => ShutdownIsFinal
  <2> SUFFICES ASSUME Inv, NoOrphan, ShutdownOwned, stop = "done"
               PROVE  /\ open = {}
                      /\ idle.at = "none" /\ cleanup.at = "none"
                      /\ \A t \in Tasks : ~Holds(t)
    BY DEF ShutdownIsFinal
  <2>1. lock = "free" /\ current = NoConn
    BY DEF ShutdownOwned
  <2>2. \A t \in Tasks : ~Holds(t)
    BY <2>1, ConstantsAssumption DEF Inv, Ownership, LockOwned
  <2> QED
    BY <2>1, <2>2, NothingOpen DEF ShutdownOwned
<1> QED
  BY <1>1, Invariance, ShutdownInvariance, NeverOrphaned, PTL

-----------------------------------------------------------------------------
(* The peer slot.                                                          *)

LEMMA SlotTake ==
    ASSUME Inv, NoOrphan, ShutdownOwned,
           NEW t \in Tasks, NEW c \in Conns, DialOk(t, c)
    PROVE  Slot!Take(c)
<1>1. lock = t /\ rel.at = "none" /\ rel.conn = NoConn
  BY NoRelease DEF DialOk, Inv, Ownership, LockOwned, ReleaseOwned, Holds
<1>2. current = NoConn /\ connecting = NoConn
  BY <1>1, ConstantsAssumption
     DEF DialOk, Inv, Ownership, LockOwned, SetupOwned, AttachedOwned, Holds
<1>3. open = {}
  BY <1>1, <1>2, ConstantsAssumption DEF NoOrphan, Inv, TypeOK, ConnsTypeOK
<1>4. stop # "done"
  BY <1>1, ConstantsAssumption DEF ShutdownOwned
<1> QED
  BY <1>3, <1>4 DEF DialOk, Slot!Take, bg

LEMMA SlotGive ==
    ASSUME Inv, ShutdownOwned, ClientReleased,
           stop' = stop \/ (lock = "shutdown" /\ stop' = "join")
    PROVE  Slot!Give(rel.conn) \/ UNCHANGED Slot!vars
<1>1. (stop' = "done") = (stop = "done")
  BY DEF ShutdownOwned
<1>2. CASE rel.conn \in open
  BY <1>1, <1>2 DEF ClientReleased, Slot!Give
<1>3. CASE rel.conn \notin open
  BY <1>1, <1>3 DEF ClientReleased, Slot!vars
<1> QED
  BY <1>2, <1>3

LEMMA SlotNext ==
    Inv /\ NoOrphan /\ ShutdownOwned /\ [Next]_vars
        => [Slot!Next]_(Slot!vars)
<1> SUFFICES ASSUME Inv, NoOrphan, ShutdownOwned, [Next]_vars
             PROVE  Slot!Next \/ UNCHANGED Slot!vars
  OBVIOUS
<1>1. rel.at # "none" => rel.conn \in Conns
  BY DEF Inv, Ownership, ReleaseOwned
<1>2. ASSUME NEW t \in Tasks, NEW what \in {"poll", "write"}, Start(t, what)
      PROVE  UNCHANGED Slot!vars
  BY <1>2 DEF Start, conns, bg, Slot!vars
<1>3. ASSUME NEW t \in Tasks, Operation(t)
      PROVE  Slot!Next \/ UNCHANGED Slot!vars
  <2>1. ASSUME NEW c \in Conns, DialOk(t, c)
        PROVE  Slot!Next
    BY <2>1, SlotTake DEF Slot!Next
  <2>2. CASE RefitReleased(t) \/ DropReleased(t) \/ UndoReleased(t)
    BY <2>2, <1>1, SlotGive
       DEF RefitReleased, DropReleased, UndoReleased, ClientReleased, bg,
           Slot!Next
  <2>3. CASE AcquireRefused(t) \/ AcquireReuse(t) \/ AcquireStale(t)
             \/ AcquireFresh(t) \/ DialFails(t) \/ SetupFails(t)
             \/ SetupOk(t) \/ PollOk(t) \/ WriteOk(t) \/ CallFails(t)
             \/ SettleDone(t)
    BY <2>3
       DEF AcquireRefused, AcquireReuse, AcquireStale, AcquireFresh,
           DialFails, SetupFails, UndoSetup, SetupOk, PollOk, WriteOk,
           CallFails, SettleDone, conns, bg, Slot!vars
  <2> QED
    BY <1>3, <2>1, <2>2, <2>3 DEF Operation
<1>4. ASSUME NEW t \in Tasks, Cancel(t)
      PROVE  UNCHANGED Slot!vars
  BY <1>4 DEF Cancel, CancelPlain, CancelCall, CancelSetup, UndoSetup,
              CancelShielded, CancelRelease, conns, bg, Slot!vars
<1>5. CASE AgentReleased
  BY <1>5, <1>1, SlotGive
     DEF AgentReleased, IdleReleased, CleanupReleased, ShutdownReleased,
         ClientReleased, Slot!Next
<1>6. CASE ShutdownJoin
  <2>1. open = {}
    BY <1>6, NothingOpen DEF ShutdownJoin, ShutdownOwned
  <2> QED
    BY <1>6, <2>1 DEF ShutdownJoin, conns, Slot!Next, Slot!Stop
<1>7. CASE ReleaseNext \/ IdleTick \/ IdleAcquire \/ CleanupAcquire
           \/ ShutdownAcquire \/ Publish
  BY <1>7
     DEF ReleaseNext, IdleTick, IdleAcquire, CleanupAcquire, ShutdownAcquire,
         Publish, conns, bg, Slot!vars
<1>8. CASE Peer
  BY <1>8, PeerConns DEF Slot!vars
<1>9. CASE RequestShutdown \/ UNCHANGED vars
  BY <1>9 DEF RequestShutdown, vars, conns, bg, Slot!vars
<1> QED
  BY <1>2, <1>3, <1>4, <1>5, <1>6, <1>7, <1>8, <1>9 DEF Next, Background

\* The coordinator implements the peer slot: one client at a time, the next
\* only after the previous was given back, none after the shutdown.
THEOREM ImplementsSlot ==
    ASSUME NoReleaseCancelled
    PROVE  Spec => SlotSpec
<1>1. Init => Slot!Init
  BY DEF Init, Slot!Init
<1> QED
  BY <1>1, SlotNext, Invariance, NeverOrphaned, ShutdownInvariance, PTL
     DEF Spec, SlotSpec, Slot!Spec

-----------------------------------------------------------------------------
(* The lease.                                                              *)

\* An agent that is releasing has nothing attached.
LEMMA AgentDetached ==
    ASSUME Inv
    PROVE  /\ lock \in {"idle", "cleanup", "shutdown"} => current = NoConn
           /\ rel.at # "none" => current = NoConn /\ connecting = NoConn
BY ConstantsAssumption
   DEF Agents, Inv, Ownership, AttachedOwned, ReleaseOwned, SetupOwned,
       Releasing

LEMMA OperationLease ==
    ASSUME Inv, LeaseHeld, NEW t \in Tasks, Operation(t)
    PROVE  LeaseHeld'
<1>1. CASE AcquireRefused(t) \/ DialFails(t) \/ CallFails(t)
           \/ AcquireStale(t)
  BY <1>1 DEF AcquireRefused, DialFails, CallFails, AcquireStale, Fail,
              ForgetConnection, LeaseHeld
<1>2. CASE SetupOk(t)
  BY <1>2 DEF SetupOk, ArmIdleRelease, LeaseHeld
<1>3. CASE WriteOk(t)
  BY <1>3 DEF WriteOk, ArmIdleRelease, LeaseHeld, conns
<1>4. CASE AcquireReuse(t) \/ AcquireFresh(t) \/ SetupFails(t) \/ PollOk(t)
           \/ SettleDone(t)
  BY <1>4 DEF AcquireReuse, AcquireFresh, SetupFails, UndoSetup, PollOk,
              SettleDone, LeaseHeld, conns, bg
<1>5. ASSUME NEW c \in Conns, DialOk(t, c)
      PROVE  LeaseHeld'
  BY <1>5 DEF DialOk, LeaseHeld, bg
<1>6. CASE RefitReleased(t) \/ DropReleased(t) \/ UndoReleased(t)
  BY <1>6 DEF RefitReleased, DropReleased, UndoReleased, ClientReleased,
              LeaseHeld, bg
<1> QED
  BY <1>1, <1>2, <1>3, <1>4, <1>5, <1>6 DEF Operation

LEMMA BackgroundLease ==
    ASSUME Inv, LeaseHeld, Background
    PROVE  LeaseHeld'
<1>1. CASE ReleaseNext \/ ShutdownJoin \/ Publish
  BY <1>1 DEF ReleaseNext, ShutdownJoin, Publish, LeaseHeld, conns, bg
<1>2. CASE AgentReleased
  BY <1>2, AgentDetached
     DEF AgentReleased, IdleReleased, CleanupReleased, ShutdownReleased,
         ClientReleased, LeaseHeld
<1>3. CASE IdleTick
  BY <1>3 DEF IdleTick, LeaseHeld, conns, Inv, TypeOK, BgTypeOK
<1>4. CASE IdleAcquire
  BY <1>4 DEF IdleAcquire, SeizeFor, ForgetConnection, StillAttached,
              LeaseHeld
<1>5. CASE CleanupAcquire
  BY <1>5 DEF CleanupAcquire, SeizeFor, ForgetConnection, LeaseHeld
<1>6. CASE ShutdownAcquire
  BY <1>6 DEF ShutdownAcquire, ForgetConnection, LeaseHeld
<1> QED
  BY <1>1, <1>2, <1>3, <1>4, <1>5, <1>6 DEF Background

LEMMA NextLease == Inv /\ LeaseHeld /\ [Next]_vars => LeaseHeld'
<1> SUFFICES ASSUME Inv, LeaseHeld, [Next]_vars
             PROVE  LeaseHeld'
  OBVIOUS
<1>1. ASSUME NEW t \in Tasks,
             Cancel(t) \/ \E what \in {"poll", "write"} : Start(t, what)
      PROVE  LeaseHeld'
  BY <1>1 DEF Cancel, CancelPlain, CancelCall, CancelSetup, UndoSetup,
              CancelShielded, CancelRelease, Start, LeaseHeld, conns, bg
<1>2. CASE Peer
  BY <1>2 DEF Peer, Serve, NoncesSpent, DeliverReply, DeliverPush, LinkDrop,
              HandleDisconnect, ReaderDies, Change, LeaseHeld, conns, bg
<1>3. CASE RequestShutdown \/ UNCHANGED vars
  BY <1>3 DEF RequestShutdown, vars, LeaseHeld, conns, bg
<1> QED
  BY <1>1, <1>2, <1>3, OperationLease, BackgroundLease DEF Next

\* With an idle release configured, an attached connection always has a
\* running timer for this very client, so it cannot be kept for ever.
THEOREM AlwaysLeased == Spec => []LeaseHeld
<1>1. Init => LeaseHeld
  BY DEF Init, LeaseHeld
<1> QED
  BY <1>1, NextLease, Invariance, PTL DEF Spec

-----------------------------------------------------------------------------
(* What is shown, and of which connection.                                 *)

\* Clients in use are open; one that has just been dialled is not failed.
OpenKnown ==
    /\ current # NoConn => current \in open
    /\ connecting # NoConn => connecting \in open \ failed
    /\ failed \subseteq open

\* A client with a disconnect callback on its way is down.
NoticedDown == \A c \in notices : link[c] = "down"

\* A request that has got through was made on a session that still reads.
AnswerLive ==
    op.same /\ op.conn = current /\ current # NoConn
            /\ op.req \in {"served", "answered"}
        => current \in readers

\* A failed connection that is still attached is down or does not read any
\* more: no answer that comes over it can be taken for a good one.
FailedDead ==
    current \in failed =>
        /\ ~success
        /\ link[current] = "down" \/ current \notin readers

Shown == OpenKnown /\ NoticedDown /\ AnswerLive /\ FailedDead /\ LiveBaseline

LEMMA InitShown == Init => Shown
BY ConstantsAssumption
   DEF Init, Shown, OpenKnown, NoticedDown, AnswerLive, FailedDead,
       LiveBaseline, NoOp

\* A poll that may use its answer was made on a live connection.
LEMMA GoodAnswer ==
    ASSUME Inv, Shown, op.req = "answered", ConnectionUnchanged,
           current # NoConn
    PROVE  current \in readers \ failed
BY DEF ConnectionUnchanged, Shown, AnswerLive, FailedDead

\* Forgetting the connection keeps all of it.
LEMMA ForgetShown ==
    ASSUME Inv, Shown, ForgetConnection,
           UNCHANGED <<open, connecting, failed, link, notices>>
    PROVE  Shown'
BY ConstantsAssumption
   DEF ForgetConnection, Shown, OpenKnown, NoticedDown, AnswerLive,
       FailedDead, LiveBaseline, Inv, TypeOK, ConnsTypeOK

\* So does the end of a release: what is released is neither attached nor
\* being set up.
LEMMA ReleasedShown ==
    ASSUME Inv, Shown, ClientReleased, rel.conn \in Conns
    PROVE  /\ OpenKnown' /\ NoticedDown' /\ LiveBaseline'
           /\ current' = NoConn /\ NoConn \notin failed'
<1>1. current = NoConn /\ connecting = NoConn
  BY AgentDetached DEF ClientReleased
<1>2. current' = NoConn /\ connecting' = NoConn
  BY <1>1 DEF ClientReleased
<1>3. OpenKnown'
  BY <1>2 DEF ClientReleased, Shown, OpenKnown
<1>4. baseline' = NoConn
  BY <1>1 DEF ClientReleased, cache, Shown, LiveBaseline
<1>5. LiveBaseline'
  BY <1>4 DEF LiveBaseline
<1>6. NoticedDown'
  BY DEF ClientReleased, Shown, NoticedDown, Inv, TypeOK, PeerTypeOK
<1>7. NoConn \notin failed'
  BY ConstantsAssumption DEF ClientReleased, Inv, TypeOK, ConnsTypeOK
<1> QED
  BY <1>2, <1>3, <1>5, <1>6, <1>7

LEMMA OperationShown ==
    ASSUME Inv, Shown, NEW t \in Tasks, Operation(t)
    PROVE  Shown'
<1> USE DEF Shown
<1>1. CASE AcquireRefused(t) \/ DialFails(t) \/ CallFails(t)
           \/ AcquireStale(t)
  BY <1>1, ForgetShown
     DEF AcquireRefused, DialFails, CallFails, AcquireStale, Fail, peer
<1>2. CASE AcquireReuse(t)
  BY <1>2 DEF AcquireReuse, BeginCall, peer, conns, shown, OpenKnown,
              NoticedDown, AnswerLive, FailedDead, LiveBaseline
<1>3. CASE AcquireFresh(t)
  BY <1>3 DEF AcquireFresh, BeginDial, NoOp, Attached, peer, conns, cache,
              shown, OpenKnown, NoticedDown, AnswerLive, FailedDead,
              LiveBaseline
<1>4. ASSUME NEW c \in Conns, DialOk(t, c)
      PROVE  Shown'
  <2>1. current = NoConn
    BY <1>4, ConstantsAssumption
       DEF DialOk, Inv, Ownership, LockOwned, AttachedOwned, Holds, Agents
  <2>2. c \notin open /\ c \notin notices
    BY <1>4 DEF DialOk, Forgotten
  <2>3. OpenKnown'
    BY <1>4, <2>1, <2>2 DEF DialOk, OpenKnown
  <2>4. NoticedDown'
    BY <1>4, <2>2 DEF DialOk, NoticedDown, Inv, TypeOK, PeerTypeOK
  <2>5. AnswerLive' /\ FailedDead' /\ LiveBaseline'
    BY <1>4, <2>1, ConstantsAssumption
       DEF DialOk, AnswerLive, FailedDead, LiveBaseline, cache, shown,
           Inv, TypeOK, ConnsTypeOK
  <2> QED
    BY <2>3, <2>4, <2>5
<1>5. CASE SetupFails(t)
  <2>1. current = NoConn
    BY <1>5, ConstantsAssumption
       DEF SetupFails, UndoSetup, Inv, Ownership, LockOwned, AttachedOwned,
           Holds, Agents
  <2> QED
    BY <1>5, <2>1
       DEF SetupFails, UndoSetup, NoOp, peer, cache, shown, OpenKnown,
           NoticedDown, AnswerLive, FailedDead, LiveBaseline
<1>6. CASE SetupOk(t)
  <2>1. current = NoConn /\ connecting # NoConn
    BY <1>6, ConstantsAssumption
       DEF SetupOk, Inv, Ownership, LockOwned, SetupOwned, AttachedOwned,
           Holds, Agents
  <2> QED
    BY <1>6, <2>1
       DEF SetupOk, BeginCall, peer, shown, OpenKnown, NoticedDown,
           AnswerLive, FailedDead, LiveBaseline
<1>7. CASE PollOk(t)
  <2>1. current # NoConn => current \in readers \ failed
    BY <1>7, GoodAnswer DEF PollOk
  <2>2. NoConn \notin failed
    BY ConstantsAssumption DEF Inv, TypeOK, ConnsTypeOK
  <2> QED
    BY <1>7, <2>1, <2>2
       DEF PollOk, NoOp, peer, conns, OpenKnown, NoticedDown, AnswerLive,
           FailedDead, LiveBaseline
<1>8. CASE WriteOk(t) \/ SettleDone(t)
  BY <1>8 DEF WriteOk, SettleDone, NoOp, peer, conns, cache, shown,
              OpenKnown, NoticedDown, AnswerLive, FailedDead, LiveBaseline
<1>9. CASE RefitReleased(t) \/ DropReleased(t) \/ UndoReleased(t)
  <2>1. ClientReleased /\ rel.conn \in Conns
    BY <1>9 DEF RefitReleased, DropReleased, UndoReleased, ClientReleased,
                Inv, Ownership, ReleaseOwned
  <2> QED
    BY <2>1, ReleasedShown DEF AnswerLive, FailedDead
<1> QED
  BY <1>1, <1>2, <1>3, <1>4, <1>5, <1>6, <1>7, <1>8, <1>9 DEF Operation

LEMMA CancelShown ==
    ASSUME Inv, Shown, NEW t \in Tasks, Cancel(t)
    PROVE  Shown'
<1> USE DEF Shown, OpenKnown, NoticedDown, AnswerLive, FailedDead,
            LiveBaseline
<1>1. CASE CancelPlain(t)
  BY <1>1 DEF CancelPlain, NoOp, peer, conns, cache, shown
<1>2. CASE CancelCall(t)
  BY <1>2 DEF CancelCall, NoOp, conns, cache, shown
<1>3. CASE CancelSetup(t)
  <2>1. current = NoConn
    BY <1>3, ConstantsAssumption
       DEF CancelSetup, UndoSetup, Inv, Ownership, LockOwned, AttachedOwned,
           Holds, Agents
  <2> QED
    BY <1>3, <2>1 DEF CancelSetup, UndoSetup, NoOp, peer, cache, shown
<1>4. CASE CancelShielded(t) \/ CancelRelease(t)
  BY <1>4 DEF CancelShielded, CancelRelease, peer, conns, cache, shown
<1> QED
  BY <1>1, <1>2, <1>3, <1>4 DEF Cancel

LEMMA BackgroundShown ==
    ASSUME Inv, Shown, Background
    PROVE  Shown'
<1> USE DEF Shown
<1>1. CASE ReleaseNext
  <2>1. current = NoConn /\ connecting = NoConn
    BY <1>1, AgentDetached DEF ReleaseNext
  <2>2. baseline = NoConn
    BY <2>1 DEF LiveBaseline
  <2> QED
    BY <1>1, <2>1, <2>2
       DEF ReleaseNext, conns, cache, shown, OpenKnown, NoticedDown,
           AnswerLive, FailedDead, LiveBaseline
<1>2. CASE AgentReleased
  <2>1. ClientReleased /\ rel.conn \in Conns
    BY <1>2 DEF AgentReleased, ClientReleased, Inv, Ownership, ReleaseOwned
  <2> QED
    BY <2>1, ReleasedShown DEF AnswerLive, FailedDead
<1>3. CASE IdleTick \/ ShutdownJoin
  BY <1>3 DEF IdleTick, ShutdownJoin, peer, conns, work, cache, shown,
              OpenKnown, NoticedDown, AnswerLive, FailedDead, LiveBaseline
<1>4. CASE IdleAcquire
  <2>1. CASE ForgetConnection
    BY <1>4, <2>1, ForgetShown DEF IdleAcquire, peer
  <2>2. CASE UNCHANGED <<current, op, cache>>
    BY <1>4, <2>2 DEF IdleAcquire, peer, cache, shown, OpenKnown,
                      NoticedDown, AnswerLive, FailedDead, LiveBaseline
  <2> QED
    BY <1>4, <2>1, <2>2 DEF IdleAcquire, SeizeFor
<1>5. CASE CleanupAcquire
  <2>1. CASE ForgetConnection
    BY <1>5, <2>1, ForgetShown DEF CleanupAcquire, peer
  <2>2. CASE UNCHANGED <<current, op, cache>>
    BY <1>5, <2>2 DEF CleanupAcquire, peer, cache, shown, OpenKnown,
                      NoticedDown, AnswerLive, FailedDead, LiveBaseline
  <2> QED
    BY <1>5, <2>1, <2>2 DEF CleanupAcquire, SeizeFor
<1>6. CASE ShutdownAcquire
  BY <1>6, ForgetShown DEF ShutdownAcquire, peer
<1>7. CASE Publish
  <2>1. Head(pubs) # NoConn
    BY <1>7, ConstantsAssumption DEF Publish, Inv, TypeOK, ShownTypeOK
  <2>2. current \in failed => baseline # Head(pubs) \/ current # Head(pubs)
    BY <2>1 DEF LiveBaseline
  <2> QED
    BY <1>7, <2>2
       DEF Publish, peer, conns, work, OpenKnown, NoticedDown, AnswerLive,
           FailedDead, LiveBaseline
<1> QED
  BY <1>1, <1>2, <1>3, <1>4, <1>5, <1>6, <1>7 DEF Background

\* Reporting the attached connection c as failed, once it is down or its
\* reader has stopped.
LEMMA MarkFailedShown ==
    ASSUME Inv, Shown, NEW c \in Conns, current = c, MarkFailed(c),
           link[c] = "down" \/ c \notin readers',
           readers' \subseteq readers, notices' \subseteq notices,
           UNCHANGED <<link, open, current, connecting>>
    PROVE  Shown'
<1>1. connecting # c
  BY ConstantsAssumption
     DEF Inv, Ownership, SetupOwned, AttachedOwned, Agents
<1>2. c \in open /\ c # NoConn
  BY ConstantsAssumption DEF Shown, OpenKnown
<1>3. OpenKnown'
  BY <1>1, <1>2 DEF MarkFailed, Shown, OpenKnown
<1>4. NoticedDown'
  BY DEF Shown, NoticedDown
<1>5. AnswerLive'
  <2>1. ~op'.same
    BY DEF MarkFailed, Inv, TypeOK, WorkTypeOK
  <2> QED
    BY <2>1 DEF AnswerLive
<1>6. FailedDead'
  BY DEF MarkFailed, FailedDead
<1>7. LiveBaseline'
  BY DEF MarkFailed, LiveBaseline
<1> QED
  BY <1>3, <1>4, <1>5, <1>6, <1>7 DEF Shown

LEMMA PeerShown ==
    ASSUME Inv, Shown, Peer
    PROVE  Shown'
<1>1. CASE Serve
  BY <1>1 DEF Serve, conns, cache, shown, Inv, TypeOK, WorkTypeOK, Shown,
              OpenKnown, NoticedDown, AnswerLive, FailedDead, LiveBaseline
<1>2. ASSUME NEW c \in Conns, DeliverReply(c)
      PROVE  Shown'
  BY <1>2 DEF DeliverReply, conns, cache, shown, Inv, TypeOK, WorkTypeOK,
              Shown, OpenKnown, NoticedDown, AnswerLive, FailedDead,
              LiveBaseline
<1>3. ASSUME NEW c \in Conns, DeliverPush(c)
      PROVE  Shown'
  BY <1>3 DEF DeliverPush, conns, work, Shown, OpenKnown, NoticedDown,
              AnswerLive, FailedDead, LiveBaseline
<1>4. ASSUME NEW c \in Conns, LinkDrop(c)
      PROVE  Shown'
  BY <1>4 DEF LinkDrop, conns, work, cache, shown, Inv, TypeOK, PeerTypeOK,
              ConnsTypeOK, Shown, OpenKnown, NoticedDown, AnswerLive,
              FailedDead, LiveBaseline
<1>5. ASSUME NEW c \in Conns, HandleDisconnect(c)
      PROVE  Shown'
  <2>1. link[c] = "down" /\ notices' \subseteq notices
    BY <1>5 DEF HandleDisconnect, Shown, NoticedDown
  <2>2. CASE current = c /\ MarkFailed(c)
    BY <1>5, <2>1, <2>2, MarkFailedShown DEF HandleDisconnect
  <2>3. CASE UNCHANGED <<failed, baseline, success>> /\ (op'.same => op.same)
             /\ op'.conn = op.conn /\ op'.req = op.req
    BY <1>5, <2>1, <2>3
       DEF HandleDisconnect, Shown, OpenKnown, NoticedDown, AnswerLive,
           FailedDead, LiveBaseline
  <2> QED
    BY <1>5, <2>2, <2>3 DEF HandleDisconnect, Inv, TypeOK, WorkTypeOK
<1>6. ASSUME NEW c \in Conns, ReaderDies(c)
      PROVE  Shown'
  <2>1. CASE current = c
    BY <1>6, <2>1, MarkFailedShown DEF ReaderDies
  <2>2. CASE current # c
    BY <1>6, <2>2
       DEF ReaderDies, Shown, OpenKnown, NoticedDown, AnswerLive, FailedDead,
           LiveBaseline
  <2> QED
    BY <2>1, <2>2
<1>7. CASE NoncesSpent \/ \E k \in Keys : Change(k)
  BY <1>7 DEF NoncesSpent, Change, conns, work, cache, shown, Shown,
              OpenKnown, NoticedDown, AnswerLive, FailedDead, LiveBaseline
<1> QED
  BY <1>1, <1>2, <1>3, <1>4, <1>5, <1>6, <1>7 DEF Peer

LEMMA NextShown == Inv /\ Shown /\ [Next]_vars => Shown'
<1> SUFFICES ASSUME Inv, Shown, [Next]_vars
             PROVE  Shown'
  OBVIOUS
<1>1. ASSUME NEW t \in Tasks, NEW what \in {"poll", "write"}, Start(t, what)
      PROVE  Shown'
  BY <1>1 DEF Start, peer, conns, cache, shown, Shown, OpenKnown,
              NoticedDown, AnswerLive, FailedDead, LiveBaseline
<1>2. CASE RequestShutdown
  BY <1>2 DEF RequestShutdown, peer, conns, work, cache, shown, Shown,
              OpenKnown, NoticedDown, AnswerLive, FailedDead, LiveBaseline
<1>3. CASE UNCHANGED vars
  BY <1>3 DEF vars, peer, conns, work, cache, shown, Shown,
              OpenKnown, NoticedDown, AnswerLive, FailedDead, LiveBaseline
<1> QED
  BY <1>1, <1>2, <1>3, OperationShown, CancelShown, BackgroundShown,
     PeerShown
     DEF Next

LEMMA ShownInvariance == Spec => []Shown
<1> QED
  BY InitShown, NextShown, Invariance, PTL DEF Spec

\* After a failure has been reported, no late answer, queued publication or
\* push makes the entities of that connection available again.
THEOREM NeverResurrected == Spec => []NoResurrection
<1>1. Shown => NoResurrection
  BY DEF Shown, FailedDead, NoResurrection
<1> QED
  BY <1>1, ShownInvariance, PTL

\* The session whose read is the baseline of what is shown is attached, is
\* read from, and is not reported failed.
THEOREM AlwaysLive == Spec => []LiveBaseline
<1>1. Shown => LiveBaseline
  BY DEF Shown
<1> QED
  BY <1>1, ShownInvariance, PTL

-----------------------------------------------------------------------------
(* Pushed changes.                                                         *)

\* A publication is marked as pending only while one for the baseline is
\* queued.
PubQueued == pubPending => baseline # NoConn /\ Queued(pubs, baseline)

\* What is appended is queued, and so is what was queued before.
LEMMA AppendQueued ==
    ASSUME NEW S, NEW s \in Seq(S), NEW x \in S, NEW y,
           y = x \/ Queued(s, y)
    PROVE  Queued(Append(s, x), y)
<1>1. CASE y = x
  <2>1. Len(s) + 1 \in DOMAIN Append(s, x) /\ Append(s, x)[Len(s) + 1] = y
    BY <1>1
  <2> QED
    BY <2>1 DEF Queued
<1>2. ASSUME NEW i \in DOMAIN s, s[i] = y
      PROVE  Queued(Append(s, x), y)
  <2>1. i \in DOMAIN Append(s, x) /\ Append(s, x)[i] = y
    BY <1>2
  <2> QED
    BY <2>1 DEF Queued
<1> QED
  BY <1>1, <1>2 DEF Queued

\* Taking the head away loses nothing but the head.
LEMMA TailQueued ==
    ASSUME NEW S, NEW s \in Seq(S), s # <<>>, NEW y, Queued(s, y),
           y # Head(s)
    PROVE  Queued(Tail(s), y)
<1>1. PICK i \in DOMAIN s : s[i] = y
  BY DEF Queued
<1>2. i # 1
  BY <1>1
<1>3. i - 1 \in DOMAIN Tail(s) /\ Tail(s)[i - 1] = y
  BY <1>1, <1>2
<1> QED
  BY <1>3 DEF Queued

LEMMA PushKept ==
    ASSUME Inv, Shown, PubQueued, NoLostUpdate, NEW c \in Conns,
           DeliverPush(c)
    PROVE  PubQueued' /\ NoLostUpdate'
<1> DEFINE k == Head(wire[c]).key
           v == Head(wire[c]).ver
<1>1. data' = data /\ baseline' = baseline /\ current = current
  BY DEF DeliverPush
<1>2. CASE ~StillAttached(c)
  BY <1>1, <1>2 DEF DeliverPush, PubQueued, NoLostUpdate
<1>3. CASE StillAttached(c)
  <2>1. HandleNotification(c, k, v)
    BY <1>3 DEF DeliverPush
  <2>2. baseline # NoConn => baseline = c
    BY <1>3 DEF StillAttached, Shown, LiveBaseline
  <2>3. pubs \in Seq(Conns) /\ props \in Values
    BY DEF Inv, TypeOK, ShownTypeOK, CacheTypeOK
  <2>4. CASE props[k] # v /\ baseline = c /\ ~pubPending
    <3>1. pubPending' /\ pubs' = Append(pubs, c)
      BY <2>1, <2>4 DEF HandleNotification
    <3>2. Queued(pubs', c)
      BY <3>1, <2>3, AppendQueued
    <3> QED
      BY <1>1, <2>4, <3>2, ConstantsAssumption DEF PubQueued, NoLostUpdate
  <2>5. CASE ~(props[k] # v /\ baseline = c /\ ~pubPending)
    <3>1. UNCHANGED <<pubPending, pubs>>
      BY <2>1, <2>5 DEF HandleNotification
    <3>2. props[k] = v => props' = props
      BY <2>1, <2>3 DEF HandleNotification, Values
    <3>3. baseline # NoConn => props' = props \/ pubPending
      BY <2>2, <2>5, <3>2
    <3> QED
      BY <1>1, <3>1, <3>3 DEF PubQueued, NoLostUpdate
  <2> QED
    BY <2>4, <2>5
<1> QED
  BY <1>2, <1>3

LEMMA PublishKept ==
    ASSUME Inv, Shown, PubQueued, NoLostUpdate, Publish
    PROVE  PubQueued' /\ NoLostUpdate'
<1>1. ~pubPending' /\ baseline' = baseline /\ props' = props
  BY DEF Publish
<1>2. pubs \in Seq(Conns) /\ pubs # <<>> /\ pubs' = Tail(pubs)
  BY DEF Publish, Inv, TypeOK, ShownTypeOK
<1>3. CASE baseline = Head(pubs)
  <2>1. baseline # NoConn
    BY <1>2, <1>3, ConstantsAssumption
  <2>2. data' = props
    BY <1>3, <2>1 DEF Publish, Shown, LiveBaseline
  <2> QED
    BY <1>1, <2>2 DEF PubQueued, NoLostUpdate
<1>4. CASE baseline # Head(pubs)
  <2>1. data' = data
    BY <1>4 DEF Publish
  <2>2. Queued(pubs, baseline) => Queued(pubs', baseline)
    BY <1>2, <1>4, TailQueued
  <2> QED
    BY <1>1, <2>1, <2>2 DEF PubQueued, NoLostUpdate
<1> QED
  BY <1>3, <1>4

\* A step that leaves cache and publications alone, forgets the connection,
\* or invalidates the baseline.
LEMMA CacheKept ==
    ASSUME PubQueued, NoLostUpdate, UNCHANGED pubs,
           \/ UNCHANGED <<props, baseline, pubPending, data>>
           \/ baseline' = NoConn /\ pubPending' = FALSE
    PROVE  PubQueued' /\ NoLostUpdate'
BY DEF PubQueued, NoLostUpdate

LEMMA OperationKept ==
    ASSUME Inv, Shown, PubQueued, NoLostUpdate, NEW t \in Tasks,
           Operation(t)
    PROVE  PubQueued' /\ NoLostUpdate'
<1>1. CASE AcquireRefused(t) \/ DialFails(t) \/ CallFails(t)
           \/ AcquireStale(t)
  BY <1>1, CacheKept
     DEF AcquireRefused, DialFails, CallFails, AcquireStale, Fail,
         ForgetConnection, shown
<1>2. CASE AcquireReuse(t) \/ AcquireFresh(t) \/ SetupFails(t)
           \/ SetupOk(t) \/ WriteOk(t) \/ SettleDone(t)
  BY <1>2, CacheKept
     DEF AcquireReuse, AcquireFresh, SetupFails, UndoSetup, SetupOk, WriteOk,
         SettleDone, cache, shown
<1>3. ASSUME NEW c \in Conns, DialOk(t, c)
      PROVE  PubQueued' /\ NoLostUpdate'
  BY <1>3, CacheKept DEF DialOk, cache, shown
<1>4. CASE PollOk(t)
  <2>1. data' = props' /\ UNCHANGED <<pubs, pubPending>>
    BY <1>4 DEF PollOk
  <2>2. pubPending => baseline' = baseline
    BY <1>4 DEF PollOk, PubQueued, Shown, LiveBaseline
  <2> QED
    BY <2>1, <2>2 DEF PubQueued, NoLostUpdate
<1>5. CASE RefitReleased(t) \/ DropReleased(t) \/ UndoReleased(t)
  BY <1>5, CacheKept
     DEF RefitReleased, DropReleased, UndoReleased, ClientReleased, cache
<1> QED
  BY <1>1, <1>2, <1>3, <1>4, <1>5 DEF Operation

LEMMA NextKept ==
    Inv /\ Shown /\ PubQueued /\ NoLostUpdate /\ [Next]_vars
        => PubQueued' /\ NoLostUpdate'
<1> SUFFICES ASSUME Inv, Shown, PubQueued, NoLostUpdate, [Next]_vars
             PROVE  PubQueued' /\ NoLostUpdate'
  OBVIOUS
<1>1. ASSUME NEW t \in Tasks,
             Cancel(t) \/ \E what \in {"poll", "write"} : Start(t, what)
      PROVE  PubQueued' /\ NoLostUpdate'
  BY <1>1, CacheKept
     DEF Cancel, CancelPlain, CancelCall, CancelSetup, UndoSetup,
         CancelShielded, CancelRelease, Start, cache, shown
<1>2. CASE ReleaseNext \/ AgentReleased \/ IdleTick \/ ShutdownJoin
  BY <1>2, CacheKept
     DEF ReleaseNext, AgentReleased, ClientReleased, IdleTick, ShutdownJoin,
         cache, shown
<1>3. CASE IdleAcquire \/ CleanupAcquire \/ ShutdownAcquire
  BY <1>3, CacheKept
     DEF IdleAcquire, CleanupAcquire, ShutdownAcquire, SeizeFor,
         ForgetConnection, cache, shown
<1>4. ASSUME NEW c \in Conns, HandleDisconnect(c) \/ ReaderDies(c)
      PROVE  PubQueued' /\ NoLostUpdate'
  BY <1>4, CacheKept DEF HandleDisconnect, ReaderDies, MarkFailed
<1>5. ASSUME NEW c \in Conns, DeliverReply(c) \/ LinkDrop(c)
      PROVE  PubQueued' /\ NoLostUpdate'
  BY <1>5, CacheKept DEF DeliverReply, LinkDrop, cache, shown
<1>6. CASE Serve \/ NoncesSpent \/ \E k \in Keys : Change(k)
  BY <1>6, CacheKept DEF Serve, NoncesSpent, Change, cache, shown
<1>7. CASE RequestShutdown \/ UNCHANGED vars
  BY <1>7, CacheKept DEF RequestShutdown, vars, cache, shown
<1> QED
  BY <1>1, <1>2, <1>3, <1>4, <1>5, <1>6, <1>7, OperationKept, PushKept,
     PublishKept
     DEF Next, Background, Peer

\* While a session has a completed read, every change that was pushed is
\* shown already or a publication for this session is queued.
THEOREM NothingLost == Spec => []NoLostUpdate
<1>1. Init => PubQueued /\ NoLostUpdate
  BY DEF Init, PubQueued, NoLostUpdate
<1> QED
  BY <1>1, NextKept, Invariance, ShownInvariance, PTL DEF Spec

-----------------------------------------------------------------------------
(* The background cleanup.                                                 *)

\* A cleanup is about a failed client, as long as this one is around; while
\* it releases, it has the lock and releases that client.
CleanupAimed ==
    /\ cleanup.at # "none" /\ cleanup.conn \in {current, connecting}
          => cleanup.conn \in failed
    /\ cleanup.at # "none" => cleanup.conn \in Conns
    /\ cleanup.at = "release" => lock = "cleanup" /\ rel.conn \in failed

\* While the cleanup releases, no task gets anywhere near the connection.
LEMMA TasksKeptOut ==
    ASSUME Inv, lock = "cleanup", NEW t \in Tasks,
           Operation(t) \/ Cancel(t)
    PROVE  UNCHANGED <<lock, rel, failed, current, connecting, cleanup>>
<1>1. ~Holds(t) /\ lock # "free"
  BY ConstantsAssumption DEF Inv, Ownership, LockOwned, Agents
<1>2. ASSUME Operation(t)
      PROVE  SettleDone(t)
  BY <1>1, <1>2
     DEF Operation, Acquiring, Holds, AcquireRefused, AcquireReuse,
         AcquireStale, AcquireFresh, DialFails, DialOk, SetupFails,
         UndoSetup, SetupOk, PollOk, WriteOk, CallFails, RefitReleased,
         DropReleased, UndoReleased
<1>3. ASSUME Cancel(t)
      PROVE  CancelPlain(t) /\ lock # t
  BY <1>1, <1>3, ConstantsAssumption
     DEF Cancel, Holds, CancelCall, CancelSetup, UndoSetup, CancelShielded,
         CancelRelease, Agents
<1> QED
  BY <1>2, <1>3 DEF SettleDone, CancelPlain, conns, bg

\* A step that releases, forgets or replaces the connection but does not
\* mark one as failed keeps the cleanup aimed.
LEMMA AimKept ==
    ASSUME Inv, CleanupAimed, lock # "cleanup",
           UNCHANGED cleanup,
           current' \in {NoConn, current, connecting},
           \/ connecting' \in {NoConn, connecting}
           \/ connecting' \in Conns /\ Forgotten(connecting'),
           \/ UNCHANGED failed
           \/ /\ rel.at = "client" /\ failed' = failed \ {rel.conn}
              /\ UNCHANGED <<current, connecting>>
    PROVE  CleanupAimed'
BY AgentDetached, ConstantsAssumption DEF CleanupAimed, Forgotten

LEMMA OperationAimed ==
    ASSUME Inv, CleanupAimed, NEW t \in Tasks,
           Operation(t) \/ Cancel(t)
    PROVE  CleanupAimed'
<1>1. CASE lock = "cleanup"
  BY <1>1, TasksKeptOut DEF CleanupAimed
<1>2. CASE lock # "cleanup" /\ Cancel(t)
  BY <1>2, AimKept
     DEF Cancel, CancelPlain, CancelCall, CancelSetup, UndoSetup,
         CancelShielded, CancelRelease, conns, bg
<1>3. ASSUME lock # "cleanup", NEW c \in Conns, DialOk(t, c)
      PROVE  CleanupAimed'
  BY <1>3, AimKept DEF DialOk, bg
<1>4. CASE /\ lock # "cleanup"
           /\ RefitReleased(t) \/ DropReleased(t) \/ UndoReleased(t)
  BY <1>4, AimKept
     DEF RefitReleased, DropReleased, UndoReleased, ClientReleased, bg
<1>5. CASE /\ lock # "cleanup"
           /\ \/ AcquireRefused(t) \/ AcquireStale(t) \/ DialFails(t)
              \/ CallFails(t)
  BY <1>5, AimKept
     DEF AcquireRefused, AcquireStale, DialFails, CallFails, Fail,
         ForgetConnection, bg
<1>6. CASE /\ lock # "cleanup"
           /\ \/ AcquireReuse(t) \/ AcquireFresh(t) \/ PollOk(t) \/ WriteOk(t)
              \/ SettleDone(t) \/ SetupFails(t) \/ SetupOk(t)
  BY <1>6, AimKept
     DEF AcquireReuse, AcquireFresh, PollOk, WriteOk, SettleDone, SetupFails,
         UndoSetup, SetupOk, conns, bg
<1> QED
  BY <1>1, <1>2, <1>3, <1>4, <1>5, <1>6 DEF Operation

LEMMA BackgroundAimed ==
    ASSUME Inv, CleanupAimed, Background
    PROVE  CleanupAimed'
<1>1. CASE ReleaseNext \/ ShutdownJoin \/ Publish \/ IdleTick
  BY <1>1
     DEF ReleaseNext, ShutdownJoin, Publish, IdleTick, CleanupAimed, conns,
         work, bg, Inv, TypeOK, WorkTypeOK
<1>2. CASE AgentReleased
  <2>1. CASE CleanupReleased
    BY <2>1 DEF CleanupReleased, NoCleanup, CleanupAimed
  <2>2. CASE IdleReleased \/ ShutdownReleased
    BY <1>2, <2>2, AimKept
       DEF AgentReleased, IdleReleased, ShutdownReleased, ClientReleased
  <2> QED
    BY <1>2, <2>1, <2>2 DEF AgentReleased
<1>3. CASE IdleAcquire
  BY <1>3, AimKept DEF IdleAcquire, SeizeFor, ForgetConnection
<1>4. CASE CleanupAcquire
  <2>1. CASE StillAttached(cleanup.conn)
    BY <1>4, <2>1, ConstantsAssumption
       DEF CleanupAcquire, StillAttached, SeizeFor, ForgetConnection,
           Captured, CleanupAimed, Inv, TypeOK, BgTypeOK, Ownership,
           SetupOwned, Agents
  <2>2. CASE ~StillAttached(cleanup.conn)
    BY <1>4, <2>2 DEF CleanupAcquire, NoCleanup, CleanupAimed
  <2> QED
    BY <2>1, <2>2
<1>5. CASE ShutdownAcquire
  BY <1>5, AimKept DEF ShutdownAcquire, ForgetConnection
<1> QED
  BY <1>1, <1>2, <1>3, <1>4, <1>5 DEF Background

LEMMA MarkAimed ==
    ASSUME Inv, CleanupAimed, NEW c \in Conns, MarkFailed(c),
           UNCHANGED <<lock, rel, current, connecting>>
    PROVE  CleanupAimed'
BY DEF MarkFailed, ScheduleCleanup, CleanupAimed

LEMMA NextAimed == Inv /\ CleanupAimed /\ [Next]_vars => CleanupAimed'
<1> SUFFICES ASSUME Inv, CleanupAimed, [Next]_vars
             PROVE  CleanupAimed'
  OBVIOUS
<1>1. ASSUME NEW t \in Tasks, NEW what, Start(t, what)
      PROVE  CleanupAimed'
  BY <1>1 DEF Start, CleanupAimed, conns, bg
<1>2. ASSUME NEW c \in Conns, HandleDisconnect(c) \/ ReaderDies(c)
      PROVE  CleanupAimed'
  BY <1>2, MarkAimed DEF HandleDisconnect, ReaderDies, CleanupAimed
<1>3. ASSUME NEW c \in Conns, DeliverReply(c) \/ DeliverPush(c) \/ LinkDrop(c)
      PROVE  CleanupAimed'
  BY <1>3
     DEF DeliverReply, DeliverPush, LinkDrop, CleanupAimed, conns, work, bg
<1>4. CASE \/ Serve \/ NoncesSpent \/ RequestShutdown \/ UNCHANGED vars
           \/ \E k \in Keys : Change(k)
  BY <1>4
     DEF Serve, NoncesSpent, RequestShutdown, Change, CleanupAimed, conns,
         work, bg, vars
<1> QED
  BY <1>1, <1>2, <1>3, <1>4, OperationAimed, BackgroundAimed DEF Next, Peer

LEMMA InitAimed == Init => CleanupAimed
BY DEF Init, CleanupAimed, NoCleanup

\* Every step that changes what the cleanup releases is its own.
LEMMA AimedStep ==
    Inv /\ CleanupAimed /\ CleanupAimed' /\ [Next]_vars
        => (cleanup'.at = "release" => rel'.conn \in failed \/ UNCHANGED rel)
<1> SUFFICES ASSUME Inv, CleanupAimed, CleanupAimed', [Next]_vars,
                    cleanup'.at = "release", rel' # rel
             PROVE  rel'.conn \in failed
  OBVIOUS
<1>1. ASSUME NEW t \in Tasks, Operation(t) \/ Cancel(t)
      PROVE  FALSE
  <2>1. cleanup' = cleanup
    BY <1>1
       DEF Operation, AcquireRefused, AcquireReuse, AcquireStale,
           AcquireFresh, DialFails, DialOk, SetupFails, UndoSetup, SetupOk,
           PollOk, WriteOk, CallFails, SettleDone, RefitReleased,
           DropReleased, UndoReleased, Cancel, CancelPlain, CancelCall,
           CancelSetup, CancelShielded, CancelRelease, bg
  <2> QED
    BY <1>1, <2>1, TasksKeptOut DEF CleanupAimed
<1>2. CASE ReleaseNext
  BY <1>2 DEF ReleaseNext, CleanupAimed, Inv, TypeOK, WorkTypeOK, bg
<1>3. CASE CleanupAcquire
  BY <1>3, ConstantsAssumption
     DEF CleanupAcquire, StillAttached, SeizeFor, ForgetConnection, Captured,
         CleanupAimed, NoCleanup
<1>4. CASE AgentReleased \/ IdleAcquire \/ ShutdownAcquire
  BY <1>4
     DEF AgentReleased, IdleReleased, CleanupReleased, ShutdownReleased,
         IdleAcquire, ShutdownAcquire, CleanupAimed, NoCleanup
<1>5. CASE IdleTick \/ ShutdownJoin \/ Publish \/ Peer \/ RequestShutdown
           \/ UNCHANGED vars
  BY <1>5
     DEF IdleTick, ShutdownJoin, Publish, Peer, RequestShutdown, vars, work,
         Serve, NoncesSpent, DeliverReply, DeliverPush, LinkDrop,
         HandleDisconnect, ReaderDies, Change
<1>6. ASSUME NEW t \in Tasks, NEW what, Start(t, what)
      PROVE  FALSE
  BY <1>6 DEF Start
<1> QED
  BY <1>1, <1>2, <1>3, <1>4, <1>5, <1>6 DEF Next, Background

\* A background cleanup releases a connection that was reported failed, never
\* a newer, healthy one.
THEOREM OnlyFailedCleaned == Spec => CleanupOnlyFailed
<1> QED
  BY InitAimed, NextAimed, AimedStep, Invariance, PTL
     DEF Spec, CleanupOnlyFailed

-----------------------------------------------------------------------------
(* What the sessions have still to tell.                                   *)

\* What a frame tells of property k, and the pushes of it.
Tells(f, k) == IsPush(f) => f.key = k
Told(f, k) == IF IsPush(f) THEN f.ver ELSE f.vals[k]
Pushes(f, k) == IsPush(f) /\ f.key = k
NoPush(w, k) == \A i \in DOMAIN w : ~Pushes(w[i], k)

\* All that w tells of k is at least x.
AtLeast(w, k, x) == \A i \in DOMAIN w : Tells(w[i], k) => x <= Told(w[i], k)

\* What w tells of k never goes back and is not ahead of the charger, which has
\* the value hi; while the link is up, what no push corrects is this value.
Stream(w, k, hi, up) ==
    \A i \in DOMAIN w : Tells(w[i], k) =>
        /\ Told(w[i], k) <= hi
        /\ \A j \in DOMAIN w :
              i < j /\ Tells(w[j], k) => Told(w[i], k) <= Told(w[j], k)
        /\ up /\ (\A j \in DOMAIN w : i < j => ~Pushes(w[j], k))
              => Told(w[i], k) = hi

Session(s) == s \in {current, connecting} /\ s # NoConn

\* A request is under way on the attached session, and no other is set up.
Answered == op.req = "answered"
Asking ==
    op.req # "none" =>
        op.conn = current /\ current # NoConn /\ connecting = NoConn

Streams ==
    \A s \in Conns, k \in Keys : Session(s) =>
        /\ Stream(wire[s], k, dev[k], link[s] = "up")
        /\ AtLeast(wire[s], k, 1) /\ AtLeast(wire[s], k, data[k])

\* The cache and the answer are of the attached session, and no newer than what
\* it has still to tell.
Cached ==
    \A k \in Keys :
        /\ current = NoConn => props[k] = 0
        /\ current # NoConn => AtLeast(wire[current], k, props[k])
        /\ Answered => AtLeast(wire[current], k, op.vals[k])
        /\ pend[k] \in {0, props[k]}
        /\ props[k] <= dev[k] /\ data[k] <= dev[k] /\ dev[k] >= 1
        /\ Answered => op.vals[k] >= 1 /\ op.vals[k] <= dev[k]

\* What is shown is no newer than the cache, once it is filled, nor than what
\* will fill it.
NotNewer ==
    \A k \in Keys :
        /\ baseline # NoConn => props[k] # 0
        /\ props[k] # 0 => data[k] <= props[k]
        /\ Answered /\ pend[k] = 0 =>
              props[k] <= op.vals[k] /\ data[k] <= op.vals[k]

\* What no push will correct is what the charger has.
UpToDate ==
    \A k \in Keys :
        current # NoConn /\ link[current] = "up" /\ NoPush(wire[current], k) =>
            /\ props[k] \in {0, dev[k]}
            /\ Answered => pend[k] # 0 \/ op.vals[k] = dev[k]

Telling == Streams /\ Cached /\ NotNewer /\ UpToDate

LEMMA ToldType ==
    ASSUME NEW f \in Frames, NEW k \in Keys
    PROVE  Told(f, k) \in Nat
BY ConstantsAssumption DEF Told, IsPush, Frames, Values, Versions

\* What has been read of a session is not ahead of what it has still to tell.
LEMMA TailStream ==
    ASSUME NEW w \in Seq(Frames), w # <<>>, NEW k \in Keys, NEW hi \in Nat,
           NEW up \in BOOLEAN, Stream(w, k, hi, up)
    PROVE  /\ Stream(Tail(w), k, hi, up)
           /\ \A x \in Nat : AtLeast(w, k, x) => AtLeast(Tail(w), k, x)
           /\ Tells(Head(w), k) =>
                /\ AtLeast(Tail(w), k, Told(Head(w), k))
                /\ Told(Head(w), k) <= hi
                /\ up /\ NoPush(Tail(w), k) => Told(Head(w), k) = hi
                /\ \A x \in Nat : AtLeast(w, k, x) => x <= Told(Head(w), k)
           /\ NoPush(Tail(w), k) /\ ~Pushes(Head(w), k) => NoPush(w, k)
<1> DEFINE u == Tail(w)
<1>1. /\ u \in Seq(Frames) /\ Len(u) = Len(w) - 1 /\ Len(w) \in Nat \ {0}
      /\ DOMAIN w = 1 .. Len(w) /\ DOMAIN u = 1 .. Len(u)
  BY HeadTailProperties, EmptySeq, LenProperties
<1>2. \A i \in DOMAIN u : i + 1 \in DOMAIN w /\ u[i] = w[i + 1]
  BY <1>1
<1>3. 1 \in DOMAIN w /\ w[1] = Head(w)
  BY <1>1
<1>4. \A j \in DOMAIN w : j = 1 \/ (j - 1 \in DOMAIN u /\ u[j - 1] = w[j])
  BY <1>1, <1>2
<1> HIDE DEF u
<1>5. \A i \in DOMAIN u : (\A j \in DOMAIN u : i < j => ~Pushes(u[j], k))
          => \A j \in DOMAIN w : i + 1 < j => ~Pushes(w[j], k)
  <2> SUFFICES ASSUME NEW i \in DOMAIN u, NEW j \in DOMAIN w, i + 1 < j,
                      \A m \in DOMAIN u : i < m => ~Pushes(u[m], k)
               PROVE  ~Pushes(w[j], k)
    OBVIOUS
  <2>1. j # 1 /\ i < j - 1
    BY <1>1
  <2>2. j - 1 \in DOMAIN u /\ u[j - 1] = w[j]
    BY <1>4, <2>1
  <2> QED
    BY <2>1, <2>2
<1>6. Stream(u, k, hi, up)
  <2> SUFFICES ASSUME NEW i \in DOMAIN u, Tells(u[i], k)
               PROVE  /\ Told(u[i], k) <= hi
                      /\ \A j \in DOMAIN u : i < j /\ Tells(u[j], k)
                            => Told(u[i], k) <= Told(u[j], k)
                      /\ up /\ (\A j \in DOMAIN u :
                                    i < j => ~Pushes(u[j], k))
                            => Told(u[i], k) = hi
    BY DEF Stream
  <2>1. i + 1 \in DOMAIN w /\ u[i] = w[i + 1]
    BY <1>2
  <2>2. \A j \in DOMAIN u : i < j => j + 1 \in DOMAIN w /\ u[j] = w[j + 1]
                                     /\ i + 1 < j + 1
    BY <1>1, <1>2
  <2>3. ASSUME NEW j \in DOMAIN u, i < j, Tells(u[j], k)
        PROVE  Told(u[i], k) <= Told(u[j], k)
    BY <2>1, <2>2, <2>3 DEF Stream
  <2>4. ASSUME up, \A j \in DOMAIN u : i < j => ~Pushes(u[j], k)
        PROVE  Told(u[i], k) = hi
    BY <2>1, <2>4, <1>5 DEF Stream
  <2>5. Told(u[i], k) <= hi
    BY <2>1 DEF Stream
  <2> QED
    BY <2>3, <2>4, <2>5
<1>7. \A x \in Nat : AtLeast(w, k, x) => AtLeast(u, k, x)
  BY <1>2 DEF AtLeast
<1>8. ASSUME Tells(Head(w), k)
      PROVE  /\ AtLeast(u, k, Told(Head(w), k))
             /\ Told(Head(w), k) <= hi
             /\ up /\ NoPush(u, k) => Told(Head(w), k) = hi
             /\ \A x \in Nat : AtLeast(w, k, x) => x <= Told(Head(w), k)
  <2>1. \A j \in DOMAIN u : Tells(u[j], k) => Told(w[1], k) <= Told(u[j], k)
    <3> SUFFICES ASSUME NEW j \in DOMAIN u, Tells(u[j], k)
                 PROVE  Told(w[1], k) <= Told(u[j], k)
      OBVIOUS
    <3>1. j + 1 \in DOMAIN w /\ u[j] = w[j + 1] /\ 1 < j + 1
      BY <1>1, <1>2
    <3> QED
      BY <3>1, <1>3, <1>8 DEF Stream
  <2>2. Told(w[1], k) <= hi
    BY <1>3, <1>8 DEF Stream
  <2>3. ASSUME up, NoPush(u, k)
        PROVE  Told(w[1], k) = hi
    <3>1. \A j \in DOMAIN w : 1 < j => ~Pushes(w[j], k)
      BY <1>4, <2>3 DEF NoPush
    <3> QED
      BY <3>1, <1>3, <1>8, <2>3 DEF Stream
  <2>4. \A x \in Nat : AtLeast(w, k, x) => x <= Told(w[1], k)
    BY <1>3, <1>8 DEF AtLeast
  <2> QED
    BY <2>1, <2>2, <2>3, <2>4, <1>3 DEF AtLeast
<1>9. NoPush(u, k) /\ ~Pushes(Head(w), k) => NoPush(w, k)
  BY <1>3, <1>4 DEF NoPush
<1> QED
  BY <1>6, <1>7, <1>8, <1>9 DEF u

\* A frame that is sent tells what the charger has then; only a push of k
\* changes what it has of k.
LEMMA AppendStream ==
    ASSUME NEW w \in Seq(Frames), NEW f \in Frames, NEW k \in Keys,
           NEW hi \in Nat, NEW hi2 \in Nat, NEW up \in BOOLEAN,
           Stream(w, k, hi, up), hi <= hi2,
           Tells(f, k) => Told(f, k) = hi2,
           ~Pushes(f, k) => hi2 = hi
    PROVE  /\ Stream(Append(w, f), k, hi2, up)
           /\ \A x \in Nat : AtLeast(w, k, x) /\ x <= hi2
                                => AtLeast(Append(w, f), k, x)
           /\ NoPush(Append(w, f), k) => NoPush(w, k) /\ hi2 = hi
<1> DEFINE u == Append(w, f)
           n == Len(w) + 1
<1>1. /\ Len(w) \in Nat /\ DOMAIN w = 1 .. Len(w) /\ DOMAIN u = 1 .. n
      /\ u[n] = f /\ n \in Nat
  BY AppendProperties, LenProperties
<1>2. \A i \in DOMAIN w : i \in DOMAIN u /\ u[i] = w[i] /\ i < n
  BY <1>1
<1>3. \A i \in DOMAIN u : i \in Nat /\ (i = n \/ i \in DOMAIN w)
  BY <1>1
<1>4. n \in DOMAIN u
  BY <1>1
<1>4a. \A i \in DOMAIN w : Told(w[i], k) \in Nat
  BY ToldType, ElementOfSeq, <1>1
<1> HIDE DEF u, n
<1>5. Stream(u, k, hi2, up)
  <2> SUFFICES ASSUME NEW i \in DOMAIN u, Tells(u[i], k)
               PROVE  /\ Told(u[i], k) <= hi2
                      /\ \A j \in DOMAIN u : i < j /\ Tells(u[j], k)
                            => Told(u[i], k) <= Told(u[j], k)
                      /\ up /\ (\A j \in DOMAIN u :
                                    i < j => ~Pushes(u[j], k))
                            => Told(u[i], k) = hi2
    BY DEF Stream
  <2>1. CASE i = n
    <3>1. Told(u[i], k) = hi2
      BY <2>1, <1>1
    <3>2. \A j \in DOMAIN u : ~(i < j)
      BY <2>1, <1>1
    <3> QED
      BY <3>1, <3>2
  <2>2. CASE i \in DOMAIN w
    <3>1. u[i] = w[i] /\ Tells(w[i], k) /\ i < n /\ Told(w[i], k) \in Nat
      BY <2>2, <1>2, <1>4a
    <3>2. Told(w[i], k) <= hi
      BY <2>2, <3>1 DEF Stream
    <3>3. ASSUME NEW j \in DOMAIN u, i < j, Tells(u[j], k)
          PROVE  Told(u[i], k) <= Told(u[j], k)
      <4>1. CASE j = n
        BY <4>1, <1>1, <3>1, <3>2, <3>3
      <4>2. CASE j \in DOMAIN w
        <5>1. u[j] = w[j]
          BY <4>2, <1>2
        <5> QED
          BY <5>1, <4>2, <2>2, <3>1, <3>3 DEF Stream
      <4> QED
        BY <4>1, <4>2, <1>3
    <3>4. ASSUME up, \A j \in DOMAIN u : i < j => ~Pushes(u[j], k)
          PROVE  Told(u[i], k) = hi2
      <4>1. ~Pushes(f, k)
        BY <3>4, <3>1, <1>1, <1>4
      <4>2. \A j \in DOMAIN w : i < j => ~Pushes(w[j], k)
        BY <3>4, <1>2
      <4>3. Told(w[i], k) = hi
        BY <4>2, <2>2, <3>1, <3>4 DEF Stream
      <4> QED
        BY <4>1, <4>3, <3>1
    <3> QED
      BY <3>1, <3>2, <3>3, <3>4
  <2> QED
    BY <2>1, <2>2, <1>3
<1>6. ASSUME NEW x \in Nat, AtLeast(w, k, x), x <= hi2
      PROVE  AtLeast(u, k, x)
  <2> SUFFICES ASSUME NEW i \in DOMAIN u, Tells(u[i], k)
               PROVE  x <= Told(u[i], k)
    BY DEF AtLeast
  <2>1. CASE i = n
    BY <2>1, <1>1, <1>6
  <2>2. CASE i \in DOMAIN w
    BY <2>2, <1>2, <1>6 DEF AtLeast
  <2> QED
    BY <2>1, <2>2, <1>3
<1>7. NoPush(u, k) => NoPush(w, k) /\ hi2 = hi
  BY <1>1, <1>2, <1>4 DEF NoPush
<1> QED
  BY <1>5, <1>6, <1>7 DEF u

\* The frames that stay when an answer is thrown away tell the same story.
LEMMA WithoutAnswerStream ==
    ASSUME NEW w \in Seq(Frames), NEW k \in Keys, NEW hi \in Nat,
           NEW up \in BOOLEAN, Stream(w, k, hi, up)
    PROVE  /\ Stream(WithoutAnswer(w), k, hi, up)
           /\ \A x \in Nat : AtLeast(w, k, x)
                                => AtLeast(WithoutAnswer(w), k, x)
           /\ NoPush(WithoutAnswer(w), k) => NoPush(w, k)
<1>1. CASE \A i \in DOMAIN w : IsPush(w[i])
  BY <1>1 DEF WithoutAnswer
<1>2. CASE ~\A i \in DOMAIN w : IsPush(w[i])
  <2> DEFINE a == CHOOSE i \in DOMAIN w : ~IsPush(w[i])
             p == SubSeq(w, 1, a - 1)
             q == SubSeq(w, a + 1, Len(w))
             u == p \o q
  <2>1. a \in 1 .. Len(w) /\ Len(w) \in Nat /\ ~IsPush(w[a])
        /\ DOMAIN w = 1 .. Len(w)
    BY <1>2, LenProperties
  <2>2. WithoutAnswer(w) = IF \A i \in DOMAIN w : IsPush(w[i]) THEN w ELSE u
    BY DEF WithoutAnswer
  <2> HIDE DEF a
  <2>3. p \in Seq(Frames) /\ Len(p) = a - 1
        /\ \A i \in 1 .. a - 1 : p[i] = w[i]
    <3>1. a - 1 \in Nat /\ a - 1 <= Len(w)
      BY <2>1
    <3>2. p \in Seq(Frames)
      BY <3>1, SubSeqType
    <3>3. \A i \in 1 .. a - 1 : w[i] \in Frames
      BY <2>1, ElementOfSeq
    <3> QED
      BY <3>1, <3>2, <3>3, <2>1, SubSeqProperties
  <2>4. q \in Seq(Frames) /\ Len(q) = Len(w) - a
        /\ \A i \in 1 .. Len(w) - a : q[i] = w[a + i]
    <3>1. a + 1 \in Nat \ {0}
      BY <2>1
    <3>2. q \in Seq(Frames)
      BY <3>1, <2>1, SubSeqType
    <3>3. \A i \in a + 1 .. Len(w) : w[i] \in Frames
      BY <2>1, ElementOfSeq
    <3>4. /\ Len(q) = IF a + 1 <= Len(w) THEN Len(w) - (a + 1) + 1 ELSE 0
          /\ \A i \in 1 .. Len(w) - (a + 1) + 1 : q[i] = w[a + 1 + i - 1]
      BY <3>3, <2>1, SubSeqProperties
    <3> HIDE DEF q
    <3>5. Len(q) = Len(w) - a
      <4>1. CASE a + 1 <= Len(w)
        <5>1. Len(q) = Len(w) - (a + 1) + 1
          BY <3>4, <4>1
        <5>2. Len(w) - (a + 1) + 1 = Len(w) - a
          BY <2>1
        <5> QED
          BY <5>1, <5>2
      <4>2. CASE ~(a + 1 <= Len(w))
        <5>1. Len(q) = 0
          BY <3>4, <4>2
        <5>2. \A m, n \in Nat : m <= n /\ ~(m + 1 <= n) => n - m = 0
          OBVIOUS
        <5>3. a \in Nat /\ Len(w) \in Nat /\ a <= Len(w)
          BY <2>1
        <5>4. Len(w) - a = 0
          BY <4>2, <5>2, <5>3
        <5> QED
          BY <5>1, <5>4
      <4> QED
        BY <4>1, <4>2
    <3>6. ASSUME NEW i \in 1 .. Len(w) - a
          PROVE  q[i] = w[a + i]
      <4>1. i \in 1 .. Len(w) - (a + 1) + 1 /\ a + 1 + i - 1 = a + i
        BY <2>1
      <4> QED
        BY <4>1, <3>4
    <3> QED
      BY <3>2, <3>5, <3>6
  <2> HIDE DEF p, q
  <2>5. Len(u) = Len(w) - 1 /\ DOMAIN u = 1 .. Len(w) - 1
    <3>1. u \in Seq(Frames) /\ Len(u) = Len(p) + Len(q)
      BY <2>3, <2>4, ConcatProperties
    <3>2. Len(u) = Len(w) - 1
      BY <3>1, <2>1, <2>3, <2>4
    <3> HIDE DEF u
    <3> QED
      BY <3>1, <3>2, LenProperties
  <2>6. \A i \in 1 .. Len(w) - 1 : u[i] = IF i < a THEN w[i] ELSE w[i + 1]
    <3> SUFFICES ASSUME NEW i \in 1 .. Len(w) - 1
                 PROVE  u[i] = IF i < a THEN w[i] ELSE w[i + 1]
      OBVIOUS
    <3>1. CASE i < a
      BY <3>1, <2>1, <2>3, <2>4
    <3>2. CASE ~(i < a)
      <4>1. u[i] = q[i - (a - 1)]
        BY <3>2, <2>1, <2>3, <2>4
      <4>2. i - (a - 1) \in 1 .. Len(w) - a /\ a + (i - (a - 1)) = i + 1
        BY <3>2, <2>1
      <4> QED
        BY <4>1, <4>2, <2>4, <3>2
    <3> QED
      BY <3>1, <3>2
  <2> HIDE DEF u
  <2> DEFINE at(i) == IF i < a THEN i ELSE i + 1
  <2>7. \A i \in DOMAIN u : at(i) \in DOMAIN w /\ u[i] = w[at(i)]
    BY <2>1, <2>5, <2>6
  <2>8. \A i, j \in DOMAIN u : i < j => at(i) < at(j)
    BY <2>1, <2>5
  <2>9. \A j \in DOMAIN w : j # a => \E i \in DOMAIN u : at(i) = j
    <3> SUFFICES ASSUME NEW j \in DOMAIN w, j # a
                 PROVE  \E i \in DOMAIN u : at(i) = j
      OBVIOUS
    <3>1. CASE j < a
      BY <3>1, <2>1, <2>5
    <3>2. CASE ~(j < a)
      <4>1. j - 1 \in DOMAIN u /\ at(j - 1) = j
        BY <3>2, <2>1, <2>5
      <4> QED
        BY <4>1
    <3> QED
      BY <3>1, <3>2
  <2>10. \A i, j \in DOMAIN u : at(i) < at(j) => i < j
    BY <2>1, <2>5
  <2> HIDE DEF at
  <2>11. ~Pushes(w[a], k)
    BY <2>1 DEF Pushes
  <2>12. Stream(u, k, hi, up)
    <3> SUFFICES ASSUME NEW i \in DOMAIN u, Tells(u[i], k)
                 PROVE  /\ Told(u[i], k) <= hi
                        /\ \A j \in DOMAIN u : i < j /\ Tells(u[j], k)
                              => Told(u[i], k) <= Told(u[j], k)
                        /\ up /\ (\A j \in DOMAIN u :
                                      i < j => ~Pushes(u[j], k))
                              => Told(u[i], k) = hi
      BY DEF Stream
    <3>1. at(i) \in DOMAIN w /\ u[i] = w[at(i)]
      BY <2>7
    <3>2. ASSUME NEW j \in DOMAIN u, i < j, Tells(u[j], k)
          PROVE  Told(u[i], k) <= Told(u[j], k)
      <4>1. at(j) \in DOMAIN w /\ u[j] = w[at(j)] /\ at(i) < at(j)
        BY <2>7, <2>8, <3>2
      <4> QED
        BY <4>1, <3>1, <3>2 DEF Stream
    <3>3. ASSUME up, \A j \in DOMAIN u : i < j => ~Pushes(u[j], k)
          PROVE  Told(u[i], k) = hi
      <4>1. \A j \in DOMAIN w : at(i) < j => ~Pushes(w[j], k)
        BY <3>3, <2>7, <2>9, <2>10, <2>11
      <4> QED
        BY <4>1, <3>1, <3>3 DEF Stream
    <3>4. Told(u[i], k) <= hi
      BY <3>1 DEF Stream
    <3> QED
      BY <3>2, <3>3, <3>4
  <2>13. \A x \in Nat : AtLeast(w, k, x) => AtLeast(u, k, x)
    BY <2>7 DEF AtLeast
  <2>14. NoPush(u, k) => NoPush(w, k)
    BY <2>7, <2>9, <2>11 DEF NoPush
  <2> QED
    BY <1>2, <2>2, <2>12, <2>13, <2>14
<1> QED
  BY <1>1, <1>2

-----------------------------------------------------------------------------
LEMMA OperationAsking ==
    ASSUME Inv, Asking, NEW t \in Tasks, Operation(t)
    PROVE  Asking'
<1>1. CASE AcquireRefused(t) \/ DialFails(t) \/ CallFails(t)
           \/ AcquireStale(t)
  BY <1>1 DEF AcquireRefused, DialFails, CallFails, AcquireStale, Fail,
              ForgetConnection, NoOp, Asking
<1>2. CASE AcquireReuse(t)
  <2>1. current # NoConn /\ lock = "free"
    BY <1>2 DEF AcquireReuse, Acquiring, Attached
  <2>2. connecting = NoConn
    BY <2>1, ConstantsAssumption DEF Agents, Inv, Ownership, SetupOwned
  <2> QED
    BY <1>2, <2>1, <2>2 DEF AcquireReuse, BeginCall, Asking, conns
<1>3. CASE AcquireFresh(t) \/ PollOk(t) \/ WriteOk(t) \/ SetupFails(t)
  BY <1>3 DEF AcquireFresh, BeginDial, PollOk, WriteOk, SetupFails, UndoSetup,
              NoOp, Asking
<1>4. ASSUME NEW c \in Conns, DialOk(t, c)
      PROVE  Asking'
  <2>1. lock = t /\ pc[t] = "dial"
    BY <1>4 DEF DialOk, Inv, Ownership, LockOwned, Holds
  <2>2. current = NoConn
    BY <2>1, ConstantsAssumption DEF Agents, Inv, Ownership, AttachedOwned
  <2> QED
    BY <1>4, <2>2 DEF DialOk, Asking
<1>5. CASE SetupOk(t)
  BY <1>5 DEF SetupOk, BeginCall, Asking, Inv, Ownership, SetupOwned
<1>6. CASE SettleDone(t)
  BY <1>6 DEF SettleDone, Asking, conns
<1>7. CASE RefitReleased(t) \/ DropReleased(t) \/ UndoReleased(t)
  BY <1>7 DEF RefitReleased, DropReleased, UndoReleased, ClientReleased,
              BeginDial, NoOp, Asking
<1> QED
  BY <1>1, <1>2, <1>3, <1>4, <1>5, <1>6, <1>7 DEF Operation

LEMMA NextAsking == Inv /\ Asking /\ [Next]_vars => Asking'
<1> SUFFICES ASSUME Inv, Asking, [Next]_vars
             PROVE  Asking'
  OBVIOUS
<1>1. ASSUME NEW t \in Tasks,
             Cancel(t) \/ \E what \in {"poll", "write"} : Start(t, what)
      PROVE  Asking'
  BY <1>1 DEF Cancel, CancelPlain, CancelCall, CancelSetup, UndoSetup,
              CancelShielded, CancelRelease, Start, NoOp, Asking, conns
<1>2. CASE ReleaseNext \/ AgentReleased \/ IdleTick \/ ShutdownJoin
           \/ Publish \/ RequestShutdown \/ UNCHANGED vars
  BY <1>2 DEF ReleaseNext, AgentReleased, ClientReleased, IdleTick, Publish,
              ShutdownJoin, RequestShutdown, vars, conns, work, Asking
<1>3. CASE IdleAcquire \/ CleanupAcquire \/ ShutdownAcquire
  BY <1>3 DEF IdleAcquire, CleanupAcquire, ShutdownAcquire, SeizeFor,
              ForgetConnection, NoOp, Asking
<1>4. ASSUME NEW c \in Conns, HandleDisconnect(c) \/ ReaderDies(c)
      PROVE  Asking'
  BY <1>4 DEF HandleDisconnect, ReaderDies, MarkFailed, Asking, Inv, TypeOK,
              WorkTypeOK
<1>5. ASSUME NEW c \in Conns, DeliverReply(c)
      PROVE  Asking'
  BY <1>5 DEF DeliverReply, Asking, conns, Inv, TypeOK, WorkTypeOK
<1>6. ASSUME NEW c \in Conns, LinkDrop(c) \/ DeliverPush(c)
      PROVE  Asking'
  BY <1>6 DEF LinkDrop, DeliverPush, Asking, conns, work
<1>7. CASE Serve
  BY <1>7 DEF Serve, Asking, conns, Inv, TypeOK, WorkTypeOK
<1>8. CASE NoncesSpent \/ \E k \in Keys : Change(k)
  BY <1>8 DEF NoncesSpent, Change, Asking, conns, work
<1> QED
  BY <1>1, <1>2, <1>3, <1>4, <1>5, <1>6, <1>7, <1>8, OperationAsking
     DEF Next, Background, Peer

-----------------------------------------------------------------------------
LEMMA ValuesNat ==
    ASSUME NEW vs \in Values, NEW k \in Keys
    PROVE  vs[k] \in Nat
BY ConstantsAssumption DEF Values, Versions

\* What the sessions tell may move on with the charger, and be forgotten.
LEMMA TellingKept ==
    ASSUME Inv, Telling, Asking', UNCHANGED <<data, props, current>>,
           connecting' \in {NoConn, connecting},
           baseline' \in {baseline, NoConn}, pend' \in {pend, Nothing},
           op'.req = "answered" =>
                op.req = "answered" /\ op'.vals = op.vals /\ pend' = pend,
           link'[current] = "up" => link[current] = "up",
           \A k \in Keys : dev'[k] \in Nat /\ dev[k] <= dev'[k],
           \A s \in Conns, k \in Keys : Session(s) =>
                /\ Stream(wire'[s], k, dev'[k], link'[s] = "up")
                /\ \A x \in Nat : AtLeast(wire[s], k, x) /\ x <= dev'[k]
                                    => AtLeast(wire'[s], k, x),
           \A k \in Keys :
                current # NoConn /\ link'[current] = "up"
                        /\ NoPush(wire'[current], k)
                    => NoPush(wire[current], k) /\ dev'[k] = dev[k]
    PROVE  Telling'
<1>1. \A k \in Keys : /\ dev[k] \in Nat /\ data[k] \in Nat /\ props[k] \in Nat
                      /\ pend[k] \in Nat /\ op.vals[k] \in Nat
  BY ValuesNat DEF Inv, TypeOK, PeerTypeOK, CacheTypeOK, ShownTypeOK,
                   WorkTypeOK
<1>2. current \in Conns \cup {NoConn} /\ (current # NoConn => Session(current))
  BY DEF Inv, TypeOK, ConnsTypeOK, Session
<1>3. \A s \in Conns : Session(s)' => Session(s)
  BY DEF Session
<1>4. \A k \in Keys : /\ 1 <= dev'[k] /\ data[k] <= dev'[k]
                      /\ props[k] <= dev'[k]
                      /\ Answered => op.vals[k] <= dev'[k]
  <2> SUFFICES ASSUME NEW k \in Keys
               PROVE  /\ 1 <= dev'[k] /\ data[k] <= dev'[k]
                      /\ props[k] <= dev'[k]
                      /\ Answered => op.vals[k] <= dev'[k]
    OBVIOUS
  <2>1. /\ props[k] <= dev[k] /\ data[k] <= dev[k] /\ dev[k] >= 1
        /\ Answered => op.vals[k] <= dev[k]
    BY DEF Telling, Cached
  <2>2. dev'[k] \in Nat /\ dev[k] <= dev'[k]
    OBVIOUS
  <2> QED
    BY <1>1, <2>1, <2>2
<1>5. Answered' => Answered /\ op'.vals = op.vals /\ pend' = pend
  BY DEF Answered
<1>6. Streams'
  <2> SUFFICES ASSUME NEW s \in Conns, NEW k \in Keys, Session(s)
               PROVE  /\ Stream(wire'[s], k, dev'[k], link'[s] = "up")
                      /\ AtLeast(wire'[s], k, 1)
                      /\ AtLeast(wire'[s], k, data[k])
    BY <1>3 DEF Streams
  <2>1. AtLeast(wire[s], k, 1) /\ AtLeast(wire[s], k, data[k])
    BY DEF Telling, Streams
  <2> QED
    BY <1>1, <1>4, <2>1
<1>7. Cached'
  <2> SUFFICES ASSUME NEW k \in Keys
               PROVE  /\ current = NoConn => props[k] = 0
                      /\ current # NoConn =>
                            AtLeast(wire'[current], k, props[k])
                      /\ Answered' => AtLeast(wire'[current], k, op'.vals[k])
                      /\ pend'[k] \in {0, props[k]}
                      /\ props[k] <= dev'[k] /\ data[k] <= dev'[k]
                      /\ dev'[k] >= 1
                      /\ Answered' =>
                            op'.vals[k] >= 1 /\ op'.vals[k] <= dev'[k]
    BY DEF Cached
  <2>1. /\ current = NoConn => props[k] = 0
        /\ current # NoConn => AtLeast(wire[current], k, props[k])
        /\ Answered => AtLeast(wire[current], k, op.vals[k])
        /\ pend[k] \in {0, props[k]}
        /\ Answered => op.vals[k] >= 1
    BY DEF Telling, Cached
  <2>2. pend'[k] \in {0, props[k]}
    BY <2>1 DEF Nothing
  <2>3. current # NoConn => AtLeast(wire'[current], k, props[k])
    BY <1>1, <1>2, <1>4, <2>1
  <2>4. Answered' => current # NoConn
    BY DEF Asking, Answered
  <2>5. ASSUME Answered'
        PROVE  AtLeast(wire'[current], k, op'.vals[k])
    BY <1>1, <1>2, <1>4, <1>5, <2>1, <2>4, <2>5
  <2>6. Answered' => op'.vals[k] >= 1 /\ op'.vals[k] <= dev'[k]
    BY <1>4, <1>5, <2>1
  <2>7. dev'[k] >= 1
    BY <1>4
  <2> QED
    BY <1>4, <2>1, <2>2, <2>3, <2>5, <2>6, <2>7
<1>8. NotNewer'
  <2> SUFFICES ASSUME NEW k \in Keys
               PROVE  /\ baseline' # NoConn => props[k] # 0
                      /\ props[k] # 0 => data[k] <= props[k]
                      /\ Answered' /\ pend'[k] = 0 =>
                            props[k] <= op'.vals[k] /\ data[k] <= op'.vals[k]
    BY DEF NotNewer
  <2> QED
    BY <1>5 DEF Telling, NotNewer
<1>9. UpToDate'
  <2> SUFFICES ASSUME NEW k \in Keys, current # NoConn,
                      link'[current] = "up", NoPush(wire'[current], k)
               PROVE  /\ props[k] \in {0, dev'[k]}
                      /\ Answered' => pend'[k] # 0 \/ op'.vals[k] = dev'[k]
    BY DEF UpToDate
  <2>1. NoPush(wire[current], k) /\ dev'[k] = dev[k] /\ link[current] = "up"
    OBVIOUS
  <2> QED
    BY <1>5, <2>1 DEF Telling, UpToDate
<1> QED
  BY <1>6, <1>7, <1>8, <1>9 DEF Telling

\* Most steps have nothing to do with it.
LEMMA SilentTelling ==
    ASSUME Inv, Telling, Asking',
           UNCHANGED <<wire, dev, data, props, current>>,
           connecting' \in {NoConn, connecting},
           baseline' \in {baseline, NoConn}, pend' \in {pend, Nothing},
           op'.req = "answered" =>
                op.req = "answered" /\ op'.vals = op.vals /\ pend' = pend,
           \A c \in Conns : link'[c] = "up" => link[c] = "up"
    PROVE  Telling'
<1>1. \A k \in Keys : dev[k] \in Nat
  BY ValuesNat DEF Inv, TypeOK, PeerTypeOK
<1>2. \A s \in Conns, k \in Keys : Session(s) =>
          Stream(wire[s], k, dev[k], link'[s] = "up")
  BY DEF Telling, Streams, Stream
<1>3. CASE current \in Conns
  BY <1>1, <1>2, <1>3, TellingKept
<1>4. CASE current = NoConn
  <2>1. Streams'
    <3>1. \A s \in Conns : Session(s)' => Session(s)
      BY DEF Session
    <3> QED
      BY <1>2, <3>1 DEF Telling, Streams
  <2>2. ~Answered'
    BY <1>4 DEF Asking, Answered
  <2>3. Cached' /\ NotNewer' /\ UpToDate'
    BY <1>4, <2>2 DEF Telling, Cached, NotNewer, UpToDate, Nothing
  <2> QED
    BY <2>1, <2>3 DEF Telling
<1> QED
  BY <1>3, <1>4 DEF Inv, TypeOK, ConnsTypeOK

LEMMA ForgetTelling ==
    ASSUME Inv, Telling, ForgetConnection,
           UNCHANGED <<wire, dev, data, link, connecting>>
    PROVE  Telling'
<1>1. current' = NoConn /\ ~Answered' /\ baseline' = NoConn
  BY DEF ForgetConnection, NoOp, Answered
<1>2. \A k \in Keys : props'[k] = 0 /\ pend'[k] = 0
  BY DEF ForgetConnection, Nothing
<1>3. \A s \in Conns : Session(s)' => Session(s)
  BY <1>1 DEF Session
<1>4. Streams'
  BY <1>3 DEF Telling, Streams
<1>5. \A k \in Keys : 0 <= dev[k] /\ data[k] <= dev[k] /\ dev[k] >= 1
  BY ValuesNat DEF Telling, Cached, Inv, TypeOK, PeerTypeOK
<1>6. Cached' /\ NotNewer' /\ UpToDate'
  BY <1>1, <1>2, <1>5 DEF Cached, NotNewer, UpToDate
<1> QED
  BY <1>4, <1>6 DEF Telling

\* A new client has nothing to tell yet, and nothing is attached meanwhile.
LEMMA DialTelling ==
    ASSUME Inv, Telling, Asking', NEW t \in Tasks, NEW c \in Conns,
           DialOk(t, c)
    PROVE  Telling'
<1>1. lock = t /\ pc[t] = "dial"
  BY DEF DialOk, Inv, Ownership, LockOwned, Holds
<1>2. current = NoConn
  BY <1>1, ConstantsAssumption DEF Agents, Inv, Ownership, AttachedOwned
<1>3. /\ UNCHANGED <<dev, current, op, cache, data>> /\ connecting' = c
      /\ wire'[c] = <<>>
  BY DEF DialOk, shown, Inv, TypeOK, PeerTypeOK
<1>4. \A s \in Conns : Session(s)' => wire'[s] = <<>>
  BY <1>2, <1>3 DEF Session
<1>5. Streams'
  BY <1>4 DEF Streams, Stream, AtLeast
<1>6. ~Answered' /\ current' = NoConn
  BY <1>2, <1>3 DEF Asking, Answered
<1>7. Cached' /\ NotNewer' /\ UpToDate'
  BY <1>2, <1>3, <1>6 DEF cache, Telling, Cached, NotNewer, UpToDate
<1> QED
  BY <1>5, <1>7 DEF Telling

\* The cache is empty when a session is attached.
LEMMA SetupTelling ==
    ASSUME Inv, Shown, Telling, NEW t \in Tasks, SetupOk(t)
    PROVE  Telling'
<1>1. lock = t /\ pc[t] = "setup"
  BY DEF SetupOk, Inv, Ownership, LockOwned, Holds
<1>2. current = NoConn
  BY <1>1, ConstantsAssumption DEF Agents, Inv, Ownership, AttachedOwned
<1>3. baseline = NoConn
  BY <1>2 DEF Shown, LiveBaseline
<1>4. /\ UNCHANGED <<wire, link, dev, props, baseline, data>>
      /\ connecting' = NoConn /\ current' = connecting
      /\ pend' \in {pend, Nothing} /\ ~Answered'
  BY DEF SetupOk, BeginCall, peer, shown, Answered
<1>5. Streams'
  BY <1>4 DEF Telling, Streams, Session
<1>6. \A k \in Keys : /\ props[k] = 0 /\ pend'[k] = 0
                      /\ data[k] <= dev[k] /\ dev[k] >= 1 /\ 0 <= dev[k]
  BY <1>2, <1>4, ValuesNat DEF Nothing, Telling, Cached, Inv, TypeOK, PeerTypeOK
<1>7. ASSUME current' # NoConn, NEW k \in Keys
      PROVE  AtLeast(wire[current'], k, 0)
  <2>1. wire[current'] \in Seq(Frames)
    BY <1>4, <1>7 DEF Inv, TypeOK, PeerTypeOK, ConnsTypeOK
  <2>2. \A i \in DOMAIN wire[current'] : wire[current'][i] \in Frames
    BY <2>1, ElementOfSeq, LenProperties
  <2>3. \A i \in DOMAIN wire[current'] : Told(wire[current'][i], k) \in Nat
    BY <2>2, ToldType
  <2> QED
    BY <2>3 DEF AtLeast
<1>8. Cached'
  BY <1>4, <1>6, <1>7 DEF Cached
<1>9. NotNewer' /\ UpToDate'
  BY <1>3, <1>4, <1>6 DEF NotNewer, UpToDate
<1> QED
  BY <1>5, <1>8, <1>9 DEF Telling

\* What the holder's cancellation takes off the wire tells nothing new.
LEMMA CancelTelling ==
    ASSUME Inv, Telling, Asking', NEW t \in Tasks, CancelCall(t)
    PROVE  Telling'
<1>1. /\ UNCHANGED <<data, props, current, connecting, baseline, pend, link,
                     dev>>
      /\ op' = NoOp
  BY DEF CancelCall, conns, cache, shown
<1>2. \A s \in Conns : wire'[s] \in {wire[s], WithoutAnswer(wire[s])}
  BY DEF CancelCall, Inv, TypeOK, PeerTypeOK
<1>3. \A k \in Keys : dev[k] \in Nat
  BY ValuesNat DEF Inv, TypeOK, PeerTypeOK
<1>4. ASSUME NEW s \in Conns, NEW k \in Keys, Session(s)
      PROVE  /\ Stream(wire'[s], k, dev[k], link[s] = "up")
             /\ \A x \in Nat : AtLeast(wire[s], k, x)
                                    => AtLeast(wire'[s], k, x)
             /\ NoPush(wire'[s], k) => NoPush(wire[s], k)
  <2>1. wire[s] \in Seq(Frames) /\ Stream(wire[s], k, dev[k], link[s] = "up")
    BY <1>4 DEF Telling, Streams, Inv, TypeOK, PeerTypeOK
  <2>2. CASE wire'[s] = wire[s]
    BY <2>1, <2>2
  <2>3. CASE wire'[s] = WithoutAnswer(wire[s])
    BY <1>3, <2>1, <2>3, WithoutAnswerStream
  <2> QED
    BY <1>2, <2>2, <2>3
<1>5. current # NoConn => current \in Conns /\ Session(current)
  BY DEF Inv, TypeOK, ConnsTypeOK, Session
<1>6. \A k \in Keys : current # NoConn /\ NoPush(wire'[current], k)
          => NoPush(wire[current], k)
  BY <1>4, <1>5
<1>7. op'.req = "none"
  BY <1>1 DEF NoOp
<1> QED
  BY <1>1, <1>3, <1>4, <1>6, <1>7, TellingKept

\* A pushed change tells every session that is up what the charger has now.
LEMMA ChangeTelling ==
    ASSUME Inv, Telling, Asking', NEW q \in Keys, Change(q)
    PROVE  Telling'
<1>1. /\ UNCHANGED <<data, props, current, connecting, baseline, pend, link,
                     op>>
      /\ dev' = [dev EXCEPT ![q] = @ + 1] /\ dev[q] < MaxVersion
  BY DEF Change, conns, work, cache, shown
<1>2. dev \in Values /\ dev' \in Values
  <2>1. dev \in Values /\ dev[q] + 1 \in Versions
    BY <1>1, ConstantsAssumption
       DEF Inv, TypeOK, PeerTypeOK, Values, Versions
  <2> QED
    BY <1>1, <2>1 DEF Values
<1>3. \A k \in Keys : /\ dev[k] \in Nat /\ dev'[k] \in Nat
                      /\ dev'[k] = IF k = q THEN dev[k] + 1 ELSE dev[k]
  BY <1>1, <1>2, ValuesNat DEF Values
<1>4. \A k \in Keys : dev[k] <= dev'[k]
  BY <1>3
<1> DEFINE f == Push(q, dev'[q])
<1>5. f \in Frames /\ IsPush(f) /\ f.key = q /\ f.ver = dev'[q]
  BY <1>2, FrameTypes DEF Push, IsPush, Values
<1>6. \A s \in Conns : wire'[s] = IF link[s] = "up" THEN Append(wire[s], f)
                                  ELSE wire[s]
  BY DEF Change
<1> HIDE DEF f
<1>7. \A k \in Keys : /\ Tells(f, k) => Told(f, k) = dev'[k]
                      /\ ~Pushes(f, k) => dev'[k] = dev[k]
  BY <1>3, <1>5 DEF Tells, Told, Pushes
<1>8. ASSUME NEW s \in Conns, NEW k \in Keys, Session(s)
      PROVE  /\ Stream(wire'[s], k, dev'[k], link[s] = "up")
             /\ \A x \in Nat : AtLeast(wire[s], k, x) /\ x <= dev'[k]
                                    => AtLeast(wire'[s], k, x)
             /\ link[s] = "up" /\ NoPush(wire'[s], k)
                    => NoPush(wire[s], k) /\ dev'[k] = dev[k]
  <2>1. wire[s] \in Seq(Frames) /\ Stream(wire[s], k, dev[k], link[s] = "up")
    BY <1>8 DEF Telling, Streams, Inv, TypeOK, PeerTypeOK
  <2>2. CASE link[s] = "up"
    <3>1. wire'[s] = Append(wire[s], f)
      BY <1>6, <2>2
    <3>2. /\ Stream(wire[s], k, dev[k], TRUE) /\ dev[k] <= dev'[k]
          /\ dev[k] \in Nat /\ dev'[k] \in Nat
      BY <1>3, <1>4, <2>1, <2>2
    <3>3. /\ Stream(Append(wire[s], f), k, dev'[k], TRUE)
          /\ \A x \in Nat : AtLeast(wire[s], k, x) /\ x <= dev'[k]
                                => AtLeast(Append(wire[s], f), k, x)
          /\ NoPush(Append(wire[s], f), k)
                => NoPush(wire[s], k) /\ dev'[k] = dev[k]
      <4>1. PICK u : u = wire[s]
        OBVIOUS
      <4>2. u \in Seq(Frames) /\ Stream(u, k, dev[k], TRUE)
        BY <2>1, <3>2, <4>1
      <4>3. /\ Tells(f, k) => Told(f, k) = dev'[k]
            /\ ~Pushes(f, k) => dev'[k] = dev[k]
        BY <1>7
      <4>4. /\ Stream(Append(u, f), k, dev'[k], TRUE)
            /\ \A x \in Nat : AtLeast(u, k, x) /\ x <= dev'[k]
                                  => AtLeast(Append(u, f), k, x)
            /\ NoPush(Append(u, f), k) => NoPush(u, k) /\ dev'[k] = dev[k]
        BY <1>5, <3>2, <4>2, <4>3, AppendStream
      <4> QED
        BY <4>1, <4>4
    <3> QED
      BY <2>2, <3>1, <3>3
  <2>3. CASE link[s] # "up"
    <3>1. wire'[s] = wire[s]
      BY <1>6, <2>3
    <3>2. Stream(wire[s], k, dev'[k], FALSE)
      <4>1. \A i \in DOMAIN wire[s] : Told(wire[s][i], k) <= dev[k]
              => Told(wire[s][i], k) <= dev'[k]
        <5>1. \A i \in DOMAIN wire[s] : Told(wire[s][i], k) \in Nat
          BY <2>1, ElementOfSeq, LenProperties, ToldType
        <5> QED
          BY <5>1, <1>3
      <4> QED
        BY <2>1, <4>1 DEF Stream
    <3> QED
      BY <2>3, <3>1, <3>2
  <2> QED
    BY <2>2, <2>3
<1>9. current # NoConn => current \in Conns /\ Session(current)
  BY DEF Inv, TypeOK, ConnsTypeOK, Session
<1>10. \A k \in Keys :
          current # NoConn /\ link[current] = "up" /\ NoPush(wire'[current], k)
              => NoPush(wire[current], k) /\ dev'[k] = dev[k]
  BY <1>8, <1>9
<1> QED
  BY <1>1, <1>3, <1>4, <1>8, <1>10, TellingKept

\* An answer is a snapshot of the charger, after the echo of what was written.
LEMMA ServeTelling ==
    ASSUME Inv, Asking, Telling, Asking', Serve
    PROVE  Telling'
<1>1. /\ UNCHANGED <<data, props, current, connecting, baseline, pend, link>>
      /\ op.conn = current /\ current \in Conns /\ connecting = NoConn
      /\ link[current] = "up" /\ op'.req = "served"
  BY DEF Serve, conns, cache, shown, Asking, Inv, TypeOK, ConnsTypeOK,
         WorkTypeOK
<1> DEFINE w == wire[current]
<1>2. w \in Seq(Frames) /\ dev \in Values /\ \A k \in Keys : dev[k] \in Nat
  BY <1>1, ValuesNat DEF Inv, TypeOK, PeerTypeOK
<1>3. \A k \in Keys : Stream(w, k, dev[k], TRUE)
  BY <1>1, ConstantsAssumption DEF Telling, Streams, Session
<1>4. \A s \in Conns : Session(s) => s = current
  BY <1>1 DEF Session
<1>5. \A vs \in Values, k \in Keys :
          /\ Reply(vs) \in Frames /\ ~Pushes(Reply(vs), k)
          /\ Told(Reply(vs), k) = vs[k]
  BY FrameTypes DEF Reply, IsPush, Pushes, Told
<1> DEFINE Grows(u) ==
        \A k \in Keys :
            /\ Stream(u, k, dev'[k], TRUE)
            /\ \A x \in Nat : AtLeast(w, k, x) /\ x <= dev'[k]
                                => AtLeast(u, k, x)
            /\ NoPush(u, k) => NoPush(w, k) /\ dev'[k] = dev[k]
<1>6. /\ Grows(wire'[current])
      /\ \A k \in Keys : dev'[k] \in Nat /\ dev[k] <= dev'[k]
  <2>1. CASE UNCHANGED dev /\ wire' = [wire EXCEPT ![op.conn] =
                                          Append(@, Reply(dev))]
    <3>1. wire'[current] = Append(w, Reply(dev))
      BY <1>1, <2>1 DEF Inv, TypeOK, PeerTypeOK
    <3>2. ASSUME NEW k \in Keys
          PROVE  /\ Stream(Append(w, Reply(dev)), k, dev[k], TRUE)
                 /\ \A x \in Nat : AtLeast(w, k, x) /\ x <= dev[k]
                                     => AtLeast(Append(w, Reply(dev)), k, x)
                 /\ NoPush(Append(w, Reply(dev)), k) => NoPush(w, k)
      <4>1. /\ dev[k] \in Nat /\ dev[k] <= dev[k] /\ Reply(dev) \in Frames
            /\ Told(Reply(dev), k) = dev[k] /\ Stream(w, k, dev[k], TRUE)
        <5>1. dev[k] \in Nat /\ Stream(w, k, dev[k], TRUE)
          BY <1>2, <1>3
        <5>2. Reply(dev) \in Frames /\ Told(Reply(dev), k) = dev[k]
          BY <1>2, <1>5
        <5>3. dev[k] <= dev[k]
          BY <5>1
        <5> QED
          BY <5>1, <5>2, <5>3
      <4> HIDE DEF w
      <4> QED
        BY <1>2, <4>1, AppendStream
    <3>3. dev' = dev /\ \A k \in Keys : dev[k] <= dev[k]
      BY <1>2, <2>1
    <3> HIDE DEF w
    <3> QED
      BY <1>2, <3>1, <3>2, <3>3
  <2>2. ASSUME NEW q \in Keys,
               dev[q] < MaxVersion,
               dev' = [dev EXCEPT ![q] = @ + 1],
               wire' = [wire EXCEPT ![op.conn] =
                            @ \o <<Push(q, dev'[q]), Reply(dev')>>]
        PROVE  /\ Grows(wire'[current])
               /\ \A k \in Keys : dev'[k] \in Nat /\ dev[k] <= dev'[k]
    <3>1. dev' \in Values
      <4>1. dev[q] + 1 \in Versions
        BY <1>2, <2>2, ConstantsAssumption DEF Values, Versions
      <4> QED
        BY <1>2, <2>2, <4>1 DEF Values
    <3>2. \A k \in Keys : /\ dev'[k] \in Nat /\ dev[k] <= dev'[k]
                          /\ dev'[k] = IF k = q THEN dev[k] + 1 ELSE dev[k]
      BY <1>2, <2>2, <3>1, ValuesNat DEF Values
    <3> DEFINE f == Push(q, dev'[q])
               u == Append(w, f)
    <3>3. f \in Frames /\ IsPush(f) /\ f.key = q /\ f.ver = dev'[q]
      BY <3>1, FrameTypes DEF Push, IsPush, Values
    <3>4. wire'[current] = w \o <<f, Reply(dev')>>
      BY <1>1, <2>2 DEF Inv, TypeOK, PeerTypeOK
    <3>5. Reply(dev') \in Frames
      BY <1>5, <3>1
    <3> HIDE DEF f, w
    <3>6. u \in Seq(Frames) /\ w \o <<f, Reply(dev')>> = Append(u, Reply(dev'))
      BY <1>2, <3>3, <3>5
    <3>7. ASSUME NEW k \in Keys
          PROVE  /\ Stream(u, k, dev'[k], TRUE)
                 /\ \A x \in Nat : AtLeast(w, k, x) /\ x <= dev'[k]
                                     => AtLeast(u, k, x)
                 /\ NoPush(u, k) => NoPush(w, k) /\ dev'[k] = dev[k]
      <4>1. /\ Tells(f, k) => Told(f, k) = dev'[k]
            /\ ~Pushes(f, k) => dev'[k] = dev[k]
        BY <3>2, <3>3 DEF Tells, Told, Pushes
      <4>2. Stream(w, k, dev[k], TRUE) /\ dev[k] \in Nat
        BY <1>2, <1>3
      <4> QED
        BY <1>2, <3>2, <3>3, <4>1, <4>2, AppendStream
    <3> HIDE DEF u
    <3>8. ASSUME NEW k \in Keys
          PROVE  /\ Stream(Append(u, Reply(dev')), k, dev'[k], TRUE)
                 /\ \A x \in Nat : AtLeast(u, k, x) /\ x <= dev'[k]
                                     => AtLeast(Append(u, Reply(dev')), k, x)
                 /\ NoPush(Append(u, Reply(dev')), k) => NoPush(u, k)
      <4>1. /\ dev'[k] \in Nat /\ dev'[k] <= dev'[k]
            /\ Told(Reply(dev'), k) = dev'[k] /\ Stream(u, k, dev'[k], TRUE)
        <5>1. dev'[k] \in Nat /\ Stream(u, k, dev'[k], TRUE)
          BY <3>2, <3>7
        <5>2. Told(Reply(dev'), k) = dev'[k]
          BY <1>5, <3>1
        <5>3. \A n \in Nat : n <= n
          OBVIOUS
        <5> QED
          BY ONLY <5>1, <5>2, <5>3
      <4> QED
        BY <3>5, <3>6, <4>1, AppendStream
    <3>9. wire'[current] = Append(u, Reply(dev'))
      BY <3>4, <3>6
    <3>10. Grows(Append(u, Reply(dev')))
      BY <3>7, <3>8
    <3> HIDE DEF Grows
    <3> QED
      BY <3>2, <3>9, <3>10
  <2> HIDE DEF Grows
  <2> QED
    BY <2>1, <2>2 DEF Serve
<1>7. \A s \in Conns, k \in Keys : Session(s) =>
          /\ Stream(wire'[s], k, dev'[k], link[s] = "up")
          /\ \A x \in Nat : AtLeast(wire[s], k, x) /\ x <= dev'[k]
                                => AtLeast(wire'[s], k, x)
  <2> SUFFICES ASSUME NEW s \in Conns, NEW k \in Keys, Session(s)
               PROVE  /\ Stream(wire'[s], k, dev'[k], link[s] = "up")
                      /\ \A x \in Nat : AtLeast(wire[s], k, x) /\ x <= dev'[k]
                                            => AtLeast(wire'[s], k, x)
    OBVIOUS
  <2>1. s = current /\ (link[s] = "up") = TRUE
    BY <1>1, <1>4
  <2> QED
    BY <1>6, <2>1
<1>8. \A k \in Keys : NoPush(wire'[current], k)
                        => NoPush(wire[current], k) /\ dev'[k] = dev[k]
  BY <1>6
<1> HIDE DEF w, Grows
<1> QED
  BY <1>1, <1>6, <1>7, <1>8, TellingKept

\* A published cache is no newer than what the session has still to tell.
LEMMA PublishTelling ==
    ASSUME Inv, Shown, Asking, Telling, Asking', Publish
    PROVE  Telling'
<1>1. UNCHANGED <<wire, dev, link, props, pend, current, connecting, baseline,
                  op>>
  BY DEF Publish, peer, conns, work
<1>2. CASE current = Head(pubs) /\ baseline = Head(pubs)
  <2>1. data' = props
    BY <1>2 DEF Publish
  <2>2. current \in Conns /\ current # NoConn
    BY <1>2, ConstantsAssumption DEF Publish, Inv, TypeOK, ShownTypeOK
  <2>3. connecting = NoConn
    BY <2>2, ConstantsAssumption
       DEF Agents, Inv, Ownership, SetupOwned, AttachedOwned
  <2>4. Streams'
    BY <1>1, <2>1, <2>2, <2>3 DEF Telling, Streams, Cached, Session
  <2>5. Cached' /\ UpToDate'
    BY <1>1, <2>1 DEF Telling, Cached, UpToDate, Answered
  <2>6. \A k \in Keys : props[k] <= props[k]
    BY ValuesNat DEF Inv, TypeOK, CacheTypeOK
  <2>7. NotNewer'
    BY <1>1, <2>1, <2>6 DEF Telling, NotNewer, Answered
  <2> QED
    BY <2>4, <2>5, <2>7 DEF Telling
<1>3. CASE ~(current = Head(pubs) /\ baseline = Head(pubs))
  <2>1. data' = data
    BY <1>3 DEF Publish
  <2> QED
    BY <1>1, <2>1, SilentTelling
<1> QED
  BY <1>2, <1>3

\* Reading a frame leaves the session with the rest of its story.
LEMMA ReadTelling ==
    ASSUME Inv, Telling, NEW c \in Conns, wire[c] # <<>>,
           wire' = [wire EXCEPT ![c] = Tail(@)]
    PROVE  /\ \A s \in Conns, k \in Keys : Session(s) =>
                /\ Stream(wire'[s], k, dev[k], link[s] = "up")
                /\ \A x \in Nat : AtLeast(wire[s], k, x)
                                    => AtLeast(wire'[s], k, x)
           /\ \A s \in Conns : s # c => wire'[s] = wire[s]
           /\ \A k \in Keys :
                NoPush(wire'[c], k) /\ ~Pushes(Head(wire[c]), k)
                    => NoPush(wire[c], k)
           /\ \A k \in Keys : Session(c) /\ Tells(Head(wire[c]), k) =>
                /\ Told(Head(wire[c]), k) \in Nat
                /\ AtLeast(wire'[c], k, Told(Head(wire[c]), k))
                /\ Told(Head(wire[c]), k) <= dev[k]
                /\ link[c] = "up" /\ NoPush(wire'[c], k)
                        => Told(Head(wire[c]), k) = dev[k]
                /\ 1 <= Told(Head(wire[c]), k)
                /\ data[k] <= Told(Head(wire[c]), k)
                /\ c = current => props[k] <= Told(Head(wire[c]), k)
<1>1. /\ wire[c] \in Seq(Frames) /\ wire'[c] = Tail(wire[c])
      /\ \A s \in Conns : s # c => wire'[s] = wire[s]
  BY DEF Inv, TypeOK, PeerTypeOK
<1>2. \A k \in Keys : /\ dev[k] \in Nat /\ data[k] \in Nat /\ props[k] \in Nat
  BY ValuesNat DEF Inv, TypeOK, PeerTypeOK, CacheTypeOK, ShownTypeOK
<1>3. Head(wire[c]) \in Frames
  BY <1>1, HeadTailProperties
<1>4. PICK w : w = wire[c]
  OBVIOUS
<1>5. ASSUME NEW k \in Keys
      PROVE  NoPush(Tail(w), k) /\ ~Pushes(Head(w), k) => NoPush(w, k)
  <2>1. \A i \in DOMAIN w : i = 1 \/ (i - 1 \in DOMAIN Tail(w)
                                        /\ Tail(w)[i - 1] = w[i])
    BY <1>1, <1>4
  <2>2. w[1] = Head(w)
    BY <1>1, <1>4
  <2> QED
    BY <2>1, <2>2 DEF NoPush
<1>6. ASSUME NEW k \in Keys, Session(c)
      PROVE  /\ Stream(wire'[c], k, dev[k], link[c] = "up")
             /\ \A x \in Nat : AtLeast(wire[c], k, x)
                                => AtLeast(wire'[c], k, x)
             /\ Tells(Head(wire[c]), k) =>
                  /\ AtLeast(wire'[c], k, Told(Head(wire[c]), k))
                  /\ Told(Head(wire[c]), k) <= dev[k]
                  /\ link[c] = "up" /\ NoPush(wire'[c], k)
                        => Told(Head(wire[c]), k) = dev[k]
                  /\ \A x \in Nat : AtLeast(wire[c], k, x)
                                      => x <= Told(Head(wire[c]), k)
  <2>1. PICK up \in BOOLEAN : up <=> link[c] = "up"
    OBVIOUS
  <2>2. PICK hi \in Nat : hi = dev[k]
    BY <1>2
  <2>3. w \in Seq(Frames) /\ w # <<>> /\ Stream(w, k, hi, up)
    <3>1. Stream(wire[c], k, dev[k], link[c] = "up")
      BY <1>6 DEF Telling, Streams
    <3> QED
      BY <1>1, <1>4, <2>1, <2>2, <3>1 DEF Stream
  <2>4. /\ Stream(Tail(w), k, hi, up)
        /\ \A x \in Nat : AtLeast(w, k, x) => AtLeast(Tail(w), k, x)
        /\ Tells(Head(w), k) =>
              /\ AtLeast(Tail(w), k, Told(Head(w), k))
              /\ Told(Head(w), k) <= hi
              /\ up /\ NoPush(Tail(w), k) => Told(Head(w), k) = hi
              /\ \A x \in Nat : AtLeast(w, k, x) => x <= Told(Head(w), k)
    BY <2>3, TailStream
  <2>5. Stream(wire'[c], k, dev[k], link[c] = "up")
    BY <1>1, <1>4, <2>1, <2>2, <2>4 DEF Stream
  <2> QED
    BY <1>1, <1>4, <2>1, <2>2, <2>4, <2>5
<1>7. ASSUME NEW s \in Conns, NEW k \in Keys, Session(s)
      PROVE  /\ Stream(wire'[s], k, dev[k], link[s] = "up")
             /\ \A x \in Nat : AtLeast(wire[s], k, x)
                                => AtLeast(wire'[s], k, x)
  <2>1. CASE s = c
    BY <1>6, <1>7, <2>1
  <2>2. CASE s # c
    BY <1>1, <1>7, <2>2 DEF Telling, Streams
  <2> QED
    BY <2>1, <2>2
<1>8. ASSUME NEW k \in Keys, Session(c), Tells(Head(wire[c]), k)
      PROVE  /\ Told(Head(wire[c]), k) \in Nat
             /\ AtLeast(wire'[c], k, Told(Head(wire[c]), k))
             /\ Told(Head(wire[c]), k) <= dev[k]
             /\ link[c] = "up" /\ NoPush(wire'[c], k)
                    => Told(Head(wire[c]), k) = dev[k]
             /\ 1 <= Told(Head(wire[c]), k)
             /\ data[k] <= Told(Head(wire[c]), k)
             /\ c = current => props[k] <= Told(Head(wire[c]), k)
  <2>1. /\ AtLeast(wire[c], k, 1) /\ AtLeast(wire[c], k, data[k])
        /\ c = current => AtLeast(wire[c], k, props[k])
    BY <1>8, ConstantsAssumption DEF Telling, Streams, Cached
  <2>2. Told(Head(wire[c]), k) \in Nat
    BY <1>3, ToldType
  <2> QED
    BY <1>2, <1>6, <1>8, <2>1, <2>2
<1> QED
  BY <1>1, <1>4, <1>5, <1>7, <1>8

\* A read's answer is what has been told so far, or newer.
LEMMA ReplyTelling ==
    ASSUME Inv, Asking, Telling, Asking', NEW c \in Conns, DeliverReply(c)
    PROVE  Telling'
<1> DEFINE f == Head(wire[c])
<1>1. /\ wire[c] # <<>> /\ ~IsPush(f)
      /\ wire' = [wire EXCEPT ![c] = Tail(@)]
      /\ UNCHANGED <<dev, link, data, props, pend, current, connecting,
                     baseline>>
  BY DEF DeliverReply, Readable, conns, cache, shown
<1>2. \A k \in Keys : Tells(f, k) /\ ~Pushes(f, k) /\ Told(f, k) = f.vals[k]
  BY <1>1 DEF Tells, Pushes, Told
<1>3. \A k \in Keys : dev[k] \in Nat /\ dev[k] <= dev[k]
  BY ValuesNat DEF Inv, TypeOK, PeerTypeOK
<1>4. /\ \A s \in Conns, k \in Keys : Session(s) =>
            /\ Stream(wire'[s], k, dev[k], link[s] = "up")
            /\ \A x \in Nat : AtLeast(wire[s], k, x) => AtLeast(wire'[s], k, x)
      /\ \A s \in Conns : s # c => wire'[s] = wire[s]
      /\ \A k \in Keys : NoPush(wire'[c], k) /\ ~Pushes(f, k)
                            => NoPush(wire[c], k)
  BY <1>1, ReadTelling
<1>5. \A k \in Keys : Session(c) =>
            /\ f.vals[k] \in Nat /\ AtLeast(wire'[c], k, f.vals[k])
            /\ f.vals[k] <= dev[k] /\ 1 <= f.vals[k] /\ data[k] <= f.vals[k]
            /\ link[c] = "up" /\ NoPush(wire'[c], k) => f.vals[k] = dev[k]
            /\ c = current => props[k] <= f.vals[k]
  <2> SUFFICES ASSUME NEW k \in Keys, Session(c)
               PROVE  /\ f.vals[k] \in Nat /\ AtLeast(wire'[c], k, f.vals[k])
                      /\ f.vals[k] <= dev[k] /\ 1 <= f.vals[k]
                      /\ data[k] <= f.vals[k]
                      /\ link[c] = "up" /\ NoPush(wire'[c], k)
                            => f.vals[k] = dev[k]
                      /\ c = current => props[k] <= f.vals[k]
    OBVIOUS
  <2>1. Tells(f, k) /\ Told(f, k) = f.vals[k]
    BY <1>2
  <2> QED
    BY <1>1, <2>1, ReadTelling
<1>6. CASE op.conn = c /\ op.req = "served"
  <2>1. c = current /\ connecting = NoConn /\ Session(c)
    BY <1>6, ConstantsAssumption DEF Asking, Session
  <2>2. op'.req = "answered" /\ op'.vals = f.vals
    BY <1>6 DEF DeliverReply, Inv, TypeOK, WorkTypeOK
  <2> HIDE DEF f
  <2>3. ASSUME NEW k \in Keys
        PROVE  /\ AtLeast(wire'[c], k, 1) /\ AtLeast(wire'[c], k, data[k])
               /\ AtLeast(wire'[c], k, props[k])
    <3>1. /\ AtLeast(wire[c], k, 1) /\ AtLeast(wire[c], k, data[k])
          /\ AtLeast(wire[c], k, props[k])
      BY <2>1, ConstantsAssumption DEF Telling, Streams, Cached
    <3>2. 1 \in Nat /\ data[k] \in Nat /\ props[k] \in Nat
      BY ValuesNat DEF Inv, TypeOK, CacheTypeOK, ShownTypeOK
    <3> QED
      BY <1>4, <2>1, <3>1, <3>2
  <2>4. Streams'
    BY <1>1, <1>4, <2>1, <2>3 DEF Streams, Session
  <2>5. \A k \in Keys : 1 <= f.vals[k] /\ f.vals[k] \in Nat
                          => f.vals[k] >= 1
    OBVIOUS
  <2>6. Cached'
    <3> SUFFICES ASSUME NEW k \in Keys
                 PROVE  /\ AtLeast(wire'[current], k, props[k])
                        /\ AtLeast(wire'[current], k, f.vals[k])
                        /\ pend[k] \in {0, props[k]}
                        /\ props[k] <= dev[k] /\ data[k] <= dev[k]
                        /\ dev[k] >= 1
                        /\ f.vals[k] >= 1 /\ f.vals[k] <= dev[k]
      BY <1>1, <2>1, <2>2, ConstantsAssumption DEF Cached
    <3> QED
      BY <1>5, <2>1, <2>3, <2>5 DEF Telling, Cached
  <2>7. NotNewer'
    <3> SUFFICES ASSUME NEW k \in Keys
                 PROVE  /\ baseline # NoConn => props[k] # 0
                        /\ props[k] # 0 => data[k] <= props[k]
                        /\ props[k] <= f.vals[k] /\ data[k] <= f.vals[k]
      BY <1>1, <2>2 DEF NotNewer
    <3> QED
      BY <1>5, <2>1 DEF Telling, NotNewer
  <2>8. UpToDate'
    <3> SUFFICES ASSUME NEW k \in Keys, link[current] = "up",
                        NoPush(wire'[current], k)
                 PROVE  props[k] \in {0, dev[k]} /\ f.vals[k] = dev[k]
      BY <1>1, <2>2 DEF UpToDate
    <3>1. NoPush(wire[current], k)
      BY <1>2, <1>4, <2>1
    <3> QED
      BY <1>5, <2>1, <3>1, ConstantsAssumption DEF Telling, UpToDate
  <2> QED
    BY <2>4, <2>6, <2>7, <2>8 DEF Telling
<1>7. CASE ~(op.conn = c /\ op.req = "served")
  <2>1. op' = op
    BY <1>7 DEF DeliverReply
  <2>2. \A k \in Keys : NoPush(wire'[current], k) /\ current # NoConn
                            => NoPush(wire[current], k)
    BY <1>2, <1>4 DEF Inv, TypeOK, ConnsTypeOK
  <2> HIDE DEF f
  <2>3. \A s \in Conns, k \in Keys : Session(s) =>
            /\ Stream(wire'[s], k, dev'[k], link'[s] = "up")
            /\ \A x \in Nat : AtLeast(wire[s], k, x) /\ x <= dev'[k]
                                => AtLeast(wire'[s], k, x)
    BY <1>1, <1>4
  <2> QED
    BY <1>1, <1>3, <2>1, <2>2, <2>3, TellingKept
<1> QED
  BY <1>6, <1>7

\* A pushed value is newer than what is cached and shown.
LEMMA PushTelling ==
    ASSUME Inv, Asking, Telling, Asking', NEW c \in Conns, DeliverPush(c)
    PROVE  Telling'
<1> DEFINE f == Head(wire[c])
<1>1. /\ wire[c] # <<>> /\ IsPush(f)
      /\ wire' = [wire EXCEPT ![c] = Tail(@)]
      /\ UNCHANGED <<dev, link, data, op, current, connecting, baseline>>
  BY DEF DeliverPush, Readable, conns, work
<1>2. f \in Frames /\ f.key \in Keys
  <2>1. f \in Frames
    BY <1>1, HeadTailProperties DEF Inv, TypeOK, PeerTypeOK
  <2> QED
    BY <1>1, <2>1 DEF Frames, IsPush
<1>3. \A k \in Keys : dev[k] \in Nat /\ dev[k] <= dev[k]
  BY ValuesNat DEF Inv, TypeOK, PeerTypeOK
<1>4. /\ \A s \in Conns, k \in Keys : Session(s) =>
            /\ Stream(wire'[s], k, dev[k], link[s] = "up")
            /\ \A x \in Nat : AtLeast(wire[s], k, x) => AtLeast(wire'[s], k, x)
      /\ \A s \in Conns : s # c => wire'[s] = wire[s]
      /\ \A k \in Keys : NoPush(wire'[c], k) /\ ~Pushes(f, k)
                            => NoPush(wire[c], k)
  BY <1>1, ReadTelling
<1>5. CASE c # current
  <2>1. UNCHANGED <<props, pend>>
    BY <1>5 DEF DeliverPush, StillAttached
  <2>2. current # NoConn => wire'[current] = wire[current]
    BY <1>4, <1>5 DEF Inv, TypeOK, ConnsTypeOK
  <2> HIDE DEF f
  <2>3. \A s \in Conns, k \in Keys : Session(s) =>
            /\ Stream(wire'[s], k, dev'[k], link'[s] = "up")
            /\ \A x \in Nat : AtLeast(wire[s], k, x) /\ x <= dev'[k]
                                => AtLeast(wire'[s], k, x)
    BY <1>1, <1>4
  <2> QED
    BY <1>1, <1>3, <2>1, <2>2, <2>3, TellingKept
<1>6. CASE c = current
  <2> DEFINE q == f.key
             v == f.ver
  <2>1. /\ props' = [props EXCEPT ![q] = v] /\ pend' = [pend EXCEPT ![q] = v]
    BY <1>6 DEF DeliverPush, StillAttached, HandleNotification
  <2>2. \A k \in Keys : /\ props'[k] = IF k = q THEN v ELSE props[k]
                        /\ pend'[k] = IF k = q THEN v ELSE pend[k]
    BY <2>1 DEF Inv, TypeOK, CacheTypeOK, Values
  <2>3. current # NoConn /\ Session(c)
    BY <1>6, ConstantsAssumption DEF Session
  <2>4. connecting = NoConn
    BY <2>3, ConstantsAssumption
       DEF Agents, Inv, Ownership, SetupOwned, AttachedOwned
  <2>5. \A k \in Keys : k # q => ~Pushes(f, k)
    BY <1>1 DEF Pushes
  <2>6. Tells(f, q) /\ Told(f, q) = v
    BY <1>1 DEF Tells, Told
  <2>7. /\ v \in Nat /\ AtLeast(wire'[c], q, v) /\ v <= dev[q] /\ 1 <= v
        /\ data[q] <= v
        /\ link[c] = "up" /\ NoPush(wire'[c], q) => v = dev[q]
    BY <1>1, <1>2, <2>3, <2>6, ReadTelling
  <2>8. v # 0
    BY <2>7
  <2> HIDE DEF f, q, v
  <2>9. ASSUME NEW k \in Keys
        PROVE  /\ AtLeast(wire'[c], k, 1) /\ AtLeast(wire'[c], k, data[k])
               /\ AtLeast(wire'[c], k, props[k])
               /\ Answered => AtLeast(wire'[c], k, op.vals[k])
    <3>1. /\ AtLeast(wire[c], k, 1) /\ AtLeast(wire[c], k, data[k])
          /\ AtLeast(wire[c], k, props[k])
          /\ Answered => AtLeast(wire[c], k, op.vals[k])
      BY <1>6, <2>3, ConstantsAssumption DEF Telling, Streams, Cached
    <3>2. /\ 1 \in Nat /\ data[k] \in Nat /\ props[k] \in Nat
          /\ op.vals[k] \in Nat
      BY ValuesNat DEF Inv, TypeOK, CacheTypeOK, ShownTypeOK, WorkTypeOK
    <3> QED
      BY <1>4, <2>3, <3>1, <3>2
  <2>10. Answered' <=> Answered
    BY <1>1 DEF Answered
  <2>11. Streams'
    BY <1>1, <1>4, <1>6, <2>4, <2>9 DEF Streams, Session
  <2>12. Cached'
    <3> SUFFICES ASSUME NEW k \in Keys
                 PROVE  /\ AtLeast(wire'[c], k, props'[k])
                        /\ Answered => AtLeast(wire'[c], k, op.vals[k])
                        /\ pend'[k] \in {0, props'[k]}
                        /\ props'[k] <= dev[k] /\ data[k] <= dev[k]
                        /\ dev[k] >= 1
                        /\ Answered => op.vals[k] >= 1 /\ op.vals[k] <= dev[k]
      BY <1>1, <1>6, <2>3, <2>10 DEF Cached
    <3> QED
      BY <2>2, <2>7, <2>9 DEF Telling, Cached
  <2>13. NotNewer'
    <3> SUFFICES ASSUME NEW k \in Keys
                 PROVE  /\ baseline # NoConn => props'[k] # 0
                        /\ props'[k] # 0 => data[k] <= props'[k]
                        /\ Answered /\ pend'[k] = 0 =>
                              props'[k] <= op.vals[k] /\ data[k] <= op.vals[k]
      BY <1>1, <2>10 DEF NotNewer
    <3> QED
      BY <2>2, <2>7, <2>8 DEF Telling, NotNewer
  <2>14. UpToDate'
    <3> SUFFICES ASSUME NEW k \in Keys, link[c] = "up", NoPush(wire'[c], k)
                 PROVE  /\ props'[k] \in {0, dev[k]}
                        /\ Answered => pend'[k] # 0 \/ op.vals[k] = dev[k]
      BY <1>1, <1>6, <2>10 DEF UpToDate
    <3>1. CASE k = q
      BY <2>2, <2>7, <2>8, <3>1
    <3>2. CASE k # q
      <4>1. NoPush(wire[c], k)
        BY <1>4, <2>5, <3>2
      <4> QED
        BY <1>6, <2>2, <2>3, <3>2, <4>1 DEF Telling, UpToDate
    <3> QED
      BY <3>1, <3>2
  <2> QED
    BY <2>11, <2>12, <2>13, <2>14 DEF Telling
<1> QED
  BY <1>5, <1>6

\* A completed read: the answer under what was pushed meanwhile.
LEMMA PollTelling ==
    ASSUME Inv, Asking, Telling, NEW t \in Tasks, PollOk(t)
    PROVE  Telling' /\ \A k \in Keys : data[k] <= data'[k]
<1>1. /\ UNCHANGED <<wire, dev, link, current, connecting>>
      /\ props' = Overlay(op.vals) /\ pend' = Nothing /\ data' = props'
      /\ Answered /\ ~Answered'
  BY DEF PollOk, peer, conns, NoOp, Answered
<1>2. current # NoConn /\ connecting = NoConn
  BY <1>1 DEF Asking, Answered
<1>3. current \in Conns /\ Session(current)
  BY <1>2 DEF Session, Inv, TypeOK, ConnsTypeOK
<1>4. \A k \in Keys : /\ data'[k] = props'[k] /\ pend'[k] = 0
                      /\ props'[k] = IF pend[k] # 0 THEN pend[k]
                                     ELSE op.vals[k]
  BY <1>1 DEF Overlay, Nothing
<1>5. \A k \in Keys : /\ dev[k] \in Nat /\ data[k] \in Nat /\ props[k] \in Nat
                      /\ pend[k] \in Nat /\ op.vals[k] \in Nat
  BY ValuesNat DEF Inv, TypeOK, PeerTypeOK, CacheTypeOK, ShownTypeOK,
                   WorkTypeOK
<1>6. ASSUME NEW k \in Keys
      PROVE  /\ props'[k] = IF pend[k] # 0 THEN props[k] ELSE op.vals[k]
             /\ props'[k] # 0 /\ data[k] <= props'[k]
             /\ AtLeast(wire[current], k, props'[k])
             /\ props'[k] <= dev[k] /\ dev[k] >= 1 /\ props'[k] <= props'[k]
  <2>1. /\ AtLeast(wire[current], k, props[k])
        /\ AtLeast(wire[current], k, op.vals[k])
        /\ pend[k] \in {0, props[k]}
        /\ props[k] <= dev[k] /\ dev[k] >= 1
        /\ op.vals[k] >= 1 /\ op.vals[k] <= dev[k]
    BY <1>1, <1>2 DEF Telling, Cached
  <2>2. /\ props[k] # 0 => data[k] <= props[k]
        /\ pend[k] = 0 => data[k] <= op.vals[k]
    BY <1>1 DEF Telling, NotNewer
  <2>3. CASE pend[k] = 0
    BY <1>4, <1>5, <2>1, <2>2, <2>3
  <2>4. CASE pend[k] # 0
    BY <1>4, <1>5, <2>1, <2>2, <2>4
  <2> QED
    BY <2>3, <2>4
<1>7. Streams'
  <2> SUFFICES ASSUME NEW k \in Keys
               PROVE  /\ Stream(wire[current], k, dev[k], link[current] = "up")
                      /\ AtLeast(wire[current], k, 1)
                      /\ AtLeast(wire[current], k, data'[k])
    BY <1>1, <1>2 DEF Streams, Session
  <2> QED
    BY <1>3, <1>4, <1>6 DEF Telling, Streams
<1>8. Cached'
  <2> SUFFICES ASSUME NEW k \in Keys
               PROVE  /\ AtLeast(wire[current], k, props'[k])
                      /\ pend'[k] \in {0, props'[k]}
                      /\ props'[k] <= dev[k] /\ data'[k] <= dev[k]
                      /\ dev[k] >= 1
    BY <1>1, <1>2 DEF Cached
  <2> QED
    BY <1>4, <1>6
<1>9. NotNewer'
  BY <1>1, <1>4, <1>6 DEF NotNewer
<1>10. UpToDate'
  <2> SUFFICES ASSUME NEW k \in Keys, link[current] = "up",
                      NoPush(wire[current], k)
               PROVE  props'[k] \in {0, dev[k]}
    BY <1>1 DEF UpToDate
  <2>1. /\ props[k] \in {0, dev[k]}
        /\ pend[k] # 0 \/ op.vals[k] = dev[k]
    BY <1>1, <1>2 DEF Telling, UpToDate
  <2> QED
    BY <1>6, <2>1
<1> QED
  BY <1>4, <1>6, <1>7, <1>8, <1>9, <1>10 DEF Telling

LEMMA OperationTelling ==
    ASSUME Inv, Shown, Asking, Telling, Asking', NEW t \in Tasks, Operation(t)
    PROVE  Telling'
<1>1. CASE AcquireRefused(t) \/ DialFails(t) \/ CallFails(t)
           \/ AcquireStale(t)
  BY <1>1, ForgetTelling
     DEF AcquireRefused, DialFails, CallFails, AcquireStale, Fail, peer, shown
<1>2. CASE AcquireReuse(t)
  <2>1. /\ UNCHANGED <<wire, dev, data, props, current, connecting, baseline,
                       link>>
        /\ pend' \in {pend, Nothing} /\ op'.req = "sent"
    BY <1>2 DEF AcquireReuse, BeginCall, peer, conns, shown
  <2> QED
    BY <2>1, SilentTelling
<1>3. CASE AcquireFresh(t) \/ SetupFails(t) \/ WriteOk(t) \/ SettleDone(t)
  <2>1. /\ UNCHANGED <<wire, dev, data, props, current, baseline, pend, link>>
        /\ connecting' \in {NoConn, connecting}
    BY <1>3 DEF AcquireFresh, SetupFails, UndoSetup, WriteOk, SettleDone,
                peer, conns, cache, shown
  <2>2. op'.req = "none" \/ op' = op
    BY <1>3 DEF AcquireFresh, BeginDial, SetupFails, UndoSetup, WriteOk,
                SettleDone, NoOp
  <2> QED
    BY <2>1, <2>2, SilentTelling
<1>4. CASE RefitReleased(t) \/ DropReleased(t) \/ UndoReleased(t)
  <2>1. ClientReleased
    BY <1>4 DEF RefitReleased, DropReleased, UndoReleased
  <2>2. UNCHANGED <<wire, dev, data, props, current, connecting, baseline,
                    pend>>
    BY <2>1 DEF ClientReleased, cache
  <2>3. \A c \in Conns : link'[c] = "up" => link[c] = "up"
    BY <2>1 DEF ClientReleased, Inv, TypeOK, PeerTypeOK
  <2>4. op'.req = "none" \/ op' = op
    BY <1>4 DEF RefitReleased, DropReleased, UndoReleased, BeginDial, NoOp
  <2> QED
    BY <2>2, <2>3, <2>4, SilentTelling
<1> QED
  BY <1>1, <1>2, <1>3, <1>4, DialTelling, SetupTelling, PollTelling
     DEF Operation

LEMMA CancelledTelling ==
    ASSUME Inv, Telling, Asking', NEW t \in Tasks,
           Cancel(t) \/ \E what \in {"poll", "write"} : Start(t, what)
    PROVE  Telling'
<1>1. CASE ~CancelCall(t)
  <2>1. /\ UNCHANGED <<wire, dev, data, props, current, baseline, pend, link>>
        /\ connecting' \in {NoConn, connecting}
    BY <1>1 DEF Cancel, CancelPlain, CancelSetup, UndoSetup, CancelShielded,
                CancelRelease, Start, peer, conns, cache, shown
  <2>2. op'.req = "none" \/ op' = op
    BY <1>1 DEF Cancel, CancelPlain, CancelSetup, UndoSetup, CancelShielded,
                CancelRelease, Start, NoOp
  <2> QED
    BY <2>1, <2>2, SilentTelling
<1> QED
  BY <1>1, CancelTelling

LEMMA BackgroundTelling ==
    ASSUME Inv, Shown, Asking, Telling, Asking', Background
    PROVE  Telling'
<1>1. CASE ReleaseNext \/ IdleTick \/ ShutdownJoin
  <2>1. UNCHANGED <<wire, dev, data, props, current, connecting, baseline,
                    pend, link, op>>
    BY <1>1 DEF ReleaseNext, IdleTick, ShutdownJoin, peer, conns, work, cache,
                shown
  <2> QED
    BY <2>1, SilentTelling
<1>2. CASE AgentReleased
  <2>1. UNCHANGED <<wire, dev, data, props, current, connecting, baseline,
                    pend, op>>
    BY <1>2 DEF AgentReleased, ClientReleased, cache
  <2>2. \A c \in Conns : link'[c] = "up" => link[c] = "up"
    BY <1>2 DEF AgentReleased, ClientReleased, Inv, TypeOK, PeerTypeOK
  <2> QED
    BY <2>1, <2>2, SilentTelling
<1>3. CASE IdleAcquire \/ CleanupAcquire \/ ShutdownAcquire
  <2>1. UNCHANGED <<wire, dev, data, link, connecting>>
    BY <1>3 DEF IdleAcquire, CleanupAcquire, ShutdownAcquire, peer, shown
  <2>2. CASE ForgetConnection
    BY <2>1, <2>2, ForgetTelling
  <2>3. CASE UNCHANGED <<current, op, cache>>
    BY <2>1, <2>3, SilentTelling DEF cache
  <2> QED
    BY <1>3, <2>2, <2>3
       DEF IdleAcquire, CleanupAcquire, ShutdownAcquire, SeizeFor
<1> QED
  BY <1>1, <1>2, <1>3, PublishTelling DEF Background

LEMMA PeerTelling ==
    ASSUME Inv, Asking, Telling, Asking', Peer
    PROVE  Telling'
<1>1. CASE NoncesSpent
  <2>1. UNCHANGED <<wire, dev, data, props, current, connecting, baseline,
                    pend, link, op>>
    BY <1>1 DEF NoncesSpent, conns, work, cache, shown
  <2> QED
    BY <2>1, SilentTelling
<1>2. ASSUME NEW c \in Conns,
             LinkDrop(c) \/ HandleDisconnect(c) \/ ReaderDies(c)
      PROVE  Telling'
  <2>1. UNCHANGED <<wire, dev, data, props, current, connecting, pend>>
    BY <1>2 DEF LinkDrop, HandleDisconnect, ReaderDies, conns, cache, shown
  <2>2. baseline' \in {baseline, NoConn}
    BY <1>2 DEF LinkDrop, HandleDisconnect, ReaderDies, MarkFailed, cache
  <2>3. \A d \in Conns : link'[d] = "up" => link[d] = "up"
    BY <1>2 DEF LinkDrop, HandleDisconnect, ReaderDies, Inv, TypeOK,
                PeerTypeOK
  <2>4. op'.req = op.req /\ op'.vals = op.vals
    BY <1>2 DEF LinkDrop, HandleDisconnect, ReaderDies, MarkFailed, work, Inv,
                TypeOK, WorkTypeOK
  <2> QED
    BY <2>1, <2>2, <2>3, <2>4, SilentTelling
<1> QED
  BY <1>1, <1>2, ServeTelling, ReplyTelling, PushTelling, ChangeTelling
     DEF Peer

LEMMA NextTelling ==
    Inv /\ Shown /\ Asking /\ Telling /\ [Next]_vars => Asking' /\ Telling'
<1> SUFFICES ASSUME Inv, Shown, Asking, Telling, [Next]_vars
             PROVE  Asking' /\ Telling'
  OBVIOUS
<1>1. Asking'
  BY NextAsking
<1>2. CASE RequestShutdown \/ UNCHANGED vars
  <2>1. UNCHANGED <<wire, dev, data, props, current, connecting, baseline,
                    pend, link, op>>
    BY <1>2 DEF RequestShutdown, vars, peer, conns, work, cache, shown
  <2> QED
    BY <1>1, <2>1, SilentTelling
<1> QED
  BY <1>1, <1>2, OperationTelling, CancelledTelling, BackgroundTelling,
     PeerTelling
     DEF Next

LEMMA InitTelling == Init => Asking /\ Telling
<1> SUFFICES ASSUME Init PROVE Asking /\ Telling
  OBVIOUS
<1>1. /\ current = NoConn /\ connecting = NoConn /\ baseline = NoConn
      /\ op.req = "none"
  BY DEF Init, NoOp
<1>2. \A k \in Keys : /\ props[k] = 0 /\ pend[k] = 0 /\ data[k] = 0
                      /\ dev[k] = 1
  BY DEF Init, Nothing
<1> QED
  BY <1>1, <1>2
     DEF Asking, Telling, Streams, Session, Cached, NotNewer, UpToDate, Answered

LEMMA TellingInvariance == Spec => [](Asking /\ Telling)
BY InitTelling, NextTelling, Invariance, ShownInvariance, PTL DEF Spec

\* What is shown changes only to a published cache or a completed read, both
\* of which were told by the attached session after everything shown before.
LEMMA NeverBackStep ==
    ASSUME Inv, Shown, Asking, Telling, [Next]_vars
    PROVE  \A k \in Keys : data[k] <= data'[k]
<1>1. \A k \in Keys : data[k] <= data[k]
  BY ValuesNat DEF Inv, TypeOK, ShownTypeOK
<1>2. CASE Publish
  <2>1. CASE data' = data
    BY <1>1, <2>1
  <2>2. CASE data' # data
    <3>1. data' = props /\ baseline # NoConn
      BY <1>2, <2>2, ConstantsAssumption
         DEF Publish, Inv, TypeOK, ShownTypeOK
    <3> QED
      BY <3>1 DEF Telling, NotNewer
  <2> QED
    BY <2>1, <2>2
<1>3. ASSUME NEW t \in Tasks, PollOk(t)
      PROVE  \A k \in Keys : data[k] <= data'[k]
  BY <1>3, PollTelling
<1>4. CASE ~Publish /\ ~\E t \in Tasks : PollOk(t)
  <2>1. ASSUME NEW t \in Tasks,
               Operation(t) \/ Cancel(t)
                    \/ \E what \in {"poll", "write"} : Start(t, what)
        PROVE  data' = data
    BY <1>4, <2>1
       DEF Operation, AcquireRefused, AcquireReuse, AcquireStale,
           AcquireFresh, DialFails, DialOk, SetupFails, UndoSetup, SetupOk,
           WriteOk, CallFails, SettleDone, RefitReleased, DropReleased,
           UndoReleased, ClientReleased, Cancel, CancelPlain, CancelCall,
           CancelSetup, CancelShielded, CancelRelease, Start, shown
  <2>2. ASSUME Background
        PROVE  data' = data
    BY <1>4, <2>2
       DEF Background, ReleaseNext, AgentReleased, ClientReleased, IdleTick,
           IdleAcquire, CleanupAcquire, ShutdownAcquire, ShutdownJoin, shown
  <2>3. ASSUME Peer
        PROVE  data' = data
    BY <2>3
       DEF Peer, Serve, NoncesSpent, DeliverReply, DeliverPush, LinkDrop,
           HandleDisconnect, ReaderDies, Change, shown
  <2>4. ASSUME RequestShutdown \/ UNCHANGED vars
        PROVE  data' = data
    BY <2>4 DEF RequestShutdown, vars, shown
  <2>5. data' = data
    BY <2>1, <2>2, <2>3, <2>4 DEF Next
  <2> QED
    BY <1>1, <2>5
<1> QED
  BY <1>2, <1>3, <1>4

\* What Home Assistant shows of a key never goes back to an older value, not
\* even across reconnections with frames of the old session still around.
THEOREM NeverBack == Spec => NoRegress
<1>1. Inv /\ Shown /\ Asking /\ Telling /\ [Next]_vars
        => [\A k \in Keys : data[k] <= data'[k]]_vars
  BY NeverBackStep
<1> QED
  BY <1>1, Invariance, ShownInvariance, TellingInvariance, PTL
     DEF Spec, NoRegress

\* With a completed read, a link that is up and nothing on its way, what Home
\* Assistant shows is what the charger has.
THEOREM FreshWhenQuiet == Spec => []QuietFresh
<1>1. ASSUME Inv, Shown, PubQueued, NoLostUpdate, Telling
      PROVE  QuietFresh
  <2> SUFFICES ASSUME baseline # NoConn, link[baseline] = "up",
                      wire[baseline] = <<>>, pubs = <<>>
               PROVE  data = dev
    BY DEF QuietFresh
  <2>1. data = props
    BY <1>1 DEF NoLostUpdate, Queued
  <2>2. current = baseline
    BY <1>1 DEF Shown, LiveBaseline
  <2>3. \A k \in Keys : NoPush(wire[current], k)
    BY <2>2 DEF NoPush
  <2>4. \A k \in Keys : props[k] = dev[k]
    BY <1>1, <2>2, <2>3 DEF Telling, UpToDate, NotNewer
  <2> QED
    BY <1>1, <2>1, <2>4 DEF Inv, TypeOK, PeerTypeOK, CacheTypeOK, Values
<1>2. Init => PubQueued /\ NoLostUpdate
  BY DEF Init, PubQueued, NoLostUpdate
<1> QED
  BY <1>1, <1>2, NextKept, Invariance, ShownInvariance, TellingInvariance,
     PTL DEF Spec

=============================================================================
