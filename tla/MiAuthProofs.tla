---------------------------- MODULE MiAuthProofs ----------------------------
(***************************************************************************)
(* Proofs about the authentication, for every set of tokens, every number  *)
(* of attempts and faults, and every MTU and queue capacity.               *)
(***************************************************************************)
EXTENDS MiAuthProperties, SequenceTheorems, TLAPS

-----------------------------------------------------------------------------
(* Sequences of frames.                                                    *)

\* What is taken off a sequence, and what remains.
LEMMA Taken ==
    ASSUME NEW S, NEW q \in Seq(S), q # <<>>
    PROVE  Head(q) \in S /\ Tail(q) \in Seq(S) /\ Len(Tail(q)) = Len(q) - 1
BY HeadTailProperties, LenProperties

\* A queue that makes room for x keeps to its elements and its capacity.
LEMMA KeptType ==
    ASSUME NEW S, NEW q \in Seq(S), NEW x \in S, Len(q) <= QueueMax
    PROVE  /\ Append(Kept(q), x) \in Seq(S)
           /\ Len(Append(Kept(q), x)) <= QueueMax
<1>1. CASE Len(q) = QueueMax
  <2>1. q # <<>>
    BY <1>1, AuthConstants, EmptySeq
  <2> QED
    BY <1>1, <2>1, Taken, AuthConstants, AppendProperties, LenProperties
       DEF Kept
<1>2. CASE Len(q) # QueueMax
  BY <1>2, AuthConstants, AppendProperties, LenProperties DEF Kept
<1> QED
  BY <1>1, <1>2

\* What is no less than c holds c at least once.
LEMMA WholeShares ==
    ASSUME NEW c \in Nat, c > 0, NEW k \in Nat
    PROVE  (k + c) \div c \in Nat \ {0}
<1>1. (k + c) \div c \in Nat
  BY Z3
<1>2. (k + c) \div c >= 1
  BY Z3
<1> QED
  BY <1>1, <1>2

\* Every value takes at least one parcel.
LEMMA CountType ==
    ASSUME NEW kind \in DOMAIN Size
    PROVE  ParcelCount(kind) \in Nat \ {0}
<1> DEFINE c == parcel_chunk_size
<1>1. c \in Nat /\ c >= 18
  BY AuthConstants DEF parcel_chunk_size, PARCEL_CHUNK_SIZE
<1>2. Size[kind] \in {0, 16, 24, 32, 64}
  BY DEF Size
<1> HIDE DEF c
<1>3. CASE Size[kind] = 0
  BY <1>3 DEF ParcelCount
<1>4. CASE Size[kind] # 0
  <2> DEFINE k == Size[kind] - 1
  <2>1. k \in Nat /\ Size[kind] + c - 1 = k + c
    BY <1>1, <1>2, <1>4
  <2> HIDE DEF k
  <2>2. (k + c) \div c \in Nat \ {0}
    BY <1>1, <2>1, WholeShares
  <2>3. ParcelCount(kind) = (k + c) \div c
    BY <1>4, <2>1 DEF ParcelCount, c
  <2> QED
    BY <2>2, <2>3
<1> QED
  BY <1>3, <1>4

LEMMA OnType ==
    ASSUME NEW ch \in Channels, NEW fs \in Seq(FrameSet)
    PROVE  On(ch, fs) \in Seq(Flight)
<1>1. DOMAIN fs = 1 .. Len(fs) /\ Len(fs) \in Nat
      /\ \A i \in DOMAIN fs : fs[i] \in FrameSet
  BY LenProperties, ElementOfSeq
<1>2. \A i \in DOMAIN fs : [ch |-> ch, frame |-> fs[i]] \in Flight
  BY <1>1 DEF Flight
<1> QED
  BY <1>1, <1>2 DEF On

LEMMA KeysType ==
    ASSUME NEW t \in Secrets, NEW a \in Numbers, NEW d \in Nat
    PROVE  derive_login(t, a, d) \in KeySet
BY DEF derive_login, KeySet, DNumbers

LEMMA NumberType ==
    ASSUME NEW kind \in DOMAIN Size, NEW a \in Numbers, NEW d \in Nat
    PROVE  Number(kind, a, d) \in Blobs
<1>1. NoToken \in Secrets
  BY DEF Secrets
<1> QED
  BY <1>1, KeysType DEF Number, Blob, Blobs

LEMMA BlankTypes == Empty \in Blobs /\ NoKeys \in KeySet /\ NoResult \in Results
<1>1. 0 \in Numbers /\ NoToken \in Secrets /\ "none" \in DOMAIN Size
  BY DEF Numbers, Secrets, Size
<1>2. Empty \in Blobs /\ NoKeys \in KeySet
  BY <1>1, NumberType, KeysType DEF Empty, NoKeys
<1> QED
  BY <1>2 DEF NoResult, Results

ShortKinds == {"error", "rdy", "ok", "ack", "challenge", "echo", "loginOk",
               "loginErr", "regOk", "regErr", "GREETING", "CMD_LOGIN",
               "CMD_SET_KEY", "CMD_GET_INFO", "CMD_AUTH"}

LEMMA ShortType ==
    ASSUME NEW kind \in ShortKinds
    PROVE  Short(kind) \in FrameSet
BY BlankTypes DEF Short, Frame, FrameSet, ShortKinds

LEMMA WriteType ==
    ASSUME NEW kind \in ShortKinds, NEW ch \in Channels
    PROVE  Write(ch, kind) \in Seq(Flight)
<1>1. <<Short(kind)>> \in Seq(FrameSet)
  BY ShortType
<1> QED
  BY <1>1, OnType DEF Write

LEMMA FrameParts ==
    ASSUME NEW f \in FrameSet
    PROVE  f.data \in Blobs /\ f.n \in Nat
BY DEF FrameSet

LEMMA CodeType ==
    ASSUME NEW what \in Sending \cup Taking
    PROVE  what \in DOMAIN Size
           /\ Code[what] \in {"00", "03", "0a", "0b", "0c", "0d"}
BY DEF Sending, Taking, Size, Code

LEMMA AnnouncementType ==
    ASSUME NEW what \in Sending \cup Taking
    PROVE  Announcement(what) \in FrameSet
<1>1. ParcelCount(what) \in Nat /\ Empty \in Blobs
  BY CodeType, CountType, BlankTypes
<1> QED
  BY <1>1, CodeType DEF Announcement, Frame, FrameSet

LEMMA InlineType ==
    ASSUME NEW what \in Sending \cup Taking, NEW data \in Blobs
    PROVE  Inline(what, data) \in FrameSet
BY CodeType DEF Inline, Frame, FrameSet

LEMMA ParcelsType ==
    ASSUME NEW data \in Blobs
    PROVE  Parcels(data) \in Seq(FrameSet)
<1>1. data.kind \in DOMAIN Size
  BY DEF Blobs
<1>2. ParcelCount(data.kind) \in Nat
  BY <1>1, CountType
<1> DEFINE n == ParcelCount(data.kind)
           p(i) == Frame("parcel", "", i, data)
<1>3. \A i \in 1 .. n : p(i) \in FrameSet
  BY <1>2 DEF Frame, FrameSet
<1>4. Parcels(data) = [i \in 1 .. n |-> p(i)]
  BY DEF Parcels
<1> HIDE DEF n, p
<1> QED
  BY <1>2, <1>3, <1>4 DEF n

\* What parcels of the numbers 1..n are joined to: nothing, or the value all
\* of them are of.
LEMMA JoinedType ==
    ASSUME NEW n \in Nat, NEW parts, 1 .. n \subseteq DOMAIN parts,
           \A i \in DOMAIN parts : parts[i] \in Blobs
    PROVE  /\ Joined(parts, n) \in Blobs
           /\ \/ Joined(parts, n) = Empty
              \/ /\ 1 \in DOMAIN parts
                 /\ n = ParcelCount(Joined(parts, n).kind)
                 /\ \A i \in 1 .. n : parts[i] = Joined(parts, n)
<1>1. CASE \E b \in {parts[i] : i \in 1..n} :
              n = ParcelCount(b.kind) /\ \A i \in 1..n : parts[i] = b
  <2>1. PICK k \in 1 .. n : /\ n = ParcelCount(parts[k].kind)
                            /\ \A i \in 1..n : parts[i] = parts[k]
    BY <1>1
  <2>2. 1 \in 1 .. n
    OBVIOUS
  <2>3. Joined(parts, n) = parts[1]
    BY <1>1 DEF Joined
  <2>4. parts[1] \in Blobs /\ 1 \in DOMAIN parts
    BY <2>2
  <2> QED
    BY <2>1, <2>2, <2>3, <2>4
<1>2. CASE ~ \E b \in {parts[i] : i \in 1..n} :
              n = ParcelCount(b.kind) /\ \A i \in 1..n : parts[i] = b
  BY <1>2, BlankTypes DEF Joined
<1> QED
  BY <1>1, <1>2


-----------------------------------------------------------------------------
(* Types.                                                                  *)

LEMMA InitType == Init => TypeOK
<1> SUFFICES ASSUME Init PROVE TypeOK
  OBVIOUS
<1>0. /\ attempts = 0 /\ result = NoResult
      /\ frames = <<>> /\ expected = 0
      /\ queue = [ch \in Channels |-> <<>>]
      /\ dropped = [ch \in Channels |-> FALSE]
      /\ up = <<>> /\ down = <<>> /\ lost = 0 /\ noise = 0
      /\ dgot = <<>> /\ dsession = NoKeys /\ shown = {}
  BY DEF Init
<1>1. HostType
  <2>1. goal \in {"login", "register"} /\ token \in Secrets
    BY AuthConstants DEF Init, Secrets
  <2>2. hint \in {"none", "right", "wrong", "brief"}
    BY AuthConstants DEF Init
  <2>3. attempts \in 0..MaxAttempts /\ result \in Results
    BY <1>0, AuthConstants, BlankTypes
  <2>4. pc \in Points
    BY DEF Init, Idle, At, Points
  <2>5. /\ blocked \in BOOLEAN /\ peer \in DNumbers /\ remote \in {0, 1}
        /\ expected \in Nat /\ subscribed \subseteq Channels
        /\ answered \subseteq KeySet
    BY DEF Init, DNumbers
  <2>6. /\ DOMAIN frames \subseteq 1..expected
        /\ \A i \in DOMAIN frames : frames[i] \in Blobs
    BY <1>0
  <2> QED
    BY <2>1, <2>2, <2>3, <2>4, <2>5, <2>6 DEF HostType
<1>2. LinkType
  <2>1. <<>> \in Seq(FrameSet) /\ Len(<<>>) <= QueueMax /\ <<>> \in Seq(Flight)
    BY AuthConstants, EmptySeq
  <2> QED
    BY <1>0, <2>1, AuthConstants DEF LinkType
<1>3. ChargerType
  <2>1. <<dmode, dwhat>> \in Modes
    BY DEF Init, Modes
  <2>2. dform \in {"prefixed", "headed", "short", "silent", "other"}
    BY AuthConstants DEF Init
  <2>3. dtoken \in Secrets /\ dapp \in Numbers /\ drand \in DNumbers
    BY DEF Init, Secrets, Numbers, DNumbers
  <2>4. /\ dsession \in KeySet /\ shown \subseteq KeySet
        /\ \A i \in DOMAIN dgot : dgot[i] \in Blobs
    BY <1>0, BlankTypes
  <2> QED
    BY <2>1, <2>2, <2>3, <2>4 DEF ChargerType
<1> QED
  BY <1>1, <1>2, <1>3 DEF TypeOK

\* What a receive takes is a frame, and the queues keep theirs.
LEMMA ReceiveType ==
    ASSUME TypeOK, NEW f, Receive(f)
    PROVE  /\ f \in FrameSet
           /\ queue' \in [Channels -> Seq(FrameSet)]
           /\ \A ch \in Channels : Len(queue'[ch]) <= QueueMax
<1> DEFINE c == ChannelOf(pc)
<1>1. c \in Channels
  BY DEF ChannelOf, Channels
<1>2. queue[c] \in Seq(FrameSet) /\ Len(queue[c]) <= QueueMax
  BY <1>1 DEF TypeOK, LinkType
<1>3. queue[c] # <<>> /\ f = Head(queue[c])
      /\ queue' = [queue EXCEPT ![c] = Tail(queue[c])]
  BY DEF Receive, Incoming
<1> HIDE DEF c
<1>4. Head(queue[c]) \in FrameSet /\ Tail(queue[c]) \in Seq(FrameSet)
      /\ Len(Tail(queue[c])) = Len(queue[c]) - 1
  BY <1>2, <1>3, Taken
<1>5. Len(Tail(queue[c])) <= QueueMax
  BY <1>2, <1>4, AuthConstants, LenProperties
<1> QED
  BY <1>1, <1>3, <1>4, <1>5 DEF TypeOK, LinkType

\* What is sent goes behind what is in flight.
LEMMA SendsType ==
    ASSUME TypeOK, NEW w \in Seq(Flight), Sends(w)
    PROVE  up' \in Seq(Flight)
BY ConcatProperties DEF Sends, TypeOK, LinkType

LEMMA AnnouncesType ==
    ASSUME NEW before \in Seq(Flight), NEW what \in Sending \cup Taking
    PROVE  before \o On("avdtp", <<Announcement(what)>>) \in Seq(Flight)
<1>1. <<Announcement(what)>> \in Seq(FrameSet)
  BY AnnouncementType
<1>2. On("avdtp", <<Announcement(what)>>) \in Seq(Flight)
  BY <1>1, OnType DEF Channels
<1> QED
  BY <1>2, ConcatProperties

LEMMA PayloadType ==
    ASSUME TypeOK, NEW what \in Sending
    PROVE  Payload(what) \in Blobs
<1>1. /\ attempts \in Numbers /\ peer \in Nat /\ token \in Secrets
      /\ remote \in Numbers /\ 0 \in Numbers
  BY DEF TypeOK, HostType, Numbers, DNumbers
<1>2. Keys \in KeySet
  BY <1>1, KeysType DEF Keys
<1>3. derive_register(attempts, peer) \in Secrets
  BY <1>1 DEF derive_register, Secrets, DNumbers
<1>4. derive_login(derive_register(attempts, peer), remote, 0) \in KeySet
  BY <1>1, <1>3, KeysType
<1>5. {"appRand", "pub", "appProof", "didCt"} \subseteq DOMAIN Size
  BY DEF Size
<1>6. /\ Number("appRand", attempts, 0) \in Blobs
      /\ Number("pub", attempts, 0) \in Blobs
  BY <1>1, <1>5, NumberType
<1>7. AppProof(Keys) \in Blobs
  BY <1>2, <1>5 DEF AppProof, Blob, Blobs
<1>8. DidCipher(derive_register(attempts, peer), remote) \in Blobs
  BY <1>4, <1>5 DEF DidCipher, Blob, Blobs
<1> QED
  BY <1>6, <1>7, <1>8 DEF Payload, Sending

\* Where a procedure ends or goes on.
EndKinds == {"none", "keys", "token", "auth", "invalid", "error", "link"}

LEMMA EndsType ==
    ASSUME NEW kind \in EndKinds, Ends(kind)
    PROVE  pc' \in Points /\ result' \in Results
BY BlankTypes DEF Ends, Ended, At, Points, Results, EndKinds

LEMMA GoesType ==
    ASSUME TypeOK, NEW p \in Points, Goes(p)
    PROVE  pc' \in Points /\ result' \in Results
BY DEF Goes, TypeOK, HostType

LEMMA PointsAt ==
    /\ \A what \in Sending : At("rdy", what) \in Points /\ At("ok", what) \in Points
    /\ \A what \in Taking : At("head", what) \in Points /\ At("parts", what) \in Points
    /\ \A what \in {"login", "register"} : At("conf", what) \in Points
    /\ \A do \in {"none", "ready", "chal1", "chal2", "greeted", "open",
                  "ended", "over"} : At(do, "") \in Points
BY DEF At, Points

\* What the point of the host says of the value it is about.
LEMMA PointsOf ==
    ASSUME pc \in Points
    PROVE  /\ pc.do \in {"rdy", "ok"} => pc.what \in Sending
           /\ pc.do \in {"head", "parts"} => pc.what \in Taking
           /\ pc.do = "conf" => pc.what \in {"login", "register"}
           /\ pc = At(pc.do, pc.what)
BY DEF Points, At

\* An action of the host that touches neither the charger nor the queues'
\* marks, and leaves good values in what it touches.
HostMoves == UNCHANGED <<goal, token, hint, attempts, faults, charger, dropped, down>>

LEMMA HostMovesType ==
    ASSUME TypeOK, HostMoves,
           pc' \in Points, result' \in Results, blocked' \in BOOLEAN,
           peer' \in Nat, remote' \in {0, 1}, expected' \in Nat,
           DOMAIN frames' \subseteq 1..expected',
           \A i \in DOMAIN frames' : frames'[i] \in Blobs,
           subscribed' \subseteq Channels, answered' \subseteq KeySet,
           queue' \in [Channels -> Seq(FrameSet)],
           \A ch \in Channels : Len(queue'[ch]) <= QueueMax,
           up' \in Seq(Flight)
    PROVE  TypeOK'
<1>1. HostType'
  BY DEF TypeOK, HostType, HostMoves, DNumbers
<1>2. LinkType'
  BY DEF TypeOK, LinkType, HostMoves, faults
<1>3. ChargerType'
  BY DEF TypeOK, ChargerType, HostMoves, charger
<1> QED
  BY <1>1, <1>2, <1>3 DEF TypeOK

\* A point whose receive returns takes a frame from the queue and leaves the
\* rest of the link alone.
LEMMA ReceiveMovesType ==
    ASSUME TypeOK, NEW f, Receive(f),
           pc' \in Points, result' \in Results,
           peer' \in Nat, remote' \in {0, 1}, expected' \in Nat,
           DOMAIN frames' \subseteq 1..expected',
           \A i \in DOMAIN frames' : frames'[i] \in Blobs,
           answered' \subseteq KeySet, up' \in Seq(Flight)
    PROVE  TypeOK'
<1>1. HostMoves /\ blocked' \in BOOLEAN /\ subscribed' \subseteq Channels
  BY DEF Receive, caller, HostMoves, TypeOK, HostType
<1> QED
  BY <1>1, ReceiveType, HostMovesType

\* What the procedure keeps while it only receives.
LEMMA LocalsType ==
    ASSUME TypeOK, UNCHANGED <<frames, expected>>
    PROVE  /\ expected' \in Nat /\ DOMAIN frames' \subseteq 1..expected'
           /\ \A i \in DOMAIN frames' : frames'[i] \in Blobs
BY DEF TypeOK, HostType

LEMMA KeptTypes ==
    ASSUME TypeOK
    PROVE  /\ peer \in Nat /\ remote \in {0, 1} /\ answered \subseteq KeySet
           /\ up \in Seq(Flight) /\ down \in Seq(Flight) /\ pc \in Points
           /\ result \in Results /\ Keys \in KeySet /\ DKeys \in KeySet
<1>1. /\ peer \in Nat /\ remote \in {0, 1} /\ answered \subseteq KeySet
      /\ up \in Seq(Flight) /\ down \in Seq(Flight) /\ pc \in Points
      /\ result \in Results
  BY DEF TypeOK, HostType, LinkType, DNumbers
<1>2. /\ token \in Secrets /\ attempts \in Numbers
      /\ dtoken \in Secrets /\ dapp \in Numbers /\ drand \in Nat
  BY DEF TypeOK, HostType, ChargerType, Numbers, DNumbers
<1> QED
  BY <1>1, <1>2, KeysType DEF Keys, DKeys

\* What login() and register() do with a value keeps the types.
LEMMA LoginHasType ==
    ASSUME TypeOK, NEW what \in {"devRand", "devProof"}, NEW data \in Blobs,
           NEW before \in Seq(Flight), LoginHas(what, data, before)
    PROVE  /\ pc' \in Points /\ result' \in Results /\ peer' \in Nat
           /\ up' \in Seq(Flight)
<1>1. data.of.dev \in Nat
  BY DEF Blobs, KeySet, DNumbers
<1>2. CASE Ends("auth") /\ Sends(before) /\ UNCHANGED peer
  BY <1>2, EndsType, SendsType, KeptTypes DEF EndKinds
<1>3. CASE /\ peer' = data.of.dev
           /\ Goes(At("head", "devProof")) /\ Sends(before)
  BY <1>1, <1>3, GoesType, PointsAt, SendsType DEF Taking
<1>4. CASE Ends("invalid") /\ Sends(before) /\ UNCHANGED peer
  BY <1>4, EndsType, SendsType, KeptTypes DEF EndKinds
<1>5. CASE Announces(before, "appProof") /\ UNCHANGED peer
  BY <1>5, AnnouncesType, SendsType, GoesType, PointsAt, KeptTypes
     DEF Announces, Sending
<1> QED
  BY <1>2, <1>3, <1>4, <1>5 DEF LoginHas

LEMMA RegisterHasDidType ==
    ASSUME TypeOK, NEW raw, NEW before \in Seq(Flight),
           RegisterHasDid(raw, before)
    PROVE  /\ pc' \in Points /\ result' \in Results /\ remote' \in {0, 1}
           /\ up' \in Seq(Flight)
<1>1. CASE Ends("auth") /\ Sends(before) /\ UNCHANGED remote
  BY <1>1, EndsType, SendsType, KeptTypes DEF EndKinds
<1>2. CASE /\ remote' \in {0, 1}
           /\ Announces(before \o Write("upnp", "CMD_SET_KEY"), "pub")
  <2>1. before \o Write("upnp", "CMD_SET_KEY") \in Seq(Flight)
    BY WriteType, ConcatProperties DEF ShortKinds, Channels
  <2> QED
    BY <1>2, <2>1, AnnouncesType, SendsType, GoesType, PointsAt
       DEF Announces, Sending
<1> QED
  BY <1>1, <1>2 DEF RegisterHasDid

LEMMA HasType ==
    ASSUME TypeOK, NEW what \in Taking, NEW data \in Blobs,
           NEW before \in Seq(Flight), Has(what, data, before)
    PROVE  /\ pc' \in Points /\ result' \in Results
           /\ peer' \in Nat /\ remote' \in {0, 1}
           /\ up' \in Seq(Flight)
<1>1. CASE /\ what \in {"devRand", "devProof"} /\ LoginHas(what, data, before)
           /\ UNCHANGED remote
  BY <1>1, LoginHasType, KeptTypes
<1>2. CASE UNCHANGED peer /\ \E raw : RegisterHasDid(raw, before)
  BY <1>2, RegisterHasDidType, KeptTypes
<1>3. CASE RegisterHasKey(data, before) /\ UNCHANGED remote
  <2>1. data.of.dev \in Nat
    BY DEF Blobs, KeySet, DNumbers
  <2>2. CASE Ends("error") /\ Sends(before) /\ UNCHANGED peer
    BY <1>3, <2>2, EndsType, SendsType, KeptTypes DEF EndKinds
  <2>3. CASE peer' = data.of.dev /\ Announces(before, "didCt")
    BY <1>3, <2>1, <2>3, AnnouncesType, SendsType, GoesType, PointsAt,
       KeptTypes DEF Announces, Sending
  <2> QED
    BY <1>3, <2>2, <2>3 DEF RegisterHasKey
<1> QED
  BY <1>1, <1>2, <1>3 DEF Has

LEMMA CollectsType ==
    ASSUME TypeOK, NEW what \in Taking, NEW n, Collects(what, n)
    PROVE  /\ pc' \in Points /\ result' \in Results
           /\ expected' \in Nat /\ DOMAIN frames' \subseteq 1..expected'
           /\ \A i \in DOMAIN frames' : frames'[i] \in Blobs
           /\ up' \in Seq(Flight)
<1>1. CASE /\ n \in 1..MAX_AUTH_PARCELS
           /\ Sends(Write("avdtp", "rdy"))
           /\ expected' = n /\ frames' = <<>>
           /\ Goes(At("parts", what))
  <2>1. Write("avdtp", "rdy") \in Seq(Flight)
    BY WriteType DEF ShortKinds, Channels
  <2>2. up' \in Seq(Flight)
    BY <1>1, <2>1, SendsType
  <2>3. pc' \in Points /\ result' \in Results
    BY <1>1, GoesType, PointsAt
  <2> QED
    BY <1>1, <2>2, <2>3 DEF MAX_AUTH_PARCELS
<1>2. CASE Ends("auth") /\ UNCHANGED <<up, expected, frames>>
  BY <1>2, EndsType, KeptTypes, LocalsType DEF EndKinds
<1> QED
  BY <1>1, <1>2 DEF Collects, NoFrames

-----------------------------------------------------------------------------
(* The host's actions keep the types.                                      *)

LEMMA BlockType == ASSUME TypeOK, Block PROVE TypeOK'
<1>1. blocked' = TRUE /\ HostMoves
      /\ UNCHANGED <<pc, result, peer, frames, expected, remote, subscribed,
                     queue, answered, up>>
  BY DEF Block, HostMoves, caller, locals, inbox, link
<1> QED
  BY <1>1, HostMovesType DEF TypeOK, HostType, LinkType, DNumbers

LEMMA OverflownType == ASSUME TypeOK, Overflown PROVE TypeOK'
<1>1. Ends("auth") /\ HostMoves
      /\ UNCHANGED <<blocked, peer, frames, expected, remote, subscribed,
                     queue, answered, up>>
  BY DEF Overflown, HostMoves, caller, locals, inbox, link
<1>2. pc' \in Points /\ result' \in Results
  BY <1>1, EndsType DEF EndKinds
<1> QED
  BY <1>1, <1>2, HostMovesType DEF TypeOK, HostType, LinkType, DNumbers

LEMMA TimesOutType == ASSUME TypeOK, TimesOut PROVE TypeOK'
<1>1. Ends("auth") /\ HostMoves /\ blocked' = FALSE
      /\ UNCHANGED <<peer, frames, expected, remote, subscribed,
                     queue, answered, up>>
  BY DEF TimesOut, HostMoves, caller, locals, inbox, link
<1>2. pc' \in Points /\ result' \in Results
  BY <1>1, EndsType DEF EndKinds
<1> QED
  BY <1>1, <1>2, HostMovesType DEF TypeOK, HostType, LinkType, DNumbers

LEMMA RefusedType == ASSUME TypeOK, Refused PROVE TypeOK'
<1>1. /\ Receive(Short("error")) /\ Ends("auth")
      /\ UNCHANGED <<up, peer, frames, expected, remote, answered>>
  BY DEF Refused, locals
<1>2. pc' \in Points /\ result' \in Results
  BY <1>1, EndsType DEF EndKinds
<1> QED
  BY <1>1, <1>2, ReceiveMovesType, LocalsType, KeptTypes

LEMMA TakeReadyType == ASSUME TypeOK, TakeReady PROVE TypeOK'
<1>1. PICK f : /\ Receive(f)
               /\ IF f.kind = "rdy"
                  THEN /\ Sends(On("avdtp", Parcels(Payload(pc.what))))
                       /\ Goes(At("ok", pc.what))
                       /\ answered' = IF pc.what = "appProof"
                                      THEN answered \cup {Keys} ELSE answered
                  ELSE Goes(pc) /\ UNCHANGED <<up, answered>>
  BY DEF TakeReady
<1>2. pc.do = "rdy" /\ UNCHANGED <<peer, frames, expected, remote>>
  BY DEF TakeReady, locals
<1>3. pc.what \in Sending
  BY <1>2, PointsOf, KeptTypes
<1>4. answered' \subseteq KeySet
  BY <1>1, KeptTypes
<1>5. CASE f.kind = "rdy"
  <2>1. On("avdtp", Parcels(Payload(pc.what))) \in Seq(Flight)
    BY <1>3, PayloadType, ParcelsType, OnType DEF Channels
  <2>2. up' \in Seq(Flight)
    BY <1>1, <1>5, <2>1, SendsType
  <2>3. pc' \in Points /\ result' \in Results
    BY <1>1, <1>3, <1>5, GoesType, PointsAt
  <2> QED
    BY <1>1, <1>2, <1>4, <2>2, <2>3, ReceiveMovesType, LocalsType, KeptTypes
<1>6. CASE f.kind # "rdy"
  <2>1. pc' \in Points /\ result' \in Results /\ up' \in Seq(Flight)
    BY <1>1, <1>6, GoesType, KeptTypes
  <2> QED
    BY <1>1, <1>2, <1>4, <2>1, ReceiveMovesType, LocalsType, KeptTypes
<1> QED
  BY <1>5, <1>6

LEMMA TakeOkType == ASSUME TypeOK, TakeOk PROVE TypeOK'
<1>1. PICK f : /\ Receive(f)
               /\ \/ Goes(pc) /\ UNCHANGED up
                  \/ Goes(At("head", "devRand")) /\ UNCHANGED up
                  \/ Goes(At("conf", "login")) /\ UNCHANGED up
                  \/ Goes(At("head", "peerPub")) /\ UNCHANGED up
                  \/ /\ Sends(Write("upnp", "CMD_AUTH"))
                     /\ Goes(At("conf", "register"))
  BY DEF TakeOk
<1>2. UNCHANGED <<peer, frames, expected, remote, answered>>
  BY DEF TakeOk, locals
<1>3. pc' \in Points /\ result' \in Results
  BY <1>1, GoesType, PointsAt, KeptTypes DEF Taking
<1>4. up' \in Seq(Flight)
  <2>1. Write("upnp", "CMD_AUTH") \in Seq(Flight)
    BY WriteType DEF ShortKinds, Channels
  <2> QED
    BY <1>1, <2>1, SendsType, KeptTypes
<1> QED
  BY <1>1, <1>2, <1>3, <1>4, ReceiveMovesType, LocalsType, KeptTypes

LEMMA TakeVariantType == ASSUME TypeOK, TakeVariant PROVE TypeOK'
<1>1. PICK f : /\ Receive(f)
               /\ \/ /\ Ends("auth")
                     /\ UNCHANGED <<up, peer, remote, frames, expected>>
                  \/ /\ Has(pc.what, f.data, OFFICIAL_ACK)
                     /\ UNCHANGED <<frames, expected>>
                  \/ /\ Collects(pc.what, f.n)
                     /\ UNCHANGED <<peer, remote>>
  BY DEF TakeVariant
<1>2. pc.what \in Taking /\ answered' = answered
  BY DEF TakeVariant, Taking
<1>3. f.data \in Blobs
  <2>1. f \in FrameSet
    BY <1>1, ReceiveType
  <2> QED
    BY <2>1, FrameParts
<1>4. CASE /\ Ends("auth")
           /\ UNCHANGED <<up, peer, remote, frames, expected>>
  BY <1>1, <1>2, <1>4, EndsType, ReceiveMovesType, LocalsType, KeptTypes
     DEF EndKinds
<1>5. CASE /\ Has(pc.what, f.data, OFFICIAL_ACK)
           /\ UNCHANGED <<frames, expected>>
  <2>1. OFFICIAL_ACK \in Seq(Flight)
    BY WriteType DEF OFFICIAL_ACK, ShortKinds, Channels
  <2> QED
    BY <1>1, <1>2, <1>3, <1>5, <2>1, HasType, ReceiveMovesType, LocalsType,
       KeptTypes
<1>6. CASE Collects(pc.what, f.n) /\ UNCHANGED <<peer, remote>>
  BY <1>1, <1>2, <1>6, CollectsType, ReceiveMovesType, KeptTypes
<1> QED
  BY <1>1, <1>4, <1>5, <1>6

LEMMA TakeAnnouncementType == ASSUME TypeOK, TakeAnnouncement PROVE TypeOK'
<1>1. PICK f : /\ Receive(f)
               /\ \/ Collects(pc.what, f.n) /\ UNCHANGED <<peer, remote>>
                  \/ Has("did", Empty, <<>>) /\ UNCHANGED <<frames, expected>>
                  \/ /\ Ends("auth")
                     /\ UNCHANGED <<up, peer, remote, frames, expected>>
  BY DEF TakeAnnouncement
<1>2. pc.what \in Taking /\ answered' = answered
  BY DEF TakeAnnouncement, Taking
<1>3. CASE Collects(pc.what, f.n) /\ UNCHANGED <<peer, remote>>
  BY <1>1, <1>2, <1>3, CollectsType, ReceiveMovesType, KeptTypes
<1>4. CASE Has("did", Empty, <<>>) /\ UNCHANGED <<frames, expected>>
  <2>1. <<>> \in Seq(Flight) /\ "did" \in Taking
    BY EmptySeq DEF Taking
  <2> QED
    BY <1>1, <1>2, <1>4, <2>1, BlankTypes, HasType, ReceiveMovesType,
       LocalsType, KeptTypes
<1>5. CASE /\ Ends("auth")
           /\ UNCHANGED <<up, peer, remote, frames, expected>>
  BY <1>1, <1>2, <1>5, EndsType, ReceiveMovesType, LocalsType, KeptTypes
     DEF EndKinds
<1> QED
  BY <1>1, <1>3, <1>4, <1>5

LEMMA TakeParcelType == ASSUME TypeOK, TakeParcel PROVE TypeOK'
<1> DEFINE got(f) == [i \in DOMAIN frames \cup {f.n} |->
                         IF i = f.n THEN f.data ELSE frames[i]]
<1>1. PICK f : /\ Receive(f)
               /\ \/ /\ f.n \in 1..expected /\ frames' = got(f)
                     /\ \/ /\ DOMAIN got(f) = 1..expected
                           /\ Has(pc.what, Joined(got(f), expected),
                                  Write("avdtp", "ok"))
                        \/ Goes(pc) /\ UNCHANGED <<up, peer, remote>>
                  \/ Ends("auth") /\ UNCHANGED <<up, peer, remote, frames>>
  BY DEF TakeParcel
<1>2. pc.do = "parts" /\ UNCHANGED <<expected, answered>>
  BY DEF TakeParcel
<1>3. pc.what \in Taking
  BY <1>2, PointsOf, KeptTypes
<1>4. f.data \in Blobs
  <2>1. f \in FrameSet
    BY <1>1, ReceiveType
  <2> QED
    BY <2>1, FrameParts
<1>5. /\ expected \in Nat /\ DOMAIN frames \subseteq 1..expected
      /\ \A i \in DOMAIN frames : frames[i] \in Blobs
  BY DEF TypeOK, HostType
<1>6. CASE Ends("auth") /\ UNCHANGED <<up, peer, remote, frames>>
  BY <1>1, <1>2, <1>6, EndsType, ReceiveMovesType, LocalsType, KeptTypes
     DEF EndKinds
<1>7. CASE /\ f.n \in 1..expected /\ frames' = got(f)
           /\ \/ /\ DOMAIN got(f) = 1..expected
                 /\ Has(pc.what, Joined(got(f), expected),
                        Write("avdtp", "ok"))
              \/ Goes(pc) /\ UNCHANGED <<up, peer, remote>>
  <2>1. /\ DOMAIN got(f) \subseteq 1..expected
        /\ \A i \in DOMAIN got(f) : got(f)[i] \in Blobs
    BY <1>4, <1>5, <1>7
  <2>2. /\ expected' \in Nat /\ DOMAIN frames' \subseteq 1..expected'
        /\ \A i \in DOMAIN frames' : frames'[i] \in Blobs
    BY <1>2, <1>5, <1>7, <2>1
  <2>3. CASE /\ DOMAIN got(f) = 1..expected
             /\ Has(pc.what, Joined(got(f), expected), Write("avdtp", "ok"))
    <3>1. Joined(got(f), expected) \in Blobs
      <4> DEFINE g == got(f)
      <4>1. 1..expected \subseteq DOMAIN g /\ \A i \in DOMAIN g : g[i] \in Blobs
        BY <2>1, <2>3
      <4> HIDE DEF g
      <4>2. Joined(g, expected) \in Blobs
        BY <1>5, <4>1, JoinedType
      <4> QED
        BY <4>2 DEF g
    <3>2. Write("avdtp", "ok") \in Seq(Flight)
      BY WriteType DEF ShortKinds, Channels
    <3>3. /\ pc' \in Points /\ result' \in Results
          /\ peer' \in Nat /\ remote' \in {0, 1} /\ up' \in Seq(Flight)
      BY <1>3, <2>3, <3>1, <3>2, HasType
    <3> QED
      BY <1>1, <1>2, <2>2, <3>3, ReceiveMovesType, KeptTypes
  <2>4. CASE Goes(pc) /\ UNCHANGED <<up, peer, remote>>
    BY <1>1, <1>2, <2>2, <2>4, GoesType, ReceiveMovesType, KeptTypes
  <2> QED
    BY <1>7, <2>3, <2>4
<1> QED
  BY <1>1, <1>6, <1>7

LEMMA TakeConfirmationType == ASSUME TypeOK, TakeConfirmation PROVE TypeOK'
<1> DEFINE bound == derive_login(derive_register(attempts, peer), 0, 0)
<1>1. PICK f : /\ Receive(f) /\ pc' = Ended
               /\ LET kind == Outcome(pc.what, f.kind)
                  IN  result' = [kind |-> kind,
                                 keys |-> IF kind = "keys" THEN Keys
                                          ELSE IF kind = "token" THEN bound
                                          ELSE NoKeys]
  BY DEF TakeConfirmation
<1>2. UNCHANGED <<peer, frames, expected, remote, answered, up>>
  BY DEF TakeConfirmation, locals
<1>3. bound \in KeySet
  <2>1. attempts \in Numbers /\ peer \in Nat /\ 0 \in Numbers
    BY DEF TypeOK, HostType, Numbers, DNumbers
  <2>2. derive_register(attempts, peer) \in Secrets
    BY <2>1 DEF derive_register, Secrets, DNumbers
  <2> QED
    BY <2>1, <2>2, KeysType
<1>4. Outcome(pc.what, f.kind) \in EndKinds
  BY DEF Outcome, EndKinds
<1> HIDE DEF bound
<1>5. result' \in Results
  BY <1>1, <1>3, <1>4, BlankTypes, KeptTypes DEF Results, EndKinds
<1>6. pc' \in Points
  BY <1>1, PointsAt DEF Ended
<1> QED
  BY <1>1, <1>2, <1>5, <1>6, ReceiveMovesType, LocalsType, KeptTypes

LEMMA NewClientType == ASSUME TypeOK, NewClient PROVE TypeOK'
<1>1. HostType'
  <2>1. /\ attempts' = attempts + 1 /\ attempts < MaxAttempts
        /\ UNCHANGED <<hint, answered>>
        /\ pc' = At("ready", "") /\ result' = NoResult
        /\ subscribed' \in {Channels, {"avdtp"}} /\ blocked' = FALSE
        /\ peer' = 0 /\ remote' = 1 /\ frames' = <<>> /\ expected' = 0
    BY DEF NewClient
  <2>2. token' \in Secrets /\ goal' \in {"login", "register"}
    <3>1. \/ token' = result.keys.token /\ goal' = "login"
          \/ UNCHANGED <<token, goal>>
      BY DEF NewClient
    <3>2. result.keys.token \in Secrets
      BY DEF TypeOK, HostType, Results, KeySet
    <3> QED
      BY <3>1, <3>2 DEF TypeOK, HostType
  <2>3. attempts' \in 0..MaxAttempts
    <3>1. attempts \in 0..MaxAttempts
      BY DEF TypeOK, HostType
    <3>2. attempts < MaxAttempts /\ attempts' = attempts + 1
      BY <2>1
    <3>3. MaxAttempts \in Nat
      BY AuthConstants
    <3> QED
      BY <3>1, <3>2, <3>3
  <2>4. pc' \in Points /\ result' \in Results
    BY <2>1, PointsAt, BlankTypes
  <2>5. /\ DOMAIN frames' \subseteq 1..expected'
        /\ \A i \in DOMAIN frames' : frames'[i] \in Blobs
    <3>1. frames' = <<>> /\ expected' = 0
      BY <2>1
    <3> QED
      BY <3>1
  <2>6. subscribed' \subseteq Channels
    BY <2>1 DEF Channels
  <2> QED
    BY <2>1, <2>2, <2>3, <2>4, <2>5, <2>6 DEF TypeOK, HostType, DNumbers
<1>2. LinkType'
  <2>1. /\ queue' = [ch \in Channels |-> <<>>]
        /\ dropped' = [ch \in Channels |-> FALSE]
        /\ UNCHANGED <<up, down, lost, noise>>
    BY DEF NewClient, link, faults
  <2>2. <<>> \in Seq(FrameSet) /\ Len(<<>>) <= QueueMax
    BY AuthConstants, EmptySeq
  <2> QED
    BY <2>1, <2>2 DEF TypeOK, LinkType
<1>3. ChargerType'
  BY DEF NewClient, charger, TypeOK, ChargerType
<1> QED
  BY <1>1, <1>2, <1>3 DEF TypeOK

LEMMA GreetType == ASSUME TypeOK, Greet PROVE TypeOK'
<1>1. /\ Sends(Write("upnp", "GREETING")) /\ Goes(At("chal1", "")) /\ HostMoves
      /\ UNCHANGED <<blocked, peer, frames, expected, remote, subscribed,
                     queue, answered>>
  BY DEF Greet, HostMoves, caller, locals, inbox
<1>2. Write("upnp", "GREETING") \in Seq(Flight)
  BY WriteType DEF ShortKinds, Channels
<1>3. pc' \in Points /\ result' \in Results /\ up' \in Seq(Flight)
  BY <1>1, <1>2, GoesType, PointsAt, SendsType
<1> QED
  BY <1>1, <1>3, HostMovesType DEF TypeOK, HostType, LinkType, DNumbers

LEMMA RegisterType == ASSUME TypeOK, Register PROVE TypeOK'
<1>1. /\ Sends(Write("upnp", "CMD_GET_INFO")) /\ Goes(At("head", "did"))
      /\ HostMoves
      /\ UNCHANGED <<blocked, peer, frames, expected, remote, subscribed,
                     queue, answered>>
  BY DEF Register, HostMoves, caller, locals, inbox
<1>2. Write("upnp", "CMD_GET_INFO") \in Seq(Flight)
  BY WriteType DEF ShortKinds, Channels
<1>3. pc' \in Points /\ result' \in Results /\ up' \in Seq(Flight)
  BY <1>1, <1>2, GoesType, PointsAt, SendsType DEF Taking
<1> QED
  BY <1>1, <1>3, HostMovesType DEF TypeOK, HostType, LinkType, DNumbers

LEMMA LoginType == ASSUME TypeOK, Login PROVE TypeOK'
<1>1. /\ \/ Ends("auth") /\ UNCHANGED up
         \/ Announces(Write("upnp", "CMD_LOGIN"), "appRand")
      /\ HostMoves
      /\ UNCHANGED <<blocked, peer, frames, expected, remote, subscribed,
                     queue, answered>>
  BY DEF Login, HostMoves, caller, locals, inbox
<1>2. Write("upnp", "CMD_LOGIN") \in Seq(Flight)
  BY WriteType DEF ShortKinds, Channels
<1>3. pc' \in Points /\ result' \in Results /\ up' \in Seq(Flight)
  <2>1. CASE Ends("auth") /\ UNCHANGED up
    BY <2>1, EndsType, KeptTypes DEF EndKinds
  <2>2. CASE Announces(Write("upnp", "CMD_LOGIN"), "appRand")
    BY <1>2, <2>2, AnnouncesType, SendsType, GoesType, PointsAt
       DEF Announces, Sending
  <2> QED
    BY <1>1, <2>1, <2>2
<1> QED
  BY <1>1, <1>3, HostMovesType DEF TypeOK, HostType, LinkType, DNumbers

LEMMA SubscribeUpnpType == ASSUME TypeOK, SubscribeUpnp PROVE TypeOK'
<1>1. /\ Goes(At("open", "")) /\ subscribed' = Channels /\ HostMoves
      /\ UNCHANGED <<blocked, peer, frames, expected, remote, queue, answered,
                     up>>
  BY DEF SubscribeUpnp, HostMoves, caller, locals, link
<1>2. pc' \in Points /\ result' \in Results
  BY <1>1, GoesType, PointsAt
<1> QED
  BY <1>1, <1>2, HostMovesType DEF TypeOK, HostType, LinkType, DNumbers

LEMMA UnsubscribeType == ASSUME TypeOK, Unsubscribe PROVE TypeOK'
<1>1. /\ pc' = Idle /\ subscribed' = {} /\ HostMoves
      /\ UNCHANGED <<result, blocked, peer, frames, expected, remote, queue,
                     answered, up>>
  BY DEF Unsubscribe, HostMoves, caller, locals, link
<1>2. pc' \in Points
  BY <1>1, PointsAt DEF Idle
<1> QED
  BY <1>1, <1>2, HostMovesType DEF TypeOK, HostType, LinkType, DNumbers

LEMMA TakeChallengeType == ASSUME TypeOK, TakeChallenge PROVE TypeOK'
<1>1. PICK f : /\ Receive(f)
               /\ \/ /\ Sends(Write("avdtp", "echo"))
                     /\ \/ Goes(At("chal2", "")) \/ Goes(At("greeted", ""))
                  \/ Ends("auth") /\ UNCHANGED up
  BY DEF TakeChallenge
<1>2. UNCHANGED <<peer, frames, expected, remote, answered>>
  BY DEF TakeChallenge, locals
<1>3. Write("avdtp", "echo") \in Seq(Flight)
  BY WriteType DEF ShortKinds, Channels
<1>4. pc' \in Points /\ result' \in Results /\ up' \in Seq(Flight)
  BY <1>1, <1>3, GoesType, EndsType, PointsAt, SendsType, KeptTypes
     DEF EndKinds
<1> QED
  BY <1>1, <1>2, <1>4, ReceiveMovesType, LocalsType, KeptTypes

LEMMA LinkFailsType == ASSUME TypeOK, LinkFails PROVE TypeOK'
<1>1. HostType'
  <2>1. /\ pc' = At("over", "") /\ result' = [kind |-> "link", keys |-> NoKeys]
        /\ subscribed' = {}
        /\ UNCHANGED <<goal, token, hint, attempts, blocked, peer, frames,
                       expected, remote, answered>>
    BY DEF LinkFails, caller, locals
  <2>2. pc' \in Points /\ result' \in Results
    BY <2>1, PointsAt, BlankTypes DEF Results
  <2> QED
    BY <2>1, <2>2 DEF TypeOK, HostType
<1>2. LinkType'
  <2>1. up' = <<>> /\ down' = <<>> /\ UNCHANGED <<queue, dropped, lost, noise>>
    BY DEF LinkFails, faults
  <2>2. <<>> \in Seq(Flight)
    BY EmptySeq
  <2> QED
    BY <2>1, <2>2 DEF TypeOK, LinkType
<1>3. ChargerType'
  <2>1. /\ dmode' = "idle" /\ dsession' = NoKeys
        /\ UNCHANGED <<dwhat, dform, dtoken, dapp, drand, dgot, shown>>
    BY DEF LinkFails
  <2>2. <<dmode', dwhat'>> \in Modes
    BY <2>1 DEF TypeOK, ChargerType, Modes, Sending, Taking
  <2> QED
    BY <2>1, <2>2, BlankTypes DEF TypeOK, ChargerType
<1> QED
  BY <1>1, <1>2, <1>3 DEF TypeOK

LEMMA HostStepType == ASSUME TypeOK, Host PROVE TypeOK'
BY BlockType, OverflownType, TimesOutType, RefusedType, TakeReadyType,
   TakeOkType, TakeVariantType, TakeAnnouncementType, TakeParcelType,
   TakeConfirmationType, NewClientType, GreetType, RegisterType, LoginType,
   SubscribeUpnpType, UnsubscribeType, TakeChallengeType
   DEF Host

-----------------------------------------------------------------------------
(* The link's and the charger's steps keep the types.                      *)

LEMMA DeliverType == ASSUME TypeOK, Deliver PROVE TypeOK'
<1> DEFINE m == Head(down)
<1>1. m \in Flight /\ Tail(down) \in Seq(Flight)
  BY Taken DEF Deliver, TypeOK, LinkType
<1>2. m.ch \in Channels /\ m.frame \in FrameSet
  BY <1>1 DEF Flight
<1>3. /\ \/ /\ queue' = [queue EXCEPT ![m.ch] = Append(Kept(queue[m.ch]), m.frame)]
            /\ dropped' = [dropped EXCEPT ![m.ch] =
                              dropped[m.ch] \/ Len(queue[m.ch]) = QueueMax]
         \/ UNCHANGED <<queue, dropped>>
      /\ down' = Tail(down)
      /\ UNCHANGED <<goal, token, hint, attempts, pc, blocked, peer, frames,
                     expected, remote, subscribed, result, answered, up, lost,
                     noise, charger>>
  BY DEF Deliver, caller, locals, faults
<1> HIDE DEF m
<1>4. LinkType'
  <2>1. queue[m.ch] \in Seq(FrameSet) /\ Len(queue[m.ch]) <= QueueMax
    BY <1>2 DEF TypeOK, LinkType
  <2>2. /\ Append(Kept(queue[m.ch]), m.frame) \in Seq(FrameSet)
        /\ Len(Append(Kept(queue[m.ch]), m.frame)) <= QueueMax
    BY <1>2, <2>1, KeptType
  <2>3. /\ queue' \in [Channels -> Seq(FrameSet)]
        /\ \A ch \in Channels : Len(queue'[ch]) <= QueueMax
    BY <1>2, <1>3, <2>2 DEF TypeOK, LinkType
  <2>4. dropped' \in [Channels -> BOOLEAN]
    BY <1>3 DEF TypeOK, LinkType
  <2> QED
    BY <1>1, <1>3, <2>3, <2>4 DEF TypeOK, LinkType
<1>5. HostType' /\ ChargerType'
  BY <1>3 DEF TypeOK, HostType, ChargerType, charger
<1> QED
  BY <1>4, <1>5 DEF TypeOK

\* A step that only touches what is in flight and the count of faults.
LEMMA FlightType ==
    ASSUME TypeOK, UNCHANGED <<caller, client, charger>>,
           up' \in Seq(Flight), down' \in Seq(Flight),
           lost' \in 0..MaxLost, noise' \in 0..MaxNoise
    PROVE  TypeOK'
<1>1. HostType'
  BY DEF TypeOK, HostType, caller, client, locals, inbox
<1>2. LinkType'
  BY DEF TypeOK, LinkType, client, inbox
<1>3. ChargerType'
  BY DEF TypeOK, ChargerType, charger
<1> QED
  BY <1>1, <1>2, <1>3 DEF TypeOK

LEMMA LosesType == ASSUME TypeOK, Loses PROVE TypeOK'
<1>1. up' \in Seq(Flight) /\ down' \in Seq(Flight)
  BY Taken DEF Loses, LosesNotification, LosesWrite, TypeOK, LinkType
<1>2. lost' \in 0..MaxLost /\ noise' \in 0..MaxNoise
  BY AuthConstants DEF Loses, TypeOK, LinkType
<1> QED
  BY <1>1, <1>2, FlightType DEF Loses

LEMMA OddType ==
    ASSUME NEW f \in Oddities
    PROVE  f \in FrameSet
<1>1. CASE f \in {Short(kind) : kind \in OddKinds}
  <2>1. OddKinds \subseteq ShortKinds
    BY AuthConstants DEF ShortKinds
  <2> QED
    BY <1>1, <2>1, ShortType
<1>2. CASE f \in {Frame("announce", "ff", 1, Empty),
                  Frame("announce", "0d", 0, Empty),
                  Frame("parcel", "", 9, Empty)}
  <2>1. /\ Frame("announce", "ff", 1, Empty) \in FrameSet
        /\ Frame("announce", "0d", 0, Empty) \in FrameSet
    BY BlankTypes DEF Frame, FrameSet
  <2>2. Frame("parcel", "", 9, Empty) \in FrameSet
    BY BlankTypes DEF Frame, FrameSet
  <2> QED
    BY <1>2, <2>1, <2>2
<1> QED
  BY <1>1, <1>2 DEF Oddities

LEMMA NoiseType == ASSUME TypeOK, Noise PROVE TypeOK'
<1>1. PICK ch \in Channels, f \in Oddities : down' = down \o On(ch, <<f>>)
  BY DEF Noise
<1>2. <<f>> \in Seq(FrameSet)
  BY OddType
<1>3. up' \in Seq(Flight) /\ down' \in Seq(Flight)
  BY <1>1, <1>2, OnType, ConcatProperties DEF Noise, TypeOK, LinkType
<1>4. lost' \in 0..MaxLost /\ noise' \in 0..MaxNoise
  BY AuthConstants DEF Noise, TypeOK, LinkType
<1> QED
  BY <1>3, <1>4, FlightType DEF Noise

\* The charger hears the first of the writes.
LEMMA HearsType ==
    ASSUME TypeOK, up # <<>>, up' = Tail(up)
    PROVE  Head(up).frame \in FrameSet /\ up' \in Seq(Flight)
BY Taken DEF TypeOK, LinkType, Flight

LEMMA TellsType ==
    ASSUME TypeOK, NEW fs \in Seq(FrameSet), Tells(fs)
    PROVE  down' \in Seq(Flight)
<1>1. On("avdtp", fs) \in Seq(Flight)
  BY OnType DEF Channels
<1> QED
  BY <1>1, KeptTypes, ConcatProperties DEF Tells

LEMMA ModesOf ==
    ASSUME <<dmode, dwhat>> \in Modes
    PROVE  /\ dmode \in {"want", "fill"} => dwhat \in Sending
           /\ dmode \in {"offer", "ack", "send"} => dwhat \in Taking
BY DEF Modes

LEMMA DGoesType ==
    /\ \A what \in Sending : <<"want", what>> \in Modes
                             /\ <<"fill", what>> \in Modes
    /\ \A what \in Taking : /\ <<"offer", what>> \in Modes
                            /\ <<"ack", what>> \in Modes
                            /\ <<"send", what>> \in Modes
    /\ <<"auth", "didCt">> \in Modes
    /\ \A mode \in {"idle", "echo1", "echo2"} : <<mode, "">> \in Modes
BY DEF Modes

LEMMA DOffersType ==
    ASSUME TypeOK, NEW before \in Seq(FrameSet), NEW what \in Taking,
           NEW data, what \in {"devRand", "devProof"} => data \in Blobs,
           DOffers(before, what, data)
    PROVE  down' \in Seq(Flight) /\ <<dmode', dwhat'>> \in Modes
<1>1. CASE /\ what \in {"devRand", "devProof"}
           /\ Tells(before \o <<Inline(what, data)>>)
           /\ DGoes("ack", what)
  <2>1. before \o <<Inline(what, data)>> \in Seq(FrameSet)
    BY <1>1, InlineType, ConcatProperties
  <2> QED
    BY <1>1, <2>1, TellsType, DGoesType DEF DGoes
<1>2. CASE Tells(before \o <<Announcement(what)>>) /\ DGoes("offer", what)
  <2>1. before \o <<Announcement(what)>> \in Seq(FrameSet)
    BY AnnouncementType, ConcatProperties
  <2> QED
    BY <1>2, <2>1, TellsType, DGoesType DEF DGoes
<1> QED
  BY <1>1, <1>2 DEF DOffers

LEMMA DPayloadType ==
    ASSUME TypeOK, NEW what \in Taking
    PROVE  DPayload(what) \in Blobs
<1>1. drand \in Nat /\ 0 \in Numbers /\ DKeys \in KeySet
  BY KeptTypes DEF TypeOK, ChargerType, DNumbers, Numbers
<1>2. {"devRand", "peerPub", "devProof", "did"} \subseteq DOMAIN Size
  BY DEF Size
<1>3. /\ Number("devRand", 0, drand) \in Blobs
      /\ Number("peerPub", 0, drand) \in Blobs
      /\ Number("did", 0, 0) \in Blobs
  BY <1>1, <1>2, NumberType
<1>4. DevProof(DKeys) \in Blobs
  BY <1>1, <1>2 DEF DevProof, Blob, Blobs
<1> QED
  BY <1>3, <1>4 DEF DPayload, Taking

\* A step of the charger that leaves good values in what it touches.
LEMMA ChargerMovesType ==
    ASSUME TypeOK, UNCHANGED <<caller, client, faults, dform>>,
           up' \in Seq(Flight), down' \in Seq(Flight),
           <<dmode', dwhat'>> \in Modes, dtoken' \in Secrets,
           dapp' \in Numbers, drand' \in Nat, dsession' \in KeySet,
           shown' \subseteq KeySet, \A i \in DOMAIN dgot' : dgot'[i] \in Blobs
    PROVE  TypeOK'
<1>1. HostType'
  BY DEF TypeOK, HostType, caller, client, locals, inbox
<1>2. LinkType'
  BY DEF TypeOK, LinkType, client, inbox, faults
<1>3. ChargerType'
  BY DEF TypeOK, ChargerType, DNumbers
<1> QED
  BY <1>1, <1>2, <1>3 DEF TypeOK

LEMMA ChargerKept ==
    ASSUME TypeOK
    PROVE  /\ <<dmode, dwhat>> \in Modes /\ dtoken \in Secrets
           /\ dapp \in Numbers /\ drand \in Nat /\ dsession \in KeySet
           /\ shown \subseteq KeySet /\ \A i \in DOMAIN dgot : dgot[i] \in Blobs
BY DEF TypeOK, ChargerType, DNumbers

\* What every step of the charger leaves alone.
ChargerFrame == UNCHANGED <<caller, client, faults, dform>>

LEMMA DCommandType ==
    ASSUME TypeOK, ChargerFrame, DCommand, UNCHANGED <<dtoken, dapp, dgot, shown>>
    PROVE  TypeOK'
<1>1. up # <<>> /\ up' = Tail(up)
  BY DEF DCommand, Hears
<1>2. up' \in Seq(Flight)
  BY <1>1, HearsType
<1>3. drand' \in Nat /\ dsession' \in KeySet
  <2>1. drand' \in {drand, drand + 1} /\ dsession' \in {dsession, NoKeys}
    BY DEF DCommand
  <2>2. drand \in Nat /\ dsession \in KeySet /\ NoKeys \in KeySet
    BY ChargerKept, BlankTypes
  <2> QED
    BY <2>1, <2>2
<1>4. down' \in Seq(Flight) /\ <<dmode', dwhat'>> \in Modes
  <2>1. CASE Tells(<<Short("challenge")>>) /\ DGoes("echo1", "")
    <3>1. <<Short("challenge")>> \in Seq(FrameSet)
      BY ShortType DEF ShortKinds
    <3> QED
      BY <2>1, <3>1, TellsType, DGoesType DEF DGoes
  <2>2. CASE UNCHANGED down /\ (DGoes("want", "appRand") \/ DGoes("want", "pub")
                                \/ DGoes("idle", ""))
    BY <2>2, KeptTypes, DGoesType DEF DGoes, Sending
  <2>3. CASE DGoes("idle", "") /\ Tells(<<Frame("announce", "01", 2, Empty)>>)
    <3>1. <<Frame("announce", "01", 2, Empty)>> \in Seq(FrameSet)
      BY BlankTypes DEF Frame, FrameSet
    <3> QED
      BY <2>3, <3>1, TellsType, DGoesType DEF DGoes
  <2>4. CASE DOffers(<<>>, "did", Empty)
    BY <2>4, BlankTypes, EmptySeq, DOffersType DEF Taking
  <2> QED
    BY <2>1, <2>2, <2>3, <2>4 DEF DCommand
<1> QED
  BY <1>2, <1>3, <1>4, ChargerKept, ChargerMovesType DEF ChargerFrame

LEMMA DEchoType ==
    ASSUME TypeOK, ChargerFrame, DEcho,
           UNCHANGED <<dtoken, dapp, drand, dgot, dsession, shown>>
    PROVE  TypeOK'
<1>1. up' \in Seq(Flight)
  BY HearsType DEF DEcho, Hears
<1>2. <<Short("challenge")>> \in Seq(FrameSet)
  BY ShortType DEF ShortKinds
<1>3. down' \in Seq(Flight) /\ <<dmode', dwhat'>> \in Modes
  BY <1>2, TellsType, DGoesType, KeptTypes DEF DEcho, DGoes
<1> QED
  BY <1>1, <1>3, ChargerKept, ChargerMovesType DEF ChargerFrame

LEMMA DAnnouncedType ==
    ASSUME TypeOK, ChargerFrame, DAnnounced,
           UNCHANGED <<dtoken, dapp, drand, dsession, shown>>
    PROVE  TypeOK'
<1>1. up' \in Seq(Flight)
  BY HearsType DEF DAnnounced, Hears
<1>2. <<Short("rdy")>> \in Seq(FrameSet)
  BY ShortType DEF ShortKinds
<1>3. dwhat \in Sending
  BY ModesOf, ChargerKept DEF DAnnounced
<1>4. down' \in Seq(Flight) /\ <<dmode', dwhat'>> \in Modes
  BY <1>2, <1>3, TellsType, DGoesType DEF DAnnounced, DGoes
<1>5. dgot' = <<>>
  BY DEF DAnnounced
<1>6. \A i \in DOMAIN dgot' : dgot'[i] \in Blobs
  BY <1>5
<1> QED
  BY <1>1, <1>4, <1>6, ChargerKept, ChargerMovesType DEF ChargerFrame

LEMMA DParcelType ==
    ASSUME TypeOK, ChargerFrame, DParcel, UNCHANGED <<dtoken, drand, shown>>
    PROVE  TypeOK'
<1> DEFINE f == Head(up).frame
           got == [i \in DOMAIN dgot \cup {f.n} |->
                      IF i = f.n THEN f.data ELSE dgot[i]]
           data == Joined(got, ParcelCount(dwhat))
<1>1. f \in FrameSet /\ up' \in Seq(Flight)
  BY HearsType DEF DParcel, Hears
<1>2. f.data \in Blobs
  BY <1>1, FrameParts
<1>3. \A i \in DOMAIN got : got[i] \in Blobs
  BY <1>2, ChargerKept
<1>4. dwhat \in Sending
  BY ModesOf, ChargerKept DEF DParcel
<1>5. ParcelCount(dwhat) \in Nat
  BY <1>4, CodeType, CountType
<1>6. /\ dgot' = got
      /\ \/ UNCHANGED <<down, dmode, dwhat, dapp, dsession>>
         \/ /\ DOMAIN got = 1..ParcelCount(dwhat)
            /\ dapp' = data.of.app
            /\ \/ DOffers(<<Short("ok")>>, "peerPub", Empty)
               \/ DOffers(<<Short("ok")>>, "devRand", Number("devRand", 0, drand))
            /\ UNCHANGED dsession
         \/ /\ Tells(<<Short("ok")>>) /\ DGoes("auth", "didCt")
            /\ UNCHANGED <<dapp, dsession>>
         \/ /\ dsession' \in {DKeys, NoKeys}
            /\ \E good \in BOOLEAN :
                  down' = down \o On("avdtp", <<Short("ok")>>)
                            \o On("upnp", <<Short(IF good THEN "loginOk"
                                                  ELSE "loginErr")>>)
            /\ DGoes("idle", "") /\ UNCHANGED dapp
  BY DEF DParcel
<1>7. data \in Blobs \/ DOMAIN got # 1..ParcelCount(dwhat)
  <2> DEFINE g == got
             n == ParcelCount(dwhat)
  <2>1. n \in Nat /\ \A i \in DOMAIN g : g[i] \in Blobs
    BY <1>3, <1>5
  <2> HIDE DEF g, n
  <2>2. DOMAIN g = 1..n => Joined(g, n) \in Blobs
    BY <2>1, JoinedType
  <2> QED
    BY <2>2 DEF g, n
<1>8. <<Short("ok")>> \in Seq(FrameSet)
  BY ShortType DEF ShortKinds
<1>9. \A i \in DOMAIN dgot' : dgot'[i] \in Blobs
  BY <1>3, <1>6
<1> HIDE DEF f, got, data
<1>10. CASE UNCHANGED <<down, dmode, dwhat, dapp, dsession>>
  BY <1>1, <1>9, <1>10, KeptTypes, ChargerKept, ChargerMovesType
     DEF ChargerFrame
<1>11. CASE /\ DOMAIN got = 1..ParcelCount(dwhat)
            /\ dapp' = data.of.app
            /\ \/ DOffers(<<Short("ok")>>, "peerPub", Empty)
               \/ DOffers(<<Short("ok")>>, "devRand", Number("devRand", 0, drand))
            /\ UNCHANGED dsession
  <2>1. dapp' \in Numbers
    <3>1. data \in Blobs
      BY <1>7, <1>11
    <3> QED
      BY <1>11, <3>1 DEF Blobs, KeySet
  <2>2. Number("devRand", 0, drand) \in Blobs
    BY ChargerKept, NumberType DEF Size, Numbers
  <2>3. down' \in Seq(Flight) /\ <<dmode', dwhat'>> \in Modes
    BY <1>8, <1>11, <2>2, BlankTypes, DOffersType DEF Taking
  <2> QED
    BY <1>1, <1>9, <1>11, <2>1, <2>3, ChargerKept, ChargerMovesType
       DEF ChargerFrame
<1>12. CASE /\ Tells(<<Short("ok")>>) /\ DGoes("auth", "didCt")
            /\ UNCHANGED <<dapp, dsession>>
  <2>1. down' \in Seq(Flight) /\ <<dmode', dwhat'>> \in Modes
    BY <1>8, <1>12, TellsType, DGoesType DEF DGoes
  <2> QED
    BY <1>1, <1>9, <1>12, <2>1, ChargerKept, ChargerMovesType DEF ChargerFrame
<1>13. CASE /\ dsession' \in {DKeys, NoKeys}
            /\ \E good \in BOOLEAN :
                  down' = down \o On("avdtp", <<Short("ok")>>)
                            \o On("upnp", <<Short(IF good THEN "loginOk"
                                                  ELSE "loginErr")>>)
            /\ DGoes("idle", "") /\ UNCHANGED dapp
  <2>1. PICK good \in BOOLEAN :
          down' = down \o On("avdtp", <<Short("ok")>>)
                    \o On("upnp", <<Short(IF good THEN "loginOk"
                                          ELSE "loginErr")>>)
    BY <1>13
  <2>2. <<Short(IF good THEN "loginOk" ELSE "loginErr")>> \in Seq(FrameSet)
    BY ShortType DEF ShortKinds
  <2>3. down' \in Seq(Flight)
    BY <1>8, <2>1, <2>2, OnType, KeptTypes, ConcatProperties DEF Channels
  <2>4. <<dmode', dwhat'>> \in Modes
    BY <1>13, DGoesType DEF DGoes
  <2>5. dsession' \in KeySet
    BY <1>13, BlankTypes, KeptTypes
  <2> QED
    BY <1>1, <1>9, <1>13, <2>3, <2>4, <2>5, ChargerKept, ChargerMovesType
       DEF ChargerFrame
<1> QED
  BY <1>6, <1>10, <1>11, <1>12, <1>13

LEMMA DReadyType ==
    ASSUME TypeOK, ChargerFrame, DReady,
           UNCHANGED <<dtoken, dapp, drand, dgot, dsession, shown>>
    PROVE  TypeOK'
<1>1. up' \in Seq(Flight)
  BY HearsType DEF DReady, Hears
<1>2. dwhat \in Taking
  BY ModesOf, ChargerKept DEF DReady
<1>3. Parcels(DPayload(dwhat)) \in Seq(FrameSet)
  BY <1>2, DPayloadType, ParcelsType
<1>4. down' \in Seq(Flight) /\ <<dmode', dwhat'>> \in Modes
  BY <1>2, <1>3, TellsType, DGoesType DEF DReady, DGoes
<1> QED
  BY <1>1, <1>4, ChargerKept, ChargerMovesType DEF ChargerFrame

LEMMA DTakenType ==
    ASSUME TypeOK, ChargerFrame, DTaken,
           UNCHANGED <<dtoken, dapp, drand, dgot, dsession>>
    PROVE  TypeOK'
<1>1. up' \in Seq(Flight)
  BY HearsType DEF DTaken, Hears
<1>2. DevProof(DKeys) \in Blobs
  BY KeptTypes DEF DevProof, Blob, Blobs, Size
<1>3. shown' \subseteq KeySet
  BY KeptTypes, ChargerKept DEF DTaken, DNext
<1>4. down' \in Seq(Flight) /\ <<dmode', dwhat'>> \in Modes
  <2>1. CASE DOffers(<<>>, "devProof", DevProof(DKeys))
    BY <1>2, <2>1, EmptySeq, DOffersType DEF Taking
  <2>2. CASE UNCHANGED down /\ (DGoes("want", "appProof") \/ DGoes("want", "didCt")
                                \/ DGoes("idle", ""))
    BY <2>2, KeptTypes, DGoesType DEF DGoes, Sending
  <2> QED
    BY <2>1, <2>2 DEF DTaken, DNext
<1> QED
  BY <1>1, <1>3, <1>4, ChargerKept, ChargerMovesType DEF ChargerFrame

LEMMA DConfirmsType ==
    ASSUME TypeOK, ChargerFrame, DConfirms,
           UNCHANGED <<dapp, drand, dgot, dsession, shown>>
    PROVE  TypeOK'
<1>1. up' \in Seq(Flight)
  BY HearsType DEF DConfirms, Hears
<1>2. dtoken' \in Secrets
  <2>1. derive_register(dapp, drand) \in Secrets
    BY ChargerKept DEF derive_register, Secrets, DNumbers
  <2> QED
    BY <2>1, ChargerKept DEF DConfirms
<1>3. PICK kind \in {"regOk", "regErr"} :
        down' = down \o On("upnp", <<Short(kind)>>)
  BY DEF DConfirms
<1>4. <<Short(kind)>> \in Seq(FrameSet)
  BY ShortType DEF ShortKinds
<1>5. down' \in Seq(Flight) /\ <<dmode', dwhat'>> \in Modes
  BY <1>3, <1>4, OnType, KeptTypes, ConcatProperties, DGoesType
     DEF DConfirms, DGoes, Channels
<1> QED
  BY <1>1, <1>2, <1>5, ChargerKept, ChargerMovesType DEF ChargerFrame

LEMMA DIgnoresType ==
    ASSUME TypeOK, ChargerFrame, DIgnores,
           UNCHANGED <<down, dmode, dwhat, dtoken, dapp, drand, dgot, dsession,
                       shown>>
    PROVE  TypeOK'
<1>1. up' \in Seq(Flight)
  BY HearsType DEF DIgnores
<1> QED
  BY <1>1, KeptTypes, ChargerKept, ChargerMovesType DEF ChargerFrame

LEMMA ChargerStepType == ASSUME TypeOK, Charger PROVE TypeOK'
BY DCommandType, DEchoType, DAnnouncedType, DParcelType, DReadyType,
   DTakenType, DConfirmsType, DIgnoresType DEF Charger, ChargerFrame

LEMMA StutterType == ASSUME TypeOK, UNCHANGED vars PROVE TypeOK'
<1>1. UNCHANGED <<caller, client, link, faults, charger>>
  BY DEF vars
<1>2. /\ up' \in Seq(Flight) /\ down' \in Seq(Flight)
      /\ lost' \in 0..MaxLost /\ noise' \in 0..MaxNoise
  BY <1>1 DEF link, faults, TypeOK, LinkType
<1> QED
  BY <1>1, <1>2, FlightType

LEMMA StepType == TypeOK /\ [Next]_vars => TypeOK'
BY HostStepType, LinkFailsType, DeliverType, LosesType, NoiseType,
   ChargerStepType, StutterType DEF Next

\* Every variable of the host, of the link and of the charger keeps its type,
\* and no notification queue outgrows its capacity.
THEOREM Types == Spec => []TypeOK
BY InitType, StepType, PTL DEF Spec

-----------------------------------------------------------------------------
(* What is in flight, as sets of frames.                                   *)

Elements(s) == {s[i] : i \in DOMAIN s}
FramesOf(s) == {s[i].frame : i \in DOMAIN s}

\* Towards the host, on the link or in a queue, and towards the charger.
Coming == FramesOf(down) \cup Elements(queue["upnp"]) \cup Elements(queue["avdtp"])
Going == FramesOf(up)

LEMMA ElementsTail ==
    ASSUME NEW S, NEW q \in Seq(S), q # <<>>
    PROVE  Head(q) \in Elements(q) /\ Elements(Tail(q)) \subseteq Elements(q)
<1>1. /\ Len(q) \in Nat \ {0} /\ DOMAIN q = 1..Len(q) /\ Head(q) = q[1]
      /\ Len(Tail(q)) = Len(q) - 1
      /\ DOMAIN Tail(q) = 1..Len(Tail(q))
      /\ \A i \in 1..Len(Tail(q)) : Tail(q)[i] = q[i+1]
  BY HeadTailProperties, LenProperties, EmptySeq
<1>2. Head(q) \in Elements(q)
  BY <1>1 DEF Elements
<1>3. \A i \in DOMAIN Tail(q) : i + 1 \in DOMAIN q /\ Tail(q)[i] = q[i+1]
  BY <1>1
<1> QED
  BY <1>2, <1>3 DEF Elements

LEMMA ElementsAppend ==
    ASSUME NEW S, NEW q \in Seq(S), NEW x \in S
    PROVE  Elements(Append(q, x)) \subseteq Elements(q) \cup {x}
<1>1. \A i \in DOMAIN Append(q, x) :
        (i \in DOMAIN q /\ Append(q, x)[i] = q[i]) \/ Append(q, x)[i] = x
  BY AppendProperties, LenProperties
<1> QED
  BY <1>1 DEF Elements

LEMMA FramesTail ==
    ASSUME NEW q \in Seq(Flight), q # <<>>
    PROVE  /\ Head(q).frame \in FramesOf(q)
           /\ FramesOf(Tail(q)) \subseteq FramesOf(q)
<1>1. \A s : FramesOf(s) = {m.frame : m \in Elements(s)}
  BY DEF FramesOf, Elements
<1>2. Head(q) \in Elements(q) /\ Elements(Tail(q)) \subseteq Elements(q)
  BY ElementsTail
<1> QED
  BY <1>1, <1>2

LEMMA FramesConcat ==
    ASSUME NEW q \in Seq(Flight), NEW w \in Seq(Flight)
    PROVE  FramesOf(q \o w) = FramesOf(q) \cup FramesOf(w)
<1>1. /\ Len(q) \in Nat /\ Len(w) \in Nat
      /\ DOMAIN q = 1..Len(q) /\ DOMAIN w = 1..Len(w)
      /\ DOMAIN (q \o w) = 1..(Len(q) + Len(w))
      /\ \A i \in 1..(Len(q) + Len(w)) :
            (q \o w)[i] = IF i <= Len(q) THEN q[i] ELSE w[i - Len(q)]
  BY ConcatProperties, LenProperties
<1> DEFINE c == q \o w
<1>2. \A i \in DOMAIN c : \/ i \in DOMAIN q /\ c[i] = q[i]
                          \/ i - Len(q) \in DOMAIN w /\ c[i] = w[i - Len(q)]
  BY <1>1
<1>3. \A i \in DOMAIN q : i \in DOMAIN c /\ c[i] = q[i]
  BY <1>1
<1>4. \A i \in DOMAIN w : i + Len(q) \in DOMAIN c /\ c[i + Len(q)] = w[i]
  BY <1>1
<1> HIDE DEF c
<1>5. FramesOf(c) = FramesOf(q) \cup FramesOf(w)
  <2>1. FramesOf(c) \subseteq FramesOf(q) \cup FramesOf(w)
    BY <1>2 DEF FramesOf
  <2>2. FramesOf(q) \subseteq FramesOf(c)
    BY <1>3 DEF FramesOf
  <2>3. FramesOf(w) \subseteq FramesOf(c)
    BY <1>4 DEF FramesOf
  <2> QED
    BY <2>1, <2>2, <2>3
<1> QED
  BY <1>5 DEF c

LEMMA FramesOn ==
    ASSUME NEW ch, NEW fs
    PROVE  FramesOf(On(ch, fs)) = Elements(fs)
BY DEF FramesOf, On, Elements

LEMMA ElementsOne == ASSUME NEW x PROVE Elements(<<x>>) = {x}
BY DEF Elements

LEMMA FramesWrite ==
    ASSUME NEW ch, NEW kind
    PROVE  FramesOf(Write(ch, kind)) = {Short(kind)}
BY FramesOn, ElementsOne DEF Write

LEMMA InitComing == Init => Coming = {} /\ Going = {}
<1> SUFFICES ASSUME Init PROVE Coming = {} /\ Going = {}
  OBVIOUS
<1>1. down = <<>> /\ up = <<>> /\ queue = [ch \in Channels |-> <<>>]
  BY DEF Init
<1>2. queue["upnp"] = <<>> /\ queue["avdtp"] = <<>>
  BY <1>1 DEF Channels
<1>3. FramesOf(<<>>) = {} /\ Elements(<<>>) = {}
  BY DEF FramesOf, Elements
<1> QED
  BY <1>1, <1>2, <1>3 DEF Coming, Going

\* What is told is all that a step of the charger adds to what is coming.
LEMMA TellsComing ==
    ASSUME TypeOK, NEW w \in Seq(Flight), down' = down \o w, UNCHANGED queue
    PROVE  Coming' = Coming \cup FramesOf(w)
<1>1. FramesOf(down \o w) = FramesOf(down) \cup FramesOf(w)
  BY KeptTypes, FramesConcat
<1> QED
  BY <1>1 DEF Coming

LEMMA SendsGoing ==
    ASSUME TypeOK, NEW w \in Seq(Flight), Sends(w)
    PROVE  Going' = Going \cup FramesOf(w)
<1>1. FramesOf(up \o w) = FramesOf(up) \cup FramesOf(w)
  BY KeptTypes, FramesConcat
<1> QED
  BY <1>1 DEF Sends, Going

LEMMA HearsGoing ==
    ASSUME TypeOK, up # <<>>, up' = Tail(up)
    PROVE  Head(up).frame \in Going /\ Going' \subseteq Going
BY KeptTypes, FramesTail DEF Going

LEMMA QueuesType ==
    ASSUME TypeOK, NEW ch \in Channels
    PROVE  queue[ch] \in Seq(FrameSet) /\ Elements(queue[ch]) \subseteq Coming
BY DEF TypeOK, LinkType, Coming, Channels

\* What a receive returns was coming.
LEMMA ReceiveComing ==
    ASSUME TypeOK, NEW f, Receive(f)
    PROVE  f \in Elements(queue[ChannelOf(pc)]) /\ f \in Coming /\ Coming' \subseteq Coming
<1> DEFINE c == ChannelOf(pc)
<1>1. c \in Channels /\ queue[c] \in Seq(FrameSet)
  BY QueuesType DEF ChannelOf, Channels
<1>2. /\ queue[c] # <<>> /\ f = Head(queue[c]) /\ down' = down
      /\ queue' = [queue EXCEPT ![c] = Tail(queue[c])]
  BY DEF Receive, Incoming
<1> HIDE DEF c
<1>3. f \in Elements(queue[c])
      /\ Elements(Tail(queue[c])) \subseteq Elements(queue[c])
  BY <1>1, <1>2, ElementsTail
<1>4. \A ch \in Channels : Elements(queue'[ch]) \subseteq Elements(queue[ch])
  <2>1. queue \in [Channels -> Seq(FrameSet)]
    BY DEF TypeOK, LinkType
  <2>2. \A ch \in Channels : \/ queue'[ch] = queue[ch]
                             \/ ch = c /\ queue'[ch] = Tail(queue[c])
    BY <1>1, <1>2, <2>1
  <2> QED
    BY <1>3, <2>2
<1>5. Coming' \subseteq Coming
  BY <1>2, <1>4 DEF Coming, Channels
<1>6. Elements(queue[c]) \subseteq Coming
  BY <1>1, QueuesType
<1> QED
  BY <1>3, <1>5, <1>6 DEF c

\* The handler of a notification moves frames, it makes none.
LEMMA DeliverComing ==
    ASSUME TypeOK, Deliver
    PROVE  Coming' \subseteq Coming
<1> DEFINE m == Head(down)
<1>1. m \in Flight /\ Tail(down) \in Seq(Flight)
  BY Taken DEF Deliver, TypeOK, LinkType
<1>2. m.ch \in Channels /\ m.frame \in FrameSet
  BY <1>1 DEF Flight
<1>3. m.frame \in FramesOf(down) /\ FramesOf(down') \subseteq FramesOf(down)
  BY KeptTypes, FramesTail DEF Deliver
<1>4. \/ queue' = [queue EXCEPT ![m.ch] = Append(Kept(queue[m.ch]), m.frame)]
      \/ UNCHANGED queue
  BY DEF Deliver
<1> HIDE DEF m
<1>5. Elements(Append(Kept(queue[m.ch]), m.frame))
         \subseteq Elements(queue[m.ch]) \cup {m.frame}
  <2>1. queue[m.ch] \in Seq(FrameSet)
    BY <1>2, QueuesType
  <2>2. /\ Kept(queue[m.ch]) \in Seq(FrameSet)
        /\ Elements(Kept(queue[m.ch])) \subseteq Elements(queue[m.ch])
    <3>1. CASE Len(queue[m.ch]) = QueueMax
      <4>1. queue[m.ch] # <<>>
        BY <3>1, AuthConstants, EmptySeq
      <4> QED
        BY <2>1, <3>1, <4>1, Taken, ElementsTail DEF Kept
    <3>2. CASE Len(queue[m.ch]) # QueueMax
      BY <2>1, <3>2 DEF Kept
    <3> QED
      BY <3>1, <3>2
  <2>3. Elements(Append(Kept(queue[m.ch]), m.frame))
           \subseteq Elements(Kept(queue[m.ch])) \cup {m.frame}
    BY <1>2, <2>2, ElementsAppend
  <2> QED
    BY <2>2, <2>3
<1>6. \A ch \in Channels :
        Elements(queue'[ch]) \subseteq Elements(queue[ch]) \cup {m.frame}
  <2>1. queue \in [Channels -> Seq(FrameSet)]
    BY DEF TypeOK, LinkType
  <2>2. \A ch \in Channels :
          \/ queue'[ch] = queue[ch]
          \/ /\ ch = m.ch
             /\ queue'[ch] = Append(Kept(queue[m.ch]), m.frame)
    BY <1>2, <1>4, <2>1
  <2> QED
    BY <1>5, <2>2
<1> QED
  BY <1>3, <1>6 DEF Coming, Channels

LEMMA LosesComing ==
    ASSUME TypeOK, Loses
    PROVE  Coming' \subseteq Coming /\ Going' \subseteq Going
<1>1. FramesOf(down') \subseteq FramesOf(down)
      /\ FramesOf(up') \subseteq FramesOf(up)
  BY KeptTypes, FramesTail DEF Loses, LosesNotification, LosesWrite
<1>2. queue' = queue
  BY DEF Loses, client, inbox
<1> QED
  BY <1>1, <1>2 DEF Coming, Going

LEMMA NoiseComing ==
    ASSUME TypeOK, Noise
    PROVE  Coming' \subseteq Coming \cup Oddities
<1>1. PICK ch \in Channels, f \in Oddities : down' = down \o On(ch, <<f>>)
  BY DEF Noise
<1>2. <<f>> \in Seq(FrameSet)
  BY OddType
<1>3. On(ch, <<f>>) \in Seq(Flight) /\ FramesOf(On(ch, <<f>>)) = {f}
  BY <1>2, OnType, FramesOn, ElementsOne
<1>4. queue' = queue
  BY DEF Noise, client, inbox
<1> QED
  BY <1>1, <1>3, <1>4, TellsComing

\* A new client starts with empty queues, and a broken link is empty.
LEMMA EmptyComing ==
    /\ NewClient => Coming' = FramesOf(down)
    /\ LinkFails => Coming' \subseteq Coming /\ Going' = {}
<1>1. FramesOf(<<>>) = {} /\ Elements(<<>>) = {}
  BY DEF FramesOf, Elements
<1>2. NewClient => Coming' = FramesOf(down)
  BY <1>1 DEF NewClient, link, Coming, Channels
<1>3. LinkFails => Coming' \subseteq Coming /\ Going' = {}
  BY <1>1 DEF LinkFails, Coming, Going
<1> QED
  BY <1>2, <1>3

-----------------------------------------------------------------------------
(* The host's proof comes after the charger's.                             *)

\* A proof of the charger's is of keys it has shown to know.
Vouched(b) == b.kind = "devProof" => b.of \in shown

VouchedComing ==
    /\ \A f \in Coming : Vouched(f.data)
    /\ \A i \in DOMAIN frames : Vouched(frames[i])

\* While the charger presents its proof it has shown these keys; the host
\* announces its own proof only for keys the charger has shown.
VouchedKeys ==
    /\ dmode \in {"offer", "ack", "send"} /\ dwhat = "devProof" => DKeys \in shown
    /\ pc = At("rdy", "appProof") => Keys \in shown
    /\ ProofAfterProof

VouchInv == VouchedComing /\ VouchedKeys

LEMMA VouchInit == Init => VouchInv
<1> SUFFICES ASSUME Init PROVE VouchInv
  OBVIOUS
<1>1. frames = <<>> /\ answered = {} /\ dmode = "idle" /\ pc = Idle
  BY DEF Init
<1>2. VouchedComing
  <2>1. Coming = {}
    BY InitComing
  <2>2. DOMAIN frames = {}
    BY <1>1
  <2> QED
    BY <2>1, <2>2 DEF VouchedComing
<1>3. VouchedKeys
  <2>1. pc # At("rdy", "appProof")
    BY <1>1 DEF Idle, At
  <2> QED
    BY <1>1, <2>1 DEF VouchedKeys, ProofAfterProof
<1> QED
  BY <1>2, <1>3 DEF VouchInv

\* A step of the host that proves nothing keeps the invariant when all it
\* collects was coming.
LEMMA VouchHost ==
    ASSUME VouchInv, Coming' \subseteq Coming, UNCHANGED charger,
           \A i \in DOMAIN frames' :
              \/ i \in DOMAIN frames /\ frames'[i] = frames[i]
              \/ \E f \in Coming : frames'[i] = f.data,
           pc' = At("rdy", "appProof") => Keys' \in shown,
           answered' = answered
    PROVE  VouchInv'
<1>1. shown' = shown /\ dmode' = dmode /\ dwhat' = dwhat /\ DKeys' = DKeys
  BY DEF charger, DKeys
<1>2. VouchedComing'
  BY <1>1 DEF VouchInv, VouchedComing, Vouched
<1>3. VouchedKeys'
  BY <1>1 DEF VouchInv, VouchedKeys, ProofAfterProof
<1> QED
  BY <1>2, <1>3 DEF VouchInv

\* What follows from a value at hand: the host announces its proof only when
\* the value is the charger's own.
LEMMA VouchHas ==
    ASSUME VouchInv, NEW what, NEW data, NEW before, Has(what, data, before),
           Vouched(data), UNCHANGED <<token, attempts>>
    PROVE  pc' = At("rdy", "appProof") => Keys' \in shown
<1>1. SUFFICES ASSUME pc' = At("rdy", "appProof") PROVE Keys' \in shown
  OBVIOUS
<1>2. Authentic(data) /\ UNCHANGED peer
  BY <1>1 DEF Has, LoginHas, RegisterHasDid, RegisterHasKey, Announces, Ends,
     Goes, Ended, At
<1>3. data.kind = "devProof" /\ data.of = Keys
  BY <1>2 DEF Authentic, DevProof, Blob
<1>4. Keys' = Keys
  BY <1>2 DEF Keys
<1> QED
  BY <1>3, <1>4 DEF Vouched

LEMMA AtParts ==
    /\ \A do, what : At(do, what).do = do /\ At(do, what).what = what
    /\ Ended.do = "ended" /\ Idle.do = "none"
BY DEF At, Ended, Idle

LEMMA GoesPoint ==
    ASSUME NEW do, NEW what, Goes(At(do, what))
    PROVE  pc'.do = do /\ pc'.what = what
BY DEF Goes, At

LEMMA EndsPoint ==
    ASSUME NEW kind, Ends(kind)
    PROVE  pc'.do = "ended" /\ pc' = Ended
BY DEF Ends, Ended, At

LEMMA AnnouncesPoint ==
    ASSUME NEW before, NEW what, Announces(before, what)
    PROVE  pc'.do = "rdy" /\ pc'.what = what
BY GoesPoint DEF Announces

\* No announcement follows at once from collecting.
LEMMA CollectsPoint ==
    ASSUME NEW what, NEW n, Collects(what, n)
    PROVE  \/ pc'.do = "parts" /\ pc'.what = what
           \/ pc'.do = "ended"
BY GoesPoint, EndsPoint DEF Collects

LEMMA VouchTakeVariant == ASSUME TypeOK, VouchInv, TakeVariant PROVE VouchInv'
<1>1. PICK f : /\ Receive(f)
               /\ \/ Ends("auth") /\ UNCHANGED frames
                  \/ Has(pc.what, f.data, OFFICIAL_ACK) /\ UNCHANGED frames
                  \/ Collects(pc.what, f.n)
  BY DEF TakeVariant
<1>2. f \in Coming /\ Coming' \subseteq Coming
  BY <1>1, ReceiveComing
<1>3. UNCHANGED <<charger, token, attempts, answered>>
  BY <1>1 DEF TakeVariant, Receive, caller
<1>4. Vouched(f.data)
  BY <1>2 DEF VouchInv, VouchedComing
<1>5. pc' = At("rdy", "appProof") => Keys' \in shown
  <2>1. CASE Ends("auth")
    BY <2>1 DEF Ends, Ended, At
  <2>2. CASE Has(pc.what, f.data, OFFICIAL_ACK)
    BY <1>3, <1>4, <2>2, VouchHas
  <2>3. CASE Collects(pc.what, f.n)
    BY <2>3, CollectsPoint, AtParts
  <2> QED
    BY <1>1, <2>1, <2>2, <2>3
<1>6. frames' = frames \/ frames' = <<>>
  BY <1>1 DEF Collects, NoFrames
<1>7. \A i \in DOMAIN frames' : i \in DOMAIN frames /\ frames'[i] = frames[i]
  BY <1>6
<1> QED
  BY <1>2, <1>3, <1>5, <1>7, VouchHost

LEMMA VouchTakeAnnouncement ==
    ASSUME TypeOK, VouchInv, TakeAnnouncement
    PROVE  VouchInv'
<1>1. PICK f : /\ Receive(f)
               /\ \/ Ends("auth") /\ UNCHANGED frames
                  \/ Has("did", Empty, <<>>) /\ UNCHANGED frames
                  \/ Collects(pc.what, f.n)
  BY DEF TakeAnnouncement
<1>2. Coming' \subseteq Coming
  BY <1>1, ReceiveComing
<1>3. UNCHANGED <<charger, token, attempts, answered>>
  BY <1>1 DEF TakeAnnouncement, Receive, caller
<1>4. Vouched(Empty)
  BY DEF Vouched, Empty, Number, Blob
<1>5. pc' = At("rdy", "appProof") => Keys' \in shown
  <2>1. CASE Ends("auth")
    BY <2>1 DEF Ends, Ended, At
  <2>2. CASE Has("did", Empty, <<>>)
    BY <1>3, <1>4, <2>2, VouchHas
  <2>3. CASE Collects(pc.what, f.n)
    BY <2>3, CollectsPoint, AtParts
  <2> QED
    BY <1>1, <2>1, <2>2, <2>3
<1>6. frames' = frames \/ frames' = <<>>
  BY <1>1 DEF Collects, NoFrames
<1>7. \A i \in DOMAIN frames' : i \in DOMAIN frames /\ frames'[i] = frames[i]
  BY <1>6
<1> QED
  BY <1>2, <1>3, <1>5, <1>7, VouchHost

\* What one round of _recv_parcel does, in terms a proof can use.
Gathered(f) == [i \in DOMAIN frames \cup {f.n} |->
                   IF i = f.n THEN f.data ELSE frames[i]]
GathersOne(f) == /\ f.kind = "parcel" /\ f.n \in 1..expected
                 /\ f.n \notin DOMAIN frames /\ frames' = Gathered(f)
                 /\ DOMAIN Gathered(f) # 1..expected
                 /\ Goes(pc) /\ UNCHANGED <<up, peer, remote>>
GathersAll(f) == /\ f.kind = "parcel" /\ f.n \in 1..expected
                 /\ f.n \notin DOMAIN frames /\ frames' = Gathered(f)
                 /\ DOMAIN Gathered(f) = 1..expected
                 /\ Has(pc.what, Joined(Gathered(f), expected),
                        Write("avdtp", "ok"))

LEMMA TakeParcelCases ==
    ASSUME TypeOK, TakeParcel
    PROVE  \E f : /\ Receive(f) /\ f \in Coming /\ f \in FrameSet
                 /\ \/ Ends("auth") /\ UNCHANGED <<up, peer, remote, frames>>
                    \/ GathersOne(f)
                    \/ GathersAll(f)
<1>1. PICK f : /\ Receive(f)
               /\ \/ Ends("auth") /\ UNCHANGED <<up, peer, remote, frames>>
                  \/ GathersOne(f)
                  \/ GathersAll(f)
  BY DEF TakeParcel, GathersOne, GathersAll, Gathered
<1>2. f \in Coming /\ f \in FrameSet
  BY <1>1, ReceiveComing, ReceiveType
<1> QED
  BY <1>1, <1>2

LEMMA VouchTakeParcel == ASSUME TypeOK, VouchInv, TakeParcel PROVE VouchInv'
<1>1. PICK f : /\ Receive(f) /\ f \in Coming /\ f \in FrameSet
               /\ \/ Ends("auth") /\ UNCHANGED <<up, peer, remote, frames>>
                  \/ GathersOne(f)
                  \/ GathersAll(f)
  BY TakeParcelCases
<1>2. Coming' \subseteq Coming
  BY <1>1, ReceiveComing
<1>3. UNCHANGED <<charger, token, attempts, answered>> /\ pc.do = "parts"
  BY <1>1 DEF TakeParcel, Receive, caller
<1>4. \A i \in DOMAIN frames' :
        \/ i \in DOMAIN frames /\ frames'[i] = frames[i]
        \/ frames'[i] = f.data
  BY <1>1 DEF GathersOne, GathersAll, Gathered
<1>5. pc' = At("rdy", "appProof") => Keys' \in shown
  <2>1. CASE Ends("auth")
    BY <2>1 DEF Ends, Ended, At
  <2>2. CASE GathersOne(f)
    BY <1>3, <2>2 DEF GathersOne, Goes, At
  <2>3. CASE GathersAll(f)
    <3> DEFINE g == Gathered(f)
    <3>0. DOMAIN g = 1..expected
          /\ Has(pc.what, Joined(g, expected), Write("avdtp", "ok"))
      BY <2>3 DEF GathersAll
    <3>1. /\ expected \in Nat /\ 1..expected \subseteq DOMAIN g
          /\ f.data \in Blobs /\ \A i \in DOMAIN frames : frames[i] \in Blobs
      BY <1>1, <3>0, FrameParts DEF TypeOK, HostType
    <3>2. \A i \in DOMAIN g : g[i] \in Blobs /\ Vouched(g[i])
      BY <1>1, <3>1 DEF VouchInv, VouchedComing, Gathered
    <3> HIDE DEF g
    <3>3. \/ Joined(g, expected) = Empty
          \/ 1 \in DOMAIN g /\ Joined(g, expected) = g[1]
      BY <3>1, <3>2, JoinedType DEF Joined
    <3>4. Vouched(Joined(g, expected))
      BY <3>2, <3>3 DEF Vouched, Empty, Number, Blob
    <3> QED
      BY <1>3, <3>0, <3>4, VouchHas
  <2> QED
    BY <1>1, <2>1, <2>2, <2>3
<1> QED
  BY <1>1, <1>2, <1>3, <1>4, <1>5, VouchHost

LEMMA VouchTakeReady == ASSUME TypeOK, VouchInv, TakeReady PROVE VouchInv'
<1>1. PICK f : /\ Receive(f)
               /\ IF f.kind = "rdy"
                  THEN /\ Goes(At("ok", pc.what))
                       /\ answered' = IF pc.what = "appProof"
                                      THEN answered \cup {Keys} ELSE answered
                  ELSE Goes(pc) /\ UNCHANGED answered
  BY DEF TakeReady
<1>2. UNCHANGED <<charger, token, attempts, peer, frames>> /\ pc.do = "rdy"
  BY <1>1 DEF TakeReady, Receive, caller, locals
<1>3. Coming' \subseteq Coming
  BY <1>1, ReceiveComing
<1>4. shown' = shown /\ DKeys' = DKeys /\ Keys' = Keys
      /\ dmode' = dmode /\ dwhat' = dwhat
  BY <1>2 DEF charger, DKeys, Keys
<1>5. pc = At(pc.do, pc.what)
  BY KeptTypes, PointsOf
<1>6. VouchedComing'
  BY <1>2, <1>3, <1>4 DEF VouchInv, VouchedComing, Vouched
<1>7. VouchedKeys'
  <2>1. CASE f.kind = "rdy"
    <3>1. pc' # At("rdy", "appProof")
      BY <1>1, <2>1 DEF Goes, At
    <3>2. pc.what = "appProof" => Keys \in shown
      BY <1>2, <1>5 DEF VouchInv, VouchedKeys
    <3> QED
      BY <1>1, <1>4, <2>1, <3>1, <3>2
         DEF VouchInv, VouchedKeys, ProofAfterProof
  <2>2. CASE f.kind # "rdy"
    BY <1>1, <1>4, <2>2 DEF VouchInv, VouchedKeys, ProofAfterProof, Goes
  <2> QED
    BY <2>1, <2>2
<1> QED
  BY <1>6, <1>7 DEF VouchInv

LEMMA VouchNewClient == ASSUME TypeOK, VouchInv, NewClient PROVE VouchInv'
<1>1. Coming' \subseteq Coming
  BY EmptyComing DEF Coming
<1>2. frames' = <<>> /\ pc' = At("ready", "") /\ UNCHANGED <<charger, answered>>
  BY DEF NewClient
<1>3. pc'.do = "ready"
  BY <1>2, AtParts
<1>4. pc' # At("rdy", "appProof")
  BY <1>3, AtParts
<1>5. \A i \in DOMAIN frames' : i \in DOMAIN frames /\ frames'[i] = frames[i]
  <2>1. frames' = <<>>
    BY <1>2
  <2> QED
    BY <2>1
<1> QED
  BY <1>1, <1>2, <1>4, <1>5, VouchHost

\* The other steps of the host neither collect nor reach the announcement of
\* the host's proof.
LEMMA VouchRest ==
    ASSUME TypeOK, VouchInv, Coming' \subseteq Coming,
           UNCHANGED <<charger, frames, answered>>,
           pc'.do # "rdy" \/ pc'.what # "appProof"
    PROVE  VouchInv'
BY AtParts, VouchHost

LEMMA VouchHostStep == ASSUME TypeOK, VouchInv, Host PROVE VouchInv'
<1>1. ASSUME Block \/ Overflown \/ TimesOut PROVE VouchInv'
  <2>1. UNCHANGED <<charger, frames, answered, queue, down, token, attempts, peer>>
        /\ (pc' = pc \/ pc' = Ended)
    BY <1>1 DEF Block, Overflown, TimesOut, caller, locals, inbox, link, Ends
  <2>2. Coming' = Coming /\ Keys' = Keys
    BY <2>1 DEF Coming, Keys
  <2>3. pc' = At("rdy", "appProof") => Keys' \in shown
    BY <2>1, <2>2, AtParts DEF VouchInv, VouchedKeys
  <2> QED
    BY <2>1, <2>2, <2>3, VouchHost
<1>2. ASSUME Refused \/ TakeOk \/ TakeConfirmation \/ TakeChallenge
      PROVE  VouchInv'
  <2>1. PICK f : Receive(f)
    BY <1>2 DEF Refused, TakeOk, TakeConfirmation, TakeChallenge
  <2>2. UNCHANGED <<charger, frames, answered>>
    BY <1>2, <2>1 DEF Refused, TakeOk, TakeConfirmation, TakeChallenge,
       Receive, locals
  <2>3. pc'.do # "rdy"
    <3>1. CASE Refused \/ TakeConfirmation
      BY <3>1, AtParts DEF Refused, TakeConfirmation, Ends
    <3>2. CASE TakeOk
      BY <3>2, AtParts DEF TakeOk, Goes
    <3>3. CASE TakeChallenge
      <4>1. \/ Goes(At("chal2", "")) \/ Goes(At("greeted", ""))
            \/ Ends("auth")
        BY <3>3 DEF TakeChallenge
      <4>2. ASSUME Goes(At("chal2", "")) PROVE pc'.do = "chal2"
        BY <4>2, GoesPoint
      <4>3. ASSUME Goes(At("greeted", "")) PROVE pc'.do = "greeted"
        BY <4>3, GoesPoint
      <4> QED
        BY <4>1, <4>2, <4>3, EndsPoint
    <3> QED
      BY <1>2, <3>1, <3>2, <3>3
  <2> QED
    BY <2>1, <2>2, <2>3, ReceiveComing, VouchRest
<1>3. ASSUME Greet \/ SubscribeUpnp \/ Login \/ Register \/ Unsubscribe
      PROVE  VouchInv'
  <2>1. UNCHANGED <<charger, frames, answered, queue, down>>
    BY <1>3 DEF Greet, SubscribeUpnp, Login, Register, Unsubscribe, locals,
       inbox, link
  <2>2. Coming' = Coming
    BY <2>1 DEF Coming
  <2>3. pc'.do # "rdy" \/ pc'.what # "appProof"
    <3>1. CASE Greet \/ SubscribeUpnp \/ Register \/ Unsubscribe
      <4>1. \/ Goes(At("chal1", "")) \/ Goes(At("open", ""))
            \/ Goes(At("head", "did")) \/ pc' = Idle
        BY <3>1 DEF Greet, SubscribeUpnp, Register, Unsubscribe
      <4> QED
        BY <4>1, GoesPoint, AtParts
    <3>2. CASE Login
      <4>1. Announces(Write("upnp", "CMD_LOGIN"), "appRand") \/ Ends("auth")
        BY <3>2 DEF Login
      <4> QED
        BY <4>1, AnnouncesPoint, EndsPoint
    <3> QED
      BY <1>3, <3>1, <3>2
  <2> QED
    BY <2>1, <2>2, <2>3, VouchRest
<1> QED
  BY <1>1, <1>2, <1>3, VouchTakeReady, VouchTakeVariant,
     VouchTakeAnnouncement, VouchTakeParcel, VouchNewClient DEF Host

\* A step of the link or of the charger keeps the invariant when the proofs it
\* puts on the link are of keys that have been shown.
LEMMA VouchOutside ==
    ASSUME VouchInv, UNCHANGED <<frames, pc, answered, token, attempts, peer>>,
           shown \subseteq shown',
           \A f \in Coming' :
              f \in Coming \/ (f.data.kind = "devProof" => f.data.of \in shown'),
           dmode' \in {"offer", "ack", "send"} /\ dwhat' = "devProof" =>
              DKeys' \in shown'
    PROVE  VouchInv'
<1>1. Keys' = Keys
  BY DEF Keys
<1>2. VouchedComing'
  <2>1. \A f \in Coming' : f.data.kind = "devProof" => f.data.of \in shown'
    BY DEF VouchInv, VouchedComing, Vouched
  <2>2. \A i \in DOMAIN frames' :
          frames'[i].kind = "devProof" => frames'[i].of \in shown'
    BY DEF VouchInv, VouchedComing, Vouched
  <2> QED
    BY <2>1, <2>2 DEF VouchedComing, Vouched
<1>3. VouchedKeys'
  BY <1>1 DEF VouchInv, VouchedKeys, ProofAfterProof
<1> QED
  BY <1>2, <1>3 DEF VouchInv

LEMMA ShortFields ==
    ASSUME NEW kind
    PROVE  Short(kind).kind = kind /\ Short(kind).data = Empty
BY DEF Short, Frame

LEMMA AnnouncementFields ==
    ASSUME NEW what
    PROVE  /\ Announcement(what).kind = "announce"
           /\ Announcement(what).code = Code[what]
           /\ Announcement(what).n = ParcelCount(what)
           /\ Announcement(what).data = Empty
BY DEF Announcement, Frame

LEMMA InlineFields ==
    ASSUME NEW what, NEW data
    PROVE  /\ Inline(what, data).kind = "inline"
           /\ Inline(what, data).code = Code[what]
           /\ Inline(what, data).data = data
BY DEF Inline, Frame

LEMMA EmptyKind == Empty.kind = "none"
BY DEF Empty, Number, Blob

\* Frames out of turn carry no value and announce none that is expected.
LEMMA OddFields ==
    ASSUME NEW f \in Oddities
    PROVE  /\ f.data = Empty
           /\ \/ f.kind \in OddKinds
              \/ f.kind = "announce" /\ (f.code = "ff" \/ f.n = 0)
              \/ f.kind = "parcel" /\ f.n = 9
<1>1. CASE \E kind \in OddKinds : f = Short(kind)
  BY <1>1, ShortFields
<1>2. CASE f = Frame("announce", "ff", 1, Empty)
  BY <1>2 DEF Frame
<1>3. CASE f = Frame("announce", "0d", 0, Empty)
  BY <1>3 DEF Frame
<1>4. CASE f = Frame("parcel", "", 9, Empty)
  BY <1>4 DEF Frame
<1> QED
  BY <1>1, <1>2, <1>3, <1>4 DEF Oddities

LEMMA VouchLink ==
    ASSUME TypeOK, VouchInv, Deliver \/ Loses \/ Noise \/ LinkFails
    PROVE  VouchInv'
<1>1. CASE Deliver \/ Loses \/ Noise
  <2>1. UNCHANGED <<charger, frames, pc, answered, token, attempts, peer>>
    BY <1>1 DEF Deliver, Loses, Noise, client, caller, locals
  <2>2. shown' = shown /\ dmode' = dmode /\ dwhat' = dwhat /\ DKeys' = DKeys
    BY <2>1 DEF charger, DKeys
  <2>3. Coming' \subseteq Coming \cup Oddities
    BY <1>1, DeliverComing, LosesComing, NoiseComing
  <2>4. \A f \in Coming' : f \in Coming \/ f.data.kind # "devProof"
    BY <2>3, OddFields, EmptyKind
  <2> QED
    BY <2>1, <2>2, <2>4, VouchOutside DEF VouchInv, VouchedKeys
<1>2. CASE LinkFails
  <2>1. /\ UNCHANGED <<frames, answered, token, attempts, peer, shown>>
        /\ pc' = At("over", "") /\ dmode' = "idle"
    BY <1>2 DEF LinkFails, caller, locals
  <2>2. Coming' \subseteq Coming
    BY <1>2, EmptyComing
  <2>3. pc' # At("rdy", "appProof")
    <3>1. pc'.do = "over"
      BY <2>1, AtParts
    <3> QED
      BY <3>1, AtParts
  <2>4. VouchedComing'
    BY <2>1, <2>2 DEF VouchInv, VouchedComing, Vouched
  <2>5. VouchedKeys'
    BY <2>1, <2>3 DEF VouchInv, VouchedKeys, ProofAfterProof
  <2> QED
    BY <2>4, <2>5 DEF VouchInv
<1> QED
  BY <1>1, <1>2

\* What the charger tells, by what it does.
LEMMA TellsFrames ==
    ASSUME TypeOK, NEW fs \in Seq(FrameSet), Tells(fs), UNCHANGED queue
    PROVE  Coming' = Coming \cup Elements(fs)
<1>1. On("avdtp", fs) \in Seq(Flight)
  BY OnType DEF Channels
<1> QED
  BY <1>1, TellsComing, FramesOn DEF Tells

LEMMA ElementsConcat ==
    ASSUME NEW before \in Seq(FrameSet), NEW x \in FrameSet
    PROVE  Elements(before \o <<x>>) = Elements(before) \cup {x}
<1> DEFINE c == before \o <<x>>
           n == Len(before)
<1>1. /\ n \in Nat /\ DOMAIN before = 1..n /\ DOMAIN c = 1..(n + 1)
      /\ \A i \in 1..(n + 1) : c[i] = IF i <= n THEN before[i] ELSE x
  <2>1. <<x>> \in Seq(FrameSet) /\ Len(<<x>>) = 1 /\ <<x>>[1] = x
    OBVIOUS
  <2>2. /\ Len(c) = n + 1
        /\ \A i \in 1..(n + 1) : c[i] = IF i <= n THEN before[i]
                                        ELSE <<x>>[i - n]
    BY <2>1, ConcatProperties, LenProperties
  <2>3. n \in Nat /\ DOMAIN before = 1..n /\ DOMAIN c = 1..Len(c)
    BY <2>1, ConcatProperties, LenProperties
  <2>4. \A i \in 1..(n + 1) : ~(i <= n) => i - n = 1
    BY <2>3
  <2> QED
    BY <2>1, <2>2, <2>3, <2>4
<1>2. \A i \in DOMAIN c : (i \in DOMAIN before /\ c[i] = before[i]) \/ c[i] = x
  BY <1>1
<1>3. \A i \in DOMAIN before : i \in DOMAIN c /\ c[i] = before[i]
  BY <1>1
<1>4. n + 1 \in DOMAIN c /\ c[n + 1] = x
  BY <1>1
<1> HIDE DEF c, n
<1>5. Elements(c) = Elements(before) \cup {x}
  <2>1. Elements(c) \subseteq Elements(before) \cup {x}
    BY <1>2 DEF Elements
  <2>2. Elements(before) \subseteq Elements(c)
    BY <1>3 DEF Elements
  <2>3. x \in Elements(c)
    BY <1>4 DEF Elements
  <2> QED
    BY <2>1, <2>2, <2>3
<1> QED
  BY <1>5 DEF c

LEMMA DOffersComing ==
    ASSUME TypeOK, NEW before \in Seq(FrameSet), NEW what \in Taking,
           NEW data, what \in {"devRand", "devProof"} => data \in Blobs,
           DOffers(before, what, data), UNCHANGED queue
    PROVE  \/ /\ what \in {"devRand", "devProof"}
              /\ Coming' = Coming \cup Elements(before) \cup {Inline(what, data)}
              /\ dmode' = "ack" /\ dwhat' = what
           \/ /\ Coming' = Coming \cup Elements(before) \cup {Announcement(what)}
              /\ dmode' = "offer" /\ dwhat' = what
<1>1. CASE /\ what \in {"devRand", "devProof"}
           /\ Tells(before \o <<Inline(what, data)>>)
           /\ DGoes("ack", what)
  <2>1. Inline(what, data) \in FrameSet
    BY <1>1, InlineType
  <2>2. before \o <<Inline(what, data)>> \in Seq(FrameSet)
    BY <2>1, ConcatProperties
  <2>3. Coming' = Coming \cup Elements(before \o <<Inline(what, data)>>)
    BY <1>1, <2>2, TellsFrames
  <2> QED
    BY <1>1, <2>1, <2>3, ElementsConcat DEF DGoes
<1>2. CASE Tells(before \o <<Announcement(what)>>) /\ DGoes("offer", what)
  <2>1. Announcement(what) \in FrameSet
    BY AnnouncementType
  <2>2. before \o <<Announcement(what)>> \in Seq(FrameSet)
    BY <2>1, ConcatProperties
  <2>3. Coming' = Coming \cup Elements(before \o <<Announcement(what)>>)
    BY <1>2, <2>2, TellsFrames
  <2> QED
    BY <1>2, <2>1, <2>3, ElementsConcat DEF DGoes
<1> QED
  BY <1>1, <1>2 DEF DOffers

LEMMA ParcelsElements ==
    ASSUME NEW data, NEW f \in Elements(Parcels(data))
    PROVE  f.kind = "parcel" /\ f.data = data /\ f.n \in 1..ParcelCount(data.kind)
<1>1. PICK i \in 1..ParcelCount(data.kind) : f = Frame("parcel", "", i, data)
  BY DEF Elements, Parcels
<1> QED
  BY <1>1 DEF Frame

LEMMA VouchCommand ==
    ASSUME TypeOK, VouchInv, ChargerFrame, DCommand,
           UNCHANGED <<dtoken, dapp, dgot, shown>>
    PROVE  VouchInv'
<1>1. /\ UNCHANGED <<frames, pc, answered, token, attempts, peer, queue>>
  BY DEF ChargerFrame, client, caller, locals, inbox
<1>2. /\ dmode' \in {"offer", "ack", "send"} /\ dwhat' = "devProof" => FALSE
      /\ \A f \in Coming' : f \in Coming \/ f.data = Empty
  <2>1. CASE Tells(<<Short("challenge")>>) /\ DGoes("echo1", "")
    <3>1. <<Short("challenge")>> \in Seq(FrameSet)
      BY ShortType DEF ShortKinds
    <3>2. Coming' = Coming \cup {Short("challenge")}
      BY <1>1, <2>1, <3>1, TellsFrames, ElementsOne
    <3> QED
      BY <2>1, <3>2, ShortFields DEF DGoes
  <2>2. CASE UNCHANGED down /\ (DGoes("want", "appRand") \/ DGoes("want", "pub")
                                \/ DGoes("idle", ""))
    BY <1>1, <2>2 DEF DGoes, Coming
  <2>3. CASE DGoes("idle", "") /\ Tells(<<Frame("announce", "01", 2, Empty)>>)
    <3>1. <<Frame("announce", "01", 2, Empty)>> \in Seq(FrameSet)
      BY BlankTypes DEF Frame, FrameSet
    <3>2. Coming' = Coming \cup {Frame("announce", "01", 2, Empty)}
      BY <1>1, <2>3, <3>1, TellsFrames, ElementsOne
    <3>3. Frame("announce", "01", 2, Empty).data = Empty
      BY DEF Frame
    <3> QED
      BY <2>3, <3>2, <3>3 DEF DGoes
  <2>4. CASE DOffers(<<>>, "did", Empty)
    <3>1. Elements(<<>>) = {} /\ <<>> \in Seq(FrameSet)
      BY EmptySeq DEF Elements
    <3>2. /\ Coming' = Coming \cup {Announcement("did")}
          /\ dmode' = "offer" /\ dwhat' = "did"
      BY <1>1, <2>4, <3>1, DOffersComing DEF Taking
    <3> QED
      BY <3>2, AnnouncementFields
  <2> QED
    BY <2>1, <2>2, <2>3, <2>4 DEF DCommand
<1> QED
  BY <1>1, <1>2, EmptyKind, VouchOutside

LEMMA VouchEcho ==
    ASSUME TypeOK, VouchInv, ChargerFrame, DEcho,
           UNCHANGED <<dtoken, dapp, drand, dgot, dsession, shown>>
    PROVE  VouchInv'
<1>1. UNCHANGED <<frames, pc, answered, token, attempts, peer, queue>>
  BY DEF ChargerFrame, client, caller, locals, inbox
<1>2. <<Short("challenge")>> \in Seq(FrameSet)
  BY ShortType DEF ShortKinds
<1>3. \A f \in Coming' : f \in Coming \/ f.data = Empty
  <2>1. CASE Tells(<<Short("challenge")>>)
    <3>1. Coming' = Coming \cup {Short("challenge")}
      BY <1>1, <1>2, <2>1, TellsFrames, ElementsOne
    <3> QED
      BY <3>1, ShortFields
  <2>2. CASE UNCHANGED down
    BY <1>1, <2>2 DEF Coming
  <2> QED
    BY <2>1, <2>2 DEF DEcho
<1>4. dmode' \in {"echo2", "idle"}
  BY DEF DEcho, DGoes
<1> QED
  BY <1>1, <1>3, <1>4, EmptyKind, VouchOutside

LEMMA VouchAnnounced ==
    ASSUME TypeOK, VouchInv, ChargerFrame, DAnnounced,
           UNCHANGED <<dtoken, dapp, drand, dsession, shown>>
    PROVE  VouchInv'
<1>1. UNCHANGED <<frames, pc, answered, token, attempts, peer, queue>>
  BY DEF ChargerFrame, client, caller, locals, inbox
<1>2. <<Short("rdy")>> \in Seq(FrameSet)
  BY ShortType DEF ShortKinds
<1>3. Coming' = Coming \cup {Short("rdy")}
  BY <1>1, <1>2, TellsFrames, ElementsOne DEF DAnnounced
<1>4. dmode' = "fill"
  BY DEF DAnnounced, DGoes
<1> QED
  BY <1>1, <1>3, <1>4, ShortFields, EmptyKind, VouchOutside

LEMMA VouchReady ==
    ASSUME TypeOK, VouchInv, ChargerFrame, DReady,
           UNCHANGED <<dtoken, dapp, drand, dgot, dsession, shown>>
    PROVE  VouchInv'
<1>1. UNCHANGED <<frames, pc, answered, token, attempts, peer, queue>>
  BY DEF ChargerFrame, client, caller, locals, inbox
<1>2. dwhat \in Taking
  BY ModesOf, ChargerKept DEF DReady
<1>3. Parcels(DPayload(dwhat)) \in Seq(FrameSet)
  BY <1>2, DPayloadType, ParcelsType
<1>4. Coming' = Coming \cup Elements(Parcels(DPayload(dwhat)))
  BY <1>1, <1>3, TellsFrames DEF DReady
<1>5. DPayload(dwhat).kind = "devProof" =>
        dwhat = "devProof" /\ DPayload(dwhat).of = DKeys
  BY <1>2 DEF DPayload, Number, DevProof, Blob, Taking
<1>6. dmode = "offer" /\ dmode' = "send" /\ dwhat' = dwhat /\ DKeys' = DKeys
  BY DEF DReady, DGoes, DKeys
<1>7. dwhat = "devProof" => DKeys \in shown
  BY <1>6 DEF VouchInv, VouchedKeys
<1>8. \A f \in Coming' : f \in Coming \/ (f.data.kind = "devProof" =>
                                            f.data.of \in shown)
  BY <1>4, <1>5, <1>7, ParcelsElements
<1> QED
  BY <1>1, <1>6, <1>7, <1>8, VouchOutside

LEMMA VouchTaken ==
    ASSUME TypeOK, VouchInv, ChargerFrame, DTaken,
           UNCHANGED <<dtoken, dapp, drand, dgot, dsession>>
    PROVE  VouchInv'
<1>1. UNCHANGED <<frames, pc, answered, token, attempts, peer, queue>>
  BY DEF ChargerFrame, client, caller, locals, inbox
<1>2. DKeys' = DKeys
  BY DEF DKeys
<1>3. CASE DOffers(<<>>, "devProof", DevProof(DKeys)) /\ shown' = shown \cup {DKeys}
  <2>1. DevProof(DKeys) \in Blobs
    BY KeptTypes DEF DevProof, Blob, Blobs, Size
  <2>2. Elements(<<>>) = {} /\ <<>> \in Seq(FrameSet)
    BY EmptySeq DEF Elements
  <2>3. \/ Coming' = Coming \cup {Inline("devProof", DevProof(DKeys))}
        \/ Coming' = Coming \cup {Announcement("devProof")}
    BY <1>1, <1>3, <2>1, <2>2, DOffersComing DEF Taking
  <2>4. DevProof(DKeys).of = DKeys
    BY DEF DevProof, Blob
  <2>5. \A f \in Coming' : f \in Coming \/ (f.data.kind = "devProof" =>
                                              f.data.of \in shown')
    BY <1>3, <2>3, <2>4, InlineFields, AnnouncementFields, EmptyKind
  <2> QED
    BY <1>1, <1>2, <1>3, <2>5, VouchOutside
<1>4. CASE UNCHANGED <<down, shown>> /\ dmode' \in {"want", "idle"}
  <2>1. Coming' = Coming
    BY <1>1, <1>4 DEF Coming
  <2> QED
    BY <1>1, <1>4, <2>1, VouchOutside
<1> QED
  BY <1>3, <1>4 DEF DTaken, DNext, DGoes

LEMMA VouchConfirms ==
    ASSUME TypeOK, VouchInv, ChargerFrame, DConfirms,
           UNCHANGED <<dapp, drand, dgot, dsession, shown>>
    PROVE  VouchInv'
<1>1. UNCHANGED <<frames, pc, answered, token, attempts, peer, queue>>
  BY DEF ChargerFrame, client, caller, locals, inbox
<1>2. PICK kind \in {"regOk", "regErr"} :
        down' = down \o On("upnp", <<Short(kind)>>)
  BY DEF DConfirms
<1>3. <<Short(kind)>> \in Seq(FrameSet)
  BY ShortType DEF ShortKinds
<1>4. Coming' = Coming \cup {Short(kind)}
  BY <1>1, <1>2, <1>3, OnType, TellsComing, FramesOn, ElementsOne DEF Channels
<1>5. dmode' = "idle"
  BY DEF DConfirms, DGoes
<1> QED
  BY <1>1, <1>4, <1>5, ShortFields, EmptyKind, VouchOutside

LEMMA VouchIgnores ==
    ASSUME TypeOK, VouchInv, ChargerFrame, DIgnores,
           UNCHANGED <<down, dmode, dwhat, dtoken, dapp, drand, dgot, dsession,
                       shown>>
    PROVE  VouchInv'
<1>1. UNCHANGED <<frames, pc, answered, token, attempts, peer, queue>>
  BY DEF ChargerFrame, client, caller, locals, inbox
<1>2. Coming' = Coming /\ DKeys' = DKeys
  BY <1>1 DEF Coming, DKeys
<1> QED
  BY <1>1, <1>2, VouchOutside DEF VouchInv, VouchedKeys

\* What the charger has collected with the parcel it hears, and what that
\* makes it do.
DGathered == LET f == Head(up).frame
             IN  [i \in DOMAIN dgot \cup {f.n} |->
                     IF i = f.n THEN f.data ELSE dgot[i]]
DWhole == DOMAIN DGathered = 1..ParcelCount(dwhat)
DJoined == Joined(DGathered, ParcelCount(dwhat))

DGathersOn == ~DWhole /\ UNCHANGED <<down, dmode, dwhat, dapp, dsession>>
DHasNumber(what, reply) ==
    /\ DWhole /\ dwhat = what /\ dapp' = DJoined.of.app /\ UNCHANGED dsession
    /\ dwhat' = reply
    /\ \/ /\ Coming' = Coming \cup {Short("ok")} \cup {Announcement(reply)}
          /\ dmode' = "offer"
       \/ /\ reply = "devRand"
          /\ Coming' = Coming \cup {Short("ok")}
                       \cup {Inline(reply, Number("devRand", 0, drand))}
          /\ dmode' = "ack"
DHasDid ==
    /\ DWhole /\ dwhat = "didCt" /\ Coming' = Coming \cup {Short("ok")}
    /\ dmode' = "auth" /\ dwhat' = "didCt" /\ UNCHANGED <<dapp, dsession>>
DHasProof(kind) ==
    /\ DWhole /\ dwhat = "appProof"
    /\ Coming' = Coming \cup {Short("ok")} \cup {Short(kind)}
    /\ dmode' = "idle" /\ dwhat' = "" /\ UNCHANGED dapp
    /\ IF DJoined = AppProof(DKeys) THEN kind = "loginOk" /\ dsession' = DKeys
                                    ELSE kind = "loginErr" /\ dsession' = NoKeys

LEMMA DParcelCases ==
    ASSUME TypeOK, ChargerFrame, DParcel
    PROVE  /\ dmode = "fill" /\ dgot' = DGathered /\ up # <<>> /\ up' = Tail(up)
           /\ Head(up).frame.kind = "parcel"
           /\ \/ DGathersOn \/ DHasNumber("pub", "peerPub")
              \/ DHasNumber("appRand", "devRand") \/ DHasDid
              \/ DHasProof("loginOk") \/ DHasProof("loginErr")
<1>1. UNCHANGED queue
  BY DEF ChargerFrame, client, inbox
<1>2. /\ <<Short("ok")>> \in Seq(FrameSet)
      /\ \A kind \in ShortKinds : <<Short(kind)>> \in Seq(FrameSet)
  BY ShortType DEF ShortKinds
<1>3. /\ dmode = "fill" /\ dgot' = DGathered /\ up # <<>> /\ up' = Tail(up)
      /\ Head(up).frame.kind = "parcel"
  BY DEF DParcel, Hears, DGathered
<1>4. ASSUME DWhole, dwhat = "pub", dapp' = DJoined.of.app,
             DOffers(<<Short("ok")>>, "peerPub", Empty), UNCHANGED dsession
      PROVE  DHasNumber("pub", "peerPub")
  <2>1. /\ Coming' = Coming \cup {Short("ok")} \cup {Announcement("peerPub")}
        /\ dmode' = "offer" /\ dwhat' = "peerPub"
    BY <1>1, <1>2, <1>4, DOffersComing, ElementsOne DEF Taking
  <2> QED
    BY <1>4, <2>1 DEF DHasNumber
<1>5. ASSUME DWhole, dwhat = "appRand", dapp' = DJoined.of.app,
             DOffers(<<Short("ok")>>, "devRand", Number("devRand", 0, drand)),
             UNCHANGED dsession
      PROVE  DHasNumber("appRand", "devRand")
  <2>1. Number("devRand", 0, drand) \in Blobs
    BY ChargerKept, NumberType DEF Size, Numbers
  <2>2. Elements(<<Short("ok")>>) = {Short("ok")}
    BY ElementsOne
  <2>3. /\ dwhat' = "devRand"
        /\ \/ /\ Coming' = Coming \cup {Short("ok")} \cup {Announcement("devRand")}
              /\ dmode' = "offer"
           \/ /\ Coming' = Coming \cup {Short("ok")}
                           \cup {Inline("devRand", Number("devRand", 0, drand))}
              /\ dmode' = "ack"
    BY <1>1, <1>2, <1>5, <2>1, <2>2, DOffersComing DEF Taking
  <2> QED
    BY <1>5, <2>3 DEF DHasNumber
<1>6. ASSUME DWhole, dwhat = "didCt", Tells(<<Short("ok")>>),
             DGoes("auth", "didCt"), UNCHANGED <<dapp, dsession>>
      PROVE  DHasDid
  <2>1. Coming' = Coming \cup {Short("ok")}
    BY <1>1, <1>2, <1>6, TellsFrames, ElementsOne
  <2> QED
    BY <1>6, <2>1 DEF DHasDid, DGoes
<1>7. ASSUME DWhole, dwhat = "appProof", NEW kind \in {"loginOk", "loginErr"},
             dsession' = IF DJoined = AppProof(DKeys) THEN DKeys ELSE NoKeys,
             kind = IF DJoined = AppProof(DKeys) THEN "loginOk" ELSE "loginErr",
             down' = down \o On("avdtp", <<Short("ok")>>)
                          \o On("upnp", <<Short(kind)>>),
             DGoes("idle", ""), UNCHANGED dapp
      PROVE  DHasProof(kind)
  <2> DEFINE w == On("avdtp", <<Short("ok")>>)
             v == On("upnp", <<Short(kind)>>)
  <2>1. w \in Seq(Flight) /\ v \in Seq(Flight)
    BY <1>2, OnType DEF Channels, ShortKinds
  <2>2. FramesOf(w) = {Short("ok")} /\ FramesOf(v) = {Short(kind)}
    BY FramesOn, ElementsOne
  <2>3. down' = (down \o w) \o v
    BY <1>7
  <2> HIDE DEF w, v
  <2>4. down \o w \in Seq(Flight)
        /\ FramesOf(down \o w) = FramesOf(down) \cup FramesOf(w)
    BY <2>1, KeptTypes, FramesConcat, ConcatProperties
  <2>5. FramesOf((down \o w) \o v) = FramesOf(down \o w) \cup FramesOf(v)
    BY <2>1, <2>4, FramesConcat
  <2>6. FramesOf(down') = FramesOf(down) \cup {Short("ok")} \cup {Short(kind)}
    BY <2>2, <2>3, <2>4, <2>5
  <2>7. Coming' = Coming \cup {Short("ok")} \cup {Short(kind)}
    BY <1>1, <2>6 DEF Coming
  <2> QED
    BY <1>7, <2>7 DEF DHasProof, DGoes
<1>8. \/ ~DWhole /\ UNCHANGED <<down, dmode, dwhat, dapp, dsession>>
      \/ /\ DWhole /\ dwhat \in {"appRand", "pub"} /\ dapp' = DJoined.of.app
         /\ IF dwhat = "pub"
            THEN DOffers(<<Short("ok")>>, "peerPub", Empty)
            ELSE DOffers(<<Short("ok")>>, "devRand", Number("devRand", 0, drand))
         /\ UNCHANGED dsession
      \/ /\ DWhole /\ dwhat = "didCt"
         /\ Tells(<<Short("ok")>>) /\ DGoes("auth", "didCt")
         /\ UNCHANGED <<dapp, dsession>>
      \/ /\ DWhole /\ dwhat = "appProof"
         /\ dsession' = IF DJoined = AppProof(DKeys) THEN DKeys ELSE NoKeys
         /\ down' = down \o On("avdtp", <<Short("ok")>>)
                         \o On("upnp", <<Short(IF DJoined = AppProof(DKeys)
                                               THEN "loginOk" ELSE "loginErr")>>)
         /\ DGoes("idle", "") /\ UNCHANGED dapp
  BY DEF DParcel, DWhole, DJoined, DGathered
<1>9. \/ DGathersOn \/ DHasNumber("pub", "peerPub")
      \/ DHasNumber("appRand", "devRand") \/ DHasDid
      \/ \E kind \in {"loginOk", "loginErr"} : DHasProof(kind)
  BY <1>4, <1>5, <1>6, <1>7, <1>8 DEF DGathersOn
<1> QED
  BY <1>3, <1>9

LEMMA VouchParcel ==
    ASSUME TypeOK, VouchInv, ChargerFrame, DParcel,
           UNCHANGED <<dtoken, drand, shown>>
    PROVE  VouchInv'
<1>1. UNCHANGED <<frames, pc, answered, token, attempts, peer, queue>>
  BY DEF ChargerFrame, client, caller, locals, inbox
<1>2. /\ dmode' \in {"offer", "ack", "send"} /\ dwhat' = "devProof" => FALSE
      /\ \A f \in Coming' : f \in Coming \/ f.data.kind # "devProof"
  <2>1. CASE DGathersOn
    BY <1>1, <2>1, DParcelCases DEF DGathersOn, Coming
  <2>2. CASE DHasNumber("pub", "peerPub")
    BY <2>2, ShortFields, AnnouncementFields, EmptyKind DEF DHasNumber
  <2>3. CASE DHasNumber("appRand", "devRand")
    <3>1. Number("devRand", 0, drand).kind = "devRand"
      BY DEF Number, Blob
    <3> QED
      BY <2>3, <3>1, ShortFields, AnnouncementFields, InlineFields, EmptyKind
         DEF DHasNumber
  <2>4. CASE DHasDid
    BY <2>4, ShortFields, EmptyKind DEF DHasDid
  <2>5. CASE DHasProof("loginOk") \/ DHasProof("loginErr")
    BY <2>5, ShortFields, EmptyKind DEF DHasProof
  <2> QED
    BY <2>1, <2>2, <2>3, <2>4, <2>5, DParcelCases
<1> QED
  BY <1>1, <1>2, VouchOutside

LEMMA VouchCharger == ASSUME TypeOK, VouchInv, Charger PROVE VouchInv'
BY VouchCommand, VouchEcho, VouchAnnounced, VouchParcel, VouchReady,
   VouchTaken, VouchConfirms, VouchIgnores DEF Charger, ChargerFrame

LEMMA VouchStep == TypeOK /\ VouchInv /\ [Next]_vars => VouchInv'
<1> SUFFICES ASSUME TypeOK, VouchInv, [Next]_vars PROVE VouchInv'
  OBVIOUS
<1>1. CASE UNCHANGED vars
  <2>1. UNCHANGED <<frames, pc, answered, token, attempts, peer, queue, down,
                    shown, dmode, dwhat, dtoken, dapp, drand>>
    BY <1>1 DEF vars, caller, client, locals, inbox, link, charger
  <2>2. Coming' = Coming /\ DKeys' = DKeys
    BY <2>1 DEF Coming, DKeys
  <2> QED
    BY <2>1, <2>2, VouchOutside DEF VouchInv, VouchedKeys
<1>2. CASE Next
  BY <1>2, VouchHostStep, VouchLink, VouchCharger DEF Next
<1> QED
  BY <1>1, <1>2

LEMMA Vouching == Spec => [](TypeOK /\ VouchInv)
BY InitType, StepType, VouchInit, VouchStep, PTL DEF Spec

\* The host's own proof is written only after the charger's, for the very same
\* token and numbers: nothing computed from the token leaves the host before
\* the HMAC comparison, whatever is lost, late or sent out of turn.
THEOREM NothingBeforeProof == Spec => []ProofAfterProof
<1>1. VouchInv => ProofAfterProof
  BY DEF VouchInv, VouchedKeys
<1> QED
  BY <1>1, Vouching, PTL

-----------------------------------------------------------------------------
(***************************************************************************)
(* The authentication when no frame outlives the timeout of a receive:     *)
(* what an attempt left in flight is gone before the next one.             *)
(***************************************************************************)

\* An attempt that goes on has returned nothing, and has a number.
Attempting == pc.do \notin {"none", "ended", "over"}
Underway ==
    /\ Attempting => result = NoResult /\ attempts > 0
    /\ result.kind = "keys" => pc.do = "ended"

\* What follows the host's proof: only the end of the login.
Proved == \/ pc.do = "ok" /\ pc.what = "appProof"
          \/ pc.do = "conf" /\ pc.what = "login"
          \/ pc.do \in {"none", "ended", "over"}

\* A proof of the host's on the link is of the keys of the present attempt,
\* and nothing but parcels follows it.
CarriesProof(f) == f.data.kind = "appProof"
Closing(s) ==
    \A i, j \in DOMAIN s :
       i < j /\ CarriesProof(s[i].frame) => s[j].frame.kind = "parcel"
ProofsGoing ==
    /\ \A f \in Going : CarriesProof(f) =>
          Proved /\ f.data.of = Keys /\ Keys \in answered /\ attempts > 0
    /\ Closing(up)
ProofsHeard ==
    \A i \in DOMAIN dgot : dgot[i].kind = "appProof" => dgot[i].of \in answered

\* "Logged in" on its way to the host means that the charger's session is for
\* the keys of the present attempt, and that nothing will change it.
ConfirmationComing ==
    (\E f \in Coming : f.kind = "loginOk") /\ pc.do # "over" =>
       /\ Proved /\ dsession = Keys /\ Keys \in answered /\ attempts > 0
       /\ dmode = "idle" /\ \A f \in Going : f.kind = "parcel"

MutualInv == Underway /\ ProofsGoing /\ ProofsHeard /\ ConfirmationComing

LEMMA MutualInit == Init => MutualInv
<1> SUFFICES ASSUME Init PROVE MutualInv
  OBVIOUS
<1>1. /\ pc = Idle /\ result = NoResult /\ dgot = <<>> /\ up = <<>>
      /\ Coming = {} /\ Going = {}
  BY InitComing DEF Init
<1>2. Underway
  BY <1>1, AtParts DEF Underway, Attempting, NoResult
<1>3. DOMAIN up = {} /\ DOMAIN dgot = {}
  BY <1>1
<1> QED
  BY <1>1, <1>2, <1>3 DEF MutualInv, ProofsGoing, Closing, ProofsHeard,
     ConfirmationComing

-----------------------------------------------------------------------------
(* The order of what the host sends.                                       *)

LEMMA ClosingTail ==
    ASSUME NEW q \in Seq(Flight), q # <<>>, Closing(q)
    PROVE  /\ Closing(Tail(q))
           /\ CarriesProof(Head(q).frame) =>
                 \A f \in FramesOf(Tail(q)) : f.kind = "parcel"
<1> DEFINE t == Tail(q)
<1>1. /\ DOMAIN q = 1..Len(q) /\ Len(q) \in Nat \ {0} /\ Head(q) = q[1]
      /\ DOMAIN t = 1..(Len(q) - 1)
      /\ \A i \in DOMAIN t : t[i] = q[i+1]
  BY HeadTailProperties, LenProperties, EmptySeq
<1>2. \A i \in DOMAIN t : i + 1 \in DOMAIN q /\ 1 < i + 1 /\ t[i] = q[i+1]
  BY <1>1
<1>3. \A i, j \in DOMAIN t : i < j => i + 1 < j + 1
  BY <1>1
<1> HIDE DEF t
<1>4. Closing(t)
  <2> SUFFICES ASSUME NEW i \in DOMAIN t, NEW j \in DOMAIN t, i < j,
                      CarriesProof(t[i].frame)
               PROVE  t[j].frame.kind = "parcel"
    BY DEF Closing
  <2> QED
    BY <1>2, <1>3 DEF Closing
<1>5. CarriesProof(Head(q).frame) => \A f \in FramesOf(t) : f.kind = "parcel"
  <2>1. 1 \in DOMAIN q
    BY <1>1
  <2> QED
    BY <1>1, <1>2, <2>1 DEF Closing, FramesOf
<1> QED
  BY <1>4, <1>5 DEF t

\* Parcels may follow anything; anything may follow where no proof is.
LEMMA ClosingConcat ==
    ASSUME NEW q \in Seq(Flight), NEW w \in Seq(Flight), Closing(q),
           \/ \A f \in FramesOf(w) : f.kind = "parcel"
           \/ \A f \in FramesOf(q) \cup FramesOf(w) : ~CarriesProof(f)
    PROVE  Closing(q \o w)
<1> DEFINE c == q \o w
<1>1. /\ Len(q) \in Nat /\ Len(w) \in Nat
      /\ DOMAIN q = 1..Len(q) /\ DOMAIN w = 1..Len(w)
      /\ DOMAIN c = 1..(Len(q) + Len(w))
      /\ \A i \in 1..(Len(q) + Len(w)) :
            c[i] = IF i <= Len(q) THEN q[i] ELSE w[i - Len(q)]
  BY ConcatProperties, LenProperties
<1> HIDE DEF c
<1>2. SUFFICES ASSUME NEW i \in DOMAIN c, NEW j \in DOMAIN c, i < j,
                      CarriesProof(c[i].frame)
               PROVE  c[j].frame.kind = "parcel"
  BY DEF Closing, c
<1>3. CASE \A f \in FramesOf(w) : f.kind = "parcel"
  <2>1. CASE j <= Len(q)
    <3>1. i \in DOMAIN q /\ j \in DOMAIN q /\ c[i] = q[i] /\ c[j] = q[j]
      BY <1>1, <1>2, <2>1
    <3> QED
      BY <1>2, <3>1 DEF Closing
  <2>2. CASE ~(j <= Len(q))
    <3>1. j - Len(q) \in DOMAIN w /\ c[j] = w[j - Len(q)]
      BY <1>1, <2>2
    <3> QED
      BY <1>3, <3>1 DEF FramesOf
  <2> QED
    BY <2>1, <2>2
<1>4. CASE \A f \in FramesOf(q) \cup FramesOf(w) : ~CarriesProof(f)
  <2>1. c[i].frame \in FramesOf(c)
    BY DEF FramesOf
  <2>2. FramesOf(c) = FramesOf(q) \cup FramesOf(w)
    BY FramesConcat DEF c
  <2> QED
    BY <1>2, <1>4, <2>1, <2>2
<1> QED
  BY <1>3, <1>4

-----------------------------------------------------------------------------
(* What the host sends, and how its steps end.                             *)

\* Writes that carry no value.
Blank(w) == w \in Seq(Flight) /\ \A f \in FramesOf(w) : f.data = Empty

LEMMA BlankNone == Blank(<<>>)
BY EmptySeq DEF Blank, FramesOf

LEMMA BlankWrite ==
    ASSUME NEW ch \in Channels, NEW kind \in ShortKinds
    PROVE  Blank(Write(ch, kind))
BY WriteType, FramesWrite, ShortFields DEF Blank

LEMMA BlankConcat ==
    ASSUME NEW w, NEW v, Blank(w), Blank(v)
    PROVE  Blank(w \o v)
BY FramesConcat, ConcatProperties DEF Blank

LEMMA BlankAnnouncement ==
    ASSUME NEW before, Blank(before), NEW what \in Sending \cup Taking
    PROVE  Blank(before \o On("avdtp", <<Announcement(what)>>))
<1> DEFINE w == On("avdtp", <<Announcement(what)>>)
<1>1. <<Announcement(what)>> \in Seq(FrameSet)
  BY AnnouncementType
<1>2. w \in Seq(Flight) /\ FramesOf(w) = {Announcement(what)}
  BY <1>1, OnType, FramesOn, ElementsOne DEF Channels
<1>3. Blank(w)
  BY <1>2, AnnouncementFields DEF Blank
<1> HIDE DEF w
<1> QED
  BY <1>3, BlankConcat DEF w

\* The procedure goes on without a result, or ends without one that counts.
GoesOrEnds ==
    \/ UNCHANGED result
    \/ \E kind \in EndKinds \ {"keys", "token"} : Ends(kind)
SendsBlank == \E w : Blank(w) /\ Sends(w)

LEMMA HasSends ==
    ASSUME NEW what, NEW data, NEW before, Blank(before),
           Has(what, data, before)
    PROVE  GoesOrEnds /\ SendsBlank
<1>1. ASSUME NEW w, Blank(w), NEW v \in Sending, Announces(w, v)
      PROVE  GoesOrEnds /\ SendsBlank
  BY <1>1, BlankAnnouncement DEF Announces, Goes, GoesOrEnds, SendsBlank
<1>2. ASSUME NEW kind \in {"auth", "invalid", "error"}, Ends(kind), Sends(before)
      PROVE  GoesOrEnds /\ SendsBlank
  BY <1>2 DEF EndKinds, GoesOrEnds, SendsBlank
<1>3. CASE LoginHas(what, data, before)
  <2>1. CASE Goes(At("head", "devProof")) /\ Sends(before)
    BY <2>1 DEF Goes, GoesOrEnds, SendsBlank
  <2> QED
    BY <1>1, <1>2, <1>3, <2>1 DEF LoginHas, Sending
<1>4. CASE \E raw : RegisterHasDid(raw, before)
  <2>1. Blank(before \o Write("upnp", "CMD_SET_KEY"))
    BY BlankWrite, BlankConcat DEF Channels, ShortKinds
  <2> QED
    BY <1>1, <1>2, <1>4, <2>1 DEF RegisterHasDid, Sending
<1>5. CASE RegisterHasKey(data, before)
  BY <1>1, <1>2, <1>5 DEF RegisterHasKey, Sending
<1> QED
  BY <1>3, <1>4, <1>5 DEF Has

LEMMA CollectsSends ==
    ASSUME NEW what, NEW n, Collects(what, n)
    PROVE  GoesOrEnds /\ (SendsBlank \/ UNCHANGED up)
<1>1. CASE Sends(Write("avdtp", "rdy")) /\ Goes(At("parts", what))
  BY <1>1, BlankWrite DEF Goes, GoesOrEnds, SendsBlank, Channels, ShortKinds
<1>2. CASE Ends("auth") /\ UNCHANGED up
  BY <1>2 DEF EndKinds, GoesOrEnds
<1> QED
  BY <1>1, <1>2 DEF Collects

\* What every step of the host but a new client leaves alone.
LEMMA HostFrame ==
    ASSUME TypeOK, Host, ~NewClient
    PROVE  UNCHANGED <<caller, charger, faults>> /\ Coming' \subseteq Coming
<1>1. CASE Greet \/ SubscribeUpnp \/ Login \/ Register \/ Block \/ Overflown
           \/ TimesOut \/ Unsubscribe
  <2>1. UNCHANGED <<caller, charger, faults, queue, down>>
    BY <1>1 DEF Greet, SubscribeUpnp, Login, Register, Block, Overflown,
       TimesOut, Unsubscribe, inbox, link
  <2> QED
    BY <2>1 DEF Coming
<1>2. CASE \E f : Receive(f)
  <2>1. UNCHANGED <<caller, charger, faults>>
    BY <1>2 DEF Receive
  <2> QED
    BY <1>2, <2>1, ReceiveComing
<1>3. CASE Refused \/ TakeReady \/ TakeOk \/ TakeVariant \/ TakeAnnouncement
           \/ TakeParcel \/ TakeConfirmation \/ TakeChallenge
  BY <1>2, <1>3 DEF Refused, TakeReady, TakeOk, TakeVariant, TakeAnnouncement,
     TakeParcel, TakeConfirmation, TakeChallenge
<1> QED
  BY <1>1, <1>3 DEF Host

\* A step that only waits, ends, or follows the host's proof ...
Follows == /\ Attempting /\ GoesOrEnds /\ UNCHANGED <<up, peer, answered>>
           /\ Proved => Proved'
\* ... and a step before that proof.
Precedes == /\ Attempting /\ GoesOrEnds /\ UNCHANGED answered
            /\ ~Proved /\ (SendsBlank \/ UNCHANGED up)

LEMMA PrecedesSteps ==
    ASSUME TypeOK,
           \/ Greet \/ TakeChallenge \/ SubscribeUpnp \/ Login \/ Register
           \/ TakeVariant \/ TakeAnnouncement \/ TakeParcel
    PROVE  Precedes
<1>1. ASSUME NEW kind \in EndKinds \ {"keys", "token"}, Ends(kind)
      PROVE  GoesOrEnds
  BY <1>1 DEF GoesOrEnds
<1>2. ASSUME NEW p, Goes(p) PROVE GoesOrEnds
  BY <1>2 DEF Goes, GoesOrEnds
<1>3. ASSUME NEW ch \in Channels, NEW kind \in ShortKinds, Sends(Write(ch, kind))
      PROVE  SendsBlank
  BY <1>3, BlankWrite DEF SendsBlank
<1>4. /\ Attempting /\ UNCHANGED answered
      /\ pc.do \in {"ready", "chal1", "chal2", "greeted", "open", "head", "parts"}
  BY DEF Attempting, Greet, TakeChallenge, SubscribeUpnp, Login, Register,
     TakeVariant, TakeAnnouncement, TakeParcel
<1>5. ~Proved
  BY <1>4 DEF Proved
<1>6. GoesOrEnds /\ (SendsBlank \/ UNCHANGED up)
  <2>1. CASE Greet \/ SubscribeUpnp \/ Register
    BY <1>2, <1>3, <2>1 DEF Greet, SubscribeUpnp, Register, link, Channels,
       ShortKinds
  <2>2. CASE Login
    <3>1. Blank(Write("upnp", "CMD_LOGIN"))
      BY BlankWrite DEF Channels, ShortKinds
    <3>2. CASE Announces(Write("upnp", "CMD_LOGIN"), "appRand")
      BY <1>2, <3>1, <3>2, BlankAnnouncement
         DEF Announces, SendsBlank, Sending
    <3> QED
      BY <1>1, <2>2, <3>2 DEF Login, EndKinds
  <2>3. CASE TakeChallenge
    BY <1>1, <1>2, <1>3, <2>3 DEF TakeChallenge, Channels, ShortKinds, EndKinds
  <2>4. CASE TakeVariant \/ TakeAnnouncement
    <3>1. Blank(OFFICIAL_ACK)
      BY BlankWrite DEF OFFICIAL_ACK, Channels, ShortKinds
    <3>2. PICK f : \/ Ends("auth") /\ UNCHANGED up
                   \/ Has(pc.what, f.data, OFFICIAL_ACK)
                   \/ Has("did", Empty, <<>>)
                   \/ Collects(pc.what, f.n)
      BY <2>4 DEF TakeVariant, TakeAnnouncement
    <3> QED
      BY <1>1, <3>1, <3>2, BlankNone, HasSends, CollectsSends DEF EndKinds
  <2>5. CASE TakeParcel
    <3>1. Blank(Write("avdtp", "ok"))
      BY BlankWrite DEF Channels, ShortKinds
    <3>2. \/ Ends("auth") /\ UNCHANGED up
          \/ Goes(pc) /\ UNCHANGED up
          \/ \E data : Has(pc.what, data, Write("avdtp", "ok"))
      BY <2>5, TakeParcelCases DEF GathersOne, GathersAll
    <3> QED
      BY <1>1, <1>2, <3>1, <3>2, HasSends DEF EndKinds
  <2> QED
    BY <2>1, <2>2, <2>3, <2>4, <2>5
<1> QED
  BY <1>4, <1>5, <1>6 DEF Precedes

LEMMA FollowsSteps ==
    ASSUME TypeOK, Block \/ Overflown \/ TimesOut \/ Refused \/ TakeOk
    PROVE  Follows \/ Precedes
<1>1. CASE Block \/ Overflown \/ TimesOut \/ Refused
  <2>1. /\ pc.do \in Receives /\ UNCHANGED <<up, peer, answered>>
        /\ (pc' = pc /\ UNCHANGED result) \/ Ends("auth")
    BY <1>1 DEF Block, Overflown, TimesOut, Refused, Receive, locals, link
  <2>2. Attempting
    BY <2>1 DEF Attempting, Receives
  <2>3. GoesOrEnds
    BY <2>1 DEF GoesOrEnds, EndKinds
  <2>4. Proved => Proved'
    BY <2>1, EndsPoint DEF Proved
  <2> QED
    BY <2>1, <2>2, <2>3, <2>4 DEF Follows
<1>2. CASE TakeOk
  <2>1. /\ pc.do = "ok" /\ UNCHANGED <<peer, answered>>
        /\ UNCHANGED result /\ Attempting
    BY <1>2 DEF TakeOk, Goes, Attempting, locals
  <2>2. CASE pc.what = "appProof"
    <3>1. UNCHANGED up /\ (Goes(pc) \/ Goes(At("conf", "login")))
      BY <1>2, <2>2 DEF TakeOk
    <3>2. Proved'
      <4>1. CASE Goes(pc)
        BY <2>1, <2>2, <4>1 DEF Goes, Proved
      <4>2. CASE Goes(At("conf", "login"))
        BY <4>2, GoesPoint DEF Proved
      <4> QED
        BY <3>1, <4>1, <4>2
    <3> QED
      BY <2>1, <3>1, <3>2 DEF Follows, GoesOrEnds
  <2>3. CASE pc.what # "appProof"
    <3>1. UNCHANGED up \/ Sends(Write("upnp", "CMD_AUTH"))
      BY <1>2 DEF TakeOk
    <3>2. UNCHANGED up \/ SendsBlank
      BY <3>1, BlankWrite DEF SendsBlank, Channels, ShortKinds
    <3>3. ~Proved
      BY <2>1, <2>3 DEF Proved
    <3> QED
      BY <2>1, <3>2, <3>3 DEF Precedes, GoesOrEnds
  <2> QED
    BY <2>2, <2>3
<1> QED
  BY <1>1, <1>2

LEMMA HostSteps ==
    ASSUME TypeOK, Host
    PROVE  \/ NewClient \/ Unsubscribe \/ TakeReady \/ TakeConfirmation
           \/ Follows \/ Precedes
BY PrecedesSteps, FollowsSteps DEF Host

-----------------------------------------------------------------------------
(* The host keeps the invariant.                                           *)

LEMMA UnderwayOn ==
    ASSUME Underway, Attempting, UNCHANGED attempts,
           UNCHANGED result \/ pc'.do = "ended"
    PROVE  Underway'
BY DEF Underway, Attempting, NoResult

LEMMA GoesOrEndsPoint == GoesOrEnds => UNCHANGED result \/ pc'.do = "ended"
BY EndsPoint DEF GoesOrEnds

\* Nothing is sent, and what was proved stays so.
LEMMA MutualQuiet ==
    ASSUME TypeOK, MutualInv, UNCHANGED <<caller, charger, up, peer, answered>>,
           Coming' \subseteq Coming, Proved => Proved',
           pc.do = "over" => pc'.do = "over", Underway'
    PROVE  MutualInv'
<1>1. /\ UNCHANGED <<attempts, dgot, dsession, dmode>> /\ Keys' = Keys
      /\ Going' = Going
  BY DEF caller, charger, Keys, Going
<1>2. ProofsGoing'
  BY <1>1 DEF MutualInv, ProofsGoing
<1>3. ProofsHeard'
  BY <1>1 DEF MutualInv, ProofsHeard
<1>4. ConfirmationComing'
  BY <1>1 DEF MutualInv, ConfirmationComing
<1> QED
  BY <1>2, <1>3, <1>4 DEF MutualInv

\* Before the proof no proof is on its way, nor any confirmation.
LEMMA MutualBefore ==
    ASSUME MutualInv, ~Proved
    PROVE  /\ \A f \in Going : ~CarriesProof(f)
           /\ \A f \in Coming : f.kind # "loginOk"
BY DEF MutualInv, ProofsGoing, ConfirmationComing, Proved

LEMMA MutualPrecedes ==
    ASSUME TypeOK, MutualInv, UNCHANGED <<caller, charger>>,
           Coming' \subseteq Coming, Precedes
    PROVE  MutualInv'
<1>1. /\ UNCHANGED <<attempts, dgot, answered>>
  BY DEF caller, charger, Precedes
<1>2. Underway'
  BY <1>1, UnderwayOn, GoesOrEndsPoint DEF MutualInv, Precedes
<1>3. /\ \A f \in Going : ~CarriesProof(f)
      /\ \A f \in Coming' : f.kind # "loginOk"
  BY MutualBefore DEF Precedes
<1>4. Closing(up) /\ up \in Seq(Flight)
  BY KeptTypes DEF MutualInv, ProofsGoing
<1>5. (\A f \in Going' : ~CarriesProof(f)) /\ Closing(up')
  <2>1. CASE UNCHANGED up
    BY <1>3, <1>4, <2>1 DEF Going
  <2>2. CASE SendsBlank
    <3>1. PICK w : Blank(w) /\ Sends(w)
      BY <2>2 DEF SendsBlank
    <3>2. w \in Seq(Flight) /\ \A f \in FramesOf(w) : ~CarriesProof(f)
      BY <3>1, EmptyKind DEF Blank, CarriesProof
    <3>3. Going' = Going \cup FramesOf(w)
      BY <3>1, <3>2, SendsGoing
    <3>4. Closing(up \o w)
      BY <1>3, <1>4, <3>2, ClosingConcat DEF Going
    <3> QED
      BY <1>3, <3>1, <3>2, <3>3, <3>4 DEF Sends
  <2> QED
    BY <2>1, <2>2 DEF Precedes
<1> QED
  BY <1>1, <1>2, <1>3, <1>5 DEF MutualInv, ProofsGoing, ProofsHeard,
     ConfirmationComing

\* The host answers: its proof is of the keys of the present attempt.
LEMMA MutualReady ==
    ASSUME TypeOK, MutualInv, TakeReady
    PROVE  MutualInv'
<1>1. PICK f : /\ Receive(f)
               /\ IF f.kind = "rdy"
                  THEN /\ Sends(On("avdtp", Parcels(Payload(pc.what))))
                       /\ Goes(At("ok", pc.what))
                       /\ answered' = IF pc.what = "appProof"
                                      THEN answered \cup {Keys} ELSE answered
                  ELSE Goes(pc) /\ UNCHANGED <<up, answered>>
  BY DEF TakeReady
<1>2. UNCHANGED <<caller, charger, peer>> /\ pc.do = "rdy"
  BY <1>1 DEF TakeReady, Receive, locals
<1>3. Coming' \subseteq Coming
  BY <1>1, ReceiveComing
<1>4. Attempting /\ ~Proved
  BY <1>2 DEF Attempting, Proved
<1>5. CASE f.kind # "rdy"
  <2>1. Underway'
    BY <1>1, <1>2, <1>4, <1>5, UnderwayOn DEF MutualInv, Goes, caller
  <2> QED
    BY <1>1, <1>2, <1>3, <1>4, <1>5, <2>1, MutualQuiet DEF Goes
<1>6. CASE f.kind = "rdy"
  <2> DEFINE w == On("avdtp", Parcels(Payload(pc.what)))
  <2>1. pc.what \in Sending
    BY <1>2, KeptTypes, PointsOf
  <2>2. Parcels(Payload(pc.what)) \in Seq(FrameSet)
    BY <2>1, PayloadType, ParcelsType
  <2>3. w \in Seq(Flight) /\ FramesOf(w) = Elements(Parcels(Payload(pc.what)))
    BY <2>2, OnType, FramesOn DEF Channels
  <2>4. \A g \in FramesOf(w) : g.kind = "parcel" /\ g.data = Payload(pc.what)
    BY <2>3, ParcelsElements
  <2>5. /\ pc.what = "appProof" => Payload(pc.what) = AppProof(Keys)
        /\ pc.what # "appProof" => Payload(pc.what).kind # "appProof"
    BY <2>1 DEF Payload, Sending, Number, Blob, DidCipher
  <2>6. AppProof(Keys).of = Keys
    BY DEF AppProof, Blob
  <2> HIDE DEF w
  <2>7. Sends(w)
    BY <1>1, <1>6 DEF w
  <2>8. Going' = Going \cup FramesOf(w)
    BY <2>3, <2>7, SendsGoing
  <2>9. /\ \A g \in Going : ~CarriesProof(g)
        /\ \A g \in Coming' : g.kind # "loginOk"
    BY <1>3, <1>4, MutualBefore
  <2>10. Keys' = Keys /\ UNCHANGED <<attempts, dgot>> /\ attempts > 0
    BY <1>2, <1>4 DEF caller, charger, Keys, MutualInv, Underway
  <2>11. pc'.do = "ok" /\ pc'.what = pc.what /\ UNCHANGED result
    BY <1>1, <1>6, GoesPoint DEF Goes
  <2>12. Underway'
    BY <1>4, <2>10, <2>11, UnderwayOn DEF MutualInv
  <2>13. answered \subseteq answered'
         /\ (pc.what = "appProof" => Keys \in answered')
    BY <1>1, <1>6
  <2>14. Closing(up')
    BY <2>3, <2>4, <2>7, KeptTypes, ClosingConcat
       DEF Sends, MutualInv, ProofsGoing
  <2>15. \A g \in Going' : CarriesProof(g) =>
            pc.what = "appProof" /\ g.data.of = Keys
    BY <2>4, <2>5, <2>6, <2>8, <2>9 DEF CarriesProof
  <2>16. ProofsGoing'
    BY <2>10, <2>11, <2>13, <2>14, <2>15 DEF ProofsGoing, Proved
  <2>17. ProofsHeard'
    BY <2>10, <2>13 DEF MutualInv, ProofsHeard
  <2>18. ConfirmationComing'
    BY <2>9 DEF ConfirmationComing
  <2> QED
    BY <2>12, <2>16, <2>17, <2>18 DEF MutualInv
<1> QED
  BY <1>5, <1>6

\* A new client starts on an empty link.
LEMMA MutualNewClient ==
    ASSUME TypeOK, MutualInv, NewClient, ~Slow
    PROVE  MutualInv'
<1>1. /\ up = <<>> /\ down = <<>> /\ up' = up /\ down' = down
      /\ UNCHANGED <<dgot, answered>>
  BY DEF NewClient, InTime, link, charger
<1>2. FramesOf(<<>>) = {}
  BY DEF FramesOf
<1>3. Coming' = {} /\ Going' = {}
  BY <1>1, <1>2, EmptyComing DEF Going
<1>4. Underway'
  <2>1. attempts' = attempts + 1 /\ result' = NoResult
    BY DEF NewClient
  <2>2. attempts \in Nat
    BY AuthConstants DEF TypeOK, HostType
  <2> QED
    BY <2>1, <2>2 DEF Underway, NoResult
<1>5. DOMAIN up' = {}
  BY <1>1
<1> QED
  BY <1>1, <1>3, <1>4, <1>5 DEF MutualInv, ProofsGoing, Closing, ProofsHeard,
     ConfirmationComing

LEMMA MutualHost ==
    ASSUME TypeOK, MutualInv, Host, ~Slow
    PROVE  MutualInv'
<1>1. CASE NewClient
  BY <1>1, MutualNewClient
<1>2. CASE ~NewClient
  <2>1. UNCHANGED <<caller, charger>> /\ Coming' \subseteq Coming
    BY <1>2, HostFrame
  <2>2. CASE Unsubscribe
    <3>1. /\ pc = Ended /\ pc' = Idle /\ result.kind # "keys"
          /\ UNCHANGED <<result, up, peer, answered>>
      BY <2>2 DEF Unsubscribe, locals, link
    <3>2. Underway' /\ Proved'
      BY <3>1, AtParts DEF Underway, Attempting, Proved
    <3> QED
      BY <2>1, <3>1, <3>2, AtParts, MutualQuiet
  <2>3. CASE TakeConfirmation
    <3>1. /\ pc.do = "conf" /\ pc' = Ended /\ UNCHANGED <<up, peer, answered>>
      BY <2>3 DEF TakeConfirmation, locals
    <3>2. Underway' /\ Proved'
      BY <3>1, AtParts DEF Underway, Attempting, Proved
    <3> QED
      BY <2>1, <3>1, <3>2, MutualQuiet
  <2>4. CASE TakeReady
    BY <2>4, MutualReady
  <2>5. CASE Follows
    <3>1. Underway'
      BY <2>1, <2>5, UnderwayOn, GoesOrEndsPoint
         DEF Follows, MutualInv, caller
    <3> QED
      BY <2>1, <2>5, <3>1, MutualQuiet DEF Follows, Attempting
  <2>6. CASE Precedes
    BY <2>1, <2>6, MutualPrecedes
  <2> QED
    BY <1>2, <2>2, <2>3, <2>4, <2>5, <2>6, HostSteps
<1> QED
  BY <1>1, <1>2

-----------------------------------------------------------------------------
(* So do the link and the charger.                                         *)

LEMMA MutualLink ==
    ASSUME TypeOK, MutualInv, Deliver \/ Loses \/ Noise \/ LinkFails,
           "loginOk" \notin OddKinds
    PROVE  MutualInv'
<1>1. CASE Deliver \/ Loses \/ Noise
  <2>1. UNCHANGED <<pc, result, attempts, answered, token, peer, dgot, dsession,
                    dmode>>
    BY <1>1 DEF Deliver, Loses, Noise, client, caller, charger, locals
  <2>2. Coming' \subseteq Coming \cup Oddities /\ Going' \subseteq Going
    BY <1>1, DeliverComing, LosesComing, NoiseComing DEF Deliver, Noise, Going
  <2>3. \A f \in Coming' : f.kind = "loginOk" => f \in Coming
    BY <2>2, OddFields
  <2>4. Keys' = Keys /\ Proved' = Proved
    BY <2>1 DEF Keys, Proved
  <2>5. Closing(up')
    <3>1. up' = up \/ (up # <<>> /\ up' = Tail(up))
      BY <1>1 DEF Deliver, Loses, Noise, LosesNotification, LosesWrite
    <3> QED
      BY <3>1, KeptTypes, ClosingTail DEF MutualInv, ProofsGoing
  <2>6. Underway' /\ ProofsHeard'
    BY <2>1 DEF MutualInv, Underway, Attempting, ProofsHeard
  <2>7. ProofsGoing'
    BY <2>1, <2>2, <2>4, <2>5 DEF MutualInv, ProofsGoing
  <2>8. ConfirmationComing'
    BY <2>1, <2>2, <2>3, <2>4 DEF MutualInv, ConfirmationComing
  <2> QED
    BY <2>6, <2>7, <2>8 DEF MutualInv
<1>2. CASE LinkFails
  <2>1. /\ pc' = At("over", "") /\ result' = [kind |-> "link", keys |-> NoKeys]
        /\ up' = <<>> /\ UNCHANGED <<answered, dgot>>
    BY <1>2 DEF LinkFails
  <2>2. pc'.do = "over" /\ result'.kind = "link"
    BY <2>1, AtParts
  <2>3. Going' = {}
    BY <1>2, EmptyComing
  <2>4. DOMAIN up' = {}
    <3>1. up' = <<>>
      BY <2>1
    <3> QED
      BY <3>1
  <2> QED
    BY <2>1, <2>2, <2>3, <2>4 DEF MutualInv, Underway, Attempting, ProofsGoing,
       Closing, ProofsHeard, ConfirmationComing
<1> QED
  BY <1>1, <1>2

\* What each step of the charger hears, and when it may tell of a session.
Heard == up # <<>> /\ up' = Tail(up)

LEMMA ChargerHears ==
    ASSUME TypeOK, Charger
    PROVE  Heard /\ Head(up).frame \in Going /\ Going' \subseteq Going
<1>1. Heard
  BY DEF Heard, Charger, DCommand, DEcho, DAnnounced, DParcel, DReady, DTaken,
     DConfirms, DIgnores, Hears
<1> QED
  BY <1>1, HearsGoing DEF Heard

\* An idle charger that hears a parcel does nothing.
LEMMA IdleIgnores ==
    ASSUME Charger, dmode = "idle", Head(up).frame.kind = "parcel"
    PROVE  UNCHANGED <<down, dmode, dsession, dgot>>
BY DEF Charger, DCommand, DEcho, DAnnounced, DParcel, DReady, DTaken,
   DConfirms, DIgnores, Hears

\* The charger confirms a login only when a whole proof of its own keys came.
LEMMA ProofHeard ==
    ASSUME TypeOK, ChargerFrame, DParcel, DHasProof("loginOk")
    PROVE  Head(up).frame.data = AppProof(DKeys)
<1> DEFINE f == Head(up).frame
           n == ParcelCount(dwhat)
<1>1. DWhole /\ dwhat = "appProof" /\ DJoined = AppProof(DKeys)
  BY DEF DHasProof
<1>2. f \in FrameSet /\ f.data \in Blobs
  BY HearsType, FrameParts, DParcelCases
<1>3. n \in Nat /\ f.n \in DOMAIN DGathered /\ DOMAIN DGathered = 1..n
      /\ DGathered[f.n] = f.data
  BY <1>1, CountType DEF DGathered, DWhole, Size
<1>4. \A i \in DOMAIN DGathered : DGathered[i] \in Blobs
  BY <1>2, ChargerKept DEF DGathered
<1>5. \/ DJoined = Empty
      \/ \A i \in 1..n : DGathered[i] = DJoined
  BY <1>3, <1>4, JoinedType DEF DJoined
<1>6. DJoined # Empty
  BY <1>1, EmptyKind DEF AppProof, Blob
<1> QED
  BY <1>1, <1>3, <1>5, <1>6

\* The other steps put no such confirmation on the link.
LEMMA NoConfirmation ==
    ASSUME TypeOK, Charger, ~(DParcel /\ DHasProof("loginOk"))
    PROVE  \A f \in Coming' : f.kind = "loginOk" => f \in Coming
<1>1. UNCHANGED queue
  BY DEF Charger, client, inbox
<1>2. ASSUME NEW fs \in Seq(FrameSet), Tells(fs),
             \A f \in Elements(fs) : f.kind # "loginOk"
      PROVE  \A f \in Coming' : f.kind = "loginOk" => f \in Coming
  BY <1>1, <1>2, TellsFrames
<1>3. ASSUME NEW kind \in ShortKinds \ {"loginOk"}, Tells(<<Short(kind)>>)
      PROVE  \A f \in Coming' : f.kind = "loginOk" => f \in Coming
  <2>1. <<Short(kind)>> \in Seq(FrameSet)
    BY ShortType
  <2>2. Elements(<<Short(kind)>>) = {Short(kind)}
    BY ElementsOne
  <2>3. Short(kind).kind = kind /\ kind # "loginOk"
    BY ShortFields
  <2> QED
    BY <1>2, <1>3, <2>1, <2>2, <2>3
<1>4. ASSUME NEW what \in Taking, NEW data,
             what \in {"devRand", "devProof"} => data \in Blobs,
             DOffers(<<>>, what, data)
      PROVE  \A f \in Coming' : f.kind = "loginOk" => f \in Coming
  <2>1. Elements(<<>>) = {} /\ <<>> \in Seq(FrameSet)
    BY EmptySeq DEF Elements
  <2>2. \/ Coming' = Coming \cup {Inline(what, data)}
        \/ Coming' = Coming \cup {Announcement(what)}
    BY <1>1, <1>4, <2>1, DOffersComing
  <2> QED
    BY <2>2, InlineFields, AnnouncementFields
<1>5. CASE UNCHANGED down
  BY <1>1, <1>5 DEF Coming
<1>6. CASE DCommand
  <2>1. CASE Tells(<<Frame("announce", "01", 2, Empty)>>)
    <3>1. <<Frame("announce", "01", 2, Empty)>> \in Seq(FrameSet)
      BY BlankTypes DEF Frame, FrameSet
    <3>2. Frame("announce", "01", 2, Empty).kind = "announce"
      BY DEF Frame
    <3> QED
      BY <1>2, <2>1, <3>1, <3>2, ElementsOne
  <2>2. CASE Tells(<<Short("challenge")>>)
    BY <1>3, <2>2 DEF ShortKinds
  <2>3. CASE DOffers(<<>>, "did", Empty)
    BY <1>4, <2>3 DEF Taking
  <2> QED
    BY <1>5, <1>6, <2>1, <2>2, <2>3 DEF DCommand
<1>7. CASE DEcho \/ DAnnounced
  BY <1>3, <1>5, <1>7 DEF DEcho, DAnnounced, ShortKinds
<1>8. CASE DParcel
  <2>1. CASE DGathersOn
    BY <1>5, <2>1 DEF DGathersOn
  <2>2. CASE DHasNumber("pub", "peerPub") \/ DHasNumber("appRand", "devRand")
    BY <2>2, ShortFields, InlineFields, AnnouncementFields DEF DHasNumber
  <2>3. CASE DHasDid \/ DHasProof("loginErr")
    <3>1. /\ \A f \in {Short("ok"), Short("loginErr")} : f.kind # "loginOk"
          /\ \A f \in Coming' : f \in Coming \/ f \in {Short("ok"), Short("loginErr")}
      <4>1. Short("ok").kind = "ok" /\ Short("loginErr").kind = "loginErr"
        BY ShortFields
      <4> QED
        BY <2>3, <4>1 DEF DHasDid, DHasProof
    <3> QED
      BY <3>1
  <2> QED
    BY <1>8, <2>1, <2>2, <2>3, DParcelCases DEF Charger, ChargerFrame
<1>9. CASE DReady
  <2>1. dwhat \in Taking
    BY <1>9, ModesOf, ChargerKept DEF DReady
  <2>2. Parcels(DPayload(dwhat)) \in Seq(FrameSet)
    BY <2>1, DPayloadType, ParcelsType
  <2> QED
    BY <1>2, <1>9, <2>2, ParcelsElements DEF DReady
<1>10. CASE DTaken
  <2>1. DevProof(DKeys) \in Blobs
    BY KeptTypes DEF DevProof, Blob, Blobs, Size
  <2>2. UNCHANGED down \/ DOffers(<<>>, "devProof", DevProof(DKeys))
    BY <1>10 DEF DTaken, DNext
  <2> QED
    BY <1>4, <1>5, <2>1, <2>2 DEF Taking
<1>11. CASE DConfirms
  <2>1. PICK kind \in {"regOk", "regErr"} :
          down' = down \o On("upnp", <<Short(kind)>>)
    BY <1>11 DEF DConfirms
  <2>2. <<Short(kind)>> \in Seq(FrameSet)
    BY ShortType DEF ShortKinds
  <2>3. Coming' = Coming \cup {Short(kind)}
    BY <1>1, <2>1, <2>2, OnType, TellsComing, FramesOn, ElementsOne DEF Channels
  <2> QED
    BY <2>3, ShortFields
<1> QED
  BY <1>5, <1>6, <1>7, <1>8, <1>9, <1>10, <1>11 DEF Charger

LEMMA MutualCharger ==
    ASSUME TypeOK, MutualInv, Charger
    PROVE  MutualInv'
<1>1. UNCHANGED <<pc, result, attempts, answered, token, peer, queue>>
  BY DEF Charger, client, caller, locals, inbox
<1>2. Heard /\ Head(up).frame \in Going /\ Going' \subseteq Going
  BY ChargerHears
<1>3. Keys' = Keys /\ Proved' = Proved
  BY <1>1 DEF Keys, Proved
<1>4. Closing(up') /\ (CarriesProof(Head(up).frame) =>
                         \A f \in Going' : f.kind = "parcel")
  BY <1>2, KeptTypes, ClosingTail DEF Heard, MutualInv, ProofsGoing, Going
<1>5. Underway'
  BY <1>1 DEF MutualInv, Underway, Attempting
<1>6. ProofsGoing'
  BY <1>1, <1>2, <1>3, <1>4 DEF MutualInv, ProofsGoing
<1>7. ProofsHeard'
  <2>1. \A i \in DOMAIN dgot' : \/ i \in DOMAIN dgot /\ dgot'[i] = dgot[i]
                                \/ dgot'[i] = Head(up).frame.data
    <3>1. CASE DParcel
      BY <3>1, DParcelCases DEF Charger, ChargerFrame, DGathered
    <3>2. CASE DAnnounced
      <4>1. dgot' = <<>>
        BY <3>2 DEF DAnnounced
      <4> QED
        BY <4>1
    <3>3. CASE UNCHANGED dgot
      BY <3>3
    <3> QED
      BY <3>1, <3>2, <3>3 DEF Charger
  <2>2. Head(up).frame.data.kind = "appProof" =>
           Head(up).frame.data.of \in answered
    BY <1>2 DEF MutualInv, ProofsGoing, CarriesProof
  <2> QED
    BY <1>1, <2>1, <2>2 DEF MutualInv, ProofsHeard
<1>8. ConfirmationComing'
  <2>1. CASE DParcel /\ DHasProof("loginOk")
    <3>1. Head(up).frame.data = AppProof(DKeys)
      BY <2>1, ProofHeard DEF Charger, ChargerFrame
    <3>2. CarriesProof(Head(up).frame) /\ Head(up).frame.data.of = DKeys
      BY <3>1 DEF CarriesProof, AppProof, Blob
    <3>3. Proved /\ DKeys = Keys /\ Keys \in answered /\ attempts > 0
      BY <1>2, <3>2 DEF MutualInv, ProofsGoing
    <3>4. dmode' = "idle" /\ dsession' = DKeys
      BY <2>1 DEF DHasProof
    <3> QED
      BY <1>1, <1>3, <1>4, <3>2, <3>3, <3>4 DEF ConfirmationComing
  <2>2. CASE ~(DParcel /\ DHasProof("loginOk"))
    <3>1. SUFFICES ASSUME \E f \in Coming' : f.kind = "loginOk", pc.do # "over"
                   PROVE  /\ Proved' /\ dsession' = Keys' /\ Keys' \in answered'
                          /\ attempts' > 0 /\ dmode' = "idle"
                          /\ \A f \in Going' : f.kind = "parcel"
      BY <1>1 DEF ConfirmationComing
    <3>2. /\ Proved /\ dsession = Keys /\ Keys \in answered /\ attempts > 0
          /\ dmode = "idle" /\ \A f \in Going : f.kind = "parcel"
      BY <2>2, <3>1, NoConfirmation DEF MutualInv, ConfirmationComing
    <3>3. UNCHANGED <<dmode, dsession>>
      BY <1>2, <3>2, IdleIgnores
    <3> QED
      BY <1>1, <1>2, <1>3, <3>2, <3>3
  <2> QED
    BY <2>1, <2>2
<1> QED
  BY <1>5, <1>6, <1>7, <1>8 DEF MutualInv

\* The assumptions: what is in flight arrives before a receive times out, and
\* the confirmation of a login is never sent out of turn.
InTurn == ~Slow /\ "loginOk" \notin OddKinds

LEMMA MutualStep == InTurn /\ TypeOK /\ MutualInv /\ [Next]_vars => MutualInv'
<1> SUFFICES ASSUME InTurn, TypeOK, MutualInv, [Next]_vars PROVE MutualInv'
  OBVIOUS
<1>1. CASE UNCHANGED vars
  <2>1. /\ UNCHANGED <<caller, charger, up, peer, answered, down, queue, pc,
                       result, attempts>>
    BY <1>1 DEF vars, client, link, locals, inbox, caller
  <2>2. Coming' = Coming /\ Proved' = Proved /\ Underway'
    BY <2>1 DEF Coming, Proved, MutualInv, Underway, Attempting
  <2> QED
    BY <2>1, <2>2, MutualQuiet
<1>2. CASE Next
  BY <1>2, MutualHost, MutualLink, MutualCharger DEF Next, InTurn
<1> QED
  BY <1>1, <1>2

LEMMA Mutuality ==
    ASSUME InTurn
    PROVE  Spec => [](TypeOK /\ VouchInv /\ MutualInv)
<1>1. MutualInv /\ TypeOK /\ [Next]_vars => MutualInv'
  BY MutualStep
<1> QED
  BY <1>1, InitType, StepType, VouchInit, VouchStep, MutualInit, PTL DEF Spec

-----------------------------------------------------------------------------
(* A login implements MutualLogin.                                         *)

\* The keys the caller was given.
Returned == IF result.kind = "keys" THEN result.keys ELSE NoKeys
View == <<shown, answered, dsession, Returned>>

LEMMA ReturnedKept ==
    ASSUME Underway, Attempting, GoesOrEnds
    PROVE  Returned' = Returned
<1>1. Returned = NoKeys
  BY DEF Underway, Returned, NoResult
<1>2. CASE UNCHANGED result
  BY <1>2 DEF Returned
<1>3. ASSUME NEW kind \in EndKinds \ {"keys", "token"}, Ends(kind)
      PROVE  Returned' = NoKeys
  BY <1>3 DEF Ends, Returned
<1> QED
  BY <1>1, <1>2, <1>3 DEF GoesOrEnds

LEMMA HostImplements ==
    ASSUME InTurn, TypeOK, VouchInv, MutualInv, Host
    PROVE  [Mutual!Next]_View
<1>0. UNCHANGED <<shown, dsession>>
  BY HostFrame DEF NewClient, charger
<1>1. CASE NewClient
  <2>1. result' = NoResult /\ result.kind # "keys" /\ UNCHANGED answered
    BY <1>1 DEF NewClient
  <2>2. Returned' = NoKeys /\ Returned = NoKeys
    BY <2>1 DEF Returned, NoResult
  <2> QED
    BY <1>0, <2>1, <2>2 DEF View
<1>2. CASE Unsubscribe
  BY <1>0, <1>2 DEF Unsubscribe, Returned, View
<1>3. CASE Follows \/ Precedes
  <2>1. Returned' = Returned /\ UNCHANGED answered
    BY <1>3, ReturnedKept DEF Follows, Precedes, MutualInv
  <2> QED
    BY <1>0, <2>1 DEF View
<1>4. CASE TakeReady
  <2>1. /\ pc.do = "rdy" /\ UNCHANGED result
        /\ \/ UNCHANGED answered
           \/ pc.what = "appProof" /\ answered' = answered \cup {Keys}
    BY <1>4 DEF TakeReady, Goes
  <2>2. UNCHANGED Returned
    BY <2>1 DEF Returned
  <2>3. CASE UNCHANGED answered
    BY <1>0, <2>2, <2>3 DEF View
  <2>4. CASE pc.what = "appProof" /\ answered' = answered \cup {Keys}
    <3>1. pc = At("rdy", "appProof")
      BY <2>1, <2>4, KeptTypes, PointsOf
    <3>2. Keys \in shown /\ answered \subseteq shown
      BY <3>1 DEF VouchInv, VouchedKeys, ProofAfterProof
    <3>3. Mutual!Answer
      BY <1>0, <2>2, <2>4, <3>2 DEF Mutual!Answer, Returned
    <3> QED
      BY <3>3 DEF Mutual!Next
  <2> QED
    BY <2>1, <2>3, <2>4
<1>5. CASE TakeConfirmation
  <2>1. PICK f : /\ Receive(f) /\ pc.do = "conf"
                 /\ result'.kind = Outcome(pc.what, f.kind)
                 /\ result'.kind = "keys" => result'.keys = Keys
    BY <1>5 DEF TakeConfirmation
  <2>2. UNCHANGED answered
    BY <1>5 DEF TakeConfirmation
  <2>3. f \in Coming /\ Returned = NoKeys
    BY <2>1, ReceiveComing
       DEF MutualInv, Underway, Attempting, Returned, NoResult
  <2>4. CASE result'.kind # "keys"
    BY <1>0, <2>2, <2>3, <2>4 DEF Returned, View
  <2>5. CASE result'.kind = "keys"
    <3>1. f.kind = "loginOk"
      BY <2>1, <2>5 DEF Outcome
    <3>2. dsession = Keys /\ attempts > 0
      BY <2>1, <2>3, <3>1 DEF MutualInv, ConfirmationComing
    <3>3. Keys # NoKeys
      BY <3>2 DEF Keys, NoKeys, derive_login
    <3>4. Mutual!Return
      BY <1>0, <2>1, <2>2, <2>5, <3>2, <3>3 DEF Mutual!Return, Returned
    <3> QED
      BY <3>4 DEF Mutual!Next
  <2> QED
    BY <2>4, <2>5
<1> QED
  BY <1>1, <1>2, <1>3, <1>4, <1>5, HostSteps

LEMMA ChargerImplements ==
    ASSUME InTurn, TypeOK, VouchInv, MutualInv, Charger
    PROVE  [Mutual!Next]_View
<1>0. UNCHANGED <<answered, result>>
  BY DEF Charger, client
<1>1. UNCHANGED Returned
  BY <1>0 DEF Returned
<1>2. CASE UNCHANGED <<shown, dsession>>
  BY <1>0, <1>1, <1>2 DEF View
<1>3. CASE UNCHANGED shown /\ dsession' = NoKeys
  <2>1. Mutual!Close
    BY <1>0, <1>1, <1>3 DEF Mutual!Close, Returned
  <2> QED
    BY <2>1 DEF Mutual!Next
<1>4. CASE DTaken /\ UNCHANGED dsession
  <2>1. shown \subseteq shown'
    BY <1>4 DEF DTaken, DNext
  <2>2. Mutual!Show
    BY <1>0, <1>1, <1>4, <2>1 DEF Mutual!Show, Returned
  <2> QED
    BY <2>2 DEF Mutual!Next
<1>5. CASE DParcel /\ UNCHANGED shown
  <2>1. CASE DHasProof("loginOk")
    <3>1. Head(up).frame.data = AppProof(DKeys) /\ Head(up).frame \in Going
      BY <1>5, <2>1, ProofHeard, ChargerHears DEF Charger, ChargerFrame
    <3>2. CarriesProof(Head(up).frame) /\ Head(up).frame.data.of = DKeys
      BY <3>1 DEF CarriesProof, AppProof, Blob
    <3>3. DKeys \in answered
      BY <3>1, <3>2 DEF MutualInv, ProofsGoing
    <3>4. dsession' = DKeys
      BY <2>1 DEF DHasProof
    <3>5. Mutual!Open
      BY <1>0, <1>1, <1>5, <3>3, <3>4 DEF Mutual!Open, Returned
    <3> QED
      BY <3>5 DEF Mutual!Next
  <2>2. CASE DHasProof("loginErr")
    BY <1>3, <1>5, <2>2 DEF DHasProof
  <2>3. CASE UNCHANGED dsession
    BY <1>2, <1>5, <2>3
  <2> QED
    BY <1>5, <2>1, <2>2, <2>3, DParcelCases
       DEF Charger, ChargerFrame, DGathersOn, DHasNumber, DHasDid
<1>6. CASE DCommand /\ UNCHANGED shown
  BY <1>2, <1>3, <1>6 DEF DCommand
<1> QED
  BY <1>2, <1>4, <1>5, <1>6 DEF Charger

\* A login goes in the order MutualLogin states, for any tokens, MTU, queue
\* capacity and number of attempts and faults: the charger shows its knowledge
\* first, the host answers for the same keys only, the charger opens a session
\* only for keys the host has answered, and login() returns those of the open
\* session and no others.  It needs frames that do not outlive the timeout of
\* a receive, and no confirmation out of turn.
THEOREM LoginIsMutual == InTurn => (Spec => MutualSpec)
<1> SUFFICES ASSUME InTurn PROVE Spec => MutualSpec
  OBVIOUS
<1>1. Init => Mutual!Init
  <2>1. Init => /\ shown = {} /\ answered = {} /\ dsession = NoKeys
                /\ result = NoResult
    BY DEF Init
  <2>2. result = NoResult => result.kind = "none"
    BY DEF NoResult
  <2> QED
    BY <2>1, <2>2 DEF Mutual!Init
<1>2. TypeOK /\ VouchInv /\ MutualInv /\ [Next]_vars
         => [Mutual!Next]_Mutual!vars
  <2> SUFFICES ASSUME TypeOK, VouchInv, MutualInv, [Next]_vars
               PROVE  [Mutual!Next]_View
    BY DEF Mutual!vars, View, Returned
  <2>1. CASE UNCHANGED vars
    BY <2>1 DEF vars, client, charger, View, Returned
  <2>2. CASE Deliver \/ Loses \/ Noise
    BY <2>2 DEF Deliver, Loses, Noise, client, charger, View, Returned
  <2>3. CASE LinkFails
    <3>1. /\ dsession' = NoKeys /\ UNCHANGED <<shown, answered>>
          /\ result'.kind = "link" /\ Attempting
      BY <2>3 DEF LinkFails, Attempting
    <3>2. Returned' = Returned
      BY <3>1 DEF MutualInv, Underway, NoResult, Returned
    <3>3. Mutual!Close
      BY <3>1, <3>2 DEF Mutual!Close, Returned
    <3> QED
      BY <3>3 DEF Mutual!Next
  <2> QED
    BY <2>1, <2>2, <2>3, HostImplements, ChargerImplements DEF Next
<1> QED
  BY <1>1, <1>2, Mutuality, PTL DEF Spec, MutualSpec, Mutual!Spec

=============================================================================
