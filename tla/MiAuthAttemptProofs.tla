-------------------------- MODULE MiAuthAttemptProofs --------------------------
(***************************************************************************)
(* Proofs about one attempt of the authentication when no frame outlives   *)
(* the timeout of a receive: what the two sides have at hand is of the     *)
(* same attempt, and only a token that is not the charger's is rejected.   *)
(***************************************************************************)
EXTENDS MiAuthProofs

-----------------------------------------------------------------------------
(* The order of the frames on the link.                                    *)

\* Behind a frame of K there are only frames of L ...
Behind(s, K, L) ==
    \A i, j \in DOMAIN s : i < j /\ s[i].frame \in K => s[j].frame \in L
\* ... and the same of kinds of frames.
Kinds(K) == {f \in FrameSet : f.kind \in K}
Follow(s, K, L) == Behind(s, Kinds(K), Kinds(L))

LEMMA BehindTail ==
    ASSUME NEW q \in Seq(Flight), q # <<>>, NEW K, NEW L, Behind(q, K, L)
    PROVE  /\ Behind(Tail(q), K, L)
           /\ Head(q).frame \in K => FramesOf(Tail(q)) \subseteq L
<1> DEFINE t == Tail(q)
<1>1. /\ DOMAIN q = 1..Len(q) /\ Len(q) \in Nat \ {0} /\ Head(q) = q[1]
      /\ DOMAIN t = 1..(Len(q) - 1)
      /\ \A i \in DOMAIN t : t[i] = q[i+1]
  BY HeadTailProperties, LenProperties, EmptySeq
<1>2. \A i \in DOMAIN t : i + 1 \in DOMAIN q /\ 1 < i + 1 /\ t[i] = q[i+1]
  BY <1>1
<1>3. \A i, j \in DOMAIN t : i < j => i + 1 < j + 1
  BY <1>1
<1> HIDE DEF t
<1>4. Behind(t, K, L)
  <2> SUFFICES ASSUME NEW i \in DOMAIN t, NEW j \in DOMAIN t, i < j,
                      t[i].frame \in K
               PROVE  t[j].frame \in L
    BY DEF Behind
  <2> QED
    BY <1>2, <1>3 DEF Behind
<1>5. Head(q).frame \in K => FramesOf(t) \subseteq L
  <2>1. 1 \in DOMAIN q
    BY <1>1
  <2> QED
    BY <1>1, <1>2, <2>1 DEF Behind, FramesOf
<1> QED
  BY <1>4, <1>5 DEF t

LEMMA BehindConcat ==
    ASSUME NEW q \in Seq(Flight), NEW w \in Seq(Flight), NEW K, NEW L,
           Behind(q, K, L), Behind(w, K, L),
           FramesOf(w) \subseteq L \/ \A f \in FramesOf(q) : f \notin K
    PROVE  Behind(q \o w, K, L)
<1> DEFINE c == q \o w
<1>1. /\ Len(q) \in Nat /\ Len(w) \in Nat
      /\ DOMAIN q = 1..Len(q) /\ DOMAIN w = 1..Len(w)
      /\ DOMAIN c = 1..(Len(q) + Len(w))
      /\ \A i \in 1..(Len(q) + Len(w)) :
            c[i] = IF i <= Len(q) THEN q[i] ELSE w[i - Len(q)]
  BY ConcatProperties, LenProperties
<1> HIDE DEF c
<1>2. SUFFICES ASSUME NEW i \in DOMAIN c, NEW j \in DOMAIN c, i < j,
                      c[i].frame \in K
               PROVE  c[j].frame \in L
  BY DEF Behind, c
<1>3. CASE j <= Len(q)
  <2>1. i \in DOMAIN q /\ j \in DOMAIN q /\ c[i] = q[i] /\ c[j] = q[j]
    BY <1>1, <1>2, <1>3
  <2> QED
    BY <1>2, <2>1 DEF Behind
<1>4. CASE ~(i <= Len(q))
  <2>1. /\ i - Len(q) \in DOMAIN w /\ c[i] = w[i - Len(q)]
        /\ j - Len(q) \in DOMAIN w /\ c[j] = w[j - Len(q)]
        /\ i - Len(q) < j - Len(q)
    BY <1>1, <1>2, <1>4
  <2> QED
    BY <1>2, <2>1 DEF Behind
<1>5. CASE i <= Len(q) /\ ~(j <= Len(q))
  <2>1. /\ i \in DOMAIN q /\ c[i] = q[i]
        /\ j - Len(q) \in DOMAIN w /\ c[j] = w[j - Len(q)]
    BY <1>1, <1>2, <1>5
  <2>2. q[i].frame \in FramesOf(q) /\ w[j - Len(q)].frame \in FramesOf(w)
    BY <2>1 DEF FramesOf
  <2> QED
    BY <1>2, <2>1, <2>2
<1> QED
  BY <1>3, <1>4, <1>5

\* What is empty, or one frame, or has no frame of K, or only frames of L.
LEMMA BehindPlain ==
    ASSUME NEW s, NEW K, NEW L,
           \/ s = <<>>
           \/ \A f \in FramesOf(s) : f \notin K
           \/ FramesOf(s) \subseteq L
           \/ \E ch, f : s = On(ch, <<f>>)
    PROVE  Behind(s, K, L)
<1>1. CASE s = <<>>
  <2>1. DOMAIN s = {}
    BY <1>1
  <2> QED
    BY <2>1 DEF Behind
<1>2. CASE \E ch, f : s = On(ch, <<f>>)
  <2>1. DOMAIN s = {1}
    BY <1>2 DEF On
  <2>2. \A i, j \in DOMAIN s : ~(i < j)
    BY <2>1
  <2> QED
    BY <2>2 DEF Behind
<1> QED
  BY <1>1, <1>2 DEF Behind, FramesOf

LEMMA FramesType ==
    ASSUME NEW s \in Seq(Flight)
    PROVE  FramesOf(s) \subseteq FrameSet
<1>1. \A i \in DOMAIN s : s[i] \in Flight
  BY ElementOfSeq, LenProperties
<1> QED
  BY <1>1 DEF FramesOf, Flight

LEMMA FollowTail ==
    ASSUME NEW q \in Seq(Flight), q # <<>>, NEW K, NEW L, Follow(q, K, L)
    PROVE  /\ Follow(Tail(q), K, L)
           /\ Head(q).frame.kind \in K =>
                 \A f \in FramesOf(Tail(q)) : f.kind \in L
<1>1. /\ Behind(Tail(q), Kinds(K), Kinds(L))
      /\ Head(q).frame \in Kinds(K) => FramesOf(Tail(q)) \subseteq Kinds(L)
  BY BehindTail DEF Follow
<1>2. Head(q).frame \in FrameSet
  BY FramesTail, FramesType
<1> QED
  BY <1>1, <1>2 DEF Follow, Kinds

LEMMA FollowConcat ==
    ASSUME NEW q \in Seq(Flight), NEW w \in Seq(Flight), NEW K, NEW L,
           Follow(q, K, L), Follow(w, K, L),
           \/ \A f \in FramesOf(w) : f.kind \in L
           \/ \A f \in FramesOf(q) : f.kind \notin K
    PROVE  Follow(q \o w, K, L)
<1>1. FramesOf(w) \subseteq Kinds(L) \/ \A f \in FramesOf(q) : f \notin Kinds(K)
  BY FramesType DEF Kinds
<1> QED
  BY <1>1, BehindConcat DEF Follow

LEMMA FollowPlain ==
    ASSUME NEW s \in Seq(Flight), NEW K, NEW L,
           \/ s = <<>>
           \/ \A f \in FramesOf(s) : f.kind \notin K
           \/ \A f \in FramesOf(s) : f.kind \in L
           \/ \E ch, kind : s = Write(ch, kind)
    PROVE  Follow(s, K, L)
<1>1. \/ s = <<>>
      \/ \A f \in FramesOf(s) : f \notin Kinds(K)
      \/ FramesOf(s) \subseteq Kinds(L)
      \/ \E ch, f : s = On(ch, <<f>>)
  BY FramesType DEF Kinds, Write
<1> QED
  BY <1>1, BehindPlain DEF Follow

LEMMA FollowNone == ASSUME NEW K, NEW L PROVE Follow(<<>>, K, L)
BY EmptySeq, FollowPlain

-----------------------------------------------------------------------------
(* The binding of a registration: the invariant.                           *)

\* The host has the charger's public key and binds with it.
BindsNow == \/ pc.do \in {"rdy", "ok"} /\ pc.what = "didCt"
            \/ pc.do = "conf" /\ pc.what = "register"
Secret == derive_register(attempts, peer)

\* A ciphertext of the DID that was made with the present secret.
Own(b) == b.kind = "didCt" => b.of.token = Secret
CipherAnnounced(f) == f.kind = "announce" /\ f.code = "00"
OfKey(b) == b.kind = "peerPub"
KeyAtHand == \/ \E f \in Coming : OfKey(f.data)
             \/ \E i \in DOMAIN frames : OfKey(frames[i])
HoldsCipher == dmode \in {"fill", "auth"} /\ dwhat = "didCt"

\* The ciphertext on the link is of the present attempt.
CipherGoing ==
    Attempting => \A f \in Going :
       /\ CipherAnnounced(f) => BindsNow
       /\ f.data.kind = "didCt" => BindsNow /\ Own(f.data)
\* So is what the charger holds of it: it holds none when the host is about to
\* take the key the secret is made of.
CipherHeld ==
    /\ Attempting /\ ~BindsNow /\ KeyAtHand => ~HoldsCipher
    /\ BindsNow /\ HoldsCipher => \A i \in DOMAIN dgot : Own(dgot[i])
\* It waits for CMD_AUTH with a whole value only.
WholeHeld == dmode = "auth" => 1 \in DOMAIN dgot

\* CMD_AUTH is the last that a registration writes.
AuthLast ==
    /\ Follow(up, {"CMD_AUTH"}, {})
    /\ Attempting /\ (\E f \in Going : f.kind = "CMD_AUTH") =>
          pc.do = "conf" /\ pc.what = "register"
\* "Bound" on its way to the host means that the charger has the secret of the
\* present attempt, and will not change it.
BoundComing ==
    Attempting /\ (\E f \in Coming : f.kind = "regOk") =>
       /\ pc.do = "conf" /\ pc.what = "register" /\ dtoken = Secret
       /\ \A f \in Going : f.kind # "CMD_AUTH"

\* What a procedure said of the charger's token stays true: no CMD_AUTH is
\* left to change it.
Settled ==
    result.kind \in {"token", "invalid"} =>
       ~Attempting /\ \A f \in Going : f.kind # "CMD_AUTH"

BindInv == /\ CipherGoing /\ CipherHeld /\ WholeHeld /\ AuthLast
           /\ BoundComing /\ Settled /\ BoundTogether

LEMMA BindInit == Init => BindInv
<1> SUFFICES ASSUME Init PROVE BindInv
  OBVIOUS
<1>1. /\ pc = Idle /\ result = NoResult /\ up = <<>> /\ dmode = "idle"
      /\ Coming = {} /\ Going = {}
  BY InitComing DEF Init
<1>2. pc.do = "none" /\ result.kind = "none"
  BY <1>1, AtParts DEF NoResult
<1>3. ~Attempting /\ ~BindsNow
  BY <1>2 DEF Attempting, BindsNow
<1> QED
  BY <1>1, <1>2, <1>3, FollowNone DEF BindInv, CipherGoing, CipherHeld,
     WholeHeld, AuthLast, BoundComing, Settled, BoundTogether

-----------------------------------------------------------------------------
(* What the steps of the host have to do with it.                          *)

\* Writes that neither announce nor carry a ciphertext of the DID, nor bind.
Mild(f) == /\ ~CipherAnnounced(f) /\ f.data.kind # "didCt"
           /\ f.kind # "CMD_AUTH"
MildWrites(w) == w \in Seq(Flight) /\ \A f \in FramesOf(w) : Mild(f)
SendsMild == \E w : MildWrites(w) /\ Sends(w)

LEMMA MildNone == MildWrites(<<>>)
BY EmptySeq DEF MildWrites, FramesOf

LEMMA MildWrite ==
    ASSUME NEW ch \in Channels, NEW kind \in ShortKinds \ {"CMD_AUTH"}
    PROVE  MildWrites(Write(ch, kind))
<1>1. kind # "announce"
  BY DEF ShortKinds
<1> QED
  BY <1>1, WriteType, FramesWrite, ShortFields, EmptyKind
     DEF MildWrites, Mild, CipherAnnounced

LEMMA MildConcat ==
    ASSUME NEW w, NEW v, MildWrites(w), MildWrites(v)
    PROVE  MildWrites(w \o v)
BY FramesConcat, ConcatProperties DEF MildWrites

LEMMA MildAnnouncement ==
    ASSUME NEW before, MildWrites(before), NEW what \in Sending \ {"didCt"}
    PROVE  MildWrites(before \o On("avdtp", <<Announcement(what)>>))
<1> DEFINE w == On("avdtp", <<Announcement(what)>>)
<1>1. <<Announcement(what)>> \in Seq(FrameSet)
  BY AnnouncementType
<1>2. w \in Seq(Flight) /\ FramesOf(w) = {Announcement(what)}
  BY <1>1, OnType, FramesOn, ElementsOne DEF Channels
<1>3. Code[what] # "00"
  BY DEF Code, Sending
<1>4. MildWrites(w)
  BY <1>2, <1>3, AnnouncementFields, EmptyKind
     DEF MildWrites, Mild, CipherAnnounced
<1> HIDE DEF w
<1> QED
  BY <1>4, MildConcat DEF w

\* It ends without having bound ...
Quits == /\ Attempting /\ pc'.do = "ended"
         /\ result'.kind \notin {"keys", "token"}
         /\ \/ UNCHANGED up /\ result'.kind # "invalid"
            \/ SendsMild /\ pc.do # "conf"
\* ... or does not bind yet, or waits, ...
Before == /\ Attempting /\ ~BindsNow /\ ~BindsNow' /\ UNCHANGED result
          /\ SendsMild \/ UNCHANGED up
Waits == BindsNow /\ UNCHANGED <<pc, peer, result, up>>
\* ... or takes one of the three steps of the binding.
TakesKey == /\ pc.do = "parts" /\ KeyAtHand /\ UNCHANGED result
            /\ Announces(Write("avdtp", "ok"), "didCt")
SendsCipher == /\ pc.do = "rdy" /\ pc.what = "didCt" /\ UNCHANGED <<peer, result>>
               /\ pc'.do = "ok" /\ pc'.what = "didCt"
               /\ Sends(On("avdtp", Parcels(Payload("didCt"))))
Commits == /\ pc.do = "ok" /\ pc.what = "didCt" /\ UNCHANGED <<peer, result>>
           /\ pc'.do = "conf" /\ pc'.what = "register"
           /\ Sends(Write("upnp", "CMD_AUTH"))

LEMMA HasBinds ==
    ASSUME NEW what, NEW data, NEW before, MildWrites(before),
           Has(what, data, before),
           Attempting, ~BindsNow, pc.do # "conf"
    PROVE  \/ Quits \/ Before
           \/ what = "peerPub" /\ OfKey(data) /\ UNCHANGED result
              /\ Announces(before, "didCt")
<1>1. ASSUME NEW w, MildWrites(w), NEW v \in Sending \ {"didCt"}, Announces(w, v)
      PROVE  Before
  <2>1. ~BindsNow'
    BY <1>1, AnnouncesPoint DEF BindsNow
  <2> QED
    BY <1>1, <2>1, MildAnnouncement DEF Announces, Goes, Before, SendsMild
<1>2. ASSUME NEW kind \in {"auth", "invalid", "error"}, Ends(kind), Sends(before)
      PROVE  Quits
  BY <1>2, EndsPoint DEF Ends, Quits, SendsMild
<1>3. CASE LoginHas(what, data, before)
  <2>1. CASE Goes(At("head", "devProof")) /\ Sends(before)
    <3>1. ~BindsNow'
      BY <2>1, GoesPoint DEF BindsNow
    <3> QED
      BY <2>1, <3>1 DEF Goes, Before, SendsMild
  <2> QED
    BY <1>1, <1>2, <1>3, <2>1 DEF LoginHas, Sending
<1>4. CASE \E raw : RegisterHasDid(raw, before)
  <2>1. MildWrites(before \o Write("upnp", "CMD_SET_KEY"))
    BY MildWrite, MildConcat DEF Channels, ShortKinds
  <2> QED
    BY <1>1, <1>2, <1>4, <2>1 DEF RegisterHasDid, Sending
<1>5. CASE what = "peerPub" /\ RegisterHasKey(data, before)
  <2>1. CASE Ends("error") /\ Sends(before)
    BY <1>2, <2>1
  <2>2. CASE OfKey(data) /\ Announces(before, "didCt")
    BY <1>5, <2>2 DEF Announces, Goes
  <2> QED
    BY <1>5, <2>1, <2>2 DEF RegisterHasKey, OfKey
<1> QED
  BY <1>3, <1>4, <1>5 DEF Has

LEMMA CollectsBinds ==
    ASSUME NEW what, NEW n, Collects(what, n),
           Attempting, ~BindsNow, pc.do # "conf"
    PROVE  Quits \/ Before
<1>1. CASE Sends(Write("avdtp", "rdy")) /\ Goes(At("parts", what))
  <2>1. ~BindsNow'
    BY <1>1, GoesPoint DEF BindsNow
  <2>2. MildWrites(Write("avdtp", "rdy"))
    BY MildWrite DEF Channels, ShortKinds
  <2> QED
    BY <1>1, <2>1, <2>2 DEF Goes, Before, SendsMild
<1>2. CASE Ends("auth") /\ UNCHANGED up
  BY <1>2, EndsPoint DEF Ends, Quits
<1> QED
  BY <1>1, <1>2 DEF Collects

\* The value put together of the parcels is one of them, or means nothing.
LEMMA GathersValue ==
    ASSUME TypeOK, NEW f \in FrameSet, GathersAll(f)
    PROVE  LET data == Joined(Gathered(f), expected)
           IN  data = Empty \/ data = f.data \/ \E i \in DOMAIN frames : data = frames[i]
<1> DEFINE g == Gathered(f)
<1>1. DOMAIN g = 1..expected
  BY DEF GathersAll
<1>2. /\ expected \in Nat /\ 1..expected \subseteq DOMAIN g
      /\ f.data \in Blobs /\ \A i \in DOMAIN frames : frames[i] \in Blobs
  BY <1>1, FrameParts DEF TypeOK, HostType
<1>3. \A i \in DOMAIN g :
         g[i] \in Blobs /\ (g[i] = f.data \/ (i \in DOMAIN frames /\ g[i] = frames[i]))
  BY <1>2 DEF Gathered
<1> HIDE DEF g
<1>4. \/ Joined(g, expected) = Empty
      \/ 1 \in DOMAIN g /\ Joined(g, expected) = g[1]
  BY <1>2, <1>3, JoinedType DEF Joined
<1>5. \/ Joined(g, expected) = Empty \/ Joined(g, expected) = f.data
      \/ \E i \in DOMAIN frames : Joined(g, expected) = frames[i]
  BY <1>3, <1>4
<1> QED
  BY <1>5 DEF g

\* What the host collects comes from the link.
Collected == \A i \in DOMAIN frames' :
                \/ i \in DOMAIN frames /\ frames'[i] = frames[i]
                \/ \E f \in Coming : frames'[i] = f.data

LEMMA HostCollects ==
    ASSUME TypeOK, Host
    PROVE  Collected
<1>1. CASE UNCHANGED frames
  BY <1>1 DEF Collected
<1>2. CASE frames' = <<>>
  <2>1. DOMAIN frames' = {}
    BY <1>2
  <2> QED
    BY <2>1 DEF Collected
<1>3. CASE TakeParcel
  <2>1. PICK f : /\ f \in Coming
                 /\ UNCHANGED frames \/ frames' = Gathered(f)
    BY <1>3, TakeParcelCases DEF GathersOne, GathersAll
  <2>2. CASE frames' = Gathered(f)
    BY <2>1, <2>2 DEF Collected, Gathered
  <2> QED
    BY <1>1, <2>1, <2>2
<1>4. CASE TakeVariant \/ TakeAnnouncement
  BY <1>1, <1>2, <1>4 DEF TakeVariant, TakeAnnouncement, Collects, NoFrames
<1>5. CASE NewClient
  BY <1>2, <1>5 DEF NewClient
<1> QED
  BY <1>1, <1>3, <1>4, <1>5 DEF Host, Greet, TakeChallenge, SubscribeUpnp,
     Login, Register, Block, Overflown, TimesOut, Refused, TakeReady, TakeOk,
     TakeConfirmation, Unsubscribe, locals

\* The steps that take a value.
LEMMA BindTakes ==
    ASSUME TypeOK, TakeVariant \/ TakeAnnouncement \/ TakeParcel
    PROVE  Quits \/ Before \/ TakesKey
<1>1. /\ pc.do \in {"head", "parts"} /\ Attempting /\ ~BindsNow /\ pc.do # "conf"
  BY DEF TakeVariant, TakeAnnouncement, TakeParcel, Attempting, BindsNow
<1>2. ASSUME Ends("auth"), UNCHANGED up PROVE Quits
  BY <1>1, <1>2, EndsPoint DEF Ends, Quits
<1>3. CASE TakeVariant
  <2>1. pc.what # "peerPub" /\ MildWrites(OFFICIAL_ACK)
    BY <1>3, MildWrite DEF TakeVariant, OFFICIAL_ACK, Channels, ShortKinds
  <2>2. PICK f : \/ Ends("auth") /\ UNCHANGED up
                 \/ Has(pc.what, f.data, OFFICIAL_ACK)
                 \/ Collects(pc.what, f.n)
    BY <1>3 DEF TakeVariant
  <2> QED
    BY <1>1, <1>2, <2>1, <2>2, HasBinds, CollectsBinds
<1>4. CASE TakeAnnouncement
  <2>1. PICK f : \/ Ends("auth") /\ UNCHANGED up
                 \/ Has("did", Empty, <<>>)
                 \/ Collects(pc.what, f.n)
    BY <1>4 DEF TakeAnnouncement
  <2> QED
    BY <1>1, <1>2, <2>1, MildNone, HasBinds, CollectsBinds
<1>5. CASE TakeParcel
  <2>1. PICK f : /\ f \in Coming /\ f \in FrameSet
                 /\ \/ Ends("auth") /\ UNCHANGED up
                    \/ GathersOne(f)
                    \/ GathersAll(f)
    BY <1>5, TakeParcelCases
  <2>2. pc.do = "parts" /\ MildWrites(Write("avdtp", "ok"))
    BY <1>5, MildWrite DEF TakeParcel, Channels, ShortKinds
  <2>3. CASE GathersOne(f)
    BY <1>1, <2>3 DEF GathersOne, Goes, Before, BindsNow
  <2>4. CASE GathersAll(f)
    <3> DEFINE data == Joined(Gathered(f), expected)
    <3>1. Has(pc.what, data, Write("avdtp", "ok"))
      BY <2>4 DEF GathersAll
    <3>2. OfKey(data) => KeyAtHand
      <4>1. data = Empty \/ data = f.data \/ \E i \in DOMAIN frames : data = frames[i]
        BY <2>1, <2>4, GathersValue
      <4> HIDE DEF data
      <4> QED
        BY <2>1, <4>1, EmptyKind DEF OfKey, KeyAtHand
    <3> HIDE DEF data
    <3>3. \/ Quits \/ Before
          \/ OfKey(data) /\ UNCHANGED result
             /\ Announces(Write("avdtp", "ok"), "didCt")
      BY <1>1, <2>2, <3>1, HasBinds
    <3> QED
      BY <2>2, <3>2, <3>3 DEF TakesKey
  <2> QED
    BY <1>2, <2>1, <2>3, <2>4
<1> QED
  BY <1>3, <1>4, <1>5

LEMMA BindSends ==
    ASSUME TypeOK, TakeReady \/ TakeOk
    PROVE  Before \/ Waits \/ SendsCipher \/ Commits
<1>1. /\ pc.do \in {"rdy", "ok"} /\ Attempting /\ UNCHANGED peer
      /\ pc.what \in Sending
  BY KeptTypes, PointsOf DEF TakeReady, TakeOk, Attempting, locals
<1>2. CASE Goes(pc) /\ UNCHANGED up
  <2>1. CASE BindsNow
    BY <1>1, <1>2, <2>1 DEF Goes, Waits
  <2>2. CASE ~BindsNow
    BY <1>1, <1>2, <2>2 DEF Goes, Before, BindsNow
  <2> QED
    BY <2>1, <2>2
<1>3. CASE TakeReady /\ ~(Goes(pc) /\ UNCHANGED up)
  <2>1. /\ pc.do = "rdy" /\ Goes(At("ok", pc.what))
        /\ Sends(On("avdtp", Parcels(Payload(pc.what))))
    BY <1>3 DEF TakeReady
  <2>2. pc'.do = "ok" /\ pc'.what = pc.what /\ UNCHANGED result
    BY <2>1, GoesPoint DEF Goes
  <2>3. CASE pc.what = "didCt"
    BY <1>1, <2>1, <2>2, <2>3 DEF SendsCipher
  <2>4. CASE pc.what # "didCt"
    <3> DEFINE w == On("avdtp", Parcels(Payload(pc.what)))
    <3>1. Parcels(Payload(pc.what)) \in Seq(FrameSet)
      BY <1>1, PayloadType, ParcelsType
    <3>2. w \in Seq(Flight) /\ FramesOf(w) = Elements(Parcels(Payload(pc.what)))
      BY <3>1, OnType, FramesOn DEF Channels
    <3>3. Payload(pc.what).kind # "didCt"
      BY <1>1, <2>4 DEF Payload, Sending, Number, Blob, AppProof
    <3>4. MildWrites(w)
      BY <3>2, <3>3, ParcelsElements DEF MildWrites, Mild, CipherAnnounced
    <3>5. Sends(w)
      BY <2>1
    <3> HIDE DEF w
    <3>6. ~BindsNow /\ ~BindsNow'
      BY <2>1, <2>2, <2>4 DEF BindsNow
    <3> QED
      BY <1>1, <2>2, <3>4, <3>5, <3>6 DEF Before, SendsMild
  <2> QED
    BY <2>3, <2>4
<1>4. CASE TakeOk /\ ~(Goes(pc) /\ UNCHANGED up)
  <2>1. pc.do = "ok"
    BY <1>4 DEF TakeOk
  <2>2. CASE pc.what = "didCt"
    <3>1. Goes(At("conf", "register")) /\ Sends(Write("upnp", "CMD_AUTH"))
      BY <1>4, <2>2 DEF TakeOk
    <3> QED
      BY <1>1, <2>1, <2>2, <3>1, GoesPoint DEF Goes, Commits
  <2>3. CASE pc.what # "didCt"
    <3>1. /\ UNCHANGED up
          /\ \/ Goes(At("head", "devRand")) \/ Goes(At("conf", "login"))
             \/ Goes(At("head", "peerPub"))
      BY <1>4, <2>3 DEF TakeOk
    <3>2. UNCHANGED result /\ ~BindsNow'
      BY <3>1, GoesPoint DEF Goes, BindsNow
    <3>3. ~BindsNow
      BY <2>1, <2>3 DEF BindsNow
    <3> QED
      BY <1>1, <3>1, <3>2, <3>3 DEF Before
  <2> QED
    BY <2>2, <2>3
<1> QED
  BY <1>2, <1>3, <1>4

LEMMA BindOthers ==
    ASSUME TypeOK,
           \/ Greet \/ TakeChallenge \/ SubscribeUpnp \/ Login \/ Register
           \/ Block \/ Overflown \/ TimesOut \/ Refused
    PROVE  Quits \/ Before \/ Waits
<1>1. Attempting
  BY DEF Attempting, Greet, TakeChallenge, SubscribeUpnp, Login, Register,
     Block, Overflown, TimesOut, Refused, Receive, Receives
<1>2. ASSUME Ends("auth"), UNCHANGED up PROVE Quits
  BY <1>1, <1>2, EndsPoint DEF Ends, Quits
<1>3. CASE Overflown \/ TimesOut \/ Refused
  BY <1>2, <1>3 DEF Overflown, TimesOut, Refused, link
<1>4. CASE Block
  <2>1. UNCHANGED <<pc, peer, result, up>>
    BY <1>4 DEF Block, locals, link
  <2>2. CASE BindsNow
    BY <2>1, <2>2 DEF Waits
  <2>3. CASE ~BindsNow
    BY <1>1, <2>1, <2>3 DEF Before, BindsNow
  <2> QED
    BY <2>2, <2>3
<1>5. CASE Greet \/ TakeChallenge \/ SubscribeUpnp \/ Login \/ Register
  <2>1. ~BindsNow
    BY <1>5 DEF Greet, TakeChallenge, SubscribeUpnp, Login, Register, BindsNow
  <2>2. ASSUME NEW ch \in Channels, NEW kind \in ShortKinds \ {"CMD_AUTH"},
               Sends(Write(ch, kind))
        PROVE  SendsMild
    BY <2>2, MildWrite DEF SendsMild
  <2>3. ASSUME NEW do \in {"chal1", "chal2", "greeted", "open", "head"}, NEW what,
               Goes(At(do, what)), SendsMild \/ UNCHANGED up
        PROVE  Before
    <3>1. ~BindsNow'
      BY <2>3, GoesPoint DEF BindsNow
    <3> QED
      BY <1>1, <2>1, <2>3, <3>1 DEF Before, Goes
  <2>4. CASE Greet \/ SubscribeUpnp \/ Register
    BY <2>2, <2>3, <2>4 DEF Greet, SubscribeUpnp, Register, link, Channels,
       ShortKinds
  <2>5. CASE Login
    <3>1. MildWrites(Write("upnp", "CMD_LOGIN"))
      BY MildWrite DEF Channels, ShortKinds
    <3>2. CASE Announces(Write("upnp", "CMD_LOGIN"), "appRand")
      <4>1. ~BindsNow'
        BY <3>2, AnnouncesPoint DEF BindsNow
      <4>2. SendsMild /\ UNCHANGED result
        BY <3>1, <3>2, MildAnnouncement
           DEF Announces, Goes, SendsMild, Sending
      <4> QED
        BY <1>1, <2>1, <4>1, <4>2 DEF Before
    <3> QED
      BY <1>2, <2>5, <3>2 DEF Login
  <2>6. CASE TakeChallenge
    <3>1. \/ Ends("auth") /\ UNCHANGED up
          \/ /\ Sends(Write("avdtp", "echo"))
             /\ Goes(At("chal2", "")) \/ Goes(At("greeted", ""))
      BY <2>6 DEF TakeChallenge
    <3> QED
      BY <1>2, <2>2, <2>3, <3>1 DEF Channels, ShortKinds
  <2> QED
    BY <1>5, <2>4, <2>5, <2>6
<1> QED
  BY <1>3, <1>4, <1>5

LEMMA BindSteps ==
    ASSUME TypeOK, Host
    PROVE  \/ NewClient \/ Unsubscribe \/ TakeConfirmation
           \/ Quits \/ Before \/ Waits \/ TakesKey \/ SendsCipher \/ Commits
BY BindTakes, BindSends, BindOthers DEF Host

-----------------------------------------------------------------------------
(* The host keeps the invariant.                                           *)

\* Before it binds nothing of a ciphertext is on its way, and no CMD_AUTH.
LEMMA BindBefore ==
    ASSUME BindInv, Attempting, ~BindsNow
    PROVE  /\ \A f \in Going : Mild(f)
           /\ \A f \in Coming : f.kind # "regOk"
BY DEF BindInv, CipherGoing, AuthLast, BoundComing, Mild, BindsNow

\* What is common to the steps of the host.
HostKeeps == /\ UNCHANGED <<caller, charger>> /\ Coming' \subseteq Coming
             /\ Collected

LEMMA BindUnchanged ==
    ASSUME HostKeeps
    PROVE  /\ UNCHANGED <<attempts, dtoken, dgot, dmode, dwhat>>
           /\ HoldsCipher' = HoldsCipher /\ (WholeHeld => WholeHeld')
           /\ KeyAtHand' => KeyAtHand
<1>1. UNCHANGED <<attempts, dtoken, dgot, dmode, dwhat>>
  BY DEF HostKeeps, caller, charger
<1>2. KeyAtHand' => KeyAtHand
  BY DEF HostKeeps, Collected, KeyAtHand
<1> QED
  BY <1>1, <1>2 DEF HoldsCipher, WholeHeld

\* Mild writes keep the order of what is going.
LEMMA MildGoing ==
    ASSUME TypeOK, BindInv, SendsMild, \A f \in Going : f.kind # "CMD_AUTH"
    PROVE  /\ Follow(up', {"CMD_AUTH"}, {})
           /\ \A f \in Going' : f.kind # "CMD_AUTH"
           /\ \A f \in Going' : f \in Going \/ Mild(f)
<1>1. PICK w : MildWrites(w) /\ Sends(w)
  BY DEF SendsMild
<1>2. w \in Seq(Flight) /\ \A f \in FramesOf(w) : Mild(f)
  BY <1>1 DEF MildWrites
<1>3. Going' = Going \cup FramesOf(w)
  BY <1>1, <1>2, SendsGoing
<1>4. Follow(up \o w, {"CMD_AUTH"}, {})
  <2>1. Follow(w, {"CMD_AUTH"}, {})
    BY <1>2, FollowPlain DEF Mild
  <2>2. \A f \in FramesOf(up) : f.kind \notin {"CMD_AUTH"}
    BY DEF Going
  <2> QED
    BY <1>2, <2>1, <2>2, KeptTypes, FollowConcat DEF BindInv, AuthLast
<1> QED
  BY <1>1, <1>2, <1>3, <1>4 DEF Sends, Mild

\* The attempt ends.
LEMMA BindOver ==
    ASSUME BindInv, HostKeeps, ~Attempting', Follow(up', {"CMD_AUTH"}, {}),
           Settled', BoundTogether'
    PROVE  BindInv'
<1>1. ~BindsNow'
  BY DEF Attempting, BindsNow
<1> QED
  BY <1>1, BindUnchanged
     DEF BindInv, CipherGoing, CipherHeld, AuthLast, BoundComing

LEMMA BindQuits ==
    ASSUME TypeOK, BindInv, HostKeeps, Quits
    PROVE  BindInv'
<1>1. ~Attempting' /\ result'.kind # "token"
  BY DEF Quits, Attempting
<1>2. CASE UNCHANGED up /\ result'.kind # "invalid"
  BY <1>1, <1>2, BindOver DEF BindInv, AuthLast, Settled, BoundTogether
<1>3. CASE SendsMild /\ pc.do # "conf"
  <2>1. \A f \in Going : f.kind # "CMD_AUTH"
    BY <1>3 DEF BindInv, AuthLast, Quits
  <2> QED
    BY <1>1, <1>3, <2>1, MildGoing, BindOver DEF Settled, BoundTogether
<1> QED
  BY <1>2, <1>3 DEF Quits

LEMMA BindUnsubscribe ==
    ASSUME TypeOK, BindInv, HostKeeps, Unsubscribe
    PROVE  BindInv'
<1>1. pc' = Idle /\ UNCHANGED <<result, up, dtoken>>
  BY BindUnchanged DEF Unsubscribe, link
<1>2. ~Attempting' /\ Going' = Going
  BY <1>1, AtParts DEF Attempting, Going
<1> QED
  BY <1>1, <1>2, BindOver DEF BindInv, AuthLast, Settled, BoundTogether

\* The confirmation: what the host stores is what the charger has.
LEMMA BindConfirmation ==
    ASSUME TypeOK, BindInv, HostKeeps, TakeConfirmation
    PROVE  BindInv'
<1>1. PICK f : /\ Receive(f) /\ pc.do = "conf" /\ pc' = Ended
               /\ result'.kind = Outcome(pc.what, f.kind)
               /\ result'.kind = "token" =>
                     result'.keys = derive_login(Secret, 0, 0)
  BY DEF TakeConfirmation, Secret
<1>2. f \in Coming /\ UNCHANGED <<up, dtoken>>
  BY <1>1, ReceiveComing, BindUnchanged DEF TakeConfirmation
<1>3. Attempting /\ ~Attempting' /\ Going' = Going
  BY <1>1, <1>2, AtParts DEF Attempting, Going
<1>4. /\ result'.kind = "token" => pc.what = "register" /\ f.kind = "regOk"
      /\ result'.kind = "invalid" => pc.what = "login"
  BY <1>1 DEF Outcome
<1>5. result'.kind \in {"token", "invalid"} =>
         \A g \in Going : g.kind # "CMD_AUTH"
  BY <1>2, <1>3, <1>4 DEF BindInv, BoundComing, AuthLast
<1>6. BoundTogether'
  <2> SUFFICES ASSUME result'.kind = "token"
               PROVE  result'.keys.token = dtoken'
    BY DEF BoundTogether
  <2>1. dtoken = Secret
    BY <1>2, <1>3, <1>4 DEF BindInv, BoundComing
  <2> QED
    BY <1>1, <1>2, <2>1 DEF derive_login
<1> QED
  BY <1>2, <1>3, <1>5, <1>6, BindOver DEF BindInv, AuthLast, Settled

\* No result counts while the attempt goes on.
LEMMA NoResultYet ==
    ASSUME BindInv, Attempting, UNCHANGED result
    PROVE  Settled' /\ BoundTogether'
BY DEF BindInv, Settled, BoundTogether

LEMMA BindNotYet ==
    ASSUME TypeOK, BindInv, HostKeeps, Before
    PROVE  BindInv'
<1>1. Attempting /\ ~BindsNow /\ ~BindsNow' /\ UNCHANGED result
  BY DEF Before
<1>2. /\ \A f \in Going : Mild(f) /\ f.kind # "CMD_AUTH"
      /\ \A f \in Coming : f.kind # "regOk"
  BY <1>1, BindBefore DEF Mild
<1>3. Follow(up', {"CMD_AUTH"}, {}) /\ \A f \in Going' : Mild(f)
  <2>1. CASE UNCHANGED up
    BY <1>2, <2>1 DEF BindInv, AuthLast, Going
  <2>2. CASE SendsMild
    BY <1>2, <2>2, MildGoing
  <2> QED
    BY <2>1, <2>2 DEF Before
<1>4. CipherGoing' /\ AuthLast'
  BY <1>3 DEF CipherGoing, AuthLast, Mild
<1>5. CipherHeld'
  BY <1>1, BindUnchanged DEF BindInv, CipherHeld
<1>6. BoundComing'
  BY <1>2 DEF BoundComing, HostKeeps
<1> QED
  BY <1>1, <1>4, <1>5, <1>6, BindUnchanged, NoResultYet DEF BindInv

\* The host waits while it binds, or sends what it binds with.
LEMMA BindGoesOn ==
    ASSUME TypeOK, BindInv, HostKeeps, BindsNow, BindsNow',
           UNCHANGED <<peer, result>>,
           pc.do = "conf" => pc'.do = "conf" /\ UNCHANGED up,
           \A f \in Going' : f \in Going
              \/ (f.data.kind = "didCt" => f.data.of.token = Secret),
           AuthLast'
    PROVE  BindInv'
<1>1. /\ Attempting /\ Secret' = Secret
      /\ UNCHANGED <<dtoken, dgot>> /\ HoldsCipher' = HoldsCipher
  BY BindUnchanged DEF BindsNow, Attempting, Secret
<1>2. CipherGoing'
  BY <1>1 DEF BindInv, CipherGoing, Own
<1>3. CipherHeld'
  BY <1>1 DEF BindInv, CipherHeld, Own
<1>4. BoundComing'
  <2> SUFFICES ASSUME \E f \in Coming : f.kind = "regOk"
               PROVE  /\ pc'.do = "conf" /\ pc'.what = "register"
                      /\ dtoken' = Secret'
                      /\ \A f \in Going' : f.kind # "CMD_AUTH"
    BY DEF BoundComing, HostKeeps
  <2>1. /\ pc.do = "conf" /\ dtoken = Secret
        /\ \A f \in Going : f.kind # "CMD_AUTH"
    BY <1>1 DEF BindInv, BoundComing
  <2>2. Going' = Going /\ pc'.do = "conf"
    BY <2>1 DEF Going
  <2>3. pc'.what = "register"
    BY <2>2 DEF BindsNow
  <2> QED
    BY <1>1, <2>1, <2>2, <2>3
<1> QED
  BY <1>1, <1>2, <1>3, <1>4, BindUnchanged, NoResultYet DEF BindInv

LEMMA BindWaits ==
    ASSUME TypeOK, BindInv, HostKeeps, Waits
    PROVE  BindInv'
<1>1. BindsNow /\ UNCHANGED <<pc, peer, result, up>>
  BY DEF Waits
<1>2. BindsNow' /\ Going' = Going /\ Attempting
  BY <1>1 DEF BindsNow, Going, Attempting
<1>3. AuthLast'
  BY <1>1, <1>2 DEF BindInv, AuthLast
<1> QED
  BY <1>1, <1>2, <1>3, BindGoesOn

LEMMA BindSendsCipher ==
    ASSUME TypeOK, BindInv, HostKeeps, SendsCipher
    PROVE  BindInv'
<1> DEFINE p == Payload("didCt")
           w == On("avdtp", Parcels(p))
<1>1. /\ pc.do = "rdy" /\ pc.what = "didCt" /\ UNCHANGED <<peer, result>>
      /\ pc'.do = "ok" /\ pc'.what = "didCt" /\ Sends(w)
  BY DEF SendsCipher
<1>2. p = DidCipher(Secret, remote)
  BY DEF Payload, Secret
<1>3. p.of.token = Secret
  BY <1>2 DEF DidCipher, Blob, derive_login
<1>4. Parcels(p) \in Seq(FrameSet)
  BY PayloadType, ParcelsType DEF Sending
<1>5. w \in Seq(Flight) /\ FramesOf(w) = Elements(Parcels(p))
  BY <1>4, OnType, FramesOn DEF Channels
<1>6. \A f \in FramesOf(w) : f.kind = "parcel" /\ f.data = p
  BY <1>5, ParcelsElements
<1> HIDE DEF w, p
<1>7. Going' = Going \cup FramesOf(w)
  BY <1>1, <1>5, SendsGoing
<1>8. BindsNow /\ BindsNow' /\ Attempting
  BY <1>1 DEF BindsNow, Attempting
<1>9. \A f \in Going : f.kind # "CMD_AUTH"
  BY <1>1, <1>8 DEF BindInv, AuthLast
<1>10. AuthLast'
  <2>1. Follow(w, {"CMD_AUTH"}, {})
    BY <1>5, <1>6, FollowPlain
  <2>2. Follow(up \o w, {"CMD_AUTH"}, {})
    BY <1>5, <1>9, <2>1, KeptTypes, FollowConcat
       DEF BindInv, AuthLast, Going
  <2> QED
    BY <1>1, <1>6, <1>7, <1>9, <2>2 DEF AuthLast, Sends
<1>11. \A f \in Going' : f \in Going
          \/ (f.data.kind = "didCt" => f.data.of.token = Secret)
  BY <1>3, <1>6, <1>7
<1> QED
  BY <1>1, <1>8, <1>10, <1>11, BindGoesOn

LEMMA BindCommits ==
    ASSUME TypeOK, BindInv, HostKeeps, Commits
    PROVE  BindInv'
<1> DEFINE w == Write("upnp", "CMD_AUTH")
<1>1. /\ pc.do = "ok" /\ pc.what = "didCt" /\ UNCHANGED <<peer, result>>
      /\ pc'.do = "conf" /\ pc'.what = "register" /\ Sends(w)
  BY DEF Commits
<1>2. w \in Seq(Flight) /\ FramesOf(w) = {Short("CMD_AUTH")}
  BY WriteType, FramesWrite DEF ShortKinds, Channels
<1>3. BindsNow /\ BindsNow' /\ Attempting
  BY <1>1 DEF BindsNow, Attempting
<1>4. Follow(w, {"CMD_AUTH"}, {})
  BY <1>2, FollowPlain
<1> HIDE DEF w
<1>5. Going' = Going \cup {Short("CMD_AUTH")}
  BY <1>1, <1>2, SendsGoing
<1>6. \A f \in Going : f.kind # "CMD_AUTH"
  BY <1>1, <1>3 DEF BindInv, AuthLast
<1>7. Follow(up \o w, {"CMD_AUTH"}, {})
  BY <1>2, <1>4, <1>6, KeptTypes, FollowConcat DEF BindInv, AuthLast, Going
<1>8. AuthLast'
  BY <1>1, <1>7 DEF AuthLast, Sends
<1>9. \A f \in Going' : f \in Going
          \/ (f.data.kind = "didCt" => f.data.of.token = Secret)
  BY <1>5, ShortFields, EmptyKind
<1> QED
  BY <1>1, <1>3, <1>8, <1>9, BindGoesOn

\* The host takes the key the secret is made of: the charger holds nothing
\* that was made with another.
LEMMA BindTakesKey ==
    ASSUME TypeOK, BindInv, HostKeeps, TakesKey
    PROVE  BindInv'
<1> DEFINE before == Write("avdtp", "ok")
           a == On("avdtp", <<Announcement("didCt")>>)
<1>1. /\ pc.do = "parts" /\ KeyAtHand /\ UNCHANGED result
      /\ Announces(before, "didCt")
  BY DEF TakesKey
<1>2. pc'.do = "rdy" /\ pc'.what = "didCt" /\ Sends(before \o a)
  BY <1>1, AnnouncesPoint DEF Announces
<1>3. Attempting /\ ~BindsNow /\ BindsNow' /\ Attempting'
  BY <1>1, <1>2 DEF BindsNow, Attempting
<1>4. before \in Seq(Flight) /\ FramesOf(before) = {Short("ok")}
  BY WriteType, FramesWrite DEF ShortKinds, Channels
<1>5. <<Announcement("didCt")>> \in Seq(FrameSet)
  BY AnnouncementType DEF Sending
<1>6. a \in Seq(Flight) /\ FramesOf(a) = {Announcement("didCt")}
  BY <1>5, OnType, FramesOn, ElementsOne DEF Channels
<1> HIDE DEF before, a
<1>7. /\ before \o a \in Seq(Flight)
      /\ FramesOf(before \o a) = {Short("ok"), Announcement("didCt")}
  BY <1>4, <1>6, FramesConcat, ConcatProperties
<1>8. Going' = Going \cup {Short("ok"), Announcement("didCt")}
  BY <1>2, <1>7, SendsGoing
<1>9. \A f \in {Short("ok"), Announcement("didCt")} :
         f.kind # "CMD_AUTH" /\ f.data.kind # "didCt"
  BY ShortFields, AnnouncementFields, EmptyKind
<1>10. /\ \A f \in Going : f.kind # "CMD_AUTH" /\ f.data.kind # "didCt"
       /\ \A f \in Coming : f.kind # "regOk"
  BY <1>3, BindBefore DEF Mild
<1>11. CipherGoing'
  BY <1>3, <1>8, <1>9, <1>10 DEF CipherGoing
<1>12. CipherHeld'
  <2>1. ~HoldsCipher
    BY <1>1, <1>3 DEF BindInv, CipherHeld
  <2> QED
    BY <1>3, <2>1, BindUnchanged DEF CipherHeld
<1>13. AuthLast'
  <2>1. Follow(before \o a, {"CMD_AUTH"}, {})
    BY <1>7, <1>9, FollowPlain
  <2>2. Follow(up \o (before \o a), {"CMD_AUTH"}, {})
    BY <1>7, <1>10, <2>1, KeptTypes, FollowConcat DEF BindInv, AuthLast, Going
  <2> QED
    BY <1>2, <1>8, <1>9, <1>10, <2>2 DEF AuthLast, Sends
<1>14. BoundComing'
  BY <1>10 DEF BoundComing, HostKeeps
<1> QED
  BY <1>1, <1>3, <1>11, <1>12, <1>13, <1>14, BindUnchanged, NoResultYet DEF BindInv

LEMMA BindNewClient ==
    ASSUME TypeOK, BindInv, NewClient, ~Slow
    PROVE  BindInv'
<1>1. /\ up = <<>> /\ down = <<>> /\ up' = up /\ down' = down
      /\ pc' = At("ready", "") /\ result' = NoResult /\ frames' = <<>>
  BY DEF NewClient, InTime, link
<1>2. FramesOf(<<>>) = {}
  BY DEF FramesOf
<1>3. Coming' = {} /\ Going' = {}
  BY <1>1, <1>2, EmptyComing DEF Going
<1>4. ~BindsNow' /\ result'.kind = "none"
  <2>1. pc'.do = "ready" /\ result'.kind = "none"
    BY <1>1, AtParts DEF NoResult
  <2> QED
    BY <2>1 DEF BindsNow
<1>5. ~KeyAtHand'
  <2>1. frames' = <<>>
    BY <1>1
  <2>2. DOMAIN frames' = {}
    BY <2>1
  <2> QED
    BY <1>3, <2>2 DEF KeyAtHand
<1>6. Follow(up', {"CMD_AUTH"}, {})
  BY <1>1, FollowNone
<1>7. WholeHeld'
  BY DEF NewClient, charger, BindInv, WholeHeld
<1> QED
  BY <1>3, <1>4, <1>5, <1>6, <1>7 DEF BindInv, CipherGoing, CipherHeld,
     AuthLast, BoundComing, Settled, BoundTogether

LEMMA BindHost ==
    ASSUME TypeOK, BindInv, Host, ~Slow
    PROVE  BindInv'
<1>1. CASE NewClient
  BY <1>1, BindNewClient
<1>2. CASE ~NewClient
  <2>1. HostKeeps
    BY <1>2, HostFrame, HostCollects DEF HostKeeps
  <2> QED
    BY <1>2, <2>1, BindSteps, BindUnsubscribe, BindConfirmation, BindQuits,
       BindNotYet, BindWaits, BindTakesKey, BindSendsCipher, BindCommits
<1> QED
  BY <1>1, <1>2

-----------------------------------------------------------------------------
(* What the charger puts on the link.                                      *)

\* A value it offers, and the steps that make it offer one.
Offers(f) ==
    /\ dwhat \in Taking
    /\ \/ f = Announcement(dwhat) /\ dmode = "offer"
       \/ /\ dwhat \in {"devRand", "devProof"}
          /\ f = Inline(dwhat, DPayload(dwhat)) /\ dmode = "ack"
OfferStep == \/ DCommand /\ dwhat' = "did"
             \/ DParcel /\ dwhat = "pub" /\ dwhat' = "peerPub"
             \/ DParcel /\ dwhat = "appRand" /\ dwhat' = "devRand"
             \/ DTaken /\ dwhat = "devRand" /\ dwhat' = "devProof"
Offered(f) == Offers(f)' /\ OfferStep
Sent(f) == /\ DReady /\ f.kind = "parcel" /\ f.data = DPayload(dwhat)
           /\ f.n \in 1..ParcelCount(f.data.kind)
Greeted(f) == \/ \E kind \in {"challenge", "rdy", "ok"} : f = Short(kind)
              \/ f = Frame("announce", "01", 2, Empty)
Confirmed(f) ==
    \/ DParcel /\ \E kind \in {"loginOk", "loginErr"} :
                     DHasProof(kind) /\ f = Short(kind)
    \/ DConfirms /\ \E kind \in {"regOk", "regErr"} : f = Short(kind)

LEMMA ConfirmComing ==
    ASSUME TypeOK, UNCHANGED queue, NEW kind \in ShortKinds,
           down' = down \o On("upnp", <<Short(kind)>>)
    PROVE  Coming' = Coming \cup {Short(kind)}
<1>1. PICK w : w = On("upnp", <<Short(kind)>>)
  OBVIOUS
<1>2. <<Short(kind)>> \in Seq(FrameSet) /\ "upnp" \in Channels
  BY ShortType DEF Channels
<1>3. w \in Seq(Flight)
  BY <1>1, <1>2, OnType
<1>4. FramesOf(w) = {Short(kind)}
  BY <1>1, FramesOn, ElementsOne
<1>5. down' = down \o w
  BY <1>1
<1> QED
  BY <1>3, <1>4, <1>5, TellsComing

LEMMA DOffersTells ==
    ASSUME TypeOK, NEW before \in Seq(FrameSet), NEW what \in Taking, NEW data,
           what \in {"devRand", "devProof"} =>
              data \in Blobs /\ data = DPayload(what)',
           DOffers(before, what, data), UNCHANGED queue,
           dwhat' = what => OfferStep
    PROVE  \A f \in Coming' : f \in Coming \/ f \in Elements(before) \/ Offered(f)
<1>1. \/ /\ what \in {"devRand", "devProof"}
         /\ Coming' = Coming \cup Elements(before) \cup {Inline(what, data)}
         /\ dmode' = "ack" /\ dwhat' = what
      \/ /\ Coming' = Coming \cup Elements(before) \cup {Announcement(what)}
         /\ dmode' = "offer" /\ dwhat' = what
  BY DOffersComing
<1> QED
  BY <1>1 DEF Offered, Offers

LEMMA ChargerTells ==
    ASSUME TypeOK, Charger
    PROVE  \A f \in Coming' : \/ f \in Coming \/ Offered(f) \/ Sent(f)
                              \/ Greeted(f) \/ Confirmed(f)
<1> DEFINE Told(f) == \/ f \in Coming \/ Offered(f) \/ Sent(f)
                      \/ Greeted(f) \/ Confirmed(f)
<1>1. UNCHANGED queue
  BY DEF Charger, client, inbox
<1>2. ASSUME NEW kind \in {"challenge", "rdy", "ok"}, Tells(<<Short(kind)>>)
      PROVE  \A f \in Coming' : Told(f)
  <2>1. <<Short(kind)>> \in Seq(FrameSet)
    BY ShortType DEF ShortKinds
  <2>2. Coming' = Coming \cup {Short(kind)}
    BY <1>1, <1>2, <2>1, TellsFrames, ElementsOne
  <2> QED
    BY <1>2, <2>2 DEF Greeted
<1>3. CASE UNCHANGED down
  BY <1>1, <1>3 DEF Coming
<1>4. CASE DCommand
  <2>1. CASE Tells(<<Frame("announce", "01", 2, Empty)>>)
    <3>1. <<Frame("announce", "01", 2, Empty)>> \in Seq(FrameSet)
      BY BlankTypes DEF Frame, FrameSet
    <3>2. Coming' = Coming \cup {Frame("announce", "01", 2, Empty)}
      BY <1>1, <2>1, <3>1, TellsFrames, ElementsOne
    <3> QED
      BY <3>2 DEF Greeted
  <2>2. CASE Tells(<<Short("challenge")>>)
    BY <1>2, <2>2
  <2>3. CASE DOffers(<<>>, "did", Empty)
    <3>1. Elements(<<>>) = {} /\ <<>> \in Seq(FrameSet)
      BY EmptySeq DEF Elements
    <3> QED
      BY <1>1, <1>4, <2>3, <3>1, DOffersTells DEF Taking, OfferStep
  <2> QED
    BY <1>3, <1>4, <2>1, <2>2, <2>3 DEF DCommand
<1>5. CASE DEcho \/ DAnnounced
  BY <1>2, <1>3, <1>5 DEF DEcho, DAnnounced
<1>6. CASE DParcel /\ UNCHANGED drand
  <2>1. CASE DGathersOn
    BY <1>3, <2>1 DEF DGathersOn
  <2>2. CASE DHasNumber("pub", "peerPub")
    BY <1>6, <2>2 DEF DHasNumber, Offered, Offers, OfferStep, Greeted, Taking
  <2>3. CASE DHasNumber("appRand", "devRand")
    <3>1. DPayload("devRand")' = Number("devRand", 0, drand)
      BY <1>6 DEF DPayload
    <3> QED
      BY <1>6, <2>3, <3>1
         DEF DHasNumber, Offered, Offers, OfferStep, Greeted, Taking
  <2>4. CASE DHasDid
    BY <2>4 DEF DHasDid, Greeted
  <2>5. ASSUME NEW kind \in {"loginOk", "loginErr"}, DHasProof(kind)
        PROVE  \A f \in Coming' : Told(f)
    BY <1>6, <2>5 DEF DHasProof, Greeted, Confirmed
  <2> QED
    BY <1>6, <2>1, <2>2, <2>3, <2>4, <2>5, DParcelCases
       DEF Charger, ChargerFrame
<1>7. CASE DReady
  <2>1. dwhat \in Taking
    BY <1>7, ModesOf, ChargerKept DEF DReady
  <2>2. Parcels(DPayload(dwhat)) \in Seq(FrameSet)
    BY <2>1, DPayloadType, ParcelsType
  <2>3. Coming' = Coming \cup Elements(Parcels(DPayload(dwhat)))
    BY <1>1, <1>7, <2>2, TellsFrames DEF DReady
  <2>4. \A f \in Elements(Parcels(DPayload(dwhat))) : Sent(f)
    BY <1>7, ParcelsElements DEF Sent
  <2> QED
    BY <2>3, <2>4
<1>8. CASE DTaken /\ UNCHANGED <<dtoken, dapp, drand>>
  <2>1. DevProof(DKeys) \in Blobs
    BY KeptTypes DEF DevProof, Blob, Blobs, Size
  <2>2. DPayload("devProof")' = DevProof(DKeys)
    BY <1>8 DEF DPayload, DKeys
  <2>3. \/ UNCHANGED down
        \/ dwhat = "devRand" /\ DOffers(<<>>, "devProof", DevProof(DKeys))
    BY <1>8 DEF DTaken, DNext
  <2>4. Elements(<<>>) = {} /\ <<>> \in Seq(FrameSet)
    BY EmptySeq DEF Elements
  <2>5. CASE dwhat = "devRand" /\ DOffers(<<>>, "devProof", DevProof(DKeys))
    <3>1. \A f \in Coming' : f \in Coming \/ f \in Elements(<<>>) \/ Offered(f)
      <4>1. dwhat' = "devProof" => OfferStep
        BY <1>8, <2>5 DEF OfferStep
      <4> QED
        BY <1>1, <2>1, <2>2, <2>4, <2>5, <4>1, DOffersTells DEF Taking
    <3> QED
      BY <2>4, <3>1
  <2> QED
    BY <1>3, <2>3, <2>5
<1>9. CASE DConfirms
  <2>1. PICK kind \in {"regOk", "regErr"} :
          down' = down \o On("upnp", <<Short(kind)>>)
    BY <1>9 DEF DConfirms
  <2>2. Coming' = Coming \cup {Short(kind)}
    BY <1>1, <2>1, ConfirmComing DEF ShortKinds
  <2> QED
    BY <1>9, <2>2 DEF Confirmed
<1> QED
  BY <1>3, <1>4, <1>5, <1>6, <1>7, <1>8, <1>9 DEF Charger

-----------------------------------------------------------------------------
(* So do the link and the charger.                                         *)

LEMMA BindLink ==
    ASSUME TypeOK, BindInv, Deliver \/ Loses \/ Noise \/ LinkFails
    PROVE  BindInv'
<1>1. CASE Deliver \/ Loses \/ Noise
  <2>1. UNCHANGED <<pc, result, attempts, peer, frames, dgot, dmode, dwhat,
                    dtoken>>
    BY <1>1 DEF Deliver, Loses, Noise, client, caller, charger, locals
  <2>2. Coming' \subseteq Coming \cup Oddities /\ Going' \subseteq Going
    BY <1>1, DeliverComing, LosesComing, NoiseComing DEF Deliver, Noise, Going
  <2>3. \A f \in Coming' :
           (f.kind = "regOk" \/ OfKey(f.data)) => f \in Coming
    BY <2>2, OddFields, EmptyKind, AuthConstants DEF OfKey
  <2>4. /\ Attempting' = Attempting /\ BindsNow' = BindsNow
        /\ Secret' = Secret /\ HoldsCipher' = HoldsCipher
    BY <2>1 DEF Attempting, BindsNow, Secret, HoldsCipher
  <2>5. Follow(up', {"CMD_AUTH"}, {})
    <3>1. up' = up \/ (up # <<>> /\ up' = Tail(up))
      BY <1>1 DEF Deliver, Loses, Noise, LosesNotification, LosesWrite
    <3>2. up \in Seq(Flight) /\ Follow(up, {"CMD_AUTH"}, {})
      BY KeptTypes DEF BindInv, AuthLast
    <3>3. up # <<>> => Follow(Tail(up), {"CMD_AUTH"}, {})
      BY <3>2, FollowTail
    <3> QED
      BY <3>1, <3>2, <3>3
  <2>6. KeyAtHand' => KeyAtHand
    BY <2>1, <2>3 DEF KeyAtHand
  <2>7. CipherGoing' /\ AuthLast'
    BY <2>1, <2>2, <2>4, <2>5 DEF BindInv, CipherGoing, AuthLast, Own
  <2>8. CipherHeld' /\ WholeHeld'
    BY <2>1, <2>4, <2>6 DEF BindInv, CipherHeld, WholeHeld, Own
  <2>9. BoundComing'
    BY <2>1, <2>2, <2>3, <2>4 DEF BindInv, BoundComing
  <2>10. Settled' /\ BoundTogether'
    BY <2>1, <2>2, <2>4 DEF BindInv, Settled, BoundTogether
  <2> QED
    BY <2>7, <2>8, <2>9, <2>10 DEF BindInv
<1>2. CASE LinkFails
  <2>1. /\ pc' = At("over", "") /\ result' = [kind |-> "link", keys |-> NoKeys]
        /\ up' = <<>> /\ dmode' = "idle"
    BY <1>2 DEF LinkFails
  <2>2. pc'.do = "over" /\ result'.kind = "link"
    BY <2>1, AtParts
  <2>3. ~Attempting' /\ ~BindsNow'
    BY <2>2 DEF Attempting, BindsNow
  <2>4. Follow(up', {"CMD_AUTH"}, {})
    BY <2>1, FollowNone
  <2> QED
    BY <2>1, <2>2, <2>3, <2>4 DEF BindInv, CipherGoing, CipherHeld, WholeHeld,
       AuthLast, BoundComing, Settled, BoundTogether
<1> QED
  BY <1>1, <1>2

\* What the charger has collected, and how it comes to hold a ciphertext.
LEMMA ChargerHolds ==
    ASSUME TypeOK, Charger
    PROVE  /\ \A i \in DOMAIN dgot' :
                 \/ i \in DOMAIN dgot /\ dgot'[i] = dgot[i]
                 \/ dgot'[i] = Head(up).frame.data
           /\ HoldsCipher' =>
                 HoldsCipher \/ (CipherAnnounced(Head(up).frame) /\ DOMAIN dgot' = {})
           /\ WholeHeld => WholeHeld'
<1>1. CASE DParcel
  <2>1. /\ dmode = "fill" /\ dgot' = DGathered
        /\ \/ DGathersOn \/ DHasNumber("pub", "peerPub")
           \/ DHasNumber("appRand", "devRand") \/ DHasDid
           \/ DHasProof("loginOk") \/ DHasProof("loginErr")
    BY <1>1, DParcelCases DEF Charger, ChargerFrame
  <2>2. CASE DHasDid
    <3>1. DOMAIN dgot' = 1..ParcelCount("didCt") /\ dwhat = "didCt"
      BY <2>1, <2>2 DEF DHasDid, DWhole
    <3>2. ParcelCount("didCt") \in Nat \ {0}
      BY CountType DEF Size
    <3>3. 1 \in DOMAIN dgot'
      BY <3>1, <3>2
    <3> QED
      BY <2>1, <3>1, <3>3 DEF HoldsCipher, WholeHeld, DGathered
  <2>3. CASE ~DHasDid
    <3>1. /\ HoldsCipher' => HoldsCipher
          /\ dmode' # "auth"
      BY <2>1, <2>3 DEF DGathersOn, DHasNumber, DHasProof, HoldsCipher
    <3> QED
      BY <2>1, <3>1 DEF WholeHeld, DGathered
  <2> QED
    BY <2>2, <2>3
<1>2. CASE DAnnounced
  <2>1. /\ dgot' = <<>> /\ dmode' = "fill" /\ dwhat' = dwhat
        /\ Head(up).frame.kind = "announce" /\ Head(up).frame.code = Code[dwhat]
    BY <1>2 DEF DAnnounced, DGoes, Hears
  <2>2. DOMAIN dgot' = {}
    BY <2>1
  <2> QED
    BY <2>1, <2>2 DEF HoldsCipher, CipherAnnounced, WholeHeld, Code
<1>3. CASE UNCHANGED dgot /\ ~DAnnounced /\ ~DParcel
  <2>1. UNCHANGED <<dmode, dwhat>> \/ dmode' \notin {"fill", "auth"}
    BY <1>3 DEF Charger, DCommand, DEcho, DReady, DTaken, DConfirms, DIgnores,
       DNext, DOffers, DGoes
  <2> QED
    BY <1>3, <2>1 DEF HoldsCipher, WholeHeld
<1> QED
  BY <1>1, <1>2, <1>3 DEF Charger

\* Only CMD_AUTH binds the charger, and what it is bound with it has collected.
LEMMA ChargerBinds ==
    ASSUME TypeOK, Charger
    PROVE  \/ /\ UNCHANGED dtoken
              /\ \A f \in Coming' : f.kind = "regOk" => f \in Coming
           \/ /\ Head(up).frame.kind = "CMD_AUTH"
              /\ dmode = "auth" /\ HoldsCipher
              /\ (\E f \in Coming' : f.kind = "regOk" /\ f \notin Coming) \/ dtoken' # dtoken
                    => dgot[1].kind = "didCt" /\ dtoken' = dgot[1].of.token
<1>1. CASE DConfirms
  <2> DEFINE secret == derive_register(dapp, drand)
             joined == Joined(dgot, ParcelCount("didCt"))
             good == dtoken = NoToken /\ joined = DidCipher(secret, 0)
  <2>1. /\ Head(up).frame.kind = "CMD_AUTH" /\ dmode = "auth" /\ HoldsCipher
        /\ dtoken' = IF good THEN secret ELSE dtoken
        /\ down' = down \o On("upnp", <<Short(IF good THEN "regOk" ELSE "regErr")>>)
    <3>1. dmode = "auth" => dwhat = "didCt"
      BY ChargerKept DEF Modes
    <3> QED
      BY <1>1, <3>1 DEF DConfirms, Hears, HoldsCipher
  <2>2. CASE good
    <3>1. /\ DidCipher(secret, 0).kind = "didCt"
          /\ DidCipher(secret, 0).of.token = secret
      BY DEF DidCipher, Blob, derive_login
    <3>2. joined = dgot[1]
      BY <2>2, <3>1, EmptyKind DEF Joined
    <3> QED
      BY <2>1, <2>2, <3>1, <3>2
  <2>3. CASE ~good
    <3>1. UNCHANGED queue
      BY DEF Charger, client, inbox
    <3>2. down' = down \o On("upnp", <<Short("regErr")>>) /\ UNCHANGED dtoken
      BY <2>1, <2>3
    <3>3. Coming' = Coming \cup {Short("regErr")}
      BY <3>1, <3>2, ConfirmComing DEF ShortKinds
    <3> QED
      BY <3>2, <3>3, ShortFields
  <2> QED
    BY <2>2, <2>3
<1>2. CASE ~DConfirms
  <2>1. UNCHANGED dtoken
    BY <1>2 DEF Charger
  <2>2. ASSUME NEW f, Offered(f) \/ Sent(f) \/ Greeted(f) \/ Confirmed(f)
        PROVE  f.kind # "regOk"
    <3>1. CASE Offered(f) \/ Sent(f)
      BY <3>1, AnnouncementFields, InlineFields DEF Offered, Offers, Sent
    <3>2. CASE Greeted(f)
      <4>1. Frame("announce", "01", 2, Empty).kind = "announce"
        BY DEF Frame
      <4> QED
        BY <3>2, <4>1, ShortFields DEF Greeted
    <3>3. CASE Confirmed(f)
      BY <1>2, <3>3, ShortFields DEF Confirmed
    <3> QED
      BY <2>2, <3>1, <3>2, <3>3
  <2> QED
    BY <2>1, <2>2, ChargerTells
<1> QED
  BY <1>1, <1>2

\* A public key comes from a charger that is sending it.
LEMMA ChargerKey ==
    ASSUME TypeOK, Charger, NEW f \in Coming', OfKey(f.data)
    PROVE  f \in Coming \/ dmode' = "send"
<1>1. CASE Offered(f)
  <2>1. \/ f = Announcement(dwhat)'
        \/ dwhat' \in {"devRand", "devProof"} /\ f = Inline(dwhat, DPayload(dwhat))'
    BY <1>1 DEF Offered, Offers
  <2>2. dwhat' \in {"devRand", "devProof"} => DPayload(dwhat)'.kind = dwhat'
    BY DEF DPayload, DevProof, Number, Blob
  <2>3. f.data.kind \in {"none", "devRand", "devProof"}
    BY <2>1, <2>2, AnnouncementFields, InlineFields, EmptyKind
  <2> QED
    BY <2>3 DEF OfKey
<1>2. CASE Sent(f)
  BY <1>2 DEF Sent, DReady, DGoes
<1>3. CASE Greeted(f) \/ Confirmed(f)
  <2>1. Frame("announce", "01", 2, Empty).data = Empty
    BY DEF Frame
  <2>2. f.data = Empty
    BY <1>3, <2>1, ShortFields DEF Greeted, Confirmed
  <2> QED
    BY <2>2, EmptyKind DEF OfKey
<1> QED
  BY <1>1, <1>2, <1>3, ChargerTells

LEMMA BindCharger ==
    ASSUME TypeOK, BindInv, Charger
    PROVE  BindInv'
<1> DEFINE h == Head(up).frame
<1>1. UNCHANGED <<pc, result, attempts, peer, frames>>
  BY DEF Charger, client, caller, locals
<1>2. Heard /\ h \in Going /\ Going' \subseteq Going
  BY ChargerHears
<1>3. Attempting' = Attempting /\ BindsNow' = BindsNow /\ Secret' = Secret
  BY <1>1 DEF Attempting, BindsNow, Secret
<1>4. /\ Follow(up', {"CMD_AUTH"}, {})
      /\ h.kind = "CMD_AUTH" => Going' = {}
  <2>1. /\ Follow(Tail(up), {"CMD_AUTH"}, {})
        /\ h.kind = "CMD_AUTH" => \A f \in FramesOf(Tail(up)) : f.kind \in {}
    BY <1>2, KeptTypes, FollowTail DEF Heard, BindInv, AuthLast
  <2> QED
    BY <1>2, <2>1 DEF Heard, Going
<1>5. /\ BindsNow /\ HoldsCipher' => \A i \in DOMAIN dgot' : Own(dgot'[i])
      /\ WholeHeld'
  <2>1. /\ \A i \in DOMAIN dgot' :
              \/ i \in DOMAIN dgot /\ dgot'[i] = dgot[i]
              \/ dgot'[i] = h.data
        /\ HoldsCipher' => HoldsCipher \/ DOMAIN dgot' = {}
        /\ WholeHeld'
    BY ChargerHolds DEF BindInv
  <2>2. BindsNow => Own(h.data)
    <3>1. BindsNow => Attempting
      BY DEF BindsNow, Attempting
    <3> QED
      BY <1>2, <3>1 DEF BindInv, CipherGoing, Own
  <2>3. BindsNow /\ HoldsCipher => \A i \in DOMAIN dgot : Own(dgot[i])
    BY DEF BindInv, CipherHeld
  <2> QED
    BY <2>1, <2>2, <2>3
<1>6. CipherGoing' /\ AuthLast'
  BY <1>1, <1>2, <1>3, <1>4 DEF BindInv, CipherGoing, AuthLast, Own
<1>7. CipherHeld'
  <2>1. ASSUME Attempting, ~BindsNow, KeyAtHand'
        PROVE  ~HoldsCipher'
    <3>1. CASE dmode' = "send"
      BY <3>1 DEF HoldsCipher
    <3>2. CASE dmode' # "send"
      <4>1. KeyAtHand
        BY <1>1, <2>1, <3>2, ChargerKey DEF KeyAtHand
      <4>2. ~HoldsCipher /\ ~CipherAnnounced(h)
        BY <1>2, <2>1, <4>1 DEF BindInv, CipherHeld, CipherGoing
      <4> QED
        BY <4>2, ChargerHolds
    <3> QED
      BY <3>1, <3>2
  <2> QED
    BY <1>3, <1>5, <2>1 DEF CipherHeld, Own
<1>8. CASE /\ UNCHANGED dtoken
           /\ \A f \in Coming' : f.kind = "regOk" => f \in Coming
  <2>1. BoundComing'
    BY <1>1, <1>2, <1>3, <1>8 DEF BindInv, BoundComing
  <2>2. Settled' /\ BoundTogether'
    BY <1>1, <1>2, <1>3, <1>8 DEF BindInv, Settled, BoundTogether
  <2> QED
    BY <1>5, <1>6, <1>7, <2>1, <2>2 DEF BindInv
<1>9. CASE /\ h.kind = "CMD_AUTH" /\ dmode = "auth" /\ HoldsCipher
           /\ (\E f \in Coming' : f.kind = "regOk" /\ f \notin Coming)
                 \/ dtoken' # dtoken
                 => dgot[1].kind = "didCt" /\ dtoken' = dgot[1].of.token
  <2>1. /\ result.kind \notin {"token", "invalid"}
        /\ Attempting => /\ pc.do = "conf" /\ pc.what = "register"
                         /\ \A f \in Coming : f.kind # "regOk"
    BY <1>2, <1>9 DEF BindInv, Settled, AuthLast, BoundComing
  <2>2. Settled' /\ BoundTogether'
    BY <1>1, <2>1 DEF Settled, BoundTogether
  <2>3. BoundComing'
    <3> SUFFICES ASSUME Attempting, \E f \in Coming' : f.kind = "regOk"
                 PROVE  /\ pc.do = "conf" /\ pc.what = "register"
                        /\ dtoken' = Secret
                        /\ \A f \in Going' : f.kind # "CMD_AUTH"
      BY <1>1, <1>3 DEF BoundComing
    <3>1. dgot[1].kind = "didCt" /\ dtoken' = dgot[1].of.token
      BY <1>9, <2>1
    <3>2. BindsNow
      BY <2>1 DEF BindsNow
    <3>3. 1 \in DOMAIN dgot
      BY <1>9 DEF BindInv, WholeHeld
    <3>4. Own(dgot[1])
      BY <1>9, <3>2, <3>3 DEF BindInv, CipherHeld
    <3> QED
      BY <1>4, <1>9, <2>1, <3>1, <3>4 DEF Own
  <2> QED
    BY <1>5, <1>6, <1>7, <2>2, <2>3 DEF BindInv
<1> QED
  BY <1>8, <1>9, ChargerBinds

LEMMA BindStep == ~Slow /\ TypeOK /\ BindInv /\ [Next]_vars => BindInv'
<1> SUFFICES ASSUME ~Slow, TypeOK, BindInv, [Next]_vars PROVE BindInv'
  OBVIOUS
<1>1. CASE UNCHANGED vars
  <2>1. UNCHANGED <<pc, result, attempts, peer, frames, queue, up, down, dgot,
                    dmode, dwhat, dtoken>>
    BY <1>1 DEF vars, client, caller, charger, locals, inbox, link
  <2>2. /\ Attempting' = Attempting /\ BindsNow' = BindsNow
        /\ Secret' = Secret /\ HoldsCipher' = HoldsCipher
        /\ Coming' = Coming /\ Going' = Going
    BY <2>1 DEF Attempting, BindsNow, Secret, HoldsCipher, Coming, Going
  <2>3. CipherGoing' /\ CipherHeld' /\ WholeHeld'
    BY <2>1, <2>2 DEF BindInv, CipherGoing, CipherHeld, WholeHeld, KeyAtHand,
       Own
  <2> QED
    BY <2>1, <2>2, <2>3
       DEF BindInv, AuthLast, BoundComing, Settled, BoundTogether
<1>2. CASE Next
  BY <1>2, BindHost, BindLink, BindCharger DEF Next
<1> QED
  BY <1>1, <1>2

LEMMA Binding ==
    ASSUME ~Slow
    PROVE  Spec => [](TypeOK /\ BindInv)
<1>1. BindInv /\ TypeOK /\ [Next]_vars => BindInv'
  BY BindStep
<1> QED
  BY <1>1, InitType, StepType, BindInit, PTL DEF Spec

\* When register() returns a token, the charger is bound with that very token
\* and stays so, for any hints and presentations of the DID, any MTU, queue
\* capacity and number of attempts and faults.  It needs frames that do not
\* outlive the timeout of a receive.
THEOREM Bound == ~Slow => (Spec => []BoundTogether)
<1> SUFFICES ASSUME ~Slow PROVE Spec => []BoundTogether
  OBVIOUS
<1>1. BindInv => BoundTogether
  BY DEF BindInv
<1> QED
  BY <1>1, Binding, PTL

-----------------------------------------------------------------------------
(* The transfer of a value: the invariant.                                 *)

\* Where the host has not yet the charger's first value: before it offers its
\* own number or key, and while it offers it and awaits the answer.
Early == \/ pc.do \in {"ready", "chal1", "chal2", "greeted", "open"}
         \/ pc.do \in {"head", "parts"} /\ pc.what = "did"
Opening == \/ pc.do \in {"rdy", "ok"} /\ pc.what \in {"appRand", "pub"}
           \/ pc.do = "head" /\ pc.what \in {"devRand", "peerPub"}
Unanswered == Early \/ Opening
AtDid == pc.do = "head" /\ pc.what = "did"
AtProof == pc.do = "head" /\ pc.what = "devProof"

\* A frame the host would take for the offer of a value.
IsOffer(f) == /\ f.kind = "inline" \/ (f.kind = "announce" /\ f.n # 0)
              /\ f.code \in {"03", "0c", "0d"} \/ (f.code = "00" /\ AtDid)
OfferSet == {f \in FrameSet : IsOffer(f)}
Piece(f) == f.kind = "parcel" /\ f.data # Empty
OnlyParcels == \A f \in Going : f.kind = "parcel"

\* What the host has sent is in the order of the procedure.
Quiet == pc.do = "ready" => up = <<>> /\ Coming \subseteq Oddities
Asked == AtDid => up = <<>> \/ Tail(up) = <<>>
NothingYet == Early => \A f \in Going : f.kind # "parcel"
ParcelsLast == Unanswered => Follow(up, {"parcel"}, {"parcel"})
AckLast == AtProof => /\ \A f \in Going : f.kind \in {"parcel", "ok", "ack"}
                      /\ Follow(up, {"ok", "ack"}, {})
Announcing == Attempting => \A f \in Going :
                 f.kind = "announce" /\ f.code \in {"0b", "03"} => Opening
Asking == Attempting => \A f \in Going : f.kind = "rdy" => pc.do = "parts"
GoingInv == /\ Quiet /\ Asked /\ NothingYet /\ ParcelsLast /\ AckLast
            /\ Announcing /\ Asking

\* The charger waits for the host's number only while the host waits for its
\* answer, and is told that its own has arrived only then.
Filling == Attempting /\ dmode = "fill" /\ dwhat \in {"appRand", "pub"}
              => Unanswered
Acknowledged ==
    Attempting /\ dmode \in {"send", "ack"} /\ dwhat = "devRand" =>
       \A f \in Going : f.kind \in {"ok", "ack"} => AtProof
\* An offer on its way to the host is the charger's present one, and nothing
\* that makes the charger go on is on its way to it.
OfferComing ==
    Attempting => \A f \in Coming : IsOffer(f) =>
       /\ Offers(f) /\ OnlyParcels /\ (Unanswered \/ AtProof)
       /\ Early => f.code = "00"
\* While the host collects parcels, the charger offers or sends that value.
Collecting ==
    pc.do = "parts" =>
       /\ dwhat = pc.what /\ expected = ParcelCount(dwhat)
       /\ \A f \in Coming : ~IsOffer(f)
       /\ \/ /\ dmode = "offer" /\ frames = <<>>
             /\ \A f \in Going : f.kind \in {"parcel", "rdy"}
             /\ Follow(up, {"rdy"}, {})
             /\ \A f \in Coming : ~Piece(f)
          \/ /\ dmode = "send" /\ OnlyParcels
             /\ \A f \in Coming : Piece(f) => f.data = DPayload(dwhat)
             /\ \A i \in DOMAIN frames : frames[i] = DPayload(dwhat)
ModeInv == Filling /\ Acknowledged /\ OfferComing /\ Collecting

\* Behind an offer there is only noise.
Queued == On("avdtp", queue["avdtp"])
NoiseBehind ==
    Attempting =>
       /\ Behind(Queued, OfferSet, Oddities) /\ Behind(down, OfferSet, Oddities)
       /\ (\E f \in FramesOf(Queued) : IsOffer(f)) => FramesOf(down) \subseteq Oddities
\* UPNP carries no values, and an empty parcel is noise.
Plain(f) == /\ f.kind # "inline" /\ f.data = Empty
            /\ f.kind = "announce" => f.n = 0 \/ f.code = "ff"
PlainUpnp == /\ \A f \in Elements(queue["upnp"]) : Plain(f)
             /\ \A i \in DOMAIN down : down[i].ch = "upnp" => Plain(down[i].frame)
EmptyNoise == \A f \in Coming : f.kind = "parcel" /\ f.data = Empty => f.n = 9
OrderInv == NoiseBehind /\ PlainUpnp /\ EmptyNoise

TransferInv == GoingInv /\ ModeInv /\ OrderInv /\ NeverMixed

-----------------------------------------------------------------------------
(* The steps of the host in an attempt.                                    *)

Ann(what) == On("avdtp", <<Announcement(what)>>)

\* It waits or ignores a frame.
StaysHere == /\ Attempting /\ UNCHANGED <<pc, up, frames, expected, peer>>
\* The attempt ends; the last parcel may have come.
StopsHere == /\ Attempting /\ pc'.do = "ended" /\ UNCHANGED expected
             /\ \/ UNCHANGED frames
                \/ \E f \in Coming : pc.do = "parts" /\ GathersAll(f)
\* It is greeted, or asks for the DID, or begins a login or a key exchange.
Greets == /\ pc.do \in {"ready", "chal1", "chal2", "greeted"}
          /\ pc'.do \in {"chal1", "chal2", "greeted", "open"}
          /\ UNCHANGED <<frames, peer>>
          /\ \/ UNCHANGED up
             \/ \E ch \in Channels : \E kind \in {"GREETING", "echo"} :
                   Sends(Write(ch, kind))
Asks == /\ pc.do = "ready" /\ pc'.do = "head" /\ pc'.what = "did"
        /\ UNCHANGED <<frames, peer>> /\ Sends(Write("upnp", "CMD_GET_INFO"))
Begins == /\ UNCHANGED <<frames, peer>> /\ pc'.do = "rdy"
          /\ \/ /\ pc.do = "open" /\ pc'.what = "appRand"
                /\ Sends(Write("upnp", "CMD_LOGIN") \o Ann("appRand"))
             \/ /\ AtDid /\ pc'.what = "pub"
                /\ Sends((<<>> \o Write("upnp", "CMD_SET_KEY")) \o Ann("pub"))
\* It sends a value, and the charger has it.
SendsParcels == /\ pc.do = "rdy" /\ pc'.do = "ok" /\ pc'.what = pc.what
                /\ UNCHANGED <<frames, peer>>
                /\ Sends(On("avdtp", Parcels(Payload(pc.what))))
Heeded == /\ pc.do = "ok" /\ UNCHANGED <<frames, peer>>
          /\ \/ /\ pc.what = "appRand" /\ pc'.do = "head" /\ pc'.what = "devRand"
                /\ UNCHANGED up
             \/ /\ pc.what = "pub" /\ pc'.do = "head" /\ pc'.what = "peerPub"
                /\ UNCHANGED up
             \/ /\ pc.what = "appProof" /\ pc'.do = "conf" /\ pc'.what = "login"
                /\ UNCHANGED up
             \/ /\ pc.what = "didCt" /\ pc'.do = "conf" /\ pc'.what = "register"
                /\ Sends(Write("upnp", "CMD_AUTH"))
\* It takes an offer, parcels, or a value and goes on.
Accepts(f) == /\ pc.do = "head" /\ pc'.do = "parts" /\ pc'.what = pc.what
              /\ f.kind = "announce" /\ f.code = Code[pc.what]
              /\ f.n \in 1..MAX_AUTH_PARCELS
              /\ Sends(Write("avdtp", "rdy"))
              /\ frames' = <<>> /\ expected' = f.n /\ UNCHANGED peer
Proceeds(what, data, before) ==
    \/ /\ what = "devRand" /\ pc'.do = "head" /\ pc'.what = "devProof"
       /\ Sends(before) /\ peer' = data.of.dev /\ data.kind = "devRand"
    \/ /\ what = "devProof" /\ pc'.do = "rdy" /\ pc'.what = "appProof"
       /\ Sends(before \o Ann("appProof")) /\ UNCHANGED peer
       /\ data = DevProof(Keys)
    \/ /\ what = "did" /\ pc'.do = "rdy" /\ pc'.what = "pub"
       /\ Sends((before \o Write("upnp", "CMD_SET_KEY")) \o Ann("pub"))
       /\ UNCHANGED peer
    \/ /\ what = "peerPub" /\ pc'.do = "rdy" /\ pc'.what = "didCt"
       /\ Sends(before \o Ann("didCt")) /\ peer' = data.of.dev
TakesInline(f) == /\ pc.do = "head" /\ pc.what \in {"devRand", "devProof"}
                  /\ f.kind = "inline" /\ f.code = Code[pc.what]
                  /\ UNCHANGED frames
                  /\ Proceeds(pc.what, f.data, Write("avdtp", "ack"))
TakesOne(f) == pc.do = "parts" /\ GathersOne(f) /\ UNCHANGED <<pc, expected>>
TakesAll(f) == /\ pc.do = "parts" /\ GathersAll(f)
               /\ Proceeds(pc.what, Joined(Gathered(f), expected),
                           Write("avdtp", "ok"))

LEMMA HasProceeds ==
    ASSUME NEW what, NEW data, NEW before, Has(what, data, before)
    PROVE  pc'.do = "ended" \/ Proceeds(what, data, before)
<1>1. CASE LoginHas(what, data, before) /\ what \in {"devRand", "devProof"}
  <2>1. CASE Goes(At("head", "devProof"))
    BY <1>1, <2>1, GoesPoint, EndsPoint, AnnouncesPoint
       DEF LoginHas, Proceeds, Announces, Ann, Authentic
  <2>2. CASE \E kind : Ends(kind)
    BY <2>2, EndsPoint
  <2>3. CASE Announces(before, "appProof") /\ what = "devProof"
             /\ Authentic(data) /\ UNCHANGED peer
    BY <2>3, AnnouncesPoint DEF Announces, Proceeds, Ann, Authentic
  <2> QED
    BY <1>1, <2>1, <2>2, <2>3 DEF LoginHas
<1>2. CASE what = "did" /\ UNCHANGED peer /\ \E raw : RegisterHasDid(raw, before)
  <2>1. CASE \E kind : Ends(kind)
    BY <2>1, EndsPoint
  <2>2. CASE Announces(before \o Write("upnp", "CMD_SET_KEY"), "pub")
    BY <1>2, <2>2, AnnouncesPoint DEF Announces, Proceeds, Ann
  <2> QED
    BY <1>2, <2>1, <2>2 DEF RegisterHasDid
<1>3. CASE what = "peerPub" /\ RegisterHasKey(data, before)
  <2>1. CASE Ends("error")
    BY <2>1, EndsPoint
  <2>2. CASE Announces(before, "didCt") /\ peer' = data.of.dev
    BY <1>3, <2>2, AnnouncesPoint DEF Announces, Proceeds, Ann
  <2> QED
    BY <1>3, <2>1, <2>2 DEF RegisterHasKey
<1> QED
  BY <1>1, <1>2, <1>3 DEF Has

LEMMA CollectsAccepts ==
    ASSUME NEW f, Collects(pc.what, f.n), pc.do = "head", UNCHANGED peer,
           f.kind = "announce", f.code = Code[pc.what]
    PROVE  StopsHere \/ Accepts(f)
<1>1. CASE Ends("auth") /\ UNCHANGED <<up, expected, frames>>
  BY <1>1, EndsPoint DEF StopsHere, Attempting
<1>2. CASE Goes(At("parts", pc.what)) /\ Sends(Write("avdtp", "rdy"))
           /\ expected' = f.n /\ frames' = NoFrames /\ f.n \in 1..MAX_AUTH_PARCELS
  BY <1>2, GoesPoint DEF Accepts, NoFrames
<1> QED
  BY <1>1, <1>2 DEF Collects

\* A step that takes a frame f.
Taking1(f) == Accepts(f) \/ TakesInline(f) \/ TakesOne(f) \/ TakesAll(f)

LEMMA TakesSteps ==
    ASSUME TypeOK, TakeVariant \/ TakeAnnouncement \/ TakeParcel
    PROVE  \E f : /\ Receive(f)
                  /\ StopsHere \/ (AtDid /\ Begins) \/ Taking1(f)
<1>1. CASE TakeVariant
  <2>1. PICK f :
          /\ Receive(f)
          /\ \/ Ends("auth") /\ UNCHANGED <<frames, expected>>
             \/ /\ f.code = Code[pc.what] /\ f.kind = "inline"
                /\ Has(pc.what, f.data, OFFICIAL_ACK)
                /\ UNCHANGED <<frames, expected>>
             \/ /\ f.code = Code[pc.what] /\ f.kind = "announce"
                /\ Collects(pc.what, f.n) /\ UNCHANGED peer
    BY <1>1 DEF TakeVariant
  <2>2. pc.do = "head" /\ pc.what \in {"devRand", "devProof"} /\ Attempting
    BY <1>1 DEF TakeVariant, Attempting
  <2>3. CASE Ends("auth") /\ UNCHANGED <<frames, expected>>
    BY <2>1, <2>2, <2>3, EndsPoint DEF StopsHere
  <2>4. CASE /\ f.code = Code[pc.what] /\ f.kind = "inline"
             /\ Has(pc.what, f.data, OFFICIAL_ACK)
             /\ UNCHANGED <<frames, expected>>
    <3>1. pc'.do = "ended" \/ Proceeds(pc.what, f.data, Write("avdtp", "ack"))
      BY <2>4, HasProceeds DEF OFFICIAL_ACK
    <3> QED
      BY <2>1, <2>2, <2>4, <3>1 DEF StopsHere, TakesInline, Taking1
  <2>5. CASE /\ f.code = Code[pc.what] /\ f.kind = "announce"
             /\ Collects(pc.what, f.n) /\ UNCHANGED peer
    BY <2>1, <2>2, <2>5, CollectsAccepts DEF Taking1
  <2> QED
    BY <2>1, <2>3, <2>4, <2>5
<1>2. CASE TakeAnnouncement
  <2>1. PICK f :
          /\ Receive(f)
          /\ \/ Ends("auth") /\ UNCHANGED <<frames, expected>>
             \/ /\ pc.what = "did" /\ Has("did", Empty, <<>>)
                /\ UNCHANGED <<frames, expected>>
             \/ /\ f.code = Code[pc.what] /\ f.kind = "announce"
                /\ Collects(pc.what, f.n) /\ UNCHANGED peer
    BY <1>2 DEF TakeAnnouncement
  <2>2. pc.do = "head" /\ Attempting
    BY <1>2 DEF TakeAnnouncement, Attempting
  <2>3. CASE Ends("auth") /\ UNCHANGED <<frames, expected>>
    BY <2>1, <2>2, <2>3, EndsPoint DEF StopsHere
  <2>4. CASE /\ pc.what = "did" /\ Has("did", Empty, <<>>)
             /\ UNCHANGED <<frames, expected>>
    <3>1. pc'.do = "ended" \/ Proceeds("did", Empty, <<>>)
      BY <2>4, HasProceeds
    <3>2. CASE pc'.do = "ended"
      BY <2>1, <2>2, <2>4, <3>2 DEF StopsHere
    <3>3. CASE Proceeds("did", Empty, <<>>)
      BY <2>1, <2>2, <2>4, <3>3 DEF Proceeds, Begins, AtDid
    <3> QED
      BY <3>1, <3>2, <3>3
  <2>5. CASE /\ f.code = Code[pc.what] /\ f.kind = "announce"
             /\ Collects(pc.what, f.n) /\ UNCHANGED peer
    BY <2>1, <2>2, <2>5, CollectsAccepts DEF Taking1
  <2> QED
    BY <2>1, <2>3, <2>4, <2>5
<1>3. CASE TakeParcel
  <2>1. PICK f : /\ Receive(f) /\ f \in Coming
                 /\ \/ Ends("auth") /\ UNCHANGED <<up, peer, remote, frames>>
                    \/ GathersOne(f)
                    \/ GathersAll(f)
    BY <1>3, TakeParcelCases
  <2>2. pc.do = "parts" /\ Attempting /\ UNCHANGED expected
    BY <1>3 DEF TakeParcel, Attempting
  <2>3. CASE GathersAll(f)
    <3>1. pc'.do = "ended" \/ Proceeds(pc.what, Joined(Gathered(f), expected),
                                       Write("avdtp", "ok"))
      BY <2>3, HasProceeds DEF GathersAll
    <3> QED
      BY <2>1, <2>2, <2>3, <3>1 DEF StopsHere, TakesAll, Taking1
  <2>4. CASE GathersOne(f)
    BY <2>1, <2>2, <2>4 DEF GathersOne, Goes, TakesOne, Taking1
  <2>5. CASE Ends("auth") /\ UNCHANGED frames
    BY <2>1, <2>2, <2>5, EndsPoint DEF StopsHere
  <2> QED
    BY <2>1, <2>3, <2>4, <2>5
<1> QED
  BY <1>1, <1>2, <1>3

LEMMA SendsSteps ==
    ASSUME TypeOK, TakeReady \/ TakeOk
    PROVE  StaysHere \/ SendsParcels \/ Heeded
<1>1. /\ pc.do \in {"rdy", "ok"} /\ Attempting /\ pc.what \in Sending
      /\ UNCHANGED <<peer, frames, expected>>
  BY KeptTypes, PointsOf DEF TakeReady, TakeOk, Attempting, locals
<1>2. CASE Goes(pc) /\ UNCHANGED up
  BY <1>1, <1>2 DEF Goes, StaysHere
<1>3. CASE TakeReady /\ ~(Goes(pc) /\ UNCHANGED up)
  <2>1. /\ pc.do = "rdy" /\ Goes(At("ok", pc.what))
        /\ Sends(On("avdtp", Parcels(Payload(pc.what))))
    BY <1>3 DEF TakeReady
  <2> QED
    BY <1>1, <2>1, GoesPoint DEF SendsParcels
<1>4. CASE TakeOk /\ ~(Goes(pc) /\ UNCHANGED up)
  <2>1. /\ pc.do = "ok"
        /\ \/ pc.what = "appRand" /\ Goes(At("head", "devRand")) /\ UNCHANGED up
           \/ pc.what = "pub" /\ Goes(At("head", "peerPub")) /\ UNCHANGED up
           \/ pc.what = "appProof" /\ Goes(At("conf", "login")) /\ UNCHANGED up
           \/ /\ pc.what = "didCt" /\ Goes(At("conf", "register"))
              /\ Sends(Write("upnp", "CMD_AUTH"))
    BY <1>4 DEF TakeOk
  <2> QED
    BY <1>1, <2>1, GoesPoint DEF Heeded
<1> QED
  BY <1>2, <1>3, <1>4

LEMMA OtherSteps ==
    ASSUME TypeOK,
           \/ Greet \/ TakeChallenge \/ SubscribeUpnp \/ Login \/ Register
           \/ Block \/ Overflown \/ TimesOut \/ Refused \/ TakeConfirmation
    PROVE  StaysHere \/ StopsHere \/ Greets \/ Asks \/ Begins
<1>1. Attempting /\ UNCHANGED <<peer, frames, expected>>
  BY DEF Attempting, Greet, TakeChallenge, SubscribeUpnp, Login, Register,
     Block, Overflown, TimesOut, Refused, TakeConfirmation, Receive, Receives,
     locals
<1>2. CASE \E kind : Ends(kind)
  BY <1>1, <1>2, EndsPoint DEF StopsHere
<1>3. CASE Overflown \/ TimesOut \/ Refused
  BY <1>2, <1>3 DEF Overflown, TimesOut, Refused
<1>4. CASE TakeConfirmation
  <2>1. pc' = Ended
    BY <1>4 DEF TakeConfirmation
  <2> QED
    BY <1>1, <2>1, AtParts DEF StopsHere
<1>5. CASE Block
  BY <1>1, <1>5 DEF Block, link, StaysHere
<1>6. CASE Greet \/ SubscribeUpnp \/ Register
  <2>1. CASE Greet
    BY <1>1, <2>1, GoesPoint DEF Greet, Greets, Channels
  <2>2. CASE SubscribeUpnp
    BY <1>1, <2>2, GoesPoint DEF SubscribeUpnp, Greets, link
  <2>3. CASE Register
    BY <1>1, <2>3, GoesPoint DEF Register, Asks
  <2> QED
    BY <1>6, <2>1, <2>2, <2>3
<1>7. CASE TakeChallenge
  <2>1. /\ pc.do \in {"chal1", "chal2"}
        /\ \/ Ends("auth")
           \/ /\ Sends(Write("avdtp", "echo"))
              /\ Goes(At("chal2", "")) \/ Goes(At("greeted", ""))
    BY <1>7 DEF TakeChallenge
  <2> QED
    BY <1>1, <1>2, <2>1, GoesPoint DEF Greets, Channels
<1>8. CASE Login
  <2>1. /\ pc.do = "open"
        /\ Ends("auth") \/ Announces(Write("upnp", "CMD_LOGIN"), "appRand")
    BY <1>8 DEF Login
  <2>2. CASE Announces(Write("upnp", "CMD_LOGIN"), "appRand")
    BY <1>1, <2>1, <2>2, AnnouncesPoint DEF Announces, Begins, Ann
  <2> QED
    BY <1>2, <2>1, <2>2
<1> QED
  BY <1>3, <1>4, <1>5, <1>6, <1>7, <1>8

LEMMA AttemptSteps ==
    ASSUME TypeOK, Host, ~NewClient
    PROVE  \/ Unsubscribe \/ StaysHere \/ StopsHere \/ Greets \/ Asks \/ Begins
           \/ SendsParcels \/ Heeded
           \/ \E f : Receive(f) /\ Taking1(f)
BY TakesSteps, SendsSteps, OtherSteps DEF Host

-----------------------------------------------------------------------------
(* The values of frames.                                                   *)

LEMMA OddOffer ==
    ASSUME NEW f \in Oddities
    PROVE  /\ ~IsOffer(f) /\ ~Piece(f) /\ Plain(f)
           /\ f.kind = "parcel" => f.n = 9
<1>1. /\ f.data = Empty
      /\ \/ f.kind \in OddKinds
         \/ f.kind = "announce" /\ (f.code = "ff" \/ f.n = 0)
         \/ f.kind = "parcel" /\ f.n = 9
  BY OddFields
<1>2. OddKinds \subseteq {"error", "rdy", "ok", "challenge", "loginOk"}
  BY AuthConstants
<1> QED
  BY <1>1, <1>2 DEF IsOffer, Piece, Plain

LEMMA PlainOffer ==
    ASSUME NEW f, Plain(f)
    PROVE  ~IsOffer(f) /\ ~IsOffer(f)' /\ ~Piece(f)
BY DEF IsOffer, Piece, Plain

LEMMA ShortOffer ==
    ASSUME NEW kind \in ShortKinds
    PROVE  ~IsOffer(Short(kind)) /\ ~Piece(Short(kind)) /\ Plain(Short(kind))
           /\ Short(kind).kind # "parcel"
BY ShortFields DEF IsOffer, Piece, Plain, ShortKinds

\* What the host takes as an offer of what it waits for is one.
LEMMA ExpectedOffer ==
    ASSUME TypeOK, pc.do = "head", NEW f, f.code = Code[pc.what],
           f.kind = "inline" \/ (f.kind = "announce" /\ f.n # 0)
    PROVE  IsOffer(f)
<1>1. pc.what \in Taking
  BY KeptTypes, PointsOf
<1> QED
  BY <1>1 DEF IsOffer, AtDid, Taking, Code

\* The codes of the values the host takes tell them apart.
LEMMA CodesDiffer ==
    ASSUME NEW v \in Taking, NEW w \in Taking, Code[v] = Code[w]
    PROVE  v = w
BY DEF Taking, Code

\* No value takes as many parcels as the number of a parcel out of turn.
LEMMA FewParcels ==
    ASSUME NEW kind \in DOMAIN Size
    PROVE  ParcelCount(kind) < 9
<1> DEFINE c == parcel_chunk_size
           k == Size[kind] + c - 1
<1>1. c \in Nat /\ c >= 18
  BY AuthConstants DEF parcel_chunk_size, PARCEL_CHUNK_SIZE
<1>2. Size[kind] \in {0, 16, 24, 32, 64}
  BY DEF Size
<1>3. k \in Nat /\ k < 9 * c
  BY <1>1, <1>2
<1>4. ParcelCount(kind) = 1 \/ ParcelCount(kind) = k \div c
  BY DEF ParcelCount
<1> HIDE DEF c, k
<1>5. k \div c < 9
  BY <1>1, <1>3, Z3
<1> QED
  BY <1>4, <1>5

LEMMA PayloadFull ==
    ASSUME NEW what \in Taking
    PROVE  DPayload(what) # Empty /\ DPayload(what).kind = what
BY DEF DPayload, Taking, Number, DevProof, Blob, Empty

\* Each parcel the host can use while it collects is one of the value that the
\* charger sends.
LEMMA PartsSame ==
    ASSUME TypeOK, TransferInv, pc.do = "parts", NEW f \in Coming,
           f.kind = "parcel", f.n \in 1..expected
    PROVE  /\ dmode = "send" /\ OnlyParcels
           /\ \A i \in DOMAIN Gathered(f) : Gathered(f)[i] = DPayload(dwhat)
<1>1. pc.what \in Taking /\ dwhat = pc.what /\ expected = ParcelCount(dwhat)
  BY KeptTypes, PointsOf DEF TransferInv, ModeInv, Collecting
<1>2. expected < 9 /\ expected \in Nat
  BY <1>1, CodeType, FewParcels, CountType
<1>3. f.n # 9
  BY <1>2
<1>4. Piece(f)
  BY <1>3 DEF TransferInv, OrderInv, EmptyNoise, Piece
<1>5. /\ dmode = "send" /\ OnlyParcels /\ f.data = DPayload(dwhat)
      /\ \A i \in DOMAIN frames : frames[i] = DPayload(dwhat)
  BY <1>4 DEF TransferInv, ModeInv, Collecting
<1> QED
  BY <1>5 DEF Gathered

\* A part of a sequence of frames of one characteristic.
LEMMA OnTail ==
    ASSUME NEW ch, NEW q \in Seq(FrameSet), q # <<>>
    PROVE  On(ch, Tail(q)) = Tail(On(ch, q))
<1> DEFINE o == On(ch, q)
<1>1. /\ Len(q) \in Nat \ {0} /\ DOMAIN q = 1..Len(q)
      /\ Len(Tail(q)) = Len(q) - 1 /\ DOMAIN Tail(q) = 1..(Len(q) - 1)
      /\ \A i \in 1..(Len(q) - 1) : Tail(q)[i] = q[i+1]
  BY HeadTailProperties, LenProperties, EmptySeq
<1>2. o \in Seq([ch : {ch}, frame : FrameSet]) /\ Len(o) = Len(q)
  <2>1. \A i \in 1..Len(q) : o[i] \in [ch : {ch}, frame : FrameSet]
    BY <1>1, ElementOfSeq DEF On
  <2>2. o = [i \in 1..Len(q) |-> o[i]]
    BY <1>1 DEF On
  <2> QED
    BY <1>1, <2>1, <2>2, IsASeq, LenProperties DEF On
<1>3. /\ DOMAIN Tail(o) = 1..(Len(q) - 1)
      /\ \A i \in 1..(Len(q) - 1) : Tail(o)[i] = o[i+1]
      /\ Tail(o) = [i \in 1..(Len(q) - 1) |-> Tail(o)[i]]
  <2> HIDE DEF o
  <2>1. o # <<>>
    BY <1>1, <1>2
  <2>2. /\ Tail(o) \in Seq([ch : {ch}, frame : FrameSet])
        /\ Len(Tail(o)) = Len(q) - 1
        /\ \A i \in 1..(Len(q) - 1) : Tail(o)[i] = o[i+1]
    BY <1>1, <1>2, <2>1, HeadTailProperties
  <2>3. Tail(o) \in [1..(Len(q) - 1) -> [ch : {ch}, frame : FrameSet]]
    BY <2>2, LenProperties
  <2> QED
    BY <2>2, <2>3
<1>4. \A i \in 1..(Len(q) - 1) :
         o[i+1] = [ch |-> ch, frame |-> q[i+1]]
  BY <1>1 DEF On
<1>5. On(ch, Tail(q)) = [i \in 1..(Len(q) - 1) |-> [ch |-> ch, frame |-> q[i+1]]]
  BY <1>1 DEF On
<1> HIDE DEF o
<1>6. Tail(o) = [i \in 1..(Len(q) - 1) |-> [ch |-> ch, frame |-> q[i+1]]]
  BY <1>3, <1>4
<1> QED
  BY <1>5, <1>6 DEF o

LEMMA OnAppend ==
    ASSUME NEW ch, NEW q \in Seq(FrameSet), NEW x \in FrameSet
    PROVE  On(ch, Append(q, x)) = On(ch, q) \o On(ch, <<x>>)
<1> DEFINE a == Append(q, x)
           v == On(ch, q)
           w == On(ch, <<x>>)
           F == [ch : {ch}, frame : FrameSet]
<1>1. /\ Len(q) \in Nat /\ DOMAIN q = 1..Len(q)
      /\ DOMAIN a = 1..(Len(q) + 1)
      /\ \A i \in 1..Len(q) : a[i] = q[i]
      /\ a[Len(q) + 1] = x
  BY AppendProperties, LenProperties
<1>2. v \in Seq(F) /\ Len(v) = Len(q) /\ w \in Seq(F) /\ Len(w) = 1
  <2>1. \A i \in 1..Len(q) : v[i] \in F
    BY <1>1, ElementOfSeq DEF On
  <2>2. v = [i \in 1..Len(q) |-> v[i]]
    BY <1>1 DEF On
  <2>3. w = <<[ch |-> ch, frame |-> x]>>
    BY DEF On
  <2> QED
    BY <1>1, <2>1, <2>2, <2>3, IsASeq, LenProperties DEF On
<1>3. /\ v \o w = [i \in 1..(Len(q) + 1) |-> (v \o w)[i]]
      /\ \A i \in 1..(Len(q) + 1) :
            (v \o w)[i] = IF i <= Len(q) THEN v[i] ELSE w[i - Len(q)]
  <2> HIDE DEF v, w, F
  <2>0. /\ v \o w \in Seq(F) /\ Len(v \o w) = Len(v) + Len(w)
        /\ \A i \in 1..(Len(v) + Len(w)) :
              (v \o w)[i] = IF i <= Len(v) THEN v[i] ELSE w[i - Len(v)]
    <3>1. v \in Seq(F) /\ w \in Seq(F)
      BY <1>2
    <3> QED
      BY <3>1, ConcatProperties, Zenon
  <2>1. /\ v \o w \in Seq(F) /\ Len(v \o w) = Len(q) + 1
        /\ \A i \in 1..(Len(q) + 1) :
              (v \o w)[i] = IF i <= Len(q) THEN v[i] ELSE w[i - Len(q)]
    BY <1>2, <2>0
  <2>2. v \o w \in [1..(Len(q) + 1) -> F]
    BY <2>1, LenProperties
  <2> QED
    BY <2>1, <2>2
<1>4. \A i \in 1..(Len(q) + 1) :
         (IF i <= Len(q) THEN v[i] ELSE w[i - Len(q)]) = [ch |-> ch, frame |-> a[i]]
  <2>1. \A i \in 1..Len(q) : v[i] = [ch |-> ch, frame |-> a[i]]
    BY <1>1 DEF On
  <2>2. w[1] = [ch |-> ch, frame |-> a[Len(q) + 1]]
    BY <1>1 DEF On
  <2>3. \A i \in 1..(Len(q) + 1) :
           i \in 1..Len(q) \/ (i = Len(q) + 1 /\ i - Len(q) = 1 /\ ~(i <= Len(q)))
    BY <1>1
  <2> HIDE DEF v, w, a
  <2> QED
    BY <1>1, <2>1, <2>2, <2>3
<1>5. On(ch, a) = [i \in 1..(Len(q) + 1) |-> [ch |-> ch, frame |-> a[i]]]
  BY <1>1 DEF On
<1> HIDE DEF v, w, a
<1> QED
  BY <1>3, <1>4, <1>5 DEF v, w, a

LEMMA QueuedType ==
    ASSUME TypeOK
    PROVE  /\ Queued \in Seq(Flight) /\ FramesOf(Queued) = Elements(queue["avdtp"])
           /\ down \in Seq(Flight) /\ up \in Seq(Flight)
           /\ FramesOf(Queued) \cup FramesOf(down) \subseteq Coming
           /\ Coming = FramesOf(Queued) \cup FramesOf(down) \cup Elements(queue["upnp"])
<1>1. queue["avdtp"] \in Seq(FrameSet)
  BY DEF TypeOK, LinkType, Channels
<1> QED
  BY <1>1, OnType, FramesOn, KeptTypes DEF Queued, Coming, Channels

-----------------------------------------------------------------------------
(* The host keeps the order of what is coming.                             *)

\* What each step of the host but a new client does to the link.
TakesOff == UNCHANGED <<queue, down>> \/ \E f : Receive(f)

LEMMA HostTakes ==
    ASSUME Host, ~NewClient
    PROVE  TakesOff
<1>1. CASE Greet \/ SubscribeUpnp \/ Login \/ Register \/ Block \/ Overflown
           \/ TimesOut \/ Unsubscribe
  BY <1>1 DEF Greet, SubscribeUpnp, Login, Register, Block, Overflown,
     TimesOut, Unsubscribe, inbox, link, TakesOff
<1>2. CASE Refused \/ TakeReady \/ TakeOk \/ TakeVariant \/ TakeAnnouncement
           \/ TakeParcel \/ TakeConfirmation \/ TakeChallenge
  BY <1>2 DEF Refused, TakeReady, TakeOk, TakeVariant, TakeAnnouncement,
     TakeParcel, TakeConfirmation, TakeChallenge, TakesOff
<1> QED
  BY <1>1, <1>2 DEF Host

\* The queues lose at most their first frame.
LEMMA TakesOffQueues ==
    ASSUME TypeOK, TakesOff
    PROVE  /\ UNCHANGED down
           /\ Queued' = Queued \/ (Queued # <<>> /\ Queued' = Tail(Queued))
           /\ Elements(queue'["upnp"]) \subseteq Elements(queue["upnp"])
<1>1. CASE UNCHANGED <<queue, down>>
  BY <1>1 DEF Queued
<1>2. ASSUME NEW f, Receive(f)
      PROVE  /\ UNCHANGED down
             /\ Queued' = Queued \/ (Queued # <<>> /\ Queued' = Tail(Queued))
             /\ Elements(queue'["upnp"]) \subseteq Elements(queue["upnp"])
  <2> DEFINE ch == ChannelOf(pc)
  <2>1. /\ ch \in Channels /\ queue[ch] # <<>> /\ UNCHANGED down
        /\ queue' = [queue EXCEPT ![ch] = Tail(queue[ch])]
    BY <1>2 DEF Receive, Incoming, ChannelOf, Channels
  <2> HIDE DEF ch
  <2>2. /\ queue \in [Channels -> Seq(FrameSet)]
        /\ \A c \in Channels : queue[c] \in Seq(FrameSet)
    BY DEF TypeOK, LinkType
  <2>3. /\ queue'[ch] = Tail(queue[ch])
        /\ \A c \in Channels : c # ch => queue'[c] = queue[c]
    BY <2>1, <2>2
  <2>4. "upnp" \in Channels /\ "avdtp" \in Channels
    BY DEF Channels
  <2>5. Elements(queue'["upnp"]) \subseteq Elements(queue["upnp"])
    <3>1. CASE ch = "upnp"
      BY <2>1, <2>2, <2>3, <2>4, <3>1, ElementsTail
    <3>2. CASE ch # "upnp"
      BY <2>3, <2>4, <3>2
    <3> QED
      BY <3>1, <3>2
  <2>6. CASE ch = "avdtp"
    <3>1. queue["avdtp"] \in Seq(FrameSet) /\ queue["avdtp"] # <<>>
      BY <2>1, <2>2, <2>4, <2>6
    <3>2. Queued' = Tail(Queued)
      BY <2>3, <2>6, <3>1, OnTail DEF Queued
    <3>3. Queued # <<>>
      <4>1. 1 \in DOMAIN queue["avdtp"]
        BY <3>1, LenProperties, EmptySeq
      <4>2. DOMAIN Queued # {}
        BY <4>1 DEF Queued, On
      <4> QED
        BY <4>2
    <3> QED
      BY <2>1, <2>5, <3>2, <3>3
  <2>7. CASE ch # "avdtp"
    BY <2>1, <2>3, <2>4, <2>5, <2>7 DEF Queued
  <2> QED
    BY <2>6, <2>7
<1> QED
  BY <1>1, <1>2 DEF TakesOff

\* What there is of offers after a step of the host was one before.
LEMMA OffersThen ==
    ASSUME TypeOK, TransferInv, AtDid' => AtDid \/ pc.do = "ready"
    PROVE  \A f \in Coming : IsOffer(f)' => IsOffer(f)
<1>1. CASE AtDid' => AtDid
  BY <1>1 DEF IsOffer
<1>2. CASE pc.do = "ready"
  <2>1. Coming \subseteq Oddities
    BY <1>2 DEF TransferInv, GoingInv, Quiet
  <2>2. \A f \in Oddities :
           /\ f.data = Empty
           /\ \/ f.kind \in OddKinds
              \/ f.kind = "announce" /\ (f.code = "ff" \/ f.n = 0)
              \/ f.kind = "parcel" /\ f.n = 9
    BY OddFields
  <2>3. OddKinds \subseteq {"error", "rdy", "ok", "challenge", "loginOk"}
    BY AuthConstants
  <2> QED
    BY <2>1, <2>2, <2>3 DEF IsOffer
<1> QED
  BY <1>1, <1>2

LEMMA BehindFewer ==
    ASSUME NEW s \in Seq(Flight), NEW K, NEW M, NEW L, Behind(s, K, L),
           \A f \in FramesOf(s) : f \in M => f \in K
    PROVE  Behind(s, M, L)
BY DEF Behind, FramesOf

LEMMA OrderHost ==
    ASSUME TypeOK, TransferInv, HostKeeps, TakesOff, Attempting' => Attempting,
           AtDid' => AtDid \/ pc.do = "ready"
    PROVE  OrderInv'
<1>1. /\ UNCHANGED down
      /\ Queued' = Queued \/ (Queued # <<>> /\ Queued' = Tail(Queued))
      /\ Elements(queue'["upnp"]) \subseteq Elements(queue["upnp"])
  BY TakesOffQueues
<1>2. /\ Queued \in Seq(Flight) /\ down \in Seq(Flight)
      /\ FramesOf(Queued) \subseteq Coming /\ FramesOf(down) \subseteq Coming
  BY QueuedType
<1>3. \A f \in Coming : f \in OfferSet' => f \in OfferSet
  BY OffersThen DEF OfferSet
<1>4. EmptyNoise' /\ PlainUpnp'
  BY <1>1 DEF TransferInv, OrderInv, EmptyNoise, PlainUpnp, HostKeeps
<1>5. ASSUME Attempting'
      PROVE  /\ Behind(Queued, OfferSet', Oddities)
             /\ Behind(down, OfferSet', Oddities)
             /\ (\E f \in FramesOf(Queued) : f \in OfferSet')
                   => FramesOf(down) \subseteq Oddities
  <2>1. /\ Behind(Queued, OfferSet, Oddities) /\ Behind(down, OfferSet, Oddities)
        /\ (\E f \in FramesOf(Queued) : IsOffer(f))
              => FramesOf(down) \subseteq Oddities
    BY <1>5 DEF TransferInv, OrderInv, NoiseBehind
  <2>2. \A f \in FramesOf(Queued) \cup FramesOf(down) :
           f \in OfferSet' => f \in OfferSet /\ IsOffer(f)
    BY <1>2, <1>3 DEF OfferSet
  <2> QED
    BY <1>2, <2>1, <2>2, BehindFewer
<1>6. NoiseBehind'
  <2> SUFFICES ASSUME Attempting'
               PROVE  /\ Behind(Queued', OfferSet', Oddities)
                      /\ Behind(down', OfferSet', Oddities)
                      /\ (\E f \in FramesOf(Queued') : IsOffer(f)')
                            => FramesOf(down') \subseteq Oddities
    BY DEF NoiseBehind, Oddities
  <2>1. Behind(Queued', OfferSet', Oddities) /\ FramesOf(Queued') \subseteq FramesOf(Queued)
    <3>1. PICK q : q = Queued
      OBVIOUS
    <3>2. PICK K : K = OfferSet'
      OBVIOUS
    <3>3. Queued' = q \/ (q # <<>> /\ Queued' = Tail(q))
      BY <1>1, <3>1
    <3>4. q \in Seq(Flight) /\ Behind(q, K, Oddities)
      BY <1>2, <1>5, <3>1, <3>2
    <3>5. q # <<>> => /\ Behind(Tail(q), K, Oddities)
                      /\ FramesOf(Tail(q)) \subseteq FramesOf(q)
      BY <3>4, BehindTail, FramesTail
    <3> QED
      BY <3>1, <3>2, <3>3, <3>4, <3>5
  <2>2. \A f \in FramesOf(Queued) : IsOffer(f)' => f \in OfferSet'
    BY <1>2, FramesType DEF OfferSet
  <2> QED
    BY <1>1, <1>5, <2>1, <2>2
<1> QED
  BY <1>4, <1>6 DEF OrderInv

-----------------------------------------------------------------------------
(* The host keeps the invariant.                                           *)

\* What is common to its steps.
Moving == TypeOK /\ TransferInv /\ HostKeeps /\ TypeOK' /\ OrderInv'

LEMMA MovingKeeps ==
    ASSUME Moving
    PROVE  /\ UNCHANGED <<dmode, dwhat>> /\ Coming' \subseteq Coming
           /\ DPayload(dwhat)' = DPayload(dwhat)
           /\ \A f : Offers(f)' = Offers(f)
<1>1. /\ UNCHANGED <<dmode, dwhat, dtoken, dapp, drand>>
      /\ Coming' \subseteq Coming
  BY DEF Moving, HostKeeps, charger
<1>2. DKeys' = DKeys
  BY <1>1 DEF DKeys
<1>3. DPayload(dwhat)' = DPayload(dwhat)
  BY <1>1, <1>2 DEF DPayload
<1> QED
  BY <1>1, <1>3 DEF Offers

\* The attempt ends.
LEMMA TransferOver ==
    ASSUME Moving, pc'.do \in {"none", "ended", "over"}, NeverMixed'
    PROVE  TransferInv'
<1>1. /\ ~Attempting' /\ ~Early' /\ ~Unanswered' /\ ~AtDid' /\ ~AtProof'
      /\ pc'.do \notin {"ready", "parts"}
  BY DEF Attempting, Early, Opening, Unanswered, AtDid, AtProof
<1>2. GoingInv'
  BY <1>1 DEF GoingInv, Quiet, Asked, NothingYet, ParcelsLast, AckLast,
     Announcing, Asking
<1>3. ModeInv'
  BY <1>1 DEF ModeInv, Filling, Acknowledged, OfferComing, Collecting
<1> QED
  BY <1>2, <1>3 DEF TransferInv, Moving

LEMMA TransferStops ==
    ASSUME Moving, StopsHere
    PROVE  TransferInv'
<1>1. CASE UNCHANGED frames
  BY <1>1, TransferOver DEF Moving, TransferInv, NeverMixed, StopsHere
<1>2. ASSUME NEW f \in Coming, pc.do = "parts", GathersAll(f)
      PROVE  TransferInv'
  <2>1. /\ f.kind = "parcel" /\ f.n \in 1..expected /\ frames' = Gathered(f)
    BY <1>2 DEF GathersAll
  <2>2. \A i \in DOMAIN frames' : frames'[i] = DPayload(dwhat)
    BY <1>2, <2>1, PartsSame DEF Moving
  <2> QED
    BY <2>2, TransferOver DEF NeverMixed, StopsHere
<1> QED
  BY <1>1, <1>2 DEF StopsHere

LEMMA TransferUnsubscribes ==
    ASSUME Moving, Unsubscribe
    PROVE  TransferInv'
<1>1. pc'.do = "none" /\ UNCHANGED frames
  BY AtParts DEF Unsubscribe, locals
<1> QED
  BY <1>1, TransferOver DEF Moving, TransferInv, NeverMixed

\* The host stays where it is.
LEMMA TransferStays ==
    ASSUME Moving, StaysHere
    PROVE  TransferInv'
<1>1. /\ UNCHANGED <<pc, up, frames, expected, dmode, dwhat>>
      /\ Coming' \subseteq Coming /\ DPayload(dwhat)' = DPayload(dwhat)
      /\ \A f : Offers(f)' = Offers(f)
  BY MovingKeeps DEF StaysHere
<1>2. /\ Attempting' = Attempting /\ Early' = Early /\ Opening' = Opening
      /\ Unanswered' = Unanswered /\ AtDid' = AtDid /\ AtProof' = AtProof
      /\ Going' = Going /\ OnlyParcels' = OnlyParcels
  BY <1>1 DEF Attempting, Early, Opening, Unanswered, AtDid, AtProof, Going,
     OnlyParcels
<1>3. \A f : IsOffer(f)' = IsOffer(f)
  BY <1>2 DEF IsOffer
<1>4. GoingInv'
  BY <1>1, <1>2 DEF Moving, TransferInv, GoingInv, Quiet, Asked, NothingYet,
     ParcelsLast, AckLast, Announcing, Asking, Oddities
<1>5. Filling' /\ Acknowledged'
  BY <1>1, <1>2 DEF Moving, TransferInv, ModeInv, Filling, Acknowledged
<1>6. OfferComing'
  BY <1>1, <1>2, <1>3 DEF Moving, TransferInv, ModeInv, OfferComing
<1>7. Collecting'
  BY <1>1, <1>2, <1>3 DEF Moving, TransferInv, ModeInv, Collecting
<1> QED
  BY <1>1, <1>4, <1>5, <1>6, <1>7 DEF Moving, TransferInv, ModeInv, NeverMixed

\* There is no offer left where the host waits for none.
LEMMA TransferNoOffer ==
    ASSUME Moving, \A f \in Coming' : ~IsOffer(f)', pc'.do # "parts"
    PROVE  OfferComing' /\ Collecting'
BY DEF OfferComing, Collecting

LEMMA EarlyOffers ==
    ASSUME Moving, Attempting, Early, ~AtDid'
    PROVE  \A f \in Coming' : ~IsOffer(f)'
<1>1. \A f \in Coming' : f \in Coming /\ (IsOffer(f)' => IsOffer(f))
  BY MovingKeeps DEF IsOffer
<1>2. \A f \in Coming : IsOffer(f) => f.code = "00"
  BY DEF Moving, TransferInv, ModeInv, OfferComing
<1>3. \A f \in Coming' : IsOffer(f)' => f.code # "00"
  BY DEF IsOffer
<1> QED
  BY <1>1, <1>2, <1>3

\* What the host sends.
LEMMA WritesAfter ==
    ASSUME NEW before \in Seq(Flight), NEW ch \in Channels, NEW kind \in ShortKinds
    PROVE  /\ before \o Write(ch, kind) \in Seq(Flight)
           /\ FramesOf(before \o Write(ch, kind)) = FramesOf(before) \cup {Short(kind)}
BY WriteType, FramesWrite, FramesConcat, ConcatProperties

LEMMA AnnouncesAfter ==
    ASSUME NEW before \in Seq(Flight), NEW what \in Sending
    PROVE  /\ before \o Ann(what) \in Seq(Flight)
           /\ FramesOf(before \o Ann(what)) = FramesOf(before) \cup {Announcement(what)}
<1>1. <<Announcement(what)>> \in Seq(FrameSet)
  BY AnnouncementType
<1>2. Ann(what) \in Seq(Flight) /\ FramesOf(Ann(what)) = {Announcement(what)}
  BY <1>1, OnType, FramesOn, ElementsOne DEF Ann, Channels
<1> QED
  BY <1>2, FramesConcat, ConcatProperties

LEMMA AnnouncesGoing ==
    ASSUME Moving, NEW before \in Seq(Flight), NEW what \in Sending,
           Sends(before \o Ann(what))
    PROVE  Going' = Going \cup FramesOf(before) \cup {Announcement(what)}
<1>1. PICK w : w = before \o Ann(what)
  OBVIOUS
<1>2. /\ w \in Seq(Flight) /\ Sends(w)
      /\ FramesOf(w) = FramesOf(before) \cup {Announcement(what)}
  BY <1>1, AnnouncesAfter
<1>3. Going' = Going \cup FramesOf(w)
  BY <1>2, SendsGoing DEF Moving
<1> QED
  BY <1>2, <1>3

LEMMA NoParcels ==
    ASSUME Moving, \A f \in Going' : f.kind # "parcel"
    PROVE  Follow(up', {"parcel"}, {"parcel"})
<1>1. PICK s : s = up'
  OBVIOUS
<1>2. s \in Seq(Flight) /\ \A f \in FramesOf(s) : f.kind \notin {"parcel"}
  BY <1>1 DEF Going, Moving, TypeOK, LinkType
<1>3. Follow(s, {"parcel"}, {"parcel"})
  BY <1>2, FollowPlain
<1> QED
  BY <1>1, <1>3

\* The host is greeted.
LEMMA TransferGreets ==
    ASSUME Moving, Greets
    PROVE  TransferInv'
<1>1. /\ Attempting /\ Early /\ ~AtProof /\ ~Opening /\ pc.do # "parts"
      /\ Attempting' /\ Early' /\ ~AtDid' /\ ~AtProof' /\ ~Opening'
      /\ pc'.do \notin {"ready", "parts"} /\ Unanswered' /\ UNCHANGED frames
  BY DEF Greets, Attempting, Early, Opening, Unanswered, AtDid, AtProof
<1>2. UNCHANGED <<dmode, dwhat>> /\ \A f \in Coming' : ~IsOffer(f)'
  BY <1>1, MovingKeeps, EarlyOffers
<1>3. \A f \in Going' : f \in Going \/ f.kind \in {"GREETING", "echo"}
  <2>1. CASE UNCHANGED up
    BY <2>1 DEF Going
  <2>2. ASSUME NEW ch \in Channels, NEW kind \in {"GREETING", "echo"},
               Sends(Write(ch, kind))
        PROVE  Going' = Going \cup {Short(kind)}
    BY <2>2, WriteType, SendsGoing, FramesWrite DEF Moving, ShortKinds
  <2> QED
    BY <2>1, <2>2, ShortFields DEF Greets
<1>4. \A f \in Going' : f.kind # "parcel"
  BY <1>1, <1>3 DEF Moving, TransferInv, GoingInv, NothingYet
<1>5. Announcing' /\ Asking'
  BY <1>1, <1>3 DEF Moving, TransferInv, GoingInv, Announcing, Asking
<1>6. GoingInv'
  BY <1>1, <1>4, <1>5, NoParcels
     DEF GoingInv, Quiet, Asked, NothingYet, ParcelsLast, AckLast
<1>7. ModeInv'
  BY <1>1, <1>2, <1>3, TransferNoOffer
     DEF Moving, TransferInv, ModeInv, Filling, Acknowledged
<1> QED
  BY <1>1, <1>6, <1>7 DEF Moving, TransferInv, NeverMixed

\* It asks for the DID.
LEMMA TransferAsks ==
    ASSUME Moving, Asks
    PROVE  TransferInv'
<1>1. /\ Attempting /\ Early /\ pc.do = "ready" /\ ~AtProof
      /\ Attempting' /\ Early' /\ ~AtProof' /\ ~Opening'
      /\ pc'.do \notin {"ready", "parts"} /\ Unanswered' /\ UNCHANGED frames
  BY DEF Asks, Attempting, Early, Opening, Unanswered, AtProof
<1>2. /\ up = <<>> /\ Coming \subseteq Oddities
      /\ \A f \in Oddities : ~IsOffer(f)
  BY <1>1, OddOffer DEF Moving, TransferInv, GoingInv, Quiet
<1>3. UNCHANGED <<dmode, dwhat>> /\ \A f \in Coming' : ~IsOffer(f)'
  BY <1>1, <1>2, MovingKeeps, OffersThen DEF Moving
<1>4. up' = Write("upnp", "CMD_GET_INFO")
  <2>1. Write("upnp", "CMD_GET_INFO") \in Seq(Flight)
    BY WriteType DEF ShortKinds, Channels
  <2> QED
    BY <1>2, <2>1, ConcatEmptySeq DEF Asks, Sends
<1>5. \A f \in Going' : f = Short("CMD_GET_INFO")
  BY <1>4, FramesWrite DEF Going
<1>6. Tail(up') = <<>>
  <2>1. Write("upnp", "CMD_GET_INFO")
          = <<[ch |-> "upnp", frame |-> Short("CMD_GET_INFO")]>>
    BY DEF Write, On
  <2>2. \A x : Tail(<<x>>) = <<>>
    OBVIOUS
  <2> QED
    BY <1>4, <2>1, <2>2
<1>7. \A f \in Going' : f.kind \notin {"parcel", "announce", "rdy", "ok", "ack"}
  BY <1>5, ShortFields
<1>8. GoingInv'
  BY <1>1, <1>6, <1>7, NoParcels DEF GoingInv, Quiet, Asked, NothingYet,
     ParcelsLast, AckLast, Announcing, Asking
<1>9. ModeInv'
  BY <1>1, <1>3, <1>7, TransferNoOffer
     DEF Moving, TransferInv, ModeInv, Filling, Acknowledged
<1> QED
  BY <1>1, <1>8, <1>9 DEF Moving, TransferInv, NeverMixed

\* It begins a login or a key exchange.
LEMMA TransferBegins ==
    ASSUME Moving, Begins
    PROVE  TransferInv'
<1>1. /\ Attempting /\ Early /\ ~AtProof /\ pc.do # "parts"
      /\ Attempting' /\ ~Early' /\ ~AtDid' /\ ~AtProof' /\ Opening'
      /\ pc'.do = "rdy" /\ Unanswered' /\ UNCHANGED frames
  BY DEF Begins, Attempting, Early, Opening, Unanswered, AtDid, AtProof
<1>2. UNCHANGED <<dmode, dwhat>> /\ \A f \in Coming' : ~IsOffer(f)'
  BY <1>1, MovingKeeps, EarlyOffers
<1>3. \A f \in Going' : \/ f \in Going
                        \/ f.kind \in {"CMD_LOGIN", "CMD_SET_KEY", "announce"}
  <2>1. CASE Sends(Write("upnp", "CMD_LOGIN") \o Ann("appRand"))
    <3>1. Write("upnp", "CMD_LOGIN") \in Seq(Flight)
      BY WriteType DEF ShortKinds, Channels
    <3>2. Going' = Going \cup {Short("CMD_LOGIN"), Announcement("appRand")}
      BY <2>1, <3>1, AnnouncesGoing, FramesWrite DEF Sending
    <3> QED
      BY <3>2, ShortFields, AnnouncementFields
  <2>2. CASE Sends((<<>> \o Write("upnp", "CMD_SET_KEY")) \o Ann("pub"))
    <3>1. <<>> \in Seq(Flight) /\ FramesOf(<<>>) = {}
      BY EmptySeq DEF FramesOf
    <3>2. /\ <<>> \o Write("upnp", "CMD_SET_KEY") \in Seq(Flight)
          /\ FramesOf(<<>> \o Write("upnp", "CMD_SET_KEY")) = {Short("CMD_SET_KEY")}
      BY <3>1, WritesAfter DEF ShortKinds, Channels
    <3>3. Going' = Going \cup {Short("CMD_SET_KEY"), Announcement("pub")}
      BY <2>2, <3>2, AnnouncesGoing DEF Sending
    <3> QED
      BY <3>3, ShortFields, AnnouncementFields
  <2> QED
    BY <2>1, <2>2 DEF Begins
<1>4. \A f \in Going' : f.kind # "parcel"
  BY <1>1, <1>3 DEF Moving, TransferInv, GoingInv, NothingYet
<1>5. Announcing' /\ Asking'
  BY <1>1, <1>3 DEF Moving, TransferInv, GoingInv, Announcing, Asking
<1>6. GoingInv'
  BY <1>1, <1>4, <1>5, NoParcels
     DEF GoingInv, Quiet, Asked, NothingYet, ParcelsLast, AckLast
<1>7. ModeInv'
  BY <1>1, <1>2, <1>3, TransferNoOffer
     DEF Moving, TransferInv, ModeInv, Filling, Acknowledged
<1> QED
  BY <1>1, <1>6, <1>7 DEF Moving, TransferInv, NeverMixed

\* It sends the parcels of a value.
LEMMA TransferSends ==
    ASSUME Moving, SendsParcels
    PROVE  TransferInv'
<1>1. /\ Attempting /\ ~Early /\ ~AtDid /\ ~AtProof /\ Unanswered = Opening
      /\ Attempting' /\ ~Early' /\ ~AtDid' /\ ~AtProof' /\ Unanswered' = Opening'
      /\ pc.do = "rdy" /\ pc'.do = "ok" /\ UNCHANGED frames
      /\ Opening' = Opening
  BY DEF SendsParcels, Attempting, Early, Opening, Unanswered, AtDid, AtProof
<1>2. /\ UNCHANGED <<dmode, dwhat>> /\ Coming' \subseteq Coming
      /\ \A f : Offers(f)' = Offers(f) /\ IsOffer(f)' = IsOffer(f)
  BY <1>1, MovingKeeps DEF IsOffer
<1>3. PICK w : w = On("avdtp", Parcels(Payload(pc.what)))
  OBVIOUS
<1>4. w \in Seq(Flight) /\ \A f \in FramesOf(w) : f.kind = "parcel"
  <2>1. pc.what \in Sending /\ Payload(pc.what) \in Blobs
    BY <1>1, KeptTypes, PointsOf, PayloadType DEF Moving
  <2>2. Parcels(Payload(pc.what)) \in Seq(FrameSet)
    BY <2>1, ParcelsType
  <2> QED
    BY <1>3, <2>2, OnType, FramesOn, ParcelsElements DEF Channels
<1>5. up' = up \o w /\ Going' = Going \cup FramesOf(w)
  BY <1>3, <1>4, SendsGoing DEF SendsParcels, Sends, Moving
<1>6. Opening => Follow(up', {"parcel"}, {"parcel"})
  <2>1. Follow(w, {"parcel"}, {"parcel"})
    BY <1>4, FollowPlain
  <2>2. Opening => Follow(up, {"parcel"}, {"parcel"})
    BY <1>1 DEF Moving, TransferInv, GoingInv, ParcelsLast
  <2>3. up \in Seq(Flight) /\ \A f \in FramesOf(w) : f.kind \in {"parcel"}
    BY <1>4, KeptTypes DEF Moving
  <2>4. Opening => Follow(up \o w, {"parcel"}, {"parcel"})
    BY <1>4, <2>1, <2>2, <2>3, FollowConcat
  <2> QED
    BY <1>5, <2>4
<1>7. \A f \in Going' : f \in Going \/ f.kind = "parcel"
  BY <1>4, <1>5
<1>8. GoingInv'
  <2>1. Announcing' /\ Asking'
    BY <1>1, <1>7 DEF Moving, TransferInv, GoingInv, Announcing, Asking
  <2> QED
    BY <1>1, <1>6, <2>1
       DEF GoingInv, Quiet, Asked, NothingYet, ParcelsLast, AckLast
<1>9. ModeInv'
  <2>1. Filling' /\ Acknowledged'
    BY <1>1, <1>2, <1>7 DEF Moving, TransferInv, ModeInv, Filling, Acknowledged
  <2>2. OnlyParcels => OnlyParcels'
    BY <1>7 DEF OnlyParcels
  <2>3. OfferComing'
    BY <1>1, <1>2, <2>2 DEF Moving, TransferInv, ModeInv, OfferComing
  <2>4. Collecting'
    BY <1>1 DEF Collecting
  <2> QED
    BY <2>1, <2>3, <2>4 DEF ModeInv
<1> QED
  BY <1>1, <1>8, <1>9 DEF Moving, TransferInv, NeverMixed

\* The charger has them, and it is its turn.
LEMMA TransferHeeded ==
    ASSUME Moving, Heeded
    PROVE  TransferInv'
<1>1. /\ Attempting /\ ~Early /\ ~AtDid /\ ~AtProof /\ Unanswered = Opening
      /\ Attempting' /\ ~Early' /\ ~AtDid' /\ ~AtProof' /\ Unanswered' = Opening'
      /\ pc.do = "ok" /\ pc'.do \in {"head", "conf"} /\ UNCHANGED frames
  BY DEF Heeded, Attempting, Early, Opening, Unanswered, AtDid, AtProof
<1>2. /\ UNCHANGED <<dmode, dwhat>> /\ Coming' \subseteq Coming
      /\ \A f : Offers(f)' = Offers(f) /\ IsOffer(f)' = IsOffer(f)
  BY <1>1, MovingKeeps DEF IsOffer
<1>3. CASE UNCHANGED up /\ Opening' = Opening
  <2>1. Going' = Going /\ OnlyParcels' = OnlyParcels
    BY <1>3 DEF Going, OnlyParcels
  <2>2. GoingInv'
    BY <1>1, <1>3, <2>1 DEF Moving, TransferInv, GoingInv, Quiet, Asked,
       NothingYet, ParcelsLast, AckLast, Announcing, Asking
  <2>3. Filling' /\ Acknowledged' /\ Collecting'
    BY <1>1, <1>2, <1>3, <2>1
       DEF Moving, TransferInv, ModeInv, Filling, Acknowledged, Collecting
  <2>4. OfferComing'
    BY <1>1, <1>2, <1>3, <2>1 DEF Moving, TransferInv, ModeInv, OfferComing
  <2> QED
    BY <1>1, <2>2, <2>3, <2>4 DEF Moving, TransferInv, ModeInv, NeverMixed
<1>4. CASE /\ ~Opening /\ ~Opening'
           /\ UNCHANGED up \/ Sends(Write("upnp", "CMD_AUTH"))
  <2>1. \A f \in Going' : f \in Going \/ f = Short("CMD_AUTH")
    <3>1. Write("upnp", "CMD_AUTH") \in Seq(Flight)
      BY WriteType DEF ShortKinds, Channels
    <3>2. Sends(Write("upnp", "CMD_AUTH")) => Going' = Going \cup {Short("CMD_AUTH")}
      BY <3>1, SendsGoing, FramesWrite DEF Moving
    <3> QED
      BY <1>4, <3>2 DEF Going
  <2>2. \A f \in Going' : f \in Going \/ f.kind = "CMD_AUTH"
    BY <2>1, ShortFields
  <2>3. GoingInv'
    <3>1. Announcing' /\ Asking'
      BY <1>1, <1>4, <2>2 DEF Moving, TransferInv, GoingInv, Announcing, Asking
    <3> QED
      BY <1>1, <1>4, <3>1
         DEF GoingInv, Quiet, Asked, NothingYet, ParcelsLast, AckLast
  <2>4. \A f \in Coming' : ~IsOffer(f)'
    BY <1>1, <1>2, <1>4 DEF Moving, TransferInv, ModeInv, OfferComing
  <2>5. Filling' /\ Acknowledged' /\ Collecting' /\ OfferComing'
    BY <1>1, <1>2, <1>4, <2>2, <2>4
       DEF Moving, TransferInv, ModeInv, Filling, Acknowledged, Collecting,
           OfferComing
  <2> QED
    BY <1>1, <2>3, <2>5 DEF Moving, TransferInv, ModeInv, NeverMixed
<1> QED
  <2>1. CASE pc.what \in {"appRand", "pub"} /\ pc'.do = "head"
             /\ pc'.what \in {"devRand", "peerPub"} /\ UNCHANGED up
    BY <1>1, <1>3, <2>1 DEF Opening
  <2>2. CASE /\ pc.what \in {"appProof", "didCt"} /\ pc'.do = "conf"
             /\ UNCHANGED up \/ Sends(Write("upnp", "CMD_AUTH"))
    BY <1>1, <1>4, <2>2 DEF Opening
  <2> QED
    BY <2>1, <2>2 DEF Heeded

\* Behind the offer the host takes there is nothing that it could take for
\* another, nor for a parcel of a value.
LEMMA BehindOffer ==
    ASSUME TypeOK, TransferInv, NEW f, Receive(f), pc.do = "head", IsOffer(f)
    PROVE  \A g \in Coming' : Plain(g)
<1> DEFINE q == queue["avdtp"]
<1>1. /\ q \in Seq(FrameSet) /\ q # <<>> /\ f = Head(q) /\ f \in FrameSet
      /\ queue' = [queue EXCEPT !["avdtp"] = Tail(q)] /\ UNCHANGED down
      /\ queue \in [Channels -> Seq(FrameSet)]
  <2>1. ChannelOf(pc) = "avdtp"
    BY DEF ChannelOf
  <2>2. queue \in [Channels -> Seq(FrameSet)]
    BY DEF TypeOK, LinkType
  <2> QED
    BY <2>1, <2>2, ReceiveType DEF Receive, Incoming, Channels
<1>2. queue'["avdtp"] = Tail(q) /\ queue'["upnp"] = queue["upnp"]
  BY <1>1 DEF Channels
<1>3. /\ Queued \in Seq(Flight) /\ Queued = On("avdtp", q)
      /\ On("avdtp", Tail(q)) = Tail(Queued)
  BY <1>1, QueuedType, OnTail DEF Queued
<1>4. Queued # <<>> /\ Head(Queued).frame = f
  <2>1. 1 \in DOMAIN q
    BY <1>1, LenProperties, EmptySeq
  <2>2. DOMAIN Queued # {}
    BY <1>3, <2>1 DEF On
  <2>3. Queued # <<>>
    BY <2>2
  <2>4. Head(Queued) = Queued[1] /\ Head(q) = q[1]
    BY <1>1, <1>3, <2>3, HeadTailProperties
  <2> QED
    BY <1>1, <1>3, <2>1, <2>3, <2>4 DEF On
<1>5. Attempting /\ f \in OfferSet
  BY <1>1 DEF Attempting, OfferSet
<1>6. FramesOf(Tail(Queued)) \subseteq Oddities /\ FramesOf(down) \subseteq Oddities
  <2>1. Behind(Queued, OfferSet, Oddities)
    BY <1>5 DEF TransferInv, OrderInv, NoiseBehind
  <2>2. FramesOf(Tail(Queued)) \subseteq Oddities
    BY <1>3, <1>4, <1>5, <2>1, BehindTail
  <2>3. f \in FramesOf(Queued)
    BY <1>3, <1>4, FramesTail
  <2> QED
    BY <1>5, <2>2, <2>3 DEF TransferInv, OrderInv, NoiseBehind
<1>7. Coming' = FramesOf(down) \cup Elements(queue["upnp"]) \cup FramesOf(Tail(Queued))
  BY <1>1, <1>2, <1>3, FramesOn DEF Coming
<1>8. \A g \in Elements(queue["upnp"]) : Plain(g)
  BY DEF TransferInv, OrderInv, PlainUpnp
<1> QED
  BY <1>6, <1>7, <1>8, OddOffer

LEMMA TakenOffer ==
    ASSUME Moving, NEW f, Receive(f), pc.do = "head", f.code = Code[pc.what],
           f.kind = "inline" \/ (f.kind = "announce" /\ f.n # 0)
    PROVE  /\ Offers(f) /\ OnlyParcels /\ dwhat = pc.what
           /\ AtDid => \A g \in Going : g.kind # "parcel"
           /\ \A g \in Coming' : ~IsOffer(g)' /\ ~Piece(g)
<1>1. IsOffer(f) /\ f \in Coming /\ Attempting /\ pc.what \in Taking
  BY ExpectedOffer, ReceiveComing, KeptTypes, PointsOf DEF Moving, Attempting
<1>2. Offers(f) /\ OnlyParcels
  BY <1>1 DEF Moving, TransferInv, ModeInv, OfferComing
<1>3. dwhat = pc.what
  <2>1. dwhat \in Taking /\ f.code = Code[dwhat]
    BY <1>2, AnnouncementFields, InlineFields DEF Offers
  <2> QED
    BY <1>1, <2>1, CodesDiffer
<1>4. \A g \in Coming' : ~IsOffer(g)' /\ ~Piece(g)
  BY <1>1, BehindOffer, PlainOffer DEF Moving
<1> QED
  BY <1>2, <1>3, <1>4
     DEF Moving, TransferInv, GoingInv, NothingYet, Early, AtDid

\* The host is ready for the parcels of an offer.
LEMMA TransferAccepts ==
    ASSUME Moving, NEW f, Receive(f), Accepts(f)
    PROVE  TransferInv'
<1>1. /\ Attempting' /\ ~AtDid' /\ ~AtProof' /\ ~Opening' /\ Unanswered' = Early'
      /\ Early' => AtDid
      /\ pc.do = "head" /\ pc'.do = "parts" /\ pc'.what = pc.what
      /\ frames' = <<>> /\ expected' = f.n
  BY DEF Accepts, Attempting, Early, Opening, Unanswered, AtDid, AtProof
<1>2. f.kind = "announce" /\ f.n # 0 /\ f.code = Code[pc.what]
  BY DEF Accepts
<1>3. /\ Offers(f) /\ OnlyParcels /\ dwhat = pc.what
      /\ AtDid => \A g \in Going : g.kind # "parcel"
      /\ \A g \in Coming' : ~IsOffer(g)' /\ ~Piece(g)
  BY <1>1, <1>2, TakenOffer
<1>4. UNCHANGED <<dmode, dwhat>> /\ dmode = "offer" /\ f.n = ParcelCount(dwhat)
  BY <1>2, <1>3, MovingKeeps, AnnouncementFields, InlineFields DEF Offers
<1>5. PICK w : w = Write("avdtp", "rdy")
  OBVIOUS
<1>6. /\ w \in Seq(Flight) /\ FramesOf(w) = {Short("rdy")}
      /\ up' = up \o w /\ Going' = Going \cup {Short("rdy")}
  BY <1>5, WriteType, SendsGoing, FramesWrite
     DEF Accepts, Moving, Sends, ShortKinds, Channels
<1>7. /\ \A g \in Going : g.kind = "parcel"
      /\ \A g \in Going' : g \in Going \/ g.kind = "rdy"
      /\ \A g \in Going' : g.kind \in {"parcel", "rdy"}
  BY <1>3, <1>6, ShortFields DEF OnlyParcels
<1>8. Follow(up', {"rdy"}, {})
  <2>1. Follow(w, {"rdy"}, {})
    BY <1>5, <1>6, FollowPlain
  <2>2. up \in Seq(Flight) /\ \A g \in FramesOf(up) : g.kind \notin {"rdy"}
    BY <1>7, KeptTypes DEF Moving, Going
  <2>3. Follow(up, {"rdy"}, {})
    BY <2>2, FollowPlain
  <2>4. Follow(up \o w, {"rdy"}, {})
    BY <1>6, <2>1, <2>2, <2>3, FollowConcat
  <2> QED
    BY <1>6, <2>4
<1>9. Early' => \A g \in Going' : g.kind # "parcel"
  BY <1>1, <1>3, <1>7
<1>10. GoingInv'
  <2>1. Announcing' /\ Asking'
    BY <1>1, <1>7 DEF Announcing, Asking
  <2> QED
    BY <1>1, <1>9, <2>1, NoParcels
       DEF GoingInv, Quiet, Asked, NothingYet, ParcelsLast, AckLast
<1>11. Filling' /\ Acknowledged' /\ OfferComing'
  BY <1>3, <1>4 DEF Filling, Acknowledged, OfferComing
<1>12. Collecting'
  BY <1>1, <1>3, <1>4, <1>7, <1>8 DEF Collecting, Piece
<1>13. NeverMixed'
  <2>1. frames' = <<>>
    BY <1>1
  <2>2. DOMAIN frames' = {}
    BY <2>1
  <2> QED
    BY <2>2 DEF NeverMixed
<1> QED
  BY <1>10, <1>11, <1>12, <1>13 DEF Moving, TransferInv, ModeInv

\* It collects a parcel of the value.
LEMMA TransferCollects ==
    ASSUME Moving, NEW f, Receive(f), TakesOne(f)
    PROVE  TransferInv'
<1>1. /\ pc.do = "parts" /\ UNCHANGED <<pc, up, expected>> /\ frames' = Gathered(f)
      /\ f.kind = "parcel" /\ f.n \in 1..expected
  BY DEF TakesOne, GathersOne
<1>2. f \in Coming
  BY ReceiveComing DEF Moving
<1>3. /\ dmode = "send" /\ OnlyParcels
      /\ \A i \in DOMAIN frames' : frames'[i] = DPayload(dwhat)
  BY <1>1, <1>2, PartsSame DEF Moving
<1>4. /\ UNCHANGED <<dmode, dwhat>> /\ Coming' \subseteq Coming
      /\ DPayload(dwhat)' = DPayload(dwhat)
  BY MovingKeeps
<1>5. /\ Attempting' = Attempting /\ Early' = Early /\ Opening' = Opening
      /\ Unanswered' = Unanswered /\ AtDid' = AtDid /\ AtProof' = AtProof
      /\ Going' = Going /\ OnlyParcels' = OnlyParcels
  BY <1>1 DEF Attempting, Early, Opening, Unanswered, AtDid, AtProof, Going,
     OnlyParcels
<1>6. \A g : IsOffer(g)' = IsOffer(g)
  BY <1>5 DEF IsOffer
<1>7. GoingInv'
  BY <1>1, <1>4, <1>5 DEF Moving, TransferInv, GoingInv, Quiet, Asked,
     NothingYet, ParcelsLast, AckLast, Announcing, Asking, Oddities
<1>8. Filling' /\ Acknowledged'
  BY <1>3, <1>4, <1>5 DEF Moving, TransferInv, ModeInv, Filling, Acknowledged
<1>9. \A g \in Coming' : ~IsOffer(g)'
  BY <1>1, <1>4, <1>6 DEF Moving, TransferInv, ModeInv, Collecting
<1>10. OfferComing'
  BY <1>9 DEF OfferComing
<1>11. Collecting'
  BY <1>1, <1>3, <1>4, <1>5, <1>9
     DEF Moving, TransferInv, ModeInv, Collecting, Piece
<1> QED
  BY <1>3, <1>7, <1>8, <1>10, <1>11
     DEF Moving, TransferInv, ModeInv, NeverMixed

\* It has a value and goes on with the procedure.
LEMMA TransferProceeds ==
    ASSUME Moving, pc.do \in {"head", "parts"}, OnlyParcels,
           dmode \in {"ack", "send"}, dwhat = pc.what,
           \A g \in Coming' : ~IsOffer(g)', NeverMixed',
           NEW data, NEW kind \in {"ok", "ack"},
           Proceeds(pc.what, data, Write("avdtp", kind))
    PROVE  TransferInv'
<1>1. Write("avdtp", kind) \in Seq(Flight) /\ FramesOf(Write("avdtp", kind)) = {Short(kind)}
  BY WriteType, FramesWrite DEF ShortKinds, Channels
<1>2. UNCHANGED <<dmode, dwhat>> /\ \A g \in Going : g.kind = "parcel"
  BY MovingKeeps DEF OnlyParcels
<1>3. CASE /\ pc.what = "devRand" /\ pc'.do = "head" /\ pc'.what = "devProof"
           /\ Sends(Write("avdtp", kind))
  <2>1. Attempting' /\ ~Early' /\ ~AtDid' /\ AtProof' /\ ~Unanswered'
    BY <1>3 DEF Attempting, Early, Opening, Unanswered, AtDid, AtProof
  <2>2. PICK w : w = Write("avdtp", kind)
    OBVIOUS
  <2>3. up' = up \o w /\ Going' = Going \cup {Short(kind)}
    BY <1>1, <1>3, <2>2, SendsGoing DEF Moving, Sends
  <2>4. \A g \in Going' : g.kind \in {"parcel", "ok", "ack"}
    BY <1>2, <2>3, ShortFields
  <2>5. Follow(up', {"ok", "ack"}, {})
    <3>1. Follow(w, {"ok", "ack"}, {})
      BY <1>1, <2>2, FollowPlain
    <3>2. up \in Seq(Flight) /\ \A g \in FramesOf(up) : g.kind \notin {"ok", "ack"}
      BY <1>2, KeptTypes DEF Moving, Going
    <3>3. Follow(up, {"ok", "ack"}, {})
      BY <3>2, FollowPlain
    <3>4. Follow(up \o w, {"ok", "ack"}, {})
      BY <1>1, <2>2, <3>1, <3>2, <3>3, FollowConcat
    <3> QED
      BY <2>3, <3>4
  <2>6. GoingInv'
    <3>1. Announcing' /\ Asking'
      BY <2>4 DEF Announcing, Asking
    <3>2. pc'.do # "ready"
      BY <1>3
    <3> QED
      BY <2>1, <2>4, <2>5, <3>1, <3>2
         DEF GoingInv, Quiet, Asked, NothingYet, ParcelsLast, AckLast
  <2>7. ModeInv'
    BY <1>2, <1>3, <2>1, TransferNoOffer DEF ModeInv, Filling, Acknowledged
  <2> QED
    BY <2>6, <2>7 DEF Moving, TransferInv
<1>4. ASSUME NEW what \in Sending, NEW before \in Seq(Flight),
             \A g \in FramesOf(before) : g.kind \in {"ok", "ack", "CMD_SET_KEY"},
             Sends(before \o Ann(what)), pc'.do = "rdy", pc'.what = what,
             dwhat # "devRand",
             what \in {"appRand", "pub"} => what = "pub" /\ pc.what = "did"
      PROVE  TransferInv'
  <2>1. /\ Attempting' /\ ~Early' /\ ~AtDid' /\ ~AtProof'
        /\ Unanswered' <=> Opening'
        /\ Opening' <=> what \in {"appRand", "pub"}
    BY <1>4 DEF Attempting, Early, Opening, Unanswered, AtDid, AtProof
  <2>2. Going' = Going \cup FramesOf(before) \cup {Announcement(what)}
    BY <1>4, AnnouncesGoing
  <2>3. \A g \in Going' : \/ g \in Going /\ g.kind = "parcel"
                          \/ g.kind \in {"ok", "ack", "CMD_SET_KEY"}
                          \/ g.kind = "announce" /\ g.code = Code[what]
    BY <1>2, <1>4, <2>2, AnnouncementFields
  <2>4. Code[what] \in {"0b", "03"} => Opening'
    BY <1>4, <2>1 DEF Code, Sending
  <2>5. Opening' => Follow(up', {"parcel"}, {"parcel"})
    <3> SUFFICES ASSUME Opening' PROVE Follow(up', {"parcel"}, {"parcel"})
      OBVIOUS
    <3>1. pc.what = "did"
      BY <1>4, <2>1
    <3>2. Early
      BY <3>1 DEF Early
    <3>3. \A g \in Going' : g.kind # "parcel"
      BY <2>3, <3>2 DEF Moving, TransferInv, GoingInv, NothingYet
    <3> QED
      BY <3>3, NoParcels
  <2>6. GoingInv'
    <3>1. Announcing' /\ Asking'
      BY <2>3, <2>4 DEF Announcing, Asking
    <3> QED
      BY <1>4, <2>1, <2>5, <3>1
         DEF GoingInv, Quiet, Asked, NothingYet, ParcelsLast, AckLast
  <2>7. ModeInv'
    BY <1>2, <1>4, <2>1, TransferNoOffer DEF ModeInv, Filling, Acknowledged
  <2> QED
    BY <2>6, <2>7 DEF Moving, TransferInv
<1>5. CASE /\ pc.what = "devProof" /\ pc'.do = "rdy" /\ pc'.what = "appProof"
           /\ Sends(Write("avdtp", kind) \o Ann("appProof"))
  BY <1>1, <1>4, <1>5, ShortFields DEF Sending
<1>6. CASE /\ pc.what = "peerPub" /\ pc'.do = "rdy" /\ pc'.what = "didCt"
           /\ Sends(Write("avdtp", kind) \o Ann("didCt"))
  BY <1>1, <1>4, <1>6, ShortFields DEF Sending
<1>7. CASE /\ pc.what = "did" /\ pc'.do = "rdy" /\ pc'.what = "pub"
           /\ Sends((Write("avdtp", kind) \o Write("upnp", "CMD_SET_KEY")) \o Ann("pub"))
  <2>1. PICK before : before = Write("avdtp", kind) \o Write("upnp", "CMD_SET_KEY")
    OBVIOUS
  <2>2. /\ before \in Seq(Flight)
        /\ FramesOf(before) = {Short(kind), Short("CMD_SET_KEY")}
    BY <1>1, <2>1, WritesAfter DEF ShortKinds, Channels
  <2>3. \A g \in FramesOf(before) : g.kind \in {"ok", "ack", "CMD_SET_KEY"}
    BY <2>2, ShortFields
  <2> QED
    BY <1>4, <1>7, <2>1, <2>2, <2>3 DEF Sending
<1> QED
  BY <1>3, <1>5, <1>6, <1>7 DEF Proceeds

LEMMA TransferTakes ==
    ASSUME Moving, NEW f, Receive(f), TakesInline(f) \/ TakesAll(f)
    PROVE  TransferInv'
<1>1. CASE TakesInline(f)
  <2>1. /\ pc.do = "head" /\ f.kind = "inline" /\ f.code = Code[pc.what]
        /\ UNCHANGED frames
    BY <1>1 DEF TakesInline
  <2>2. /\ Offers(f) /\ OnlyParcels /\ dwhat = pc.what
        /\ \A g \in Coming' : ~IsOffer(g)'
    BY <2>1, TakenOffer
  <2>3. dmode = "ack"
    BY <2>1, <2>2, AnnouncementFields DEF Offers
  <2>4. NeverMixed'
    BY <2>1 DEF Moving, TransferInv, NeverMixed
  <2> QED
    BY <1>1, <2>1, <2>2, <2>3, <2>4, TransferProceeds DEF TakesInline
<1>2. CASE TakesAll(f)
  <2>1. /\ pc.do = "parts" /\ frames' = Gathered(f)
        /\ f.kind = "parcel" /\ f.n \in 1..expected /\ f \in Coming
    BY <1>2, ReceiveComing DEF TakesAll, GathersAll, Moving
  <2>2. /\ dmode = "send" /\ OnlyParcels
        /\ \A i \in DOMAIN frames' : frames'[i] = DPayload(dwhat)
    BY <2>1, PartsSame DEF Moving
  <2>3. NeverMixed'
    BY <2>2 DEF NeverMixed
  <2>4. dwhat = pc.what /\ \A g \in Coming' : ~IsOffer(g)'
    <3>1. dwhat = pc.what /\ \A g \in Coming : ~IsOffer(g)
      BY <2>1 DEF Moving, TransferInv, ModeInv, Collecting
    <3>2. \A g : IsOffer(g)' => IsOffer(g)
      <4>1. ~AtDid'
        BY <1>2 DEF TakesAll, Proceeds, AtDid
      <4> QED
        BY <4>1 DEF IsOffer
    <3> QED
      BY <3>1, <3>2, MovingKeeps
  <2> QED
    BY <1>2, <2>1, <2>2, <2>3, <2>4, TransferProceeds DEF TakesAll
<1> QED
  BY <1>1, <1>2

LEMMA TransferNewClient ==
    ASSUME TypeOK, NewClient, ~Slow
    PROVE  TransferInv'
<1>1. /\ up' = <<>> /\ down' = <<>> /\ up = <<>> /\ down = <<>>
      /\ pc' = At("ready", "") /\ frames' = <<>>
      /\ queue' = [ch \in Channels |-> <<>>]
  BY DEF NewClient, InTime, link
<1>2. FramesOf(<<>>) = {} /\ Elements(<<>>) = {} /\ On("avdtp", <<>>) = <<>>
  BY DEF FramesOf, Elements, On
<1>3. Coming' = {} /\ Going' = {}
  BY <1>1, <1>2, EmptyComing DEF Going
<1>4. queue'["upnp"] = <<>> /\ queue'["avdtp"] = <<>> /\ Queued' = <<>>
  BY <1>1, <1>2 DEF Channels, Queued
<1>5. pc'.do = "ready"
  BY <1>1, AtParts
<1>6. /\ Unanswered' /\ ~AtDid' /\ ~AtProof'
  BY <1>5 DEF Unanswered, Early, AtDid, AtProof
<1>7. GoingInv'
  BY <1>1, <1>3, <1>6, FollowNone DEF GoingInv, Quiet, Asked, NothingYet,
     ParcelsLast, AckLast, Announcing, Asking
<1>8. ModeInv'
  BY <1>3, <1>5, <1>6 DEF ModeInv, Filling, Acknowledged, OfferComing, Collecting
<1>9. OrderInv'
  <2>1. NoiseBehind'
    <3>1. \A K : Behind(<<>>, K, Oddities)
      BY BehindPlain
    <3>2. Behind(Queued', OfferSet', Oddities) /\ Behind(down', OfferSet', Oddities)
      BY <1>1, <1>4, <3>1
    <3> QED
      BY <1>1, <1>2, <1>4, <3>2 DEF NoiseBehind, Oddities
  <2>2. down' = <<>>
    BY <1>1
  <2>3. DOMAIN down' = {}
    BY <2>2
  <2>4. PlainUpnp' /\ EmptyNoise'
    BY <1>2, <1>3, <1>4, <2>3 DEF PlainUpnp, EmptyNoise
  <2> QED
    BY <2>1, <2>4 DEF OrderInv
<1>10. NeverMixed'
  <2>1. frames' = <<>>
    BY <1>1
  <2>2. DOMAIN frames' = {}
    BY <2>1
  <2> QED
    BY <2>2 DEF NeverMixed
<1> QED
  BY <1>7, <1>8, <1>9, <1>10 DEF TransferInv

LEMMA TransferInit == Init => TransferInv
<1> SUFFICES ASSUME Init PROVE TransferInv
  OBVIOUS
<1>1. /\ up = <<>> /\ down = <<>> /\ pc = Idle /\ frames = <<>>
      /\ queue = [ch \in Channels |-> <<>>]
  BY DEF Init
<1>2. FramesOf(<<>>) = {} /\ Elements(<<>>) = {} /\ On("avdtp", <<>>) = <<>>
  BY DEF FramesOf, Elements, On
<1>3. Coming = {} /\ Going = {}
  BY InitComing
<1>4. queue["upnp"] = <<>> /\ Queued = <<>>
  BY <1>1, <1>2 DEF Channels, Queued
<1>5. /\ pc.do = "none"
      /\ ~Attempting /\ ~Early /\ ~Unanswered /\ ~AtDid /\ ~AtProof
  BY <1>1, AtParts DEF Attempting, Unanswered, Early, Opening, AtDid, AtProof
<1>6. GoingInv
  BY <1>5 DEF GoingInv, Quiet, Asked, NothingYet, ParcelsLast, AckLast,
     Announcing, Asking
<1>7. ModeInv
  BY <1>5 DEF ModeInv, Filling, Acknowledged, OfferComing, Collecting
<1>8. DOMAIN down = {} /\ DOMAIN frames = {}
  BY <1>1
<1>9. OrderInv /\ NeverMixed
  BY <1>2, <1>3, <1>4, <1>5, <1>8
     DEF OrderInv, NoiseBehind, PlainUpnp, EmptyNoise, NeverMixed
<1> QED
  BY <1>6, <1>7, <1>9 DEF TransferInv

LEMMA TransferHost ==
    ASSUME TypeOK, TransferInv, Host, ~Slow
    PROVE  TransferInv'
<1>1. CASE NewClient
  BY <1>1, TransferNewClient
<1>2. CASE ~NewClient
  <2>1. HostKeeps /\ TakesOff /\ TypeOK'
    BY <1>2, HostFrame, HostCollects, HostTakes, HostStepType DEF HostKeeps
  <2>2. \/ Unsubscribe \/ StaysHere \/ StopsHere \/ Greets \/ Asks \/ Begins
        \/ SendsParcels \/ Heeded
        \/ \E f : Receive(f) /\ Taking1(f)
    BY <1>2, AttemptSteps
  <2>3. /\ Attempting' => Attempting
        /\ AtDid' => AtDid \/ pc.do = "ready"
    <3>1. CASE Unsubscribe
      <4>1. pc'.do = "none"
        BY <3>1, AtParts DEF Unsubscribe
      <4> QED
        BY <4>1 DEF Attempting, AtDid
    <3>2. ASSUME NEW f, Receive(f), Taking1(f)
          PROVE  /\ Attempting' => Attempting
                 /\ AtDid' => AtDid \/ pc.do = "ready"
      BY <3>2 DEF Taking1, Accepts, TakesInline, TakesOne, TakesAll, Proceeds,
         Attempting, AtDid
    <3>3. CASE \/ StaysHere \/ StopsHere \/ Greets \/ Asks \/ Begins
               \/ SendsParcels \/ Heeded
      BY <3>3 DEF StaysHere, StopsHere, Greets, Asks, Begins, SendsParcels,
         Heeded, Attempting, AtDid
    <3> QED
      BY <2>2, <3>1, <3>2, <3>3
  <2>4. Moving
    BY <2>1, <2>3, OrderHost DEF Moving
  <2>5. CASE \E f : Receive(f) /\ Taking1(f)
    BY <2>4, <2>5, TransferAccepts, TransferCollects, TransferTakes DEF Taking1
  <2> QED
    BY <2>2, <2>4, <2>5, TransferUnsubscribes, TransferStays, TransferStops,
       TransferGreets, TransferAsks, TransferBegins, TransferSends,
       TransferHeeded
<1> QED
  BY <1>1, <1>2

-----------------------------------------------------------------------------
(* So does the link.                                                       *)

\* A step of the link leaves the two sides where they are, and adds only noise.
LEMMA TransferLinkOn ==
    ASSUME TypeOK, TransferInv, OrderInv',
           UNCHANGED <<pc, frames, expected, dmode, dwhat, dtoken, dapp, drand>>,
           Coming' \subseteq Coming \cup Oddities,
           up' = up \/ (up # <<>> /\ up' = Tail(up))
    PROVE  TransferInv'
<1>1. /\ Attempting' = Attempting /\ Early' = Early /\ Opening' = Opening
      /\ Unanswered' = Unanswered /\ AtDid' = AtDid /\ AtProof' = AtProof
  BY DEF Attempting, Early, Opening, Unanswered, AtDid, AtProof
<1>2. /\ \A f : IsOffer(f)' = IsOffer(f)
      /\ \A f \in Coming' : IsOffer(f) \/ Piece(f) => f \in Coming
  BY <1>1, OddOffer DEF IsOffer
<1>3. DKeys' = DKeys
  BY DEF DKeys
<1>4. DPayload(dwhat)' = DPayload(dwhat)
  BY <1>3 DEF DPayload
<1>5. \A f : Offers(f)' = Offers(f)
  BY <1>4 DEF Offers
<1>6. up \in Seq(Flight) /\ Going' \subseteq Going
  BY KeptTypes, FramesTail DEF Going
<1>7. OnlyParcels => OnlyParcels'
  BY <1>6 DEF OnlyParcels
<1>8. \A K, L : Follow(up, K, L) => Follow(up', K, L)
  BY <1>6, FollowTail
<1>9. GoingInv'
  <2>1. Quiet' /\ NothingYet' /\ Announcing' /\ Asking'
    <3>1. up = <<>> => up' = <<>>
      OBVIOUS
    <3> QED
      BY <1>1, <1>6, <3>1 DEF TransferInv, GoingInv, Quiet, NothingYet,
         Announcing, Asking, Oddities
  <2>2. ParcelsLast' /\ AckLast'
    BY <1>1, <1>6, <1>8 DEF TransferInv, GoingInv, ParcelsLast, AckLast
  <2>3. Asked'
    <3>1. up' # <<>> => up' = up \/ Tail(up) # <<>>
      OBVIOUS
    <3> QED
      BY <1>1, <3>1 DEF TransferInv, GoingInv, Asked
  <2> QED
    BY <2>1, <2>2, <2>3 DEF GoingInv
<1>10. Filling' /\ Acknowledged'
  BY <1>1, <1>6 DEF TransferInv, ModeInv, Filling, Acknowledged
<1>11. OfferComing'
  BY <1>1, <1>2, <1>5, <1>7 DEF TransferInv, ModeInv, OfferComing
<1>12. Collecting'
  BY <1>2, <1>4, <1>6, <1>7, <1>8 DEF TransferInv, ModeInv, Collecting
<1> QED
  BY <1>9, <1>10, <1>11, <1>12 DEF TransferInv, ModeInv, NeverMixed

LEMMA OrderLoses ==
    ASSUME TypeOK, TransferInv, Loses
    PROVE  OrderInv'
<1>1. /\ UNCHANGED <<pc, queue>>
      /\ down' = down \/ (down # <<>> /\ down' = Tail(down))
  BY DEF Loses, LosesNotification, LosesWrite, client, inbox
<1>2. /\ Attempting' = Attempting /\ AtDid' = AtDid /\ Queued' = Queued
      /\ OfferSet' = OfferSet
  BY <1>1 DEF Attempting, AtDid, Queued, OfferSet, IsOffer
<1>3. \A f : IsOffer(f)' = IsOffer(f)
  BY <1>2 DEF IsOffer
<1>4. down \in Seq(Flight) /\ Coming' \subseteq Coming
  BY KeptTypes, LosesComing
<1>5. /\ Behind(down, OfferSet, Oddities) => Behind(down', OfferSet, Oddities)
      /\ FramesOf(down') \subseteq FramesOf(down)
  <2>1. PICK K : K = OfferSet
    OBVIOUS
  <2>2. down # <<>> /\ Behind(down, K, Oddities) => Behind(Tail(down), K, Oddities)
    BY <1>4, BehindTail
  <2>3. down # <<>> => FramesOf(Tail(down)) \subseteq FramesOf(down)
    BY <1>4, FramesTail
  <2> QED
    BY <1>1, <2>1, <2>2, <2>3
<1>6. NoiseBehind'
  BY <1>2, <1>3, <1>5 DEF TransferInv, OrderInv, NoiseBehind, Oddities
<1>7. PlainUpnp'
  <2>1. CASE down' = down
    BY <1>1, <2>1 DEF TransferInv, OrderInv, PlainUpnp
  <2>2. CASE down # <<>> /\ down' = Tail(down)
    <3>1. \A i \in DOMAIN Tail(down) : \E j \in DOMAIN down : Tail(down)[i] = down[j]
      <4>1. Elements(Tail(down)) \subseteq Elements(down)
        BY <1>4, <2>2, ElementsTail
      <4> QED
        BY <4>1 DEF Elements
    <3> QED
      BY <1>1, <2>2, <3>1 DEF TransferInv, OrderInv, PlainUpnp
  <2> QED
    BY <1>1, <2>1, <2>2
<1>8. EmptyNoise'
  BY <1>4 DEF TransferInv, OrderInv, EmptyNoise
<1> QED
  BY <1>6, <1>7, <1>8 DEF OrderInv

LEMMA ElementsBoth ==
    ASSUME NEW S, NEW q \in Seq(S), NEW w \in Seq(S)
    PROVE  Elements(q \o w) \subseteq Elements(q) \cup Elements(w)
<1>1. /\ Len(q) \in Nat /\ Len(w) \in Nat
      /\ DOMAIN q = 1..Len(q) /\ DOMAIN w = 1..Len(w)
      /\ DOMAIN (q \o w) = 1..(Len(q) + Len(w))
      /\ \A i \in 1..(Len(q) + Len(w)) :
            (q \o w)[i] = IF i <= Len(q) THEN q[i] ELSE w[i - Len(q)]
  BY ConcatProperties, LenProperties
<1>2. \A i \in 1..(Len(q) + Len(w)) :
         IF i <= Len(q) THEN i \in DOMAIN q ELSE i - Len(q) \in DOMAIN w
  BY <1>1
<1> QED
  BY <1>1, <1>2 DEF Elements

\* Frames that are told go behind what is on the link.
LEMMA OrderTells ==
    ASSUME TypeOK, TransferInv, UNCHANGED <<pc, queue>>,
           NEW w \in Seq(Flight), down' = down \o w,
           Behind(w, OfferSet, Oddities),
           Attempting /\ (\E f \in Coming : IsOffer(f)) =>
              FramesOf(w) \subseteq Oddities,
           \A x \in Elements(w) : x.ch = "upnp" => Plain(x.frame),
           \A f \in FramesOf(w) : f.kind = "parcel" /\ f.data = Empty => f.n = 9
    PROVE  OrderInv'
<1>1. /\ Attempting' = Attempting /\ AtDid' = AtDid /\ Queued' = Queued
      /\ OfferSet' = OfferSet
  BY DEF Attempting, AtDid, Queued, OfferSet, IsOffer
<1>2. \A f : IsOffer(f)' = IsOffer(f)
  BY <1>1 DEF IsOffer
<1>3. /\ down \in Seq(Flight) /\ Coming' = Coming \cup FramesOf(w)
      /\ FramesOf(down') = FramesOf(down) \cup FramesOf(w)
      /\ FramesOf(down) \subseteq Coming /\ FramesOf(Queued) \subseteq Coming
  BY KeptTypes, TellsComing, FramesConcat, QueuedType
<1>4. Attempting => Behind(down', OfferSet, Oddities)
  <2>1. PICK K : K = OfferSet
    OBVIOUS
  <2>2. /\ Attempting => Behind(down, K, Oddities)
        /\ Attempting => \/ FramesOf(w) \subseteq Oddities
                         \/ \A f \in FramesOf(down) : f \notin K
    BY <1>3, <2>1 DEF TransferInv, OrderInv, NoiseBehind, OfferSet
  <2>3. Attempting => Behind(down \o w, K, Oddities)
    BY <1>3, <2>1, <2>2, BehindConcat
  <2> QED
    BY <2>1, <2>3
<1>5. NoiseBehind'
  BY <1>1, <1>2, <1>3, <1>4 DEF TransferInv, OrderInv, NoiseBehind, Oddities
<1>6. PlainUpnp'
  <2>1. Elements(down') \subseteq Elements(down) \cup Elements(w)
    BY <1>3, ElementsBoth
  <2>2. \A i \in DOMAIN down' : \/ down'[i] \in Elements(w)
                                \/ \E j \in DOMAIN down : down'[i] = down[j]
    BY <2>1 DEF Elements
  <2> QED
    BY <2>2 DEF TransferInv, OrderInv, PlainUpnp
<1>7. EmptyNoise'
  BY <1>3 DEF TransferInv, OrderInv, EmptyNoise
<1> QED
  BY <1>5, <1>6, <1>7 DEF OrderInv

LEMMA OrderNoise ==
    ASSUME TypeOK, TransferInv, Noise
    PROVE  OrderInv'
<1>1. PICK ch \in Channels, x \in Oddities : down' = down \o On(ch, <<x>>)
  BY DEF Noise
<1>2. UNCHANGED <<pc, queue>>
  BY DEF Noise, client, inbox
<1>3. PICK w : w = On(ch, <<x>>)
  OBVIOUS
<1>4. w \in Seq(Flight) /\ FramesOf(w) = {x} /\ \A y \in Elements(w) : y.frame = x
  <2>1. <<x>> \in Seq(FrameSet)
    BY OddType
  <2>2. w = <<[ch |-> ch, frame |-> x]>>
    BY <1>3 DEF On
  <2>3. w \in Seq(Flight) /\ FramesOf(w) = {x}
    BY <1>3, <2>1, OnType, FramesOn, ElementsOne
  <2>4. Elements(w) = {[ch |-> ch, frame |-> x]}
    BY <2>2, ElementsOne
  <2> QED
    BY <2>3, <2>4
<1>5. Behind(w, OfferSet, Oddities)
  <2>1. \A K : Behind(w, K, Oddities)
    BY <1>4, BehindPlain
  <2> QED
    BY <2>1
<1> QED
  BY <1>1, <1>2, <1>3, <1>4, <1>5, OddOffer, OrderTells

\* A queue that makes room for one.
LEMMA KeptElements ==
    ASSUME NEW q \in Seq(FrameSet), NEW x \in FrameSet, Len(q) <= QueueMax
    PROVE  Elements(Append(Kept(q), x)) \subseteq Elements(q) \cup {x}
<1>1. Kept(q) = q \/ (q # <<>> /\ Kept(q) = Tail(q))
  BY AuthConstants, LenProperties, EmptySeq DEF Kept
<1>2. Kept(q) \in Seq(FrameSet) /\ Elements(Kept(q)) \subseteq Elements(q)
  BY <1>1, ElementsTail, Taken
<1> QED
  BY <1>2, ElementsAppend

LEMMA KeptQueued ==
    ASSUME queue["avdtp"] \in Seq(FrameSet)
    PROVE  LET k == Kept(queue["avdtp"])
           IN  /\ k \in Seq(FrameSet)
               /\ \/ On("avdtp", k) = Queued
                  \/ Queued # <<>> /\ On("avdtp", k) = Tail(Queued)
<1> DEFINE q == queue["avdtp"]
<1>1. Kept(q) = q \/ (q # <<>> /\ Kept(q) = Tail(q))
  BY AuthConstants, LenProperties, EmptySeq DEF Kept
<1>2. CASE Kept(q) = q
  BY <1>2 DEF Queued
<1>3. CASE q # <<>> /\ Kept(q) = Tail(q)
  <2>1. 1 \in DOMAIN q
    <3>1. q \in Seq(FrameSet) /\ q # <<>>
      BY <1>3
    <3> QED
      BY <3>1, LenProperties, EmptySeq
  <2>2. DOMAIN Queued # {}
    BY <2>1 DEF Queued, On
  <2>3. Queued # <<>>
    BY <2>2
  <2> QED
    BY <1>3, <2>3, OnTail, Taken DEF Queued
<1> QED
  BY <1>1, <1>2, <1>3

\* A frame goes from the link to its queue, or to nobody.
LEMMA OrderDelivers ==
    ASSUME TypeOK, TransferInv, Deliver
    PROVE  OrderInv'
<1> DEFINE h == Head(down)
           x == Head(down).frame
<1>1. /\ down # <<>> /\ down' = Tail(down) /\ UNCHANGED pc
      /\ \/ UNCHANGED queue
         \/ queue' = [queue EXCEPT ![h.ch] = Append(Kept(queue[h.ch]), x)]
  BY DEF Deliver
<1>2. /\ down \in Seq(Flight) /\ h \in Flight /\ h.ch \in Channels /\ x \in FrameSet
      /\ h \in Elements(down) /\ Elements(Tail(down)) \subseteq Elements(down)
      /\ FramesOf(Tail(down)) \subseteq FramesOf(down) /\ x \in FramesOf(down)
  <2>1. down \in Seq(Flight)
    BY KeptTypes
  <2>2. h \in Flight
    BY <1>1, <2>1, Taken
  <2> QED
    BY <1>1, <2>1, <2>2, ElementsTail, FramesTail DEF Flight
<1> HIDE DEF h, x
<1>3. /\ Attempting' = Attempting /\ AtDid' = AtDid /\ OfferSet' = OfferSet
      /\ \A f : IsOffer(f)' = IsOffer(f)
  BY <1>1 DEF Attempting, AtDid, OfferSet, IsOffer
<1>4. EmptyNoise'
  BY DeliverComing DEF TransferInv, OrderInv, EmptyNoise
<1>5. PICK K : K = OfferSet
  OBVIOUS
<1>6. Attempting =>
         /\ Behind(Tail(down), K, Oddities)
         /\ IsOffer(x) => FramesOf(Tail(down)) \subseteq Oddities
  <2>1. Attempting => Behind(down, K, Oddities)
    BY <1>5 DEF TransferInv, OrderInv, NoiseBehind
  <2>2. IsOffer(x) => x \in K
    BY <1>2, <1>5 DEF OfferSet
  <2> QED
    BY <1>1, <1>2, <2>1, <2>2, BehindTail DEF x
<1>7. /\ queue \in [Channels -> Seq(FrameSet)]
      /\ \A ch \in Channels :
            queue[ch] \in Seq(FrameSet) /\ Len(queue[ch]) <= QueueMax
  BY DEF TypeOK, LinkType
<1>8. \A i \in DOMAIN down' : down'[i].ch = "upnp" => Plain(down'[i].frame)
  <2>1. \A i \in DOMAIN down' : \E j \in DOMAIN down : down'[i] = down[j]
    BY <1>1, <1>2 DEF Elements
  <2> QED
    BY <2>1 DEF TransferInv, OrderInv, PlainUpnp
<1>9. CASE UNCHANGED queue
  <2>1. PlainUpnp'
    BY <1>8, <1>9 DEF TransferInv, OrderInv, PlainUpnp
  <2>2. Queued' = Queued
    BY <1>9 DEF Queued
  <2>3. NoiseBehind'
    BY <1>1, <1>2, <1>3, <1>5, <1>6, <2>2
       DEF TransferInv, OrderInv, NoiseBehind, Oddities
  <2> QED
    BY <1>4, <2>1, <2>3 DEF OrderInv
<1>10. CASE /\ h.ch = "upnp"
            /\ queue' = [queue EXCEPT !["upnp"] = Append(Kept(queue["upnp"]), x)]
  <2>1. /\ queue'["avdtp"] = queue["avdtp"]
        /\ queue'["upnp"] = Append(Kept(queue["upnp"]), x)
    BY <1>7, <1>10 DEF Channels
  <2>2. Plain(x)
    BY <1>2, <1>10 DEF TransferInv, OrderInv, PlainUpnp, Elements, h, x
  <2>3. PlainUpnp'
    <3>1. Elements(queue'["upnp"]) \subseteq Elements(queue["upnp"]) \cup {x}
      BY <1>2, <1>7, <2>1, KeptElements DEF Channels
    <3> QED
      BY <1>8, <2>2, <3>1 DEF TransferInv, OrderInv, PlainUpnp
  <2>4. Queued' = Queued
    BY <2>1 DEF Queued
  <2>5. NoiseBehind'
    BY <1>1, <1>2, <1>3, <1>5, <1>6, <2>4
       DEF TransferInv, OrderInv, NoiseBehind, Oddities
  <2> QED
    BY <1>4, <2>3, <2>5 DEF OrderInv
<1>11. CASE /\ h.ch = "avdtp"
            /\ queue' = [queue EXCEPT !["avdtp"] = Append(Kept(queue["avdtp"]), x)]
  <2>1. /\ queue'["upnp"] = queue["upnp"]
        /\ queue'["avdtp"] = Append(Kept(queue["avdtp"]), x)
    BY <1>7, <1>11 DEF Channels
  <2>2. PlainUpnp'
    BY <1>8, <2>1 DEF TransferInv, OrderInv, PlainUpnp
  <2>3. PICK k : k = Kept(queue["avdtp"])
    OBVIOUS
  <2>4. /\ k \in Seq(FrameSet)
        /\ On("avdtp", k) = Queued \/ (Queued # <<>> /\ On("avdtp", k) = Tail(Queued))
    BY <1>7, <2>3, KeptQueued DEF Channels
  <2>5. PICK q : q = On("avdtp", k)
    OBVIOUS
  <2>6. PICK w : w = On("avdtp", <<x>>)
    OBVIOUS
  <2>7. /\ Queued' = q \o w
        /\ q \in Seq(Flight) /\ w \in Seq(Flight) /\ FramesOf(w) = {x}
        /\ FramesOf(q) \subseteq FramesOf(Queued)
        /\ Attempting => Behind(q, K, Oddities)
    <3>1. Queued' = q \o w
      BY <1>2, <2>1, <2>3, <2>4, <2>5, <2>6, OnAppend DEF Queued
    <3>2. <<x>> \in Seq(FrameSet)
      BY <1>2
    <3>3. q \in Seq(Flight) /\ w \in Seq(Flight) /\ FramesOf(w) = {x}
      BY <2>4, <2>5, <2>6, <3>2, OnType, FramesOn, ElementsOne DEF Channels
    <3>4. PICK s : s = Queued
      OBVIOUS
    <3>5. s \in Seq(Flight) /\ (Attempting => Behind(s, K, Oddities))
      BY <1>5, <3>4, QueuedType DEF TransferInv, OrderInv, NoiseBehind
    <3>6. s # <<>> => /\ FramesOf(Tail(s)) \subseteq FramesOf(s)
                      /\ Attempting => Behind(Tail(s), K, Oddities)
      BY <3>5, BehindTail, FramesTail
    <3> QED
      BY <2>4, <2>5, <3>1, <3>3, <3>4, <3>5, <3>6
  <2>8. Attempting /\ (\E f \in FramesOf(Queued) : IsOffer(f)) =>
           FramesOf(down) \subseteq Oddities
    BY DEF TransferInv, OrderInv, NoiseBehind
  <2>9. Attempting => Behind(q \o w, K, Oddities)
    <3>1. Attempting => FramesOf(w) \subseteq Oddities \/ \A f \in FramesOf(q) : f \notin K
      BY <1>2, <1>5, <2>7, <2>8 DEF OfferSet
    <3>2. Behind(w, K, Oddities)
      BY <2>6, BehindPlain
    <3> QED
      BY <2>7, <3>1, <3>2, BehindConcat
  <2>10. FramesOf(Queued') = FramesOf(q) \cup {x}
    BY <2>7, FramesConcat
  <2>11. NoiseBehind'
    <3> SUFFICES ASSUME Attempting
                 PROVE  /\ Behind(Queued', OfferSet', Oddities)
                        /\ Behind(down', OfferSet', Oddities)
                        /\ (\E f \in FramesOf(Queued') : IsOffer(f)')
                              => FramesOf(down') \subseteq Oddities
      BY <1>3 DEF NoiseBehind, Oddities
    <3>1. Behind(Queued', OfferSet', Oddities) /\ Behind(down', OfferSet', Oddities)
      BY <1>1, <1>3, <1>5, <1>6, <2>7, <2>9
    <3>2. ASSUME NEW f \in FramesOf(Queued'), IsOffer(f)
          PROVE  FramesOf(Tail(down)) \subseteq Oddities
      BY <1>2, <1>6, <2>7, <2>8, <2>10, <3>2
    <3> QED
      BY <1>1, <1>3, <3>1, <3>2
  <2> QED
    BY <1>4, <2>2, <2>11 DEF OrderInv
<1> QED
  BY <1>1, <1>2, <1>9, <1>10, <1>11 DEF Channels

LEMMA TransferLink ==
    ASSUME TypeOK, TransferInv, Deliver \/ Loses \/ Noise \/ LinkFails
    PROVE  TransferInv'
<1>1. CASE Deliver \/ Loses \/ Noise
  <2>1. UNCHANGED <<pc, frames, expected, dmode, dwhat, dtoken, dapp, drand>>
    BY <1>1 DEF Deliver, Loses, Noise, client, charger, locals
  <2>2. Coming' \subseteq Coming \cup Oddities
    BY <1>1, DeliverComing, LosesComing, NoiseComing
  <2>3. up' = up \/ (up # <<>> /\ up' = Tail(up))
    BY <1>1 DEF Deliver, Loses, Noise, LosesNotification, LosesWrite
  <2> QED
    BY <1>1, <2>1, <2>2, <2>3, OrderDelivers, OrderLoses, OrderNoise,
       TransferLinkOn
<1>2. CASE LinkFails
  <2>1. /\ pc' = At("over", "") /\ UNCHANGED <<frames, queue>>
        /\ up' = <<>> /\ down' = <<>>
    BY <1>2 DEF LinkFails, locals
  <2>2. pc'.do = "over"
    BY <2>1, AtParts
  <2>3. ~Attempting' /\ ~Early' /\ ~Unanswered' /\ ~AtDid' /\ ~AtProof'
    BY <2>2 DEF Attempting, Unanswered, Early, Opening, AtDid, AtProof
  <2>4. GoingInv'
    BY <2>2, <2>3 DEF GoingInv, Quiet, Asked, NothingYet, ParcelsLast, AckLast,
       Announcing, Asking
  <2>5. ModeInv'
    BY <2>2, <2>3 DEF ModeInv, Filling, Acknowledged, OfferComing, Collecting
  <2>6. down' = <<>>
    BY <2>1
  <2>7. DOMAIN down' = {}
    BY <2>6
  <2>8. OrderInv'
    BY <1>2, <2>1, <2>3, <2>7, EmptyComing
       DEF TransferInv, OrderInv, NoiseBehind, PlainUpnp, EmptyNoise
  <2> QED
    BY <2>1, <2>4, <2>5, <2>8 DEF TransferInv, NeverMixed
<1> QED
  BY <1>1, <1>2

-----------------------------------------------------------------------------
(* And the charger.                                                        *)

\* Unless it fills, a charger that hears a parcel does nothing.
LEMMA ParcelIgnored ==
    ASSUME Charger, dmode # "fill", Head(up).frame.kind = "parcel"
    PROVE  UNCHANGED <<down, dmode, dwhat, dtoken, dapp, drand, dgot>>
BY DEF Charger, DCommand, DEcho, DAnnounced, DParcel, DReady, DTaken,
   DConfirms, DIgnores, Hears

\* What it hears when it makes an offer, and where it is then.
LEMMA OfferHeard ==
    ASSUME TypeOK, Charger, OfferStep
    PROVE  \/ /\ dwhat' = "did"
              /\ Head(up).frame.kind \in {"GREETING", "CMD_LOGIN", "CMD_SET_KEY",
                                         "CMD_GET_INFO"}
           \/ /\ Head(up).frame.kind = "parcel" /\ dmode = "fill"
              /\ dwhat \in {"appRand", "pub"} /\ dwhat' \in {"devRand", "peerPub"}
           \/ /\ Head(up).frame.kind \in {"ok", "ack"}
              /\ dmode \in {"send", "ack"} /\ dwhat = "devRand" /\ dwhat' = "devProof"
BY DEF OfferStep, DCommand, DParcel, DTaken, Hears

\* How it comes to fill with what opens a procedure, to await that its random
\* number is taken, and to send.
LEMMA ChargerModes ==
    ASSUME TypeOK, Charger
    PROVE  LET h == Head(up).frame
           IN  /\ dmode' = "fill" =>
                     \/ dmode = "fill" /\ dwhat' = dwhat
                     \/ h.kind = "announce" /\ h.code = Code[dwhat']
               /\ dmode' \in {"send", "ack"} /\ dwhat' = "devRand" =>
                     \/ UNCHANGED <<dmode, dwhat>>
                     \/ h.kind = "rdy"
                     \/ h.kind = "parcel" /\ dmode = "fill" /\ dwhat = "appRand"
BY DEF Charger, DCommand, DEcho, DAnnounced, DParcel, DReady, DTaken,
   DConfirms, DIgnores, Hears, DGoes, DNext, DOffers

\* What it tells goes behind the rest; an offer is the last of it.
Telling(w) == /\ w \in Seq(Flight) /\ down' = down \o w
              /\ Behind(w, OfferSet, Oddities)
              /\ \A x \in Elements(w) : x.ch = "upnp" => Plain(x.frame)

LEMMA TellingOne ==
    ASSUME NEW ch \in Channels, NEW x \in FrameSet, ch = "upnp" => Plain(x),
           down' = down \o On(ch, <<x>>)
    PROVE  \E w : Telling(w)
<1>1. PICK w : w = On(ch, <<x>>)
  OBVIOUS
<1>2. <<x>> \in Seq(FrameSet) /\ w = <<[ch |-> ch, frame |-> x]>>
  BY <1>1 DEF On
<1>3. w \in Seq(Flight)
  BY <1>1, <1>2, OnType
<1>4. Elements(w) = {[ch |-> ch, frame |-> x]}
  BY <1>2, ElementsOne
<1>5. Behind(w, OfferSet, Oddities)
  BY <1>1, BehindPlain
<1>6. \A y \in Elements(w) : y.ch = "upnp" => Plain(y.frame)
  BY <1>4
<1>7. down' = down \o w
  BY <1>1
<1>8. Telling(w)
  BY <1>3, <1>5, <1>6, <1>7 DEF Telling
<1> QED
  BY <1>8

LEMMA TellingPlain ==
    ASSUME NEW w \in Seq(Flight), down' = down \o w,
           \A f \in FramesOf(w) : ~IsOffer(f),
           \A x \in Elements(w) : x.ch = "upnp" => Plain(x.frame)
    PROVE  \E v : Telling(v)
<1>1. \A f \in FramesOf(w) : f \notin OfferSet
  BY DEF OfferSet
<1>2. \A K : (\A f \in FramesOf(w) : f \notin K) => Behind(w, K, Oddities)
  BY BehindPlain
<1> QED
  BY <1>1, <1>2 DEF Telling

LEMMA OnAvdtp ==
    ASSUME NEW fs
    PROVE  \A x \in Elements(On("avdtp", fs)) : x.ch = "avdtp"
BY DEF On, Elements

LEMMA TellingOffer ==
    ASSUME NEW before \in Seq(FrameSet), \A f \in Elements(before) : ~IsOffer(f),
           NEW x \in FrameSet, Tells(before \o <<x>>)
    PROVE  \E w : Telling(w)
<1>1. PICK q : q = On("avdtp", before)
  OBVIOUS
<1>2. PICK w : w = On("avdtp", <<x>>)
  OBVIOUS
<1>3. <<x>> \in Seq(FrameSet) /\ before \o <<x>> = Append(before, x)
  BY AppendIsConcat
<1>4. /\ q \in Seq(Flight) /\ w \in Seq(Flight) /\ FramesOf(q) = Elements(before)
      /\ On("avdtp", before \o <<x>>) = q \o w /\ q \o w \in Seq(Flight)
  BY <1>1, <1>2, <1>3, OnType, OnAppend, FramesOn, ConcatProperties DEF Channels
<1>5. \A K : Behind(w, K, Oddities)
  BY <1>2, BehindPlain
<1>6. \A K : (\A f \in FramesOf(q) : f \notin K) =>
                Behind(q, K, Oddities) /\ Behind(q \o w, K, Oddities)
  BY <1>4, <1>5, BehindPlain, BehindConcat
<1>7. Behind(q \o w, OfferSet, Oddities)
  BY <1>4, <1>6 DEF OfferSet
<1>8. \A y \in Elements(q \o w) : y.ch = "avdtp"
  BY <1>4, OnAvdtp
<1> QED
  BY <1>4, <1>7, <1>8 DEF Telling, Tells

LEMMA ChargerTelling ==
    ASSUME TypeOK, Charger
    PROVE  \E w : Telling(w)
<1>1. UNCHANGED queue /\ down \in Seq(Flight)
  BY KeptTypes DEF Charger, client, inbox
<1>2. CASE UNCHANGED down
  <2>1. <<>> \in Seq(Flight) /\ FramesOf(<<>>) = {} /\ Elements(<<>>) = {}
    BY EmptySeq DEF FramesOf, Elements
  <2>2. down' = down \o <<>>
    BY <1>1, <1>2, ConcatEmptySeq
  <2> QED
    BY <2>1, <2>2, TellingPlain
<1>3. ASSUME NEW x \in FrameSet, Tells(<<x>>)
      PROVE  \E w : Telling(w)
  BY <1>3, TellingOne DEF Tells, Channels
<1>4. ASSUME NEW what \in Taking, NEW before, before \in {<<>>, <<Short("ok")>>},
             NEW data, what \in {"devRand", "devProof"} => data \in Blobs,
             DOffers(before, what, data)
      PROVE  \E w : Telling(w)
  <2>1. PICK x \in FrameSet : Tells(before \o <<x>>)
    BY <1>4, AnnouncementType, InlineType DEF DOffers
  <2>2. before \in Seq(FrameSet) /\ Elements(before) \subseteq {Short("ok")}
    <3>1. <<>> \in Seq(FrameSet) /\ Elements(<<>>) = {}
      BY EmptySeq DEF Elements
    <3>2. <<Short("ok")>> \in Seq(FrameSet) /\ Elements(<<Short("ok")>>) = {Short("ok")}
      BY ShortType, ElementsOne DEF ShortKinds
    <3> QED
      BY <1>4, <3>1, <3>2
  <2>3. ~IsOffer(Short("ok"))
    BY ShortOffer DEF ShortKinds
  <2> QED
    BY <2>1, <2>2, <2>3, TellingOffer
<1>5. \A kind \in ShortKinds : Short(kind) \in FrameSet /\ Plain(Short(kind))
                               /\ ~IsOffer(Short(kind))
  BY ShortType, ShortOffer
<1>6. CASE DCommand
  <2>1. Frame("announce", "01", 2, Empty) \in FrameSet
    BY BlankTypes DEF Frame, FrameSet
  <2>2. \/ UNCHANGED down \/ Tells(<<Short("challenge")>>)
        \/ Tells(<<Frame("announce", "01", 2, Empty)>>)
        \/ DOffers(<<>>, "did", Empty)
    BY <1>6 DEF DCommand
  <2> QED
    BY <1>2, <1>3, <1>4, <1>5, <2>1, <2>2 DEF ShortKinds, Taking
<1>7. CASE DEcho \/ DAnnounced
  BY <1>2, <1>3, <1>5, <1>7 DEF DEcho, DAnnounced, ShortKinds
<1>8. CASE DParcel /\ UNCHANGED drand
  <2>1. \/ UNCHANGED down \/ Tells(<<Short("ok")>>)
        \/ DOffers(<<Short("ok")>>, "peerPub", Empty)
        \/ DOffers(<<Short("ok")>>, "devRand", Number("devRand", 0, drand))
        \/ \E kind \in {"loginOk", "loginErr"} :
              down' = down \o On("avdtp", <<Short("ok")>>) \o On("upnp", <<Short(kind)>>)
    BY <1>8 DEF DParcel
  <2>2. Number("devRand", 0, drand) \in Blobs
    BY NumberType DEF TypeOK, ChargerType, DNumbers, Numbers, Size
  <2>3. ASSUME NEW kind \in {"loginOk", "loginErr"},
               down' = down \o On("avdtp", <<Short("ok")>>) \o On("upnp", <<Short(kind)>>)
        PROVE  \E w : Telling(w)
    <3>1. PICK q : q = On("avdtp", <<Short("ok")>>)
      OBVIOUS
    <3>2. PICK w : w = On("upnp", <<Short(kind)>>)
      OBVIOUS
    <3>3. <<Short("ok")>> \in Seq(FrameSet) /\ <<Short(kind)>> \in Seq(FrameSet)
      BY <1>5 DEF ShortKinds
    <3>4. /\ q \in Seq(Flight) /\ w \in Seq(Flight)
          /\ FramesOf(q) = {Short("ok")} /\ FramesOf(w) = {Short(kind)}
      BY <3>1, <3>2, <3>3, OnType, FramesOn, ElementsOne DEF Channels
    <3>5. down' = down \o (q \o w) /\ q \o w \in Seq(Flight)
      <4>1. down' = (down \o q) \o w
        BY <2>3, <3>1, <3>2
      <4>2. (down \o q) \o w = down \o (q \o w)
        BY <1>1, <3>4, ConcatAssociative
      <4>3. q \o w \in Seq(Flight)
        BY <3>4, ConcatProperties
      <4> QED
        BY <4>1, <4>2, <4>3
    <3>6. FramesOf(q \o w) = {Short("ok"), Short(kind)}
      BY <3>4, FramesConcat
    <3>7. \A f \in FramesOf(q \o w) : Plain(f) /\ ~IsOffer(f)
      BY <1>5, <3>6 DEF ShortKinds
    <3>8. \A x \in Elements(q \o w) : x.frame \in FramesOf(q \o w)
      BY DEF Elements, FramesOf
    <3> QED
      BY <3>5, <3>7, <3>8, TellingPlain
  <2> QED
    BY <1>2, <1>3, <1>4, <1>5, <2>1, <2>2, <2>3 DEF ShortKinds, Taking
<1>9. CASE DReady
  <2>1. dwhat \in Taking
    BY <1>9, ModesOf, ChargerKept DEF DReady
  <2>2. PICK fs : fs = Parcels(DPayload(dwhat))
    OBVIOUS
  <2>3. fs \in Seq(FrameSet) /\ \A f \in Elements(fs) : f.kind = "parcel"
    BY <2>1, <2>2, DPayloadType, ParcelsType, ParcelsElements
  <2>4. PICK w : w = On("avdtp", fs)
    OBVIOUS
  <2>5. w \in Seq(Flight) /\ FramesOf(w) = Elements(fs) /\ down' = down \o w
    BY <1>9, <2>2, <2>3, <2>4, OnType, FramesOn DEF DReady, Tells, Channels
  <2>6. \A x \in Elements(w) : x.ch = "avdtp"
    BY <2>4, OnAvdtp
  <2>7. \A f \in FramesOf(w) : ~IsOffer(f)
    BY <2>3, <2>5 DEF IsOffer
  <2> QED
    BY <2>5, <2>6, <2>7, TellingPlain
<1>10. CASE DTaken
  <2>1. DevProof(DKeys) \in Blobs
    BY KeptTypes DEF DevProof, Blob, Blobs, Size
  <2>2. UNCHANGED down \/ DOffers(<<>>, "devProof", DevProof(DKeys))
    BY <1>10 DEF DTaken, DNext
  <2> QED
    BY <1>2, <1>4, <2>1, <2>2 DEF Taking
<1>11. CASE DConfirms
  <2>1. PICK kind \in {"regOk", "regErr"} :
          down' = down \o On("upnp", <<Short(kind)>>)
    BY <1>11 DEF DConfirms
  <2> QED
    BY <1>5, <2>1, TellingOne DEF Channels, ShortKinds
<1> QED
  BY <1>2, <1>6, <1>7, <1>8, <1>9, <1>10, <1>11 DEF Charger

-----------------------------------------------------------------------------
(* The charger keeps the invariant.                                        *)

LEMMA HeardLast ==
    ASSUME TypeOK, Heard, NEW K, NEW L, Follow(up, K, L)
    PROVE  /\ Follow(up', K, L)
           /\ Head(up).frame.kind \in K => \A f \in Going' : f.kind \in L
<1>1. /\ Follow(Tail(up), K, L)
      /\ Head(up).frame.kind \in K => \A f \in FramesOf(Tail(up)) : f.kind \in L
  BY KeptTypes, FollowTail DEF Heard
<1> QED
  BY <1>1 DEF Heard, Going

\* What is common to its steps: the host stays where it is.
Answering == TypeOK /\ TransferInv /\ Charger /\ TypeOK'

LEMMA AnsweringKeeps ==
    ASSUME Answering
    PROVE  /\ UNCHANGED <<pc, frames, expected, queue>>
           /\ Heard /\ Head(up).frame \in Going /\ Going' \subseteq Going
           /\ Attempting' = Attempting /\ Early' = Early /\ Opening' = Opening
           /\ Unanswered' = Unanswered /\ AtDid' = AtDid /\ AtProof' = AtProof
           /\ \A f : IsOffer(f)' = IsOffer(f)
<1>1. UNCHANGED <<pc, frames, expected, queue>>
  BY DEF Answering, Charger, client, inbox, locals
<1>2. Heard /\ Head(up).frame \in Going /\ Going' \subseteq Going
  BY ChargerHears DEF Answering
<1>3. /\ Attempting' = Attempting /\ Early' = Early /\ Opening' = Opening
      /\ Unanswered' = Unanswered /\ AtDid' = AtDid /\ AtProof' = AtProof
  BY <1>1 DEF Attempting, Early, Opening, Unanswered, AtDid, AtProof
<1> QED
  BY <1>1, <1>2, <1>3 DEF IsOffer

LEMMA AnsweringGoing ==
    ASSUME Answering
    PROVE  GoingInv'
<1>1. /\ pc' = pc /\ Heard /\ Going' \subseteq Going
      /\ Attempting' = Attempting /\ Early' = Early /\ Opening' = Opening
      /\ Unanswered' = Unanswered /\ AtDid' = AtDid /\ AtProof' = AtProof
  BY AnsweringKeeps
<1>2. up # <<>> /\ up' = Tail(up)
  BY <1>1 DEF Heard
<1>3. Quiet'
  BY <1>1, <1>2 DEF Answering, TransferInv, GoingInv, Quiet
<1>4. Asked'
  BY <1>1, <1>2 DEF Answering, TransferInv, GoingInv, Asked
<1>5. ParcelsLast' /\ AckLast'
  <2>1. Unanswered => Follow(up', {"parcel"}, {"parcel"})
    BY <1>1, HeardLast DEF Answering, TransferInv, GoingInv, ParcelsLast
  <2>2. AtProof => Follow(up', {"ok", "ack"}, {})
    BY <1>1, HeardLast DEF Answering, TransferInv, GoingInv, AckLast
  <2> QED
    BY <1>1, <2>1, <2>2 DEF Answering, TransferInv, GoingInv, ParcelsLast, AckLast
<1>6. NothingYet' /\ Announcing' /\ Asking'
  BY <1>1 DEF Answering, TransferInv, GoingInv, NothingYet, Announcing, Asking
<1> QED
  BY <1>3, <1>4, <1>5, <1>6 DEF GoingInv

\* It fills with what the host has announced, and hears that its number has
\* arrived when the host says so.
LEMMA AnsweringFills ==
    ASSUME Answering
    PROVE  Filling' /\ Acknowledged'
<1> DEFINE h == Head(up).frame
<1>1. /\ pc' = pc /\ Heard /\ h \in Going /\ Going' \subseteq Going
      /\ Attempting' = Attempting /\ Unanswered' = Unanswered
      /\ AtProof' = AtProof
  BY AnsweringKeeps
<1>2. /\ dmode' = "fill" =>
            \/ dmode = "fill" /\ dwhat' = dwhat
            \/ h.kind = "announce" /\ h.code = Code[dwhat']
      /\ dmode' \in {"send", "ack"} /\ dwhat' = "devRand" =>
            \/ UNCHANGED <<dmode, dwhat>>
            \/ h.kind = "rdy"
            \/ h.kind = "parcel" /\ dmode = "fill" /\ dwhat = "appRand"
  BY ChargerModes DEF Answering
<1>3. Filling'
  <2>1. Code["appRand"] = "0b" /\ Code["pub"] = "03"
    BY DEF Code
  <2>2. ASSUME Attempting, h.kind = "announce", h.code \in {"0b", "03"}
        PROVE  Unanswered
    BY <1>1, <2>2 DEF Answering, TransferInv, GoingInv, Announcing, Unanswered
  <2> QED
    BY <1>1, <1>2, <2>1, <2>2 DEF Answering, TransferInv, ModeInv, Filling
<1>4. Acknowledged'
  <2> SUFFICES ASSUME Attempting, dmode' \in {"send", "ack"}, dwhat' = "devRand",
                      NEW f \in Going', f.kind \in {"ok", "ack"}
               PROVE  AtProof
    BY <1>1 DEF Acknowledged
  <2>1. CASE UNCHANGED <<dmode, dwhat>>
    BY <1>1, <2>1 DEF Answering, TransferInv, ModeInv, Acknowledged
  <2>2. CASE h.kind = "rdy"
    <3>1. pc.do = "parts"
      BY <1>1, <2>2 DEF Answering, TransferInv, GoingInv, Asking
    <3>2. \A g \in Going : g.kind \in {"parcel", "rdy"}
      BY <3>1 DEF Answering, TransferInv, ModeInv, Collecting, OnlyParcels
    <3> QED
      BY <1>1, <3>2
  <2>3. CASE h.kind = "parcel" /\ dmode = "fill" /\ dwhat = "appRand"
    <3>1. Unanswered
      BY <2>3 DEF Answering, TransferInv, ModeInv, Filling
    <3>2. Follow(up, {"parcel"}, {"parcel"})
      BY <3>1 DEF Answering, TransferInv, GoingInv, ParcelsLast
    <3>3. \A g \in Going' : g.kind \in {"parcel"}
      BY <1>1, <2>3, <3>2, HeardLast DEF Answering
    <3> QED
      BY <3>3
  <2> QED
    BY <1>2, <2>1, <2>2, <2>3
<1> QED
  BY <1>3, <1>4

\* The charger makes an offer when the host waits for one, and then nothing is
\* on its way to it but parcels.
LEMMA OfferMade ==
    ASSUME Answering, Attempting, NEW f, Offered(f), IsOffer(f)
    PROVE  /\ \A g \in Going' : g.kind = "parcel"
           /\ Unanswered \/ AtProof
           /\ Early => f.code = "00"
<1> DEFINE h == Head(up).frame
<1>1. Heard /\ h \in Going /\ Going' = FramesOf(Tail(up))
  BY AnsweringKeeps DEF Heard, Going
<1>2. f.code = Code[dwhat']
  BY AnnouncementFields, InlineFields DEF Offered, Offers
<1>3. \/ dwhat' = "did"
      \/ /\ h.kind = "parcel" /\ dmode = "fill" /\ dwhat \in {"appRand", "pub"}
      \/ /\ h.kind \in {"ok", "ack"} /\ dmode \in {"send", "ack"}
         /\ dwhat = "devRand"
  BY OfferHeard DEF Offered, Answering
<1>4. CASE dwhat' = "did"
  <2>1. f.code = "00" /\ AtDid
    BY <1>2, <1>4 DEF Code, IsOffer
  <2>2. Tail(up) = <<>>
    BY <1>1, <2>1 DEF Answering, TransferInv, GoingInv, Asked, Heard
  <2>3. Going' = {}
    BY <1>1, <2>2, EmptySeq DEF FramesOf
  <2> QED
    BY <2>1, <2>3 DEF Unanswered, Early, AtDid
<1>5. CASE h.kind = "parcel" /\ dmode = "fill" /\ dwhat \in {"appRand", "pub"}
  <2>1. Unanswered
    BY <1>5 DEF Answering, TransferInv, ModeInv, Filling
  <2>2. Follow(up, {"parcel"}, {"parcel"}) /\ ~Early
    BY <1>1, <1>5, <2>1 DEF Answering, TransferInv, GoingInv, ParcelsLast, NothingYet
  <2>3. \A g \in Going' : g.kind \in {"parcel"}
    BY <1>1, <1>5, <2>2, HeardLast DEF Answering
  <2> QED
    BY <2>1, <2>2, <2>3
<1>6. CASE /\ h.kind \in {"ok", "ack"} /\ dmode \in {"send", "ack"}
           /\ dwhat = "devRand"
  <2>1. AtProof
    BY <1>1, <1>6 DEF Answering, TransferInv, ModeInv, Acknowledged
  <2>2. Follow(up, {"ok", "ack"}, {}) /\ ~Early
    BY <2>1 DEF Answering, TransferInv, GoingInv, AckLast, AtProof, Early
  <2>3. \A g \in Going' : g.kind \in {}
    BY <1>1, <1>6, <2>2, HeardLast DEF Answering
  <2> QED
    BY <2>1, <2>2, <2>3
<1> QED
  BY <1>3, <1>4, <1>5, <1>6

\* While an offer is on its way the charger does nothing.
LEMMA OfferWaits ==
    ASSUME Answering, Attempting, NEW f \in Coming, IsOffer(f)
    PROVE  /\ UNCHANGED <<down, dmode, dwhat>> /\ Coming' = Coming
           /\ \A g : Offers(g)' = Offers(g)
           /\ \A g \in Going' : g.kind = "parcel"
<1>1. Offers(f) /\ OnlyParcels
  BY DEF Answering, TransferInv, ModeInv, OfferComing
<1>2. dmode # "fill" /\ Head(up).frame.kind = "parcel"
  BY <1>1, AnsweringKeeps DEF Offers, OnlyParcels
<1>3. UNCHANGED <<down, dmode, dwhat, dtoken, dapp, drand, queue>>
  BY <1>2, ParcelIgnored, AnsweringKeeps DEF Answering
<1>4. DKeys' = DKeys
  BY <1>3 DEF DKeys
<1>5. DPayload(dwhat)' = DPayload(dwhat)
  BY <1>3, <1>4 DEF DPayload
<1>6. \A g : Offers(g)' = Offers(g)
  BY <1>3, <1>5 DEF Offers
<1>7. \A g \in Going' : g.kind = "parcel"
  BY <1>1, AnsweringKeeps DEF OnlyParcels
<1> QED
  BY <1>3, <1>6, <1>7 DEF Coming

LEMMA OfferNew ==
    ASSUME Answering, NEW f \in Coming', IsOffer(f), f \notin Coming
    PROVE  Offered(f)
<1>1. \A g : Greeted(g) \/ Confirmed(g) => ~IsOffer(g)
  <2>1. ~IsOffer(Frame("announce", "01", 2, Empty))
    BY DEF IsOffer, Frame
  <2>2. \A kind \in ShortKinds : ~IsOffer(Short(kind))
    BY ShortOffer
  <2> QED
    BY <2>1, <2>2 DEF Greeted, Confirmed, ShortKinds
<1>2. ~Sent(f)
  BY DEF Sent, IsOffer
<1> QED
  BY <1>1, <1>2, ChargerTells DEF Answering

LEMMA AnsweringOffers ==
    ASSUME Answering
    PROVE  OfferComing'
<1>1. ASSUME Attempting, NEW f \in Coming', IsOffer(f)
      PROVE  /\ Offers(f)' /\ OnlyParcels' /\ (Unanswered \/ AtProof)
             /\ Early => f.code = "00"
  <2>1. CASE f \in Coming
    <3>1. Offers(f)' /\ \A g \in Going' : g.kind = "parcel"
      BY <1>1, <2>1, OfferWaits DEF Answering, TransferInv, ModeInv, OfferComing
    <3> QED
      BY <1>1, <2>1, <3>1
         DEF Answering, TransferInv, ModeInv, OfferComing, OnlyParcels
  <2>2. CASE f \notin Coming
    <3>1. Offered(f)
      BY <1>1, <2>2, OfferNew
    <3> QED
      BY <1>1, <3>1, OfferMade DEF Offered, OnlyParcels
  <2> QED
    BY <2>1, <2>2
<1>2. /\ Attempting' = Attempting /\ Early' = Early
      /\ Unanswered' = Unanswered /\ AtProof' = AtProof
      /\ \A f : IsOffer(f)' = IsOffer(f)
  BY AnsweringKeeps
<1> QED
  BY <1>1, <1>2 DEF OfferComing

\* A charger that made an offer and hears that the host is ready sends.
LEMMA ReadyHeard ==
    ASSUME Charger, dmode = "offer", Head(up).frame.kind = "rdy"
    PROVE  /\ DReady /\ dmode' = "send"
           /\ UNCHANGED <<dwhat, dtoken, dapp, drand>>
BY DEF Charger, DCommand, DEcho, DAnnounced, DParcel, DReady, DTaken,
   DConfirms, DIgnores, Hears, DGoes

LEMMA AnsweringCollects ==
    ASSUME Answering
    PROVE  Collecting'
<1> DEFINE h == Head(up).frame
<1> SUFFICES ASSUME pc.do = "parts"
             PROVE  Collecting'
  BY AnsweringKeeps DEF Collecting
<1>1. /\ UNCHANGED <<pc, frames, expected, queue>>
      /\ Heard /\ h \in Going /\ Going' \subseteq Going
      /\ \A f : IsOffer(f)' = IsOffer(f)
  BY AnsweringKeeps
<1>2. /\ dwhat = pc.what /\ expected = ParcelCount(dwhat)
      /\ \A f \in Coming : ~IsOffer(f)
      /\ \/ /\ dmode = "offer" /\ frames = <<>>
            /\ \A f \in Going : f.kind \in {"parcel", "rdy"}
            /\ Follow(up, {"rdy"}, {})
            /\ \A f \in Coming : ~Piece(f)
         \/ /\ dmode = "send" /\ OnlyParcels
            /\ \A f \in Coming : Piece(f) => f.data = DPayload(dwhat)
            /\ \A i \in DOMAIN frames : frames[i] = DPayload(dwhat)
  BY DEF Answering, TransferInv, ModeInv, Collecting
<1>3. CASE h.kind = "parcel"
  <2>1. UNCHANGED <<down, dmode, dwhat, dtoken, dapp, drand>>
    BY <1>2, <1>3, ParcelIgnored DEF Answering
  <2>2. Coming' = Coming /\ DKeys' = DKeys
    BY <1>1, <2>1 DEF Coming, DKeys
  <2>3. DPayload(dwhat)' = DPayload(dwhat)
    BY <2>1, <2>2 DEF DPayload
  <2>4. Follow(up, {"rdy"}, {}) => Follow(up', {"rdy"}, {})
    BY <1>1, HeardLast DEF Answering
  <2> QED
    BY <1>1, <1>2, <2>1, <2>2, <2>3, <2>4 DEF Collecting, OnlyParcels, Piece
<1>4. CASE h.kind = "rdy"
  <2>1. /\ dmode = "offer" /\ frames = <<>> /\ Follow(up, {"rdy"}, {})
        /\ \A f \in Coming : ~Piece(f)
    BY <1>1, <1>2, <1>4 DEF OnlyParcels
  <2>2. DReady /\ dmode' = "send" /\ UNCHANGED <<dwhat, dtoken, dapp, drand>>
    BY <1>4, <2>1, ReadyHeard DEF Answering
  <2>3. DKeys' = DKeys
    BY <2>2 DEF DKeys
  <2>4. DPayload(dwhat)' = DPayload(dwhat)
    BY <2>2, <2>3 DEF DPayload
  <2>5. \A g \in Going' : g.kind \in {}
    BY <1>1, <1>4, <2>1, HeardLast DEF Answering
  <2>6. \A f \in Coming' : ~IsOffer(f)
    <3>1. ~OfferStep
      BY <1>4, OfferHeard DEF Answering
    <3> QED
      BY <1>2, <3>1, OfferNew DEF Offered
  <2>7. \A f \in Coming' : Piece(f) => f.data = DPayload(dwhat)
    <3> SUFFICES ASSUME NEW f \in Coming', Piece(f), f \notin Coming
                 PROVE  f.data = DPayload(dwhat)
      BY <2>1
    <3>1. ~Greeted(f) /\ ~Confirmed(f)
      BY ShortFields DEF Piece, Greeted, Confirmed, Frame
    <3>2. ~Offered(f)
      BY AnnouncementFields, InlineFields DEF Piece, Offered, Offers
    <3> QED
      BY <3>1, <3>2, ChargerTells DEF Answering, Sent
  <2>8. DOMAIN frames' = {}
    BY <1>1, <2>1
  <2> QED
    BY <1>1, <1>2, <2>2, <2>4, <2>5, <2>6, <2>7, <2>8
       DEF Collecting, OnlyParcels, Piece
<1> QED
  BY <1>1, <1>2, <1>3, <1>4 DEF OnlyParcels

LEMMA AnsweringOrder ==
    ASSUME Answering
    PROVE  OrderInv'
<1>1. /\ UNCHANGED <<pc, queue>> /\ down \in Seq(Flight)
      /\ \A f \in Coming' : f.kind = "parcel" /\ f.data = Empty => f.n = 9
  <2>1. ASSUME NEW f \in Coming', f.kind = "parcel", f.data = Empty
        PROVE  f \in Coming
    <3>1. ~Greeted(f) /\ ~Confirmed(f) /\ ~Offered(f)
      <4>1. Frame("announce", "01", 2, Empty).kind = "announce"
        BY DEF Frame
      <4> QED
        BY <2>1, <4>1, ShortFields, AnnouncementFields, InlineFields
           DEF Greeted, Confirmed, Offered, Offers
    <3>2. ~Sent(f)
      <4>1. DReady => dwhat \in Taking
        BY ModesOf, ChargerKept DEF DReady, Answering
      <4> QED
        BY <2>1, <4>1, PayloadFull DEF Sent
    <3> QED
      BY <3>1, <3>2, ChargerTells DEF Answering
  <2> QED
    BY <2>1, AnsweringKeeps, KeptTypes
       DEF Answering, TransferInv, OrderInv, EmptyNoise
<1>2. CASE Attempting /\ \E f \in Coming : IsOffer(f)
  <2>1. UNCHANGED down
    BY <1>2, OfferWaits
  <2>2. <<>> \in Seq(Flight) /\ FramesOf(<<>>) = {} /\ Elements(<<>>) = {}
    BY EmptySeq DEF FramesOf, Elements
  <2>3. down' = down \o <<>> /\ \A K : Behind(<<>>, K, Oddities)
    BY <1>1, <2>1, <2>2, ConcatEmptySeq, BehindPlain
  <2>4. Behind(<<>>, OfferSet, Oddities)
    BY <2>3
  <2> QED
    BY <1>1, <2>2, <2>3, <2>4, OrderTells DEF Answering
<1>3. CASE ~(Attempting /\ \E f \in Coming : IsOffer(f))
  <2>1. PICK w : Telling(w)
    BY ChargerTelling DEF Answering
  <2>2. Coming' = Coming \cup FramesOf(w)
    BY <1>1, <2>1, TellsComing DEF Telling, Answering
  <2> QED
    BY <1>1, <1>3, <2>1, <2>2, OrderTells DEF Telling, Answering
<1> QED
  BY <1>2, <1>3

LEMMA TransferCharger ==
    ASSUME TypeOK, TransferInv, Charger, TypeOK'
    PROVE  TransferInv'
<1>1. Answering
  BY DEF Answering
<1>2. NeverMixed'
  BY <1>1, AnsweringKeeps DEF Answering, TransferInv, NeverMixed
<1> QED
  BY <1>1, <1>2, AnsweringGoing, AnsweringFills, AnsweringOffers,
     AnsweringCollects, AnsweringOrder DEF TransferInv, ModeInv

-----------------------------------------------------------------------------
(* What a value is put together from is never mixed.                       *)

LEMMA TransferUnchanged ==
    ASSUME TransferInv, UNCHANGED vars
    PROVE  TransferInv'
<1>1. /\ UNCHANGED <<pc, frames, expected, queue, up, down>>
      /\ UNCHANGED <<dmode, dwhat, dtoken, dapp, drand>>
  BY DEF vars, client, caller, charger, locals, inbox, link
<1>2. /\ Attempting' = Attempting /\ Early' = Early /\ Opening' = Opening
      /\ Unanswered' = Unanswered /\ AtDid' = AtDid /\ AtProof' = AtProof
      /\ Going' = Going /\ Coming' = Coming /\ DKeys' = DKeys
      /\ Queued' = Queued
  BY <1>1 DEF Attempting, Early, Opening, Unanswered, AtDid, AtProof, Going,
     Coming, DKeys, Queued
<1>3. /\ DPayload(dwhat)' = DPayload(dwhat) /\ OnlyParcels' = OnlyParcels
      /\ \A f : IsOffer(f)' = IsOffer(f)
      /\ OfferSet' = OfferSet
  BY <1>1, <1>2 DEF DPayload, OnlyParcels, IsOffer, OfferSet
<1>4. \A f : Offers(f)' = Offers(f)
  BY <1>1, <1>3 DEF Offers
<1>5. GoingInv'
  BY <1>1, <1>2 DEF TransferInv, GoingInv, Quiet, Asked, NothingYet,
     ParcelsLast, AckLast, Announcing, Asking, Oddities
<1>6. Filling' /\ Acknowledged'
  BY <1>1, <1>2 DEF TransferInv, ModeInv, Filling, Acknowledged
<1>7. OfferComing'
  BY <1>1, <1>2, <1>3, <1>4 DEF TransferInv, ModeInv, OfferComing
<1>8. Collecting'
  BY <1>1, <1>2, <1>3 DEF TransferInv, ModeInv, Collecting, Piece
<1>9. OrderInv'
  BY <1>1, <1>2, <1>3 DEF TransferInv, OrderInv, NoiseBehind, PlainUpnp,
     EmptyNoise, Oddities, Plain
<1> QED
  BY <1>1, <1>5, <1>6, <1>7, <1>8, <1>9 DEF TransferInv, ModeInv, NeverMixed

LEMMA TransferStep ==
    ~Slow /\ TypeOK /\ TransferInv /\ TypeOK' /\ [Next]_vars => TransferInv'
BY TransferUnchanged, TransferHost, TransferLink, TransferCharger DEF Next

LEMMA Transfers ==
    ASSUME ~Slow
    PROVE  Spec => [](TypeOK /\ TransferInv)
<1>1. TransferInv /\ TypeOK /\ TypeOK' /\ [Next]_vars => TransferInv'
  BY TransferStep
<1> QED
  BY <1>1, InitType, StepType, TransferInit, PTL DEF Spec

\* The client never puts a value together from parcels of two of them: all that
\* it holds while it collects, and all that it joins, is of the one value that
\* the charger sends, for any MTU, queue capacity, hints and presentations of
\* the DID, and any number of attempts and of frames lost or put on the link by
\* another.  It needs frames that do not outlive the timeout of a receive.
THEOREM Unmixed == ~Slow => (Spec => []NeverMixed)
<1> SUFFICES ASSUME ~Slow PROVE Spec => []NeverMixed
  OBVIOUS
<1>1. TransferInv => NeverMixed
  BY DEF TransferInv
<1> QED
  BY <1>1, Transfers, PTL


-----------------------------------------------------------------------------
(* A rejected login: the invariant.                                        *)

\* The host sends its random number and waits for the charger's; an offer of
\* the latter.
Numbering == pc.what \in {"appRand", "devRand"}
NumberOffer(f) == IsOffer(f) /\ f.code = "0d"
NoParcel == \A f \in Going : f.kind # "parcel"
NoNumberOffer == \A f \in Coming : ~NumberOffer(f)

\* The only parcel on its way is then that number.
NumberGoing ==
    Numbering =>
       /\ Follow(up, {"parcel"}, {})
       /\ \A f \in Going : f.kind = "parcel" =>
             f.n = 1 /\ f.data = Number("appRand", attempts, 0)
       /\ pc.do = "rdy" => NoParcel /\ NoNumberOffer
\* The charger offers its own when it has the host's, and then both go by the
\* same two numbers.
NumberHeard ==
    Numbering /\ (pc.do = "parts" \/ ~NoNumberOffer) => dapp = attempts /\ NoParcel
Agreed == pc.what = "devProof" => dapp = attempts /\ drand = peer /\ NoParcel
\* Once the charger has proved its keys they are the host's, and the only
\* proof it is sent is the host's of those.
Proving == pc.what \in {"appProof", "login"}
ProofOwn ==
    Proving =>
       /\ Keys = DKeys
       /\ \A f \in Going : /\ f.kind \in {"parcel", "ok", "ack", "announce"}
                           /\ f.kind = "parcel" => f.data = AppProof(Keys)
       /\ \/ dmode \in {"send", "ack"} /\ dwhat = "devProof"
          \/ dmode \in {"want", "fill"} /\ dwhat = "appProof"
          \/ dmode = "idle"
       /\ dmode = "fill" => \A i \in DOMAIN dgot : dgot[i] = AppProof(Keys)
\* The charger rejects a proof only where the login cannot go on any more.
Rejected ==
    Attempting /\ (\E f \in Coming : f.kind = "loginErr") =>
       /\ ~Early /\ pc.what # "devProof" /\ ~Proving
       /\ Numbering => NoParcel /\ pc.do \notin {"rdy", "parts"} /\ NoNumberOffer

LoginInv == NumberGoing /\ NumberHeard /\ Agreed /\ ProofOwn /\ Rejected

\* Where nothing of this is said.
LoginWhats == {"appRand", "devRand", "devProof", "appProof", "login"}

-----------------------------------------------------------------------------
(* The host keeps it.                                                      *)

LEMMA OneParcel == ParcelCount("appRand") = 1
<1> DEFINE c == parcel_chunk_size
           k == Size["appRand"] + c - 1
<1>1. c \in Nat /\ c >= 18
  BY AuthConstants DEF parcel_chunk_size, PARCEL_CHUNK_SIZE
<1>2. Size["appRand"] = 16
  BY DEF Size
<1>3. k \in Nat /\ c <= k /\ k < 2 * c
  BY <1>1, <1>2
<1>4. ParcelCount("appRand") = k \div c
  BY <1>2 DEF ParcelCount
<1> HIDE DEF c, k
<1>5. k \div c = 1
  BY <1>1, <1>3, Z3
<1> QED
  BY <1>4, <1>5

\* What is common to its steps.
Trying == Moving /\ LoginInv

LEMMA TryingKeeps ==
    ASSUME Trying
    PROVE  /\ UNCHANGED <<attempts, token, dapp, drand, dtoken, dmode, dwhat, dgot>>
           /\ Coming' \subseteq Coming /\ DKeys' = DKeys
           /\ UNCHANGED peer => Keys' = Keys
<1>1. /\ UNCHANGED <<attempts, token, dapp, drand, dtoken, dmode, dwhat, dgot>>
      /\ Coming' \subseteq Coming
  BY DEF Trying, Moving, HostKeeps, caller, charger
<1> QED
  BY <1>1 DEF DKeys, Keys

\* It goes where the invariant says nothing but that a rejection is not on its
\* way to a login that begins.
LEMMA LoginElsewhere ==
    ASSUME Trying, pc'.what \notin LoginWhats, Attempting' => Attempting,
           Early' => Early
    PROVE  LoginInv'
<1>1. ~Numbering' /\ pc'.what # "devProof" /\ ~Proving'
  BY DEF Numbering, Proving, LoginWhats
<1>2. Rejected'
  BY <1>1, TryingKeeps DEF Trying, LoginInv, Rejected
<1> QED
  BY <1>1, <1>2 DEF LoginInv, NumberGoing, NumberHeard, Agreed, ProofOwn

LEMMA LoginStays ==
    ASSUME Trying, UNCHANGED <<pc, up, peer>>
    PROVE  LoginInv'
<1>1. /\ UNCHANGED <<pc, up, peer, attempts, dapp, drand, dmode, dwhat, dgot>>
      /\ Coming' \subseteq Coming /\ DKeys' = DKeys /\ Keys' = Keys
  BY TryingKeeps
<1>2. /\ Numbering' = Numbering /\ Proving' = Proving
      /\ Attempting' = Attempting /\ Early' = Early /\ AtDid' = AtDid
      /\ Going' = Going /\ NoParcel' = NoParcel
  BY <1>1 DEF Numbering, Proving, Attempting, Early, AtDid, Going, NoParcel
<1>3. NoNumberOffer => NoNumberOffer'
  BY <1>1, <1>2 DEF NoNumberOffer, NumberOffer, IsOffer
<1>4. NumberGoing' /\ NumberHeard' /\ Agreed'
  BY <1>1, <1>2, <1>3
     DEF Trying, LoginInv, NumberGoing, NumberHeard, Agreed
<1>5. ProofOwn' /\ Rejected'
  BY <1>1, <1>2, <1>3 DEF Trying, LoginInv, ProofOwn, Rejected
<1> QED
  BY <1>4, <1>5 DEF LoginInv

\* Where there is no parcel none is behind another.
LEMMA NoParcelFollow ==
    ASSUME TypeOK', NoParcel'
    PROVE  Follow(up', {"parcel"}, {})
<1>1. PICK s : s = up'
  OBVIOUS
<1>2. s \in Seq(Flight) /\ \A f \in FramesOf(s) : f.kind \notin {"parcel"}
  BY <1>1 DEF NoParcel, Going, TypeOK, LinkType
<1>3. Follow(s, {"parcel"}, {})
  BY <1>2, FollowPlain
<1> QED
  BY <1>1, <1>3

LEMMA LoginBegins ==
    ASSUME Trying, Begins
    PROVE  LoginInv'
<1>1. CASE pc'.what = "pub"
  <2>1. Attempting /\ ~Early'
    BY <1>1 DEF Begins, Attempting, Early, AtDid
  <2> QED
    BY <1>1, <2>1, LoginElsewhere DEF LoginWhats
<1>2. CASE /\ pc.do = "open" /\ pc'.do = "rdy" /\ pc'.what = "appRand"
           /\ Sends(Write("upnp", "CMD_LOGIN") \o Ann("appRand"))
  <2>1. /\ Attempting /\ Early /\ ~AtDid' /\ Numbering' /\ ~Proving'
        /\ pc'.what # "devProof" /\ pc'.do # "parts"
    BY <1>2 DEF Attempting, Early, AtDid, Numbering, Proving
  <2>2. NoNumberOffer'
    BY <2>1, EarlyOffers DEF Trying, NoNumberOffer, NumberOffer
  <2>3. NoParcel'
    <3>1. Write("upnp", "CMD_LOGIN") \in Seq(Flight)
      BY WriteType DEF ShortKinds, Channels
    <3>2. Going' = Going \cup {Short("CMD_LOGIN"), Announcement("appRand")}
      BY <1>2, <3>1, AnnouncesGoing, FramesWrite DEF Trying, Sending
    <3>3. \A f \in Going : f.kind # "parcel"
      BY <2>1 DEF Trying, Moving, TransferInv, GoingInv, NothingYet
    <3> QED
      BY <3>2, <3>3, ShortFields, AnnouncementFields DEF NoParcel
  <2>4. \A f \in Coming' : f.kind # "loginErr"
    BY <2>1, TryingKeeps DEF Trying, LoginInv, Rejected
  <2>5. NumberGoing'
    BY <2>2, <2>3, NoParcelFollow DEF NumberGoing, NoParcel, Trying, Moving
  <2> QED
    BY <2>1, <2>2, <2>4, <2>5
       DEF LoginInv, NumberHeard, Agreed, ProofOwn, Rejected
<1> QED
  BY <1>1, <1>2 DEF Begins

LEMMA LoginSends ==
    ASSUME Trying, SendsParcels
    PROVE  LoginInv'
<1> DEFINE data == Payload(pc.what)
<1>1. /\ pc.do = "rdy" /\ pc'.do = "ok" /\ pc'.what = pc.what /\ UNCHANGED peer
      /\ pc.what \in Sending /\ data \in Blobs
  BY KeptTypes, PointsOf, PayloadType DEF SendsParcels, Trying, Moving
<1>2. /\ UNCHANGED <<attempts, dapp, drand, dmode, dwhat, dgot>>
      /\ Coming' \subseteq Coming /\ DKeys' = DKeys /\ Keys' = Keys
  BY <1>1, TryingKeeps
<1>3. PICK w : w = On("avdtp", Parcels(data))
  OBVIOUS
<1>4. /\ w \in Seq(Flight) /\ up \in Seq(Flight)
      /\ \A f \in FramesOf(w) : /\ f.kind = "parcel" /\ f.data = data
                                /\ f.n \in 1..ParcelCount(data.kind)
  <2>1. Parcels(data) \in Seq(FrameSet)
    BY <1>1, ParcelsType
  <2> QED
    BY <1>3, <2>1, OnType, FramesOn, ParcelsElements, KeptTypes
       DEF Channels, Trying, Moving
<1>5. up' = up \o w /\ Going' = Going \cup FramesOf(w)
  BY <1>3, <1>4, SendsGoing DEF SendsParcels, Sends, Trying, Moving
<1> HIDE DEF data
<1>6. Attempting /\ ~Early' /\ ~AtDid /\ ~AtDid'
  BY <1>1 DEF Attempting, Early, AtDid
<1>7. CASE pc.what = "appRand"
  <2>1. data = Number("appRand", attempts, 0) /\ data.kind = "appRand"
    BY <1>7 DEF data, Payload, Number, Blob
  <2>2. NoParcel /\ NoNumberOffer
    BY <1>1, <1>7 DEF Trying, LoginInv, NumberGoing, Numbering
  <2>3. NoNumberOffer'
    BY <1>2, <1>6, <2>2 DEF NoNumberOffer, NumberOffer, IsOffer
  <2>4. \A f \in FramesOf(w) : f.n = 1
    BY <1>4, <2>1, OneParcel
  <2>5. Follow(up', {"parcel"}, {})
    <3>1. \A f \in FramesOf(up) : f.kind \notin {"parcel"}
      BY <2>2 DEF NoParcel, Going
    <3>2. Follow(up, {"parcel"}, {})
      BY <1>4, <3>1, FollowPlain
    <3>3. w = On("avdtp", <<Frame("parcel", "", 1, data)>>)
      <4>1. Parcels(data) = [i \in 1..1 |-> Frame("parcel", "", i, data)]
        BY <2>1, OneParcel DEF Parcels
      <4>2. PICK x : x = Frame("parcel", "", 1, data)
        OBVIOUS
      <4>3. \A i \in 1..1 : Frame("parcel", "", i, data) = x
        <5>1. \A i \in 1..1 : i = 1
          OBVIOUS
        <5> QED
          BY <4>2, <5>1
      <4>4. Parcels(data) = [i \in 1..1 |-> x]
        BY <4>1, <4>3
      <4>5. [i \in 1..1 |-> x] = <<x>>
        OBVIOUS
      <4> QED
        BY <1>3, <4>2, <4>4, <4>5
    <3>4. Behind(w, Kinds({"parcel"}), Kinds({}))
      BY <3>3, BehindPlain
    <3>5. Follow(w, {"parcel"}, {})
      BY <3>4 DEF Follow
    <3>6. Follow(up \o w, {"parcel"}, {})
      BY <1>4, <3>1, <3>2, <3>5, FollowConcat
    <3> QED
      BY <1>5, <3>6
  <2>6. NumberGoing'
    BY <1>1, <1>2, <1>4, <1>5, <2>1, <2>2, <2>4, <2>5
       DEF NumberGoing, NoParcel
  <2>7. Rejected'
    BY <1>1, <1>2, <1>6, <1>7
       DEF Trying, LoginInv, Rejected, Numbering, Proving
  <2> QED
    BY <1>1, <1>7, <2>3, <2>6, <2>7
       DEF LoginInv, NumberHeard, Agreed, ProofOwn, Proving
<1>8. CASE pc.what = "appProof"
  <2>1. data = AppProof(Keys)
    BY <1>8 DEF data, Payload
  <2>2. ProofOwn'
    BY <1>1, <1>2, <1>4, <1>5, <1>8, <2>1 DEF Trying, LoginInv, ProofOwn, Proving
  <2>3. Rejected'
    BY <1>2, <1>6, <1>8 DEF Trying, LoginInv, Rejected, Proving
  <2> QED
    BY <1>1, <1>8, <2>2, <2>3
       DEF LoginInv, NumberGoing, NumberHeard, Agreed, Numbering
<1>9. CASE pc.what \in {"pub", "didCt"}
  BY <1>1, <1>6, <1>9, LoginElsewhere DEF LoginWhats
<1> QED
  BY <1>1, <1>7, <1>8, <1>9 DEF Sending

LEMMA LoginHeeded ==
    ASSUME Trying, Heeded
    PROVE  LoginInv'
<1>1. /\ Attempting /\ ~Early' /\ ~AtDid /\ ~AtDid' /\ UNCHANGED peer
      /\ pc.do = "ok" /\ pc'.do \notin {"rdy", "parts"}
  BY DEF Heeded, Attempting, Early, AtDid
<1>2. /\ UNCHANGED <<attempts, dapp, drand, dmode, dwhat, dgot>>
      /\ Coming' \subseteq Coming /\ DKeys' = DKeys /\ Keys' = Keys
  BY <1>1, TryingKeeps
<1>3. CASE \/ pc.what = "appRand" /\ pc'.what = "devRand" /\ UNCHANGED up
           \/ pc.what = "appProof" /\ pc'.what = "login" /\ UNCHANGED up
  <2>1. /\ Numbering' = Numbering /\ Proving' = Proving /\ pc'.what # "devProof"
        /\ pc.what # "devProof" /\ Going' = Going /\ NoParcel' = NoParcel
    BY <1>3 DEF Numbering, Proving, Going, NoParcel
  <2>2. NoNumberOffer => NoNumberOffer'
    BY <1>1, <1>2 DEF NoNumberOffer, NumberOffer, IsOffer
  <2>3. NumberGoing' /\ NumberHeard'
    BY <1>1, <1>2, <1>3, <2>1, <2>2 DEF Trying, LoginInv, NumberGoing, NumberHeard
  <2>4. ProofOwn' /\ Rejected'
    BY <1>1, <1>2, <2>1, <2>2 DEF Trying, LoginInv, ProofOwn, Rejected
  <2> QED
    BY <2>1, <2>3, <2>4 DEF LoginInv, Agreed
<1>4. CASE pc'.what \in {"peerPub", "register"}
  BY <1>1, <1>4, LoginElsewhere DEF LoginWhats
<1> QED
  BY <1>3, <1>4 DEF Heeded

\* It takes an offer.
LEMMA LoginAccepts ==
    ASSUME Trying, NEW f, Receive(f), Accepts(f)
    PROVE  LoginInv'
<1>1. /\ Attempting /\ pc.do = "head" /\ pc'.do = "parts" /\ pc'.what = pc.what
      /\ f.kind = "announce" /\ f.code = Code[pc.what] /\ f.n # 0
      /\ pc.what \in Taking /\ UNCHANGED peer /\ Sends(Write("avdtp", "rdy"))
  BY KeptTypes, PointsOf DEF Accepts, Attempting, Trying, Moving
<1>2. /\ UNCHANGED <<attempts, dapp, drand, dmode, dwhat, dgot>>
      /\ Coming' \subseteq Coming
  BY TryingKeeps
<1>3. \A g \in Going' : g \in Going \/ g.kind = "rdy"
  <2>1. /\ Write("avdtp", "rdy") \in Seq(Flight)
        /\ FramesOf(Write("avdtp", "rdy")) = {Short("rdy")}
    BY WriteType, FramesWrite DEF ShortKinds, Channels
  <2>2. Going' = Going \cup {Short("rdy")}
    BY <1>1, <2>1, SendsGoing DEF Trying, Moving
  <2> QED
    BY <2>2, ShortFields
<1>4. NoParcel => NoParcel'
  BY <1>3 DEF NoParcel
<1>5. CASE pc.what = "devRand"
  <2>1. Numbering /\ Numbering' /\ ~Proving'
    BY <1>1, <1>5 DEF Numbering, Proving
  <2>2. ~NoNumberOffer
    <3>1. IsOffer(f) /\ f \in Coming
      BY <1>1, ExpectedOffer, ReceiveComing DEF Trying, Moving
    <3> QED
      BY <1>1, <1>5, <3>1 DEF NoNumberOffer, NumberOffer, Code
  <2>3. dapp = attempts /\ NoParcel
    BY <2>1, <2>2 DEF Trying, LoginInv, NumberHeard
  <2>4. \A g \in Coming' : g.kind # "loginErr"
    BY <1>1, <1>2, <2>1, <2>2 DEF Trying, LoginInv, Rejected
  <2>5. NumberGoing'
    BY <1>1, <1>4, <2>3, NoParcelFollow DEF NumberGoing, NoParcel, Trying, Moving
  <2>6. NumberHeard'
    BY <1>2, <1>4, <2>3 DEF NumberHeard
  <2> QED
    BY <1>1, <1>5, <2>1, <2>4, <2>5, <2>6
       DEF LoginInv, Agreed, ProofOwn, Rejected
<1>6. CASE pc.what = "devProof"
  <2>1. Agreed'
    BY <1>1, <1>2, <1>4, <1>6 DEF Trying, LoginInv, Agreed
  <2>2. Rejected'
    BY <1>1, <1>2, <1>6 DEF Trying, LoginInv, Rejected
  <2> QED
    BY <1>1, <1>6, <2>1, <2>2
       DEF LoginInv, NumberGoing, NumberHeard, ProofOwn, Numbering, Proving
<1>7. CASE pc.what \in {"did", "peerPub"}
  <2>1. Early' => Early
    BY <1>1 DEF Early
  <2> QED
    BY <1>1, <1>7, <2>1, LoginElsewhere DEF LoginWhats
<1> QED
  BY <1>1, <1>5, <1>6, <1>7 DEF Taking

\* What it takes in whole is what the charger sends.
LEMMA JoinedSame ==
    ASSUME NEW parts, NEW b, NEW n \in Nat, n = ParcelCount(b.kind), n >= 1,
           \A i \in 1..n : parts[i] = b
    PROVE  Joined(parts, n) = b
<1>1. 1 \in 1..n
  OBVIOUS
<1>2. b \in {parts[i] : i \in 1..n} /\ parts[1] = b
  BY <1>1
<1>3. \E d \in {parts[i] : i \in 1..n} :
         n = ParcelCount(d.kind) /\ \A i \in 1..n : parts[i] = d
  BY <1>2
<1> QED
  BY <1>2, <1>3 DEF Joined

LEMMA GatheredValue ==
    ASSUME Trying, NEW f, Receive(f), pc.do = "parts", GathersAll(f)
    PROVE  /\ Joined(Gathered(f), expected) = DPayload(dwhat)
           /\ dmode = "send" /\ OnlyParcels /\ dwhat = pc.what /\ dwhat \in Taking
<1>1. /\ f.kind = "parcel" /\ f.n \in 1..expected
      /\ DOMAIN Gathered(f) = 1..expected /\ f \in Coming
  BY ReceiveComing DEF GathersAll, Trying, Moving
<1>2. /\ dmode = "send" /\ OnlyParcels
      /\ \A i \in 1..expected : Gathered(f)[i] = DPayload(dwhat)
  BY <1>1, PartsSame DEF Trying, Moving
<1>3. /\ dwhat = pc.what /\ expected = ParcelCount(dwhat) /\ dwhat \in Taking
      /\ expected \in Nat
  <2>1. pc.what \in Taking /\ expected \in Nat
    BY KeptTypes, PointsOf DEF Trying, Moving, TypeOK, HostType
  <2> QED
    BY <2>1 DEF Trying, Moving, TransferInv, ModeInv, Collecting
<1>4. expected = ParcelCount(DPayload(dwhat).kind) /\ expected >= 1
  BY <1>1, <1>3, PayloadFull
<1>5. Joined(Gathered(f), expected) = DPayload(dwhat)
  BY <1>2, <1>3, <1>4, JoinedSame
<1> QED
  BY <1>2, <1>3, <1>5

LEMMA TakenValue ==
    ASSUME Trying, NEW f, Receive(f), TakesInline(f) \/ TakesAll(f)
    PROVE  \E kind \in {"ok", "ack"} :
             /\ Proceeds(pc.what, DPayload(dwhat), Write("avdtp", kind))
             /\ Attempting /\ pc.do \in {"head", "parts"}
             /\ OnlyParcels /\ dwhat = pc.what /\ dwhat \in Taking
             /\ dmode \in {"send", "ack"}
             /\ pc.do = "parts" \/ (IsOffer(f) /\ f \in Coming /\ f.code = Code[dwhat])
<1>1. CASE TakesInline(f)
  <2>1. /\ pc.do = "head" /\ f.kind = "inline" /\ f.code = Code[pc.what]
        /\ Proceeds(pc.what, f.data, Write("avdtp", "ack"))
    BY <1>1 DEF TakesInline
  <2>2. Offers(f) /\ OnlyParcels /\ dwhat = pc.what
    BY <2>1, TakenOffer DEF Trying
  <2>3. dmode = "ack" /\ f.data = DPayload(dwhat) /\ dwhat \in Taking
    BY <2>1, <2>2, AnnouncementFields, InlineFields DEF Offers
  <2>4. IsOffer(f) /\ f \in Coming
    BY <2>1, ExpectedOffer, ReceiveComing DEF Trying, Moving
  <2>5. Attempting
    BY <2>1 DEF Attempting
  <2> QED
    BY <2>1, <2>2, <2>3, <2>4, <2>5
<1>2. CASE TakesAll(f)
  <2>1. /\ pc.do = "parts" /\ GathersAll(f)
        /\ Proceeds(pc.what, Joined(Gathered(f), expected), Write("avdtp", "ok"))
    BY <1>2 DEF TakesAll
  <2>2. /\ Joined(Gathered(f), expected) = DPayload(dwhat)
        /\ dmode = "send" /\ OnlyParcels /\ dwhat = pc.what /\ dwhat \in Taking
    BY <2>1, GatheredValue
  <2>3. Attempting
    BY <2>1 DEF Attempting
  <2> QED
    BY <2>1, <2>2, <2>3
<1> QED
  BY <1>1, <1>2

LEMMA LoginTakes ==
    ASSUME Trying, NEW f, Receive(f), TakesInline(f) \/ TakesAll(f)
    PROVE  LoginInv'
<1>1. PICK kind \in {"ok", "ack"} :
        /\ Proceeds(pc.what, DPayload(dwhat), Write("avdtp", kind))
        /\ Attempting /\ pc.do \in {"head", "parts"}
        /\ OnlyParcels /\ dwhat = pc.what /\ dwhat \in Taking
        /\ dmode \in {"send", "ack"}
        /\ pc.do = "parts" \/ (IsOffer(f) /\ f \in Coming /\ f.code = Code[dwhat])
  BY TakenValue
<1>2. /\ UNCHANGED <<attempts, token, dapp, drand, dmode, dwhat, dgot>>
      /\ Coming' \subseteq Coming /\ DKeys' = DKeys
  BY TryingKeeps
<1>3. /\ Write("avdtp", kind) \in Seq(Flight)
      /\ FramesOf(Write("avdtp", kind)) = {Short(kind)}
  BY WriteType, FramesWrite DEF ShortKinds, Channels
<1>4. CASE pc.what = "devRand"
  <2>1. /\ pc'.do = "head" /\ pc'.what = "devProof" /\ Sends(Write("avdtp", kind))
        /\ peer' = DPayload("devRand").of.dev
    BY <1>1, <1>4 DEF Proceeds
  <2>2. peer' = drand'
    BY <1>2, <2>1 DEF DPayload, Number, Blob, derive_login
  <2>3. Numbering /\ (pc.do = "parts" \/ ~NoNumberOffer)
    BY <1>1, <1>4 DEF Numbering, NoNumberOffer, NumberOffer, Code
  <2>4. /\ dapp = attempts /\ NoParcel
        /\ \A g \in Coming : g.kind # "loginErr"
    BY <1>1, <2>3 DEF Trying, LoginInv, NumberHeard, Rejected
  <2>5. Going' = Going \cup {Short(kind)}
    BY <1>3, <2>1, SendsGoing DEF Trying, Moving
  <2>6. NoParcel'
    BY <2>4, <2>5, ShortFields DEF NoParcel
  <2>7. Agreed' /\ Rejected'
    BY <1>2, <2>2, <2>4, <2>6 DEF Agreed, Rejected
  <2> QED
    BY <2>1, <2>7
       DEF LoginInv, NumberGoing, NumberHeard, ProofOwn, Numbering, Proving
<1>5. CASE pc.what = "devProof"
  <2>1. /\ pc'.do = "rdy" /\ pc'.what = "appProof" /\ UNCHANGED peer
        /\ Sends(Write("avdtp", kind) \o Ann("appProof"))
        /\ DPayload("devProof") = DevProof(Keys)
    BY <1>1, <1>5 DEF Proceeds
  <2>2. Keys = DKeys
    BY <2>1 DEF DPayload, DevProof, Blob
  <2>3. Keys' = DKeys'
    BY <1>2, <2>1, <2>2, TryingKeeps
  <2>4. Going = {}
    BY <1>1, <1>5 DEF Trying, LoginInv, Agreed, NoParcel, OnlyParcels
  <2>5. Going' = {Short(kind), Announcement("appProof")}
    BY <1>3, <2>1, <2>4, AnnouncesGoing DEF Trying, Sending
  <2>6. \A g \in Going' : g.kind \in {"ok", "ack", "announce"}
    BY <2>5, ShortFields, AnnouncementFields
  <2>7. ProofOwn'
    BY <1>1, <1>2, <1>5, <2>3, <2>6 DEF ProofOwn
  <2>8. Rejected'
    BY <1>1, <1>2, <1>5 DEF Trying, LoginInv, Rejected
  <2> QED
    BY <2>1, <2>7, <2>8
       DEF LoginInv, NumberGoing, NumberHeard, Agreed, Numbering
<1>6. CASE pc.what \in {"did", "peerPub"}
  <2>1. pc'.do = "rdy" /\ pc'.what \in {"pub", "didCt"}
    BY <1>1, <1>6 DEF Proceeds
  <2>2. ~Early'
    BY <2>1 DEF Early
  <2> QED
    BY <1>1, <2>1, <2>2, LoginElsewhere DEF LoginWhats
<1> QED
  BY <1>1, <1>4, <1>5, <1>6 DEF Taking

\* Where there is no attempt or one begins, and nothing is coming.
LEMMA LoginNone ==
    ASSUME pc.what = "", ~Attempting \/ Coming = {}
    PROVE  LoginInv
BY DEF LoginInv, NumberGoing, NumberHeard, Agreed, ProofOwn, Rejected,
   Numbering, Proving

LEMMA LoginNoneNext ==
    ASSUME pc'.what = "", ~Attempting' \/ Coming' = {}
    PROVE  LoginInv'
BY DEF LoginInv, NumberGoing, NumberHeard, Agreed, ProofOwn, Rejected,
   Numbering, Proving

LEMMA LoginInit == Init => LoginInv
<1> SUFFICES ASSUME Init PROVE LoginInv
  OBVIOUS
<1>1. pc.do = "none" /\ pc.what = ""
  BY DEF Init, Idle, At
<1> QED
  BY <1>1, LoginNone DEF Attempting

LEMMA LoginNewClient ==
    ASSUME TypeOK, NewClient, ~Slow
    PROVE  LoginInv'
<1>1. pc' = At("ready", "") /\ down = <<>>
  BY DEF NewClient, InTime
<1>2. FramesOf(<<>>) = {}
  BY DEF FramesOf
<1>3. Coming' = {} /\ pc'.what = ""
  BY <1>1, <1>2, EmptyComing, AtParts
<1> QED
  BY <1>3, LoginNoneNext

LEMMA LoginHost ==
    ASSUME TypeOK, TransferInv, LoginInv, Host, ~Slow, TypeOK', TransferInv'
    PROVE  LoginInv'
<1>1. CASE NewClient
  BY <1>1, LoginNewClient
<1>2. CASE ~NewClient
  <2>1. Trying
    BY <1>2, HostFrame, HostCollects
       DEF HostKeeps, Trying, Moving, TransferInv
  <2>2. \/ Unsubscribe \/ StaysHere \/ StopsHere \/ Greets \/ Asks \/ Begins
        \/ SendsParcels \/ Heeded
        \/ \E f : Receive(f) /\ Taking1(f)
    BY <1>2, AttemptSteps
  <2>3. CASE Unsubscribe \/ StopsHere
    <3>1. pc'.do \in {"none", "ended"}
      BY <2>3, AtParts DEF Unsubscribe, StopsHere
    <3>2. pc'.what = "" /\ ~Attempting'
      BY <3>1 DEF TypeOK, HostType, Points, Attempting
    <3> QED
      BY <3>2, LoginNoneNext
  <2>4. CASE StaysHere
    BY <2>1, <2>4, LoginStays DEF StaysHere
  <2>5. CASE Greets \/ Asks
    <3>1. Attempting /\ Early /\ pc'.what \notin LoginWhats
      BY <2>5 DEF Greets, Asks, Attempting, Early, TypeOK, HostType, Points,
         LoginWhats
    <3> QED
      BY <2>1, <3>1, LoginElsewhere
  <2>6. ASSUME NEW f, Receive(f), Taking1(f)
        PROVE  LoginInv'
    <3>1. CASE TakesOne(f)
      BY <2>1, <3>1, LoginStays DEF TakesOne, GathersOne
    <3> QED
      BY <2>1, <2>6, <3>1, LoginAccepts, LoginTakes DEF Taking1
  <2> QED
    BY <2>1, <2>2, <2>3, <2>4, <2>5, <2>6, LoginBegins, LoginSends, LoginHeeded
<1> QED
  BY <1>1, <1>2

-----------------------------------------------------------------------------
(* So does the link.                                                       *)

LEMMA LoginLink ==
    ASSUME TypeOK, LoginInv, Deliver \/ Loses \/ Noise \/ LinkFails
    PROVE  LoginInv'
<1>1. CASE Deliver \/ Loses \/ Noise
  <2>1. UNCHANGED <<pc, peer, attempts, token, dmode, dwhat, dtoken, dapp,
                    drand, dgot>>
    BY <1>1 DEF Deliver, Loses, Noise, client, caller, charger, locals
  <2>2. Coming' \subseteq Coming \cup Oddities
    BY <1>1, DeliverComing, LosesComing, NoiseComing
  <2>3. up' = up \/ (up # <<>> /\ up' = Tail(up))
    BY <1>1 DEF Deliver, Loses, Noise, LosesNotification, LosesWrite
  <2>4. up \in Seq(Flight) /\ Going' \subseteq Going
    BY <2>3, KeptTypes, FramesTail DEF Going
  <2>5. /\ Numbering' = Numbering /\ Proving' = Proving
        /\ Attempting' = Attempting /\ Early' = Early /\ AtDid' = AtDid
        /\ Keys' = Keys /\ DKeys' = DKeys
    BY <2>1 DEF Numbering, Proving, Attempting, Early, AtDid, Keys, DKeys
  <2>6. \A f \in Oddities : ~IsOffer(f) /\ f.kind # "loginErr"
    <3>1. OddKinds \subseteq {"error", "rdy", "ok", "challenge", "loginOk"}
      BY AuthConstants
    <3>2. \A f \in Oddities : f.kind \in OddKinds \cup {"announce", "parcel"}
      BY OddFields
    <3> QED
      BY <3>1, <3>2, OddOffer
  <2>7. /\ NoParcel => NoParcel'
        /\ NoNumberOffer => NoNumberOffer'
    <3>1. \A f : IsOffer(f)' = IsOffer(f)
      BY <2>5 DEF IsOffer
    <3> QED
      BY <2>2, <2>4, <2>6, <3>1 DEF NoParcel, NoNumberOffer, NumberOffer
  <2>8. \A K, L : Follow(up, K, L) => Follow(up', K, L)
    BY <2>3, <2>4, FollowTail
  <2>9. NumberGoing' /\ NumberHeard' /\ Agreed'
    BY <2>1, <2>4, <2>5, <2>7, <2>8
       DEF LoginInv, NumberGoing, NumberHeard, Agreed
  <2>10. ProofOwn'
    BY <2>1, <2>4, <2>5 DEF LoginInv, ProofOwn
  <2>11. Rejected'
    BY <2>1, <2>2, <2>5, <2>6, <2>7 DEF LoginInv, Rejected
  <2> QED
    BY <2>9, <2>10, <2>11 DEF LoginInv
<1>2. CASE LinkFails
  <2>1. pc' = At("over", "")
    BY <1>2 DEF LinkFails
  <2>2. pc'.what = "" /\ ~Attempting'
    BY <2>1, AtParts DEF Attempting
  <2> QED
    BY <2>2, LoginNoneNext
<1> QED
  BY <1>1, <1>2

-----------------------------------------------------------------------------
(* And the charger.                                                        *)

\* What it has to hear to change what it goes by.
LEMMA HeardChanges ==
    ASSUME Answering
    PROVE  LET kind == Head(up).frame.kind
           IN  /\ kind # "CMD_AUTH" => UNCHANGED dtoken
               /\ kind # "parcel" => UNCHANGED dapp
               /\ kind \notin {"CMD_LOGIN", "CMD_SET_KEY"} => UNCHANGED drand
               /\ UNCHANGED <<pc, attempts, peer, token>>
<1>1. Charger
  BY DEF Answering
<1>2. UNCHANGED <<pc, attempts, peer, token>>
  BY <1>1 DEF Charger, client, locals, caller
<1> QED
  BY <1>1, <1>2 DEF Charger, DCommand, DEcho, DAnnounced, DParcel, DReady,
     DTaken, DConfirms, Hears

\* It hears a parcel while it fills.
LEMMA ParcelHeard ==
    ASSUME Answering, Head(up).frame.kind = "parcel", dmode = "fill"
    PROVE  /\ DParcel /\ UNCHANGED <<dtoken, drand>> /\ dgot' = DGathered
           /\ \/ DGathersOn \/ DHasNumber("pub", "peerPub")
              \/ DHasNumber("appRand", "devRand") \/ DHasDid
              \/ DHasProof("loginOk") \/ DHasProof("loginErr")
<1>1. Charger
  BY DEF Answering
<1>2. DParcel /\ UNCHANGED <<dtoken, drand>>
  BY <1>1 DEF Charger, DCommand, DEcho, DAnnounced, DReady, DTaken, DConfirms,
     DIgnores, Hears
<1> QED
  BY <1>1, <1>2, DParcelCases DEF Answering, Charger, ChargerFrame

\* The value it puts together of equal parcels, the last just heard.
LEMMA HeardSame ==
    ASSUME NEW b, DWhole, Head(up).frame.data = b, dwhat = b.kind,
           ParcelCount(dwhat) \in Nat \ {0},
           \A i \in DOMAIN dgot : i # Head(up).frame.n => dgot[i] = b
    PROVE  DJoined = b
<1>1. PICK n : n = ParcelCount(dwhat)
  OBVIOUS
<1>2. \A i \in DOMAIN DGathered : DGathered[i] = b
  BY DEF DGathered
<1>3. DOMAIN DGathered = 1..n
  BY <1>1 DEF DWhole
<1>4. Joined(DGathered, n) = b
  BY <1>1, <1>2, <1>3, JoinedSame
<1> QED
  BY <1>1, <1>4 DEF DJoined

\* It offers its number when it has the host's.
LEMMA NumberMade ==
    ASSUME Answering, NEW f \in Coming', NumberOffer(f), f \notin Coming
    PROVE  /\ Head(up).frame.kind = "parcel" /\ dmode = "fill"
           /\ DHasNumber("appRand", "devRand")
<1>1. Offered(f)
  BY OfferNew DEF NumberOffer
<1>2. dwhat' = "devRand"
  <2>1. dwhat' \in Taking /\ f.code = Code[dwhat']
    BY <1>1, AnnouncementFields, InlineFields DEF Offered, Offers
  <2> QED
    BY <2>1 DEF NumberOffer, Taking, Code
<1>3. DParcel /\ dwhat = "appRand"
  BY <1>1, <1>2 DEF Offered, OfferStep
<1>4. Head(up).frame.kind = "parcel" /\ dmode = "fill"
  BY <1>3 DEF DParcel, Hears
<1>5. \/ DGathersOn \/ DHasNumber("pub", "peerPub")
      \/ DHasNumber("appRand", "devRand") \/ DHasDid
      \/ DHasProof("loginOk") \/ DHasProof("loginErr")
  BY <1>4, ParcelHeard
<1> QED
  BY <1>2, <1>3, <1>4, <1>5
     DEF DGathersOn, DHasNumber, DHasDid, DHasProof

LEMMA NumberAnswered ==
    ASSUME Answering, LoginInv
    PROVE  NumberGoing' /\ NumberHeard'
<1>1. /\ UNCHANGED <<pc, attempts>> /\ Heard /\ Head(up).frame \in Going
      /\ Going' \subseteq Going
  BY AnsweringKeeps, HeardChanges
<1>2. Numbering' = Numbering /\ (NoParcel => NoParcel')
  BY <1>1 DEF Numbering, NoParcel
<1>3. ASSUME NEW f \in Coming', NumberOffer(f)', f \notin Coming, Numbering
      PROVE  dapp' = attempts /\ NoParcel' /\ ~NoParcel
  <2>1. NumberOffer(f)
    BY <1>3, AnsweringKeeps DEF NumberOffer
  <2>2. /\ Head(up).frame.kind = "parcel" /\ dmode = "fill"
        /\ DHasNumber("appRand", "devRand")
    BY <1>3, <2>1, NumberMade
  <2>3. /\ Head(up).frame.n = 1
        /\ Head(up).frame.data = Number("appRand", attempts, 0)
        /\ Follow(up, {"parcel"}, {})
    BY <1>1, <1>3, <2>2 DEF LoginInv, NumberGoing
  <2>4. PICK b : b = Number("appRand", attempts, 0)
    OBVIOUS
  <2>5. b.kind = "appRand" /\ b.of.app = attempts
    BY <2>4 DEF Number, Blob, derive_login
  <2>6. DWhole /\ dwhat = "appRand" /\ dapp' = DJoined.of.app
    BY <2>2 DEF DHasNumber
  <2>7. \A i \in DOMAIN dgot : i = Head(up).frame.n
    <3>1. DOMAIN DGathered = 1..1
      BY <2>6, OneParcel DEF DWhole
    <3>2. DOMAIN dgot \subseteq 1..1
      BY <3>1 DEF DGathered
    <3> QED
      BY <2>3, <3>2
  <2>8. DJoined = b
    BY <2>3, <2>4, <2>5, <2>6, <2>7, OneParcel, HeardSame
  <2>9. NoParcel'
    <3>1. \A f1 \in Going' : f1.kind \in {}
      BY <1>1, <2>2, <2>3, HeardLast DEF Answering
    <3> QED
      BY <3>1 DEF NoParcel
  <2> QED
    BY <1>1, <2>2, <2>5, <2>6, <2>8, <2>9 DEF NoParcel
<1>4. NumberGoing'
  <2>1. ASSUME Numbering PROVE Follow(up', {"parcel"}, {})
    BY <1>1, <2>1, HeardLast DEF Answering, LoginInv, NumberGoing
  <2>2. ASSUME Numbering, pc.do = "rdy" PROVE NoParcel' /\ NoNumberOffer'
    <3>1. NoParcel /\ NoNumberOffer
      BY <2>2 DEF LoginInv, NumberGoing
    <3>2. \A f \in Coming : ~NumberOffer(f)'
      BY <3>1, AnsweringKeeps DEF NoNumberOffer, NumberOffer
    <3> QED
      BY <1>2, <1>3, <2>2, <3>1, <3>2 DEF NoNumberOffer
  <2> QED
    BY <1>1, <1>2, <2>1, <2>2 DEF LoginInv, NumberGoing
<1>5. NumberHeard'
  <2>1. ASSUME Numbering, pc.do = "parts" \/ ~NoNumberOffer
        PROVE  dapp' = attempts /\ NoParcel'
    <3>1. dapp = attempts /\ NoParcel
      BY <2>1 DEF LoginInv, NumberHeard
    <3>2. Head(up).frame.kind # "parcel"
      BY <1>1, <3>1 DEF NoParcel
    <3> QED
      BY <1>2, <3>1, <3>2, HeardChanges
  <2>2. ASSUME Numbering, NoNumberOffer, ~NoNumberOffer'
        PROVE  dapp' = attempts /\ NoParcel'
    <3>1. \A f \in Coming : ~NumberOffer(f)'
      BY <2>2, AnsweringKeeps DEF NoNumberOffer, NumberOffer
    <3>2. PICK f \in Coming' : NumberOffer(f)'
      BY <2>2 DEF NoNumberOffer
    <3> QED
      BY <1>3, <2>2, <3>1, <3>2
  <2> QED
    BY <1>1, <1>2, <2>1, <2>2 DEF NumberHeard
<1> QED
  BY <1>4, <1>5

LEMMA AgreedAnswered ==
    ASSUME Answering, LoginInv
    PROVE  Agreed'
<1>1. /\ UNCHANGED <<pc, attempts, peer>> /\ Head(up).frame \in Going
      /\ Going' \subseteq Going
  BY AnsweringKeeps, HeardChanges
<1>2. ASSUME pc.what = "devProof"
      PROVE  Agreed'
  <2>1. dapp = attempts /\ drand = peer /\ NoParcel
    BY <1>2 DEF LoginInv, Agreed
  <2>2. pc.do \in {"head", "parts"}
    <3>1. pc \in Points
      BY KeptTypes DEF Answering
    <3> QED
      BY <1>2, <3>1 DEF Points, Sending, Taking, At
  <2>3. Head(up).frame.kind \notin {"CMD_LOGIN", "CMD_SET_KEY"}
    <3>1. CASE pc.do = "head"
      BY <1>1, <1>2, <3>1 DEF Answering, TransferInv, GoingInv, AckLast, AtProof
    <3>2. CASE pc.do = "parts"
      BY <1>1, <3>2
         DEF Answering, TransferInv, ModeInv, Collecting, OnlyParcels
    <3> QED
      BY <2>2, <3>1, <3>2
  <2>4. Head(up).frame.kind # "parcel"
    BY <1>1, <2>1 DEF NoParcel
  <2>5. UNCHANGED <<dapp, drand>>
    BY <2>3, <2>4, HeardChanges
  <2> QED
    BY <1>1, <2>1, <2>5 DEF Agreed, NoParcel
<1> QED
  BY <1>1, <1>2 DEF Agreed

\* While it proves its keys, the charger hears the answer and nothing else.
LEMMA ProofMode ==
    ASSUME Answering, dmode \in {"send", "ack"} /\ dwhat = "devProof",
           Head(up).frame.kind \in {"ok", "ack", "announce"}
    PROVE  \/ UNCHANGED <<dmode, dwhat>>
           \/ dmode' = "want" /\ dwhat' = "appProof"
<1>1. Charger
  BY DEF Answering
<1> QED
  BY <1>1 DEF Charger, DCommand, DEcho, DAnnounced, DParcel, DReady, DTaken,
     DNext, DConfirms, DIgnores, Hears, DGoes

LEMMA ProofAnnounced ==
    ASSUME Answering, dmode \in {"want", "fill", "idle"},
           Head(up).frame.kind \in {"ok", "ack", "announce"}
    PROVE  \/ UNCHANGED <<dmode, dwhat, dgot>>
           \/ /\ dmode = "want" /\ dmode' = "fill" /\ dwhat' = dwhat
              /\ DOMAIN dgot' = {}
<1>1. Charger
  BY DEF Answering
<1>2. dgot' = <<>> => DOMAIN dgot' = {}
  BY EmptySeq
<1> QED
  BY <1>1, <1>2 DEF Charger, DCommand, DEcho, DAnnounced, DParcel, DReady,
     DTaken, DConfirms, DIgnores, Hears, DGoes

LEMMA ProofAnswered ==
    ASSUME Answering, LoginInv
    PROVE  ProofOwn'
<1>1. /\ UNCHANGED <<pc, attempts, peer, token>> /\ Head(up).frame \in Going
      /\ Going' \subseteq Going
  BY AnsweringKeeps, HeardChanges
<1>2. Keys' = Keys /\ Proving' = Proving
  BY <1>1 DEF Keys, Proving
<1>3. ASSUME Proving
      PROVE  ProofOwn'
  <2> DEFINE Turns == \/ dmode \in {"send", "ack"} /\ dwhat = "devProof"
                      \/ dmode \in {"want", "fill"} /\ dwhat = "appProof"
                      \/ dmode = "idle"
             Filled == dmode = "fill" => \A i \in DOMAIN dgot : dgot[i] = AppProof(Keys)
  <2>1. /\ Keys = DKeys /\ Turns /\ Filled
        /\ \A f \in Going : /\ f.kind \in {"parcel", "ok", "ack", "announce"}
                            /\ f.kind = "parcel" => f.data = AppProof(Keys)
    BY <1>3 DEF LoginInv, ProofOwn
  <2>2. UNCHANGED <<dtoken, drand>>
    BY <1>1, <2>1, HeardChanges
  <2>3. UNCHANGED dapp /\ Turns' /\ Filled'
    <3>1. CASE Head(up).frame.kind = "parcel" /\ dmode = "fill"
      <4>1. dwhat = "appProof"
        BY <2>1, <3>1
      <4>2. dgot' = DGathered
            /\ (DGathersOn \/ DHasProof("loginOk") \/ DHasProof("loginErr"))
        BY <3>1, <4>1, ParcelHeard DEF DHasNumber, DHasDid
      <4>3. UNCHANGED dapp /\ (UNCHANGED <<dmode, dwhat>> \/ dmode' = "idle")
        BY <4>2 DEF DGathersOn, DHasProof
      <4>4. \A i \in DOMAIN DGathered : DGathered[i] = AppProof(Keys)
        BY <1>1, <2>1, <3>1 DEF DGathered
      <4> QED
        BY <1>2, <2>1, <3>1, <4>1, <4>2, <4>3, <4>4 DEF AppProof
    <3>2. CASE Head(up).frame.kind = "parcel" /\ dmode # "fill"
      <4>1. UNCHANGED <<dmode, dwhat, dapp, dgot>>
        BY <3>2, ParcelIgnored DEF Answering
      <4> QED
        BY <1>2, <2>1, <4>1 DEF AppProof
    <3>3. CASE Head(up).frame.kind \in {"ok", "ack", "announce"}
      <4>1. UNCHANGED dapp
        BY <3>3, HeardChanges
      <4>2. CASE dmode \in {"send", "ack"}
        <5>1. \/ UNCHANGED <<dmode, dwhat>>
              \/ dmode' = "want" /\ dwhat' = "appProof"
          BY <2>1, <3>3, <4>2, ProofMode
        <5> QED
          BY <2>1, <4>1, <4>2, <5>1
      <4>3. CASE dmode \in {"want", "fill", "idle"}
        <5>1. \/ UNCHANGED <<dmode, dwhat, dgot>>
              \/ /\ dmode = "want" /\ dmode' = "fill" /\ dwhat' = dwhat
                 /\ DOMAIN dgot' = {}
          BY <3>3, <4>3, ProofAnnounced
        <5>2. Turns'
          BY <2>1, <4>3, <5>1
        <5>3. Filled'
          BY <1>2, <2>1, <5>1 DEF AppProof
        <5> QED
          BY <4>1, <5>2, <5>3
      <4> QED
        BY <2>1, <4>2, <4>3
    <3> QED
      BY <1>1, <2>1, <3>1, <3>2, <3>3
  <2>4. DKeys' = DKeys
    BY <2>2, <2>3 DEF DKeys
  <2>5. \A f \in Going' : /\ f.kind \in {"parcel", "ok", "ack", "announce"}
                          /\ f.kind = "parcel" => f.data = AppProof(Keys)'
    BY <1>1, <1>2, <2>1 DEF AppProof
  <2> QED
    BY <1>2, <2>1, <2>3, <2>4, <2>5 DEF ProofOwn
<1> QED
  BY <1>2, <1>3 DEF ProofOwn

\* It rejects a proof that is not of its keys.
LEMMA RejectionMade ==
    ASSUME Answering, NEW f \in Coming', f.kind = "loginErr", f \notin Coming
    PROVE  /\ Head(up).frame.kind = "parcel" /\ dmode = "fill"
           /\ DHasProof("loginErr")
<1>1. ~Offered(f)
  BY AnnouncementFields, InlineFields DEF Offered, Offers
<1>2. ~Sent(f) /\ ~Greeted(f)
  BY ShortFields DEF Sent, Greeted, Frame
<1>3. Confirmed(f)
  BY <1>1, <1>2, ChargerTells DEF Answering
<1>4. DParcel /\ \E kind \in {"loginOk", "loginErr"} :
                    DHasProof(kind) /\ f = Short(kind)
  BY <1>3, ShortFields DEF Confirmed
<1>5. DHasProof("loginErr")
  BY <1>4, ShortFields
<1> QED
  BY <1>4, <1>5 DEF DParcel, Hears

LEMMA RejectedAnswered ==
    ASSUME Answering, LoginInv
    PROVE  Rejected'
<1>1. /\ UNCHANGED <<pc, attempts>> /\ Heard /\ Head(up).frame \in Going
      /\ Going' \subseteq Going /\ Attempting' = Attempting /\ Early' = Early
  BY AnsweringKeeps, HeardChanges
<1>2. /\ Numbering' = Numbering /\ Proving' = Proving /\ (NoParcel => NoParcel')
  BY <1>1 DEF Numbering, Proving, NoParcel
<1>3. \A f : NumberOffer(f)' = NumberOffer(f)
  BY AnsweringKeeps DEF NumberOffer
<1>4. CASE \E f \in Coming : f.kind = "loginErr"
  <2>1. ASSUME Attempting, Numbering
        PROVE  NoParcel' /\ NoNumberOffer'
    <3>1. NoParcel /\ NoNumberOffer
      BY <1>4, <2>1 DEF LoginInv, Rejected
    <3>2. Head(up).frame.kind # "parcel"
      BY <1>1, <3>1 DEF NoParcel
    <3> QED
      BY <1>2, <1>3, <3>1, <3>2, NumberMade DEF NoNumberOffer
  <2> QED
    BY <1>1, <1>2, <1>4, <2>1 DEF LoginInv, Rejected
<1>5. ASSUME Attempting, NEW f \in Coming', f.kind = "loginErr", f \notin Coming
      PROVE  Rejected'
  <2>1. /\ Head(up).frame.kind = "parcel" /\ dmode = "fill"
        /\ DHasProof("loginErr")
    BY <1>5, RejectionMade
  <2>2. ~NoParcel
    BY <1>1, <2>1 DEF NoParcel
  <2>3. ~Early
    BY <1>1, <2>1 DEF Answering, TransferInv, GoingInv, NothingYet
  <2>4. pc.what # "devProof"
    BY <2>2 DEF LoginInv, Agreed
  <2>5. ~Proving
    <3> SUFFICES ASSUME Proving PROVE FALSE
      OBVIOUS
    <3>1. PICK b : b = AppProof(DKeys)
      OBVIOUS
    <3>2. /\ Head(up).frame.data = b
          /\ \A i \in DOMAIN dgot : dgot[i] = b
      BY <1>1, <2>1, <3>1 DEF LoginInv, ProofOwn
    <3>3. DWhole /\ dwhat = "appProof" /\ DJoined # b
      BY <2>1, <3>1 DEF DHasProof
    <3>4. b.kind = "appProof"
      BY <3>1 DEF AppProof, Blob
    <3>5. ParcelCount("appProof") \in Nat \ {0}
      BY CountType DEF Size
    <3> QED
      BY <3>2, <3>3, <3>4, <3>5, HeardSame
  <2>6. ASSUME Numbering
        PROVE  NoParcel' /\ pc.do \notin {"rdy", "parts"} /\ NoNumberOffer'
    <3>1. pc.do \notin {"rdy", "parts"} /\ NoNumberOffer
      BY <2>2, <2>6 DEF LoginInv, NumberGoing, NumberHeard
    <3>2. NoNumberOffer'
      <4>1. dwhat = "appProof"
        BY <2>1 DEF DHasProof
      <4> QED
        BY <1>3, <3>1, <4>1, NumberMade DEF NoNumberOffer, DHasNumber
    <3>3. \A g \in Going' : g.kind \in {}
      BY <1>1, <2>1, <2>6, HeardLast DEF Answering, LoginInv, NumberGoing
    <3> QED
      BY <3>1, <3>2, <3>3 DEF NoParcel
  <2> QED
    BY <1>1, <1>2, <2>3, <2>4, <2>5, <2>6 DEF Rejected
<1> QED
  BY <1>1, <1>4, <1>5 DEF Rejected

LEMMA LoginCharger ==
    ASSUME TypeOK, TransferInv, LoginInv, Charger, TypeOK'
    PROVE  LoginInv'
BY NumberAnswered, AgreedAnswered, ProofAnswered, RejectedAnswered
   DEF LoginInv, Answering

-----------------------------------------------------------------------------
(* The host tells its caller that the token is not the charger's.          *)

\* It was told so, or the charger's proof is not of the host's keys.
ToldSo(f) == pc.do = "conf" /\ pc.what = "login" /\ f.kind = "loginErr"
Unproved(f) ==
    /\ pc.what = "devProof"
    /\ \/ /\ pc.do = "head" /\ f.kind = "inline" /\ f.code = Code[pc.what]
          /\ ~Authentic(f.data)
       \/ /\ pc.do = "parts" /\ GathersAll(f)
          /\ ~Authentic(Joined(Gathered(f), expected))

LEMMA HasInvalid ==
    ASSUME NEW what, NEW data, NEW before, Has(what, data, before),
           result'.kind = "invalid"
    PROVE  UNCHANGED result \/ (what = "devProof" /\ ~Authentic(data))
<1>1. \A kind : Ends(kind) => result'.kind = kind
  BY DEF Ends
<1>2. \A w, v : Announces(w, v) => UNCHANGED result
  BY DEF Announces, Goes
<1>3. CASE LoginHas(what, data, before)
  BY <1>1, <1>2, <1>3 DEF LoginHas, Goes
<1>4. CASE \E raw : RegisterHasDid(raw, before)
  BY <1>1, <1>2, <1>4 DEF RegisterHasDid
<1>5. CASE RegisterHasKey(data, before)
  BY <1>1, <1>2, <1>5 DEF RegisterHasKey
<1> QED
  BY <1>3, <1>4, <1>5 DEF Has

LEMMA HostInvalid ==
    ASSUME TypeOK, Host, result'.kind = "invalid"
    PROVE  ~NewClient /\ (UNCHANGED result \/ \E f : Receive(f) /\ (ToldSo(f) \/ Unproved(f)))
<1> DEFINE Silent == UNCHANGED result
<1>1. ~Ends("auth")
  BY DEF Ends
<1>2. /\ \A w, v : Announces(w, v) => Silent
      /\ \A p : Goes(p) => Silent
  BY DEF Announces, Goes
<1>3. ~NewClient
  <2>1. NewClient => result' = NoResult
    BY DEF NewClient
  <2>2. NoResult.kind = "none"
    BY DEF NoResult
  <2> QED
    BY <2>1, <2>2
<1> HIDE DEF Silent
<1>4. ASSUME \/ Greet \/ TakeChallenge \/ SubscribeUpnp \/ Register \/ Login
             \/ Overflown \/ TimesOut \/ Refused
      PROVE  Silent
  <2>1. CASE Greet \/ SubscribeUpnp \/ Register
    BY <1>2, <2>1 DEF Greet, SubscribeUpnp, Register
  <2>2. CASE Overflown \/ TimesOut \/ Refused
    BY <1>1, <2>2 DEF Overflown, TimesOut, Refused
  <2>3. CASE TakeChallenge
    BY <1>1, <1>2, <2>3 DEF TakeChallenge
  <2>4. CASE Login
    BY <1>1, <1>2, <2>4 DEF Login
  <2> QED
    BY <1>4, <2>1, <2>2, <2>3, <2>4
<1>5. CASE Block \/ Unsubscribe
  BY <1>3, <1>5 DEF Block, Unsubscribe
<1>6. ASSUME TakeReady \/ TakeOk
      PROVE  Silent
  <2>1. CASE TakeReady
    BY <1>2, <2>1 DEF TakeReady
  <2>2. CASE TakeOk
    BY <1>2, <2>2 DEF TakeOk
  <2> QED
    BY <1>6, <2>1, <2>2
<1>7. CASE TakeConfirmation
  <2>1. PICK f : /\ Receive(f) /\ pc.do = "conf"
                 /\ result'.kind = Outcome(pc.what, f.kind)
    BY <1>7 DEF TakeConfirmation
  <2>2. ToldSo(f)
    BY <2>1 DEF Outcome, ToldSo
  <2> QED
    BY <1>3, <2>1, <2>2
<1>8. \A what, n : Collects(what, n) => Silent
  BY <1>1, <1>2 DEF Collects
<1>9. CASE TakeVariant
  <2>1. PICK f :
          /\ Receive(f)
          /\ \/ Ends("auth")
             \/ /\ f.code = Code[pc.what] /\ f.kind = "inline"
                /\ Has(pc.what, f.data, OFFICIAL_ACK)
             \/ Collects(pc.what, f.n)
    BY <1>9 DEF TakeVariant
  <2>2. pc.do = "head"
    BY <1>9 DEF TakeVariant
  <2>3. CASE /\ f.code = Code[pc.what] /\ f.kind = "inline"
             /\ Has(pc.what, f.data, OFFICIAL_ACK)
    <3>1. UNCHANGED result \/ (pc.what = "devProof" /\ ~Authentic(f.data))
      BY <2>3, HasInvalid
    <3> QED
      BY <1>3, <2>1, <2>2, <2>3, <3>1 DEF Unproved
  <2>4. CASE Collects(pc.what, f.n)
    BY <1>3, <1>8, <2>4 DEF Silent
  <2> QED
    BY <1>1, <2>1, <2>3, <2>4
<1>10. CASE TakeAnnouncement
  <2>1. \/ Ends("auth") \/ Has("did", Empty, <<>>)
        \/ \E f : Collects(pc.what, f.n)
    BY <1>10 DEF TakeAnnouncement
  <2>2. Has("did", Empty, <<>>) => UNCHANGED result
    BY HasInvalid
  <2> QED
    BY <1>1, <1>3, <1>8, <2>1, <2>2 DEF Silent
<1>11. CASE TakeParcel
  <2>1. PICK f : /\ Receive(f) /\ f \in Coming
                 /\ \/ Ends("auth") /\ UNCHANGED <<up, peer, remote, frames>>
                    \/ GathersOne(f)
                    \/ GathersAll(f)
    BY <1>11, TakeParcelCases
  <2>2. pc.do = "parts"
    BY <1>11 DEF TakeParcel
  <2>3. CASE GathersAll(f)
    <3>1. Has(pc.what, Joined(Gathered(f), expected), Write("avdtp", "ok"))
      BY <2>3 DEF GathersAll
    <3>2. UNCHANGED result
          \/ (pc.what = "devProof" /\ ~Authentic(Joined(Gathered(f), expected)))
      BY <3>1, HasInvalid
    <3> QED
      BY <1>3, <2>1, <2>2, <2>3, <3>2 DEF Unproved
  <2>4. CASE GathersOne(f)
    <3>1. Silent
      BY <1>2, <2>4 DEF GathersOne
    <3> QED
      BY <1>3, <3>1 DEF Silent
  <2> QED
    BY <1>1, <2>1, <2>3, <2>4
<1> QED
  BY <1>3, <1>4, <1>5, <1>6, <1>7, <1>9, <1>10, <1>11 DEF Host, Silent

\* The charger rejects no proof while the host awaits its answer, ...
LEMMA ToldRightly ==
    ASSUME Trying, NEW f, Receive(f)
    PROVE  ~ToldSo(f)
<1> SUFFICES ASSUME ToldSo(f) PROVE FALSE
  OBVIOUS
<1>1. f \in Coming /\ Attempting /\ Proving
  BY ReceiveComing DEF Trying, Moving, ToldSo, Attempting, Proving
<1> QED
  BY <1>1 DEF Trying, LoginInv, Rejected, ToldSo

\* ... and what the host takes for the charger's proof is one.
LEMMA ProofTaken ==
    ASSUME Trying, NEW f, Receive(f), Unproved(f)
    PROVE  token # dtoken
<1>1. PICK data : /\ ~Authentic(data) /\ pc.what = "devProof"
                  /\ \/ /\ pc.do = "head" /\ f.kind = "inline"
                        /\ f.code = Code[pc.what] /\ data = f.data
                     \/ /\ pc.do = "parts" /\ GathersAll(f)
                        /\ data = Joined(Gathered(f), expected)
  BY DEF Unproved
<1>2. data = DPayload("devProof")
  <2>1. CASE pc.do = "head"
    <3>1. f.kind = "inline" /\ f.code = Code[pc.what] /\ data = f.data
      BY <1>1, <2>1
    <3>2. Offers(f) /\ dwhat = pc.what
      BY <2>1, <3>1, TakenOffer DEF Trying
    <3> QED
      BY <1>1, <3>1, <3>2, AnnouncementFields, InlineFields DEF Offers
  <2>2. CASE pc.do = "parts"
    BY <1>1, <2>2, GatheredValue
  <2> QED
    BY <1>1, <2>1, <2>2
<1>3. DevProof(DKeys) # DevProof(Keys)
  BY <1>1, <1>2 DEF Authentic, DPayload
<1>4. dapp = attempts /\ drand = peer
  BY <1>1 DEF Trying, LoginInv, Agreed
<1> QED
  BY <1>3, <1>4 DEF Keys, DKeys

LEMMA JustHost ==
    ASSUME TypeOK, TransferInv, LoginInv, InvalidIsInvalid, Host, TypeOK',
           TransferInv'
    PROVE  InvalidIsInvalid'
<1>1. ASSUME result'.kind = "invalid"
      PROVE  token' # dtoken'
  <2>1. ~NewClient /\ (UNCHANGED result \/ \E f : Receive(f) /\ (ToldSo(f) \/ Unproved(f)))
    BY <1>1, HostInvalid
  <2>2. Trying
    BY <2>1, HostFrame, HostCollects
       DEF HostKeeps, Trying, Moving, TransferInv
  <2>3. UNCHANGED <<token, dtoken>>
    BY <2>2, TryingKeeps
  <2> QED
    BY <1>1, <2>1, <2>2, <2>3, ToldRightly, ProofTaken DEF InvalidIsInvalid
<1> QED
  BY <1>1 DEF InvalidIsInvalid

LEMMA JustRest ==
    ASSUME TypeOK, BindInv, InvalidIsInvalid,
           LinkFails \/ Deliver \/ Loses \/ Noise \/ Charger
    PROVE  InvalidIsInvalid'
<1>1. CASE Deliver \/ Loses \/ Noise
  BY <1>1 DEF Deliver, Loses, Noise, client, caller, charger, InvalidIsInvalid
<1>2. CASE LinkFails
  BY <1>2 DEF LinkFails, InvalidIsInvalid
<1>3. CASE Charger
  <2>1. UNCHANGED <<result, token>> /\ Head(up).frame \in Going
    BY <1>3, ChargerHears DEF Charger, client, caller
  <2>2. UNCHANGED dtoken \/ Head(up).frame.kind = "CMD_AUTH"
    BY <1>3, ChargerBinds
  <2> QED
    BY <2>1, <2>2 DEF InvalidIsInvalid, BindInv, Settled
<1> QED
  BY <1>1, <1>2, <1>3

-----------------------------------------------------------------------------
(* An accusation is just.                                                  *)

LEMMA LoginUnchanged ==
    ASSUME LoginInv, InvalidIsInvalid, UNCHANGED vars
    PROVE  LoginInv' /\ InvalidIsInvalid'
<1>1. UNCHANGED <<pc, peer, attempts, token, dmode, dwhat, dtoken, dapp, drand,
                  dgot, up, down, queue, result>>
  BY DEF vars, caller, client, locals, inbox, link, charger
<1>2. /\ Numbering' = Numbering /\ Proving' = Proving /\ Going' = Going
      /\ Attempting' = Attempting /\ Early' = Early /\ AtDid' = AtDid
      /\ Coming' = Coming /\ DKeys' = DKeys /\ Keys' = Keys
  BY <1>1 DEF Numbering, Proving, Going, Attempting, Early, AtDid, Coming,
     DKeys, Keys
<1>3. NoParcel' = NoParcel /\ NoNumberOffer' = NoNumberOffer
  BY <1>2 DEF NoParcel, NoNumberOffer, NumberOffer, IsOffer
<1>4. NumberGoing' /\ NumberHeard' /\ Agreed'
  BY <1>1, <1>2, <1>3 DEF LoginInv, NumberGoing, NumberHeard, Agreed
<1>5. ProofOwn' /\ Rejected'
  BY <1>1, <1>2, <1>3 DEF LoginInv, ProofOwn, Rejected
<1> QED
  BY <1>1, <1>4, <1>5 DEF LoginInv, InvalidIsInvalid

LEMMA LoginStep ==
    /\ ~Slow /\ TypeOK /\ TransferInv /\ BindInv
    /\ LoginInv /\ InvalidIsInvalid
    /\ TypeOK' /\ TransferInv' /\ [Next]_vars
    => LoginInv' /\ InvalidIsInvalid'
<1> SUFFICES ASSUME ~Slow, TypeOK, TransferInv, BindInv, LoginInv,
                    InvalidIsInvalid, TypeOK', TransferInv', [Next]_vars
             PROVE  LoginInv' /\ InvalidIsInvalid'
  OBVIOUS
<1>1. CASE Host
  BY <1>1, LoginHost, JustHost
<1>2. CASE LinkFails \/ Deliver \/ Loses \/ Noise
  BY <1>2, LoginLink, JustRest
<1>3. CASE Charger
  BY <1>3, LoginCharger, JustRest
<1>4. CASE UNCHANGED vars
  BY <1>4, LoginUnchanged
<1> QED
  BY <1>1, <1>2, <1>3, <1>4 DEF Next

\* "Wrong token" is reported only for a token that is not the charger's: no
\* frame that is lost, dropped, out of turn or left by an earlier attempt makes
\* the client ask its user for another, whatever the MTU, the capacity of the
\* queues, and the number of attempts and faults.  It needs frames that do not
\* outlive the timeout of a receive.
THEOREM JustAccusation == ~Slow => (Spec => []InvalidIsInvalid)
<1> SUFFICES ASSUME ~Slow PROVE Spec => []InvalidIsInvalid
  OBVIOUS
<1>1. Init => InvalidIsInvalid
  <2>1. Init => result = NoResult
    BY DEF Init
  <2>2. NoResult.kind = "none"
    BY DEF NoResult
  <2> QED
    BY <2>1, <2>2 DEF InvalidIsInvalid
<1>2. /\ TypeOK /\ TransferInv /\ BindInv /\ LoginInv /\ InvalidIsInvalid
      /\ TypeOK' /\ TransferInv' /\ [Next]_vars
      => LoginInv' /\ InvalidIsInvalid'
  BY LoginStep
<1> QED
  BY <1>1, <1>2, LoginInit, Binding, Transfers, PTL DEF Spec
=============================================================================
