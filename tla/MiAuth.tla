------------------------------- MODULE MiAuth -------------------------------
(***************************************************************************)
(* MiAuthClient (lib/xiaomi/auth.py): greeting, login and registration of  *)
(* one host with one charger over two notification characteristics, UPNP   *)
(* and AVDTP.  Values travel either inside one frame or as an announcement *)
(* and numbered parcels between RCV_RDY and RCV_OK.                        *)
(*                                                                         *)
(* One action of the host is what it does between two receives.  A caller  *)
(* makes a fresh client for each attempt and may make several attempts on  *)
(* one connection (tools/sweep_logger.py); the frames in flight stay there.*)
(*                                                                         *)
(* Cryptography is symbolic: a proof, a secret or a ciphertext is a record *)
(* of what it was computed from, so two of them are equal only when their  *)
(* inputs are.  The charger and the link are external.                     *)
(***************************************************************************)
EXTENDS Naturals, Sequences

CONSTANTS
    Tokens,         \* tokens of earlier registrations
    NoToken,        \* the charger is not bound; the host has no token
    Malformed,      \* tokens that are not 12 bytes long
    Goals,          \* what the caller wants first: "login", "register"
    DidForms,       \* how the charger presents its DID
    Hints,          \* the did argument of register(): "none", "right", "wrong", "brief"
    Mtu,            \* the MTU the client reports, 0 when it is unknown
    QueueMax,       \* capacity of a notification queue
    Slow,           \* a frame may take longer than the receive timeout
    OddKinds,       \* kinds of short frames the charger may send out of turn
    MaxAttempts,    \* bound: clients made
    MaxLost,        \* bound: frames and writes lost
    MaxNoise        \* bound: frames out of turn

ASSUME AuthConstants ==
    /\ NoToken \notin Tokens
    /\ Goals \subseteq {"login", "register"}
    /\ DidForms \subseteq {"prefixed", "headed", "short", "silent", "other"}
    /\ Hints \subseteq {"none", "right", "wrong", "brief"}
    /\ Mtu \in Nat
    /\ QueueMax \in Nat \ {0}
    /\ Slow \in BOOLEAN
    /\ OddKinds \subseteq {"error", "rdy", "ok", "challenge", "loginOk"}
    /\ MaxAttempts \in Nat /\ MaxLost \in Nat /\ MaxNoise \in Nat

VARIABLES
    \* The caller.
    goal,           \* the procedure of the current attempt
    token,          \* the token it has stored
    hint,           \* the did it passes to register()
    attempts,       \* clients made; also names the random number or the key
                    \* pair of the current attempt
    result,         \* how the last procedure ended
    \* The client.
    pc,             \* the receive it is in
    blocked,        \* it found the queue empty and waits
    peer,           \* the charger's random number or public key, once received
    frames,         \* parcels collected
    expected,       \* parcels announced
    remote,         \* remote_info: whose DID it is
    subscribed,     \* the characteristics whose notifications are on
    queue, dropped, \* the two _ChannelQueue
    \* The link.
    up, down,       \* writes and notifications in flight
    lost, noise,    \* faults so far
    \* The charger.
    dmode, dwhat,   \* what it waits for
    dform,          \* how it presents its DID
    dtoken,         \* the token it is bound to
    dapp,           \* the host's random number or public key, once received
    drand,          \* its own latest random number or key pair
    dgot,           \* parcels it has collected
    dsession,       \* the keys of its session
    \* History.
    shown,          \* keys for which it has sent its proof
    answered        \* keys for which the host has sent its own

caller == <<goal, token, hint, attempts>>
locals == <<peer, frames, expected, remote>>
inbox == <<subscribed, queue, dropped>>
client == <<pc, result, blocked, locals, inbox, answered>>
link == <<up, down>>
faults == <<lost, noise>>
charger == <<dmode, dwhat, dform, dtoken, dapp, drand, dgot, dsession, shown>>
vars == <<caller, client, link, faults, charger>>

Channels == {"upnp", "avdtp"}
-----------------------------------------------------------------------------
(***************************************************************************)
(* Symbolic values.                                                        *)
(***************************************************************************)

\* derive_login: the four session keys follow from these three inputs.
derive_login(t, a, d) == [token |-> t, app |-> a, dev |-> d]

\* derive_register over the shared ECDH secret.
derive_register(a, d) == <<a, d>>

NoKeys == derive_login(NoToken, 0, 0)

Blob(kind, of) == [kind |-> kind, of |-> of]
Number(kind, a, d) == Blob(kind, derive_login(NoToken, a, d))

\* hmac_sha256(dev_key, dev_rand + app_rand) and
\* hmac_sha256(app_key, app_rand + dev_rand).
DevProof(k) == Blob("devProof", k)
AppProof(k) == Blob("appProof", k)

\* encrypt_did: the key is part of the derived secret; whose DID it is, is 0
\* for the charger's own and 1 for any other.
DidCipher(secret, whose) == Blob("didCt", derive_login(secret, whose, 0))

Empty == Number("none", 0, 0)

\* Bytes of each value that is sent in parcels.
Size == [appRand |-> 16, devRand |-> 16, appProof |-> 32, devProof |-> 32,
         pub |-> 64, peerPub |-> 64, did |-> 24, didCt |-> 24, none |-> 0]

\* Bytes of payload per parcel: the index takes two, ATT three.
PARCEL_CHUNK_SIZE == 18
parcel_chunk_size ==
    IF Mtu > PARCEL_CHUNK_SIZE + 5 THEN Mtu - 5 ELSE PARCEL_CHUNK_SIZE

\* The number of frames _chunk_parcel makes of it.
ParcelCount(kind) ==
    IF Size[kind] = 0 THEN 1
    ELSE (Size[kind] + parcel_chunk_size - 1) \div parcel_chunk_size

\* The code of the announcement of each value.
Code == [appRand |-> "0b", devRand |-> "0d", appProof |-> "0a",
         devProof |-> "0c", pub |-> "03", peerPub |-> "03", did |-> "00",
         didCt |-> "00"]

Frame(kind, code, n, data) ==
    [kind |-> kind, code |-> code, n |-> n, data |-> data]
Short(kind) == Frame(kind, "", 0, Empty)
Announcement(what) == Frame("announce", Code[what], ParcelCount(what), Empty)
Inline(what, data) == Frame("inline", Code[what], 0, data)
Parcels(data) ==
    [i \in 1..ParcelCount(data.kind) |-> Frame("parcel", "", i, data)]

\* b"".join(frames[i] for i in sorted(frames)): the value when every parcel is
\* of that value, otherwise bytes that mean nothing.
Joined(parts, n) ==
    IF \E b \in {parts[i] : i \in 1..n} :
          n = ParcelCount(b.kind) /\ \A i \in 1..n : parts[i] = b
    THEN parts[1]
    ELSE Empty

On(ch, fs) == [i \in DOMAIN fs |-> [ch |-> ch, frame |-> fs[i]]]
Write(ch, kind) == On(ch, <<Short(kind)>>)
-----------------------------------------------------------------------------
(***************************************************************************)
(* The DID.  A value is a sequence of symbolic bytes; 0 is the NUL byte.   *)
(***************************************************************************)
OwnDid == [i \in 1..19 |-> 100 + i]
HintText == [right |-> OwnDid, wrong |-> [i \in 1..19 |-> 200 + i],
             brief |-> [i \in 1..7 |-> 200 + i]]

\* What the charger sends for CMD_GET_INFO.
RawDid == [prefixed |-> <<2, 0, 0, 0, 0>> \o OwnDid,
           headed   |-> <<2, 0, 0, 0>> \o OwnDid \o <<0>>,
           short    |-> OwnDid]

NoRemote == <<>>

\* Mutant: the longer header is not told from the short one.
Prefixed_Never(raw) == FALSE
Prefixed(raw) == SubSeq(raw, 1, 5) = <<2, 0, 0, 0, 0>>

\* remote_info out of the raw bytes and the did argument; NoRemote where
\* register() raises.
RemoteInfo(raw, did) ==
    LET info == IF Len(raw) >= 24 /\ Prefixed(raw)
                THEN SubSeq(raw, 6, 24) \o <<0>>
                ELSE IF Len(raw) >= 24 THEN SubSeq(raw, 5, 24)
                ELSE IF did # "none"
                THEN LET text == HintText[did] \o <<0>>
                     IN  SubSeq(text, 1, IF Len(text) < 20 THEN Len(text) ELSE 20)
                ELSE NoRemote
    IN  IF Len(info) = 20 THEN info ELSE NoRemote
-----------------------------------------------------------------------------
(***************************************************************************)
(* Receiving.                                                              *)
(***************************************************************************)
At(do, what) == [do |-> do, what |-> what]
Idle == At("none", "")
Ended == At("ended", "")

Receives == {"chal1", "chal2", "rdy", "ok", "head", "parts", "conf"}
ChannelOf(p) == IF p.do = "conf" THEN "upnp" ELSE "avdtp"
Incoming == queue[ChannelOf(pc)]

NoResult == [kind |-> "none", keys |-> NoKeys]
Ends(kind) == /\ pc' = Ended
              /\ result' = [kind |-> kind, keys |-> NoKeys]
Goes(p) == pc' = p /\ UNCHANGED result
Sends(writes) == up' = up \o writes

\* _recv returns f: the frame was there when the queue was looked at and none
\* had been dropped before, or it ended the wait.
Receive(f) ==
    /\ pc.do \in Receives
    /\ Incoming # <<>>
    /\ blocked \/ ~dropped[ChannelOf(pc)]
    /\ f = Head(Incoming)
    /\ queue' = [queue EXCEPT ![ChannelOf(pc)] = Tail(@)]
    /\ blocked' = FALSE
    /\ UNCHANGED <<caller, subscribed, dropped, down, faults, charger>>

\* _recv finds its queue empty.
Block ==
    /\ pc.do \in Receives /\ ~blocked
    /\ Incoming = <<>> /\ ~dropped[ChannelOf(pc)]
    /\ blocked' = TRUE
    /\ UNCHANGED <<caller, pc, locals, inbox, result, answered, link, faults,
                  charger>>

\* _recv raises: frames were dropped, the wait timed out, or the charger
\* reported an error.
Overflown ==
    /\ pc.do \in Receives /\ ~blocked /\ dropped[ChannelOf(pc)]
    /\ Ends("auth")
    /\ UNCHANGED <<caller, blocked, locals, inbox, answered, link, faults,
                  charger>>

\* Frames in flight arrive before a timeout, unless the link is slow.
InTime == Slow \/ (up = <<>> /\ down = <<>>)

\* Mutant: the confirmation is awaited without a timeout.
Expires_ButConfirmation == blocked /\ Incoming = <<>> /\ InTime /\ pc.do # "conf"
Expires == blocked /\ Incoming = <<>> /\ InTime

TimesOut ==
    /\ pc.do \in Receives /\ Expires
    /\ Ends("auth")
    /\ blocked' = FALSE
    /\ UNCHANGED <<caller, locals, inbox, answered, link, faults, charger>>

Refused ==
    /\ Receive(Short("error"))
    /\ Ends("auth")
    /\ UNCHANGED <<up, locals, answered>>
-----------------------------------------------------------------------------
(***************************************************************************)
(* Sending a value: _send_parcel.                                          *)
(***************************************************************************)
Keys == derive_login(token, attempts, peer)

Payload(what) ==
    CASE what = "appRand"  -> Number("appRand", attempts, 0)
      [] what = "pub"      -> Number("pub", attempts, 0)
      [] what = "appProof" -> AppProof(Keys)
      [] what = "didCt"    -> DidCipher(derive_register(attempts, peer), remote)

Announces(before, what) ==
    /\ Sends(before \o On("avdtp", <<Announcement(what)>>))
    /\ Goes(At("rdy", what))

\* The first _recv_until.
TakeReady ==
    /\ pc.do = "rdy"
    /\ \E f \in {Incoming[i] : i \in DOMAIN Incoming} :
          /\ Receive(f) /\ f.kind # "error"
          /\ IF f.kind = "rdy"
             THEN /\ Sends(On("avdtp", Parcels(Payload(pc.what))))
                  /\ Goes(At("ok", pc.what))
                  /\ answered' = IF pc.what = "appProof"
                                 THEN answered \cup {Keys} ELSE answered
             ELSE Goes(pc) /\ UNCHANGED <<up, answered>>
    /\ UNCHANGED <<locals>>

\* The second, and what the procedure does next.
TakeOk ==
    /\ pc.do = "ok"
    /\ \E f \in {Incoming[i] : i \in DOMAIN Incoming} :
          /\ Receive(f) /\ f.kind # "error"
          /\ \/ f.kind # "ok" /\ Goes(pc) /\ UNCHANGED up
             \/ /\ f.kind = "ok"
                /\ \/ /\ pc.what = "appRand"
                      /\ Goes(At("head", "devRand")) /\ UNCHANGED up
                   \/ /\ pc.what = "appProof"
                      /\ Goes(At("conf", "login")) /\ UNCHANGED up
                   \/ /\ pc.what = "pub"
                      /\ Goes(At("head", "peerPub")) /\ UNCHANGED up
                   \/ /\ pc.what = "didCt"
                      /\ Sends(Write("upnp", "CMD_AUTH"))
                      /\ Goes(At("conf", "register"))
    /\ UNCHANGED <<locals, answered>>
-----------------------------------------------------------------------------
(***************************************************************************)
(* Receiving a value: _recv_variant and _recv_parcel.                      *)
(***************************************************************************)

\* Mutant: the charger's HMAC is not compared.
Authentic_Unchecked(data) == TRUE
Authentic(data) == data = DevProof(Keys)

\* What login() does with a value; "before" is written first.
LoginHas(what, data, before) ==
    \/ /\ what = "devRand" /\ data.kind # "devRand"
       /\ Ends("auth") /\ Sends(before) /\ UNCHANGED peer
    \/ /\ what = "devRand" /\ data.kind = "devRand"
       /\ peer' = data.of.dev
       /\ Goes(At("head", "devProof")) /\ Sends(before)
    \/ /\ what = "devProof" /\ ~Authentic(data)
       /\ Ends("invalid") /\ Sends(before) /\ UNCHANGED peer
    \/ /\ what = "devProof" /\ Authentic(data)
       /\ Announces(before, "appProof") /\ UNCHANGED peer

\* What register() does with the raw DID, or without one: the key exchange
\* begins.
RegisterHasDid(raw, before) ==
    LET info == RemoteInfo(raw, hint)
    IN  IF info = NoRemote
        THEN Ends("auth") /\ Sends(before) /\ UNCHANGED remote
        ELSE /\ remote' = IF info = OwnDid \o <<0>> THEN 0 ELSE 1
             /\ Announces(before \o Write("upnp", "CMD_SET_KEY"), "pub")

\* What it does with the charger's public key.
RegisterHasKey(data, before) ==
    IF data.kind # "peerPub"
    THEN Ends("error") /\ Sends(before) /\ UNCHANGED peer
    ELSE peer' = data.of.dev /\ Announces(before, "didCt")

Has(what, data, before) ==
    \/ /\ what \in {"devRand", "devProof"} /\ LoginHas(what, data, before)
       /\ UNCHANGED remote
    \/ /\ what = "did" /\ UNCHANGED peer
       /\ RegisterHasDid(IF data.kind = "did" THEN RawDid[dform] ELSE <<>>,
                         before)
    \/ /\ what = "peerPub" /\ RegisterHasKey(data, before)
       /\ UNCHANGED remote

\* The range of an announced parcel count.
MAX_AUTH_PARCELS == 64

\* Mutant: the parcels of the previous value are still there.
NoFrames_Kept == frames
NoFrames == <<>>

Collects(what, n) ==
    IF n \in 1..MAX_AUTH_PARCELS
    THEN /\ Sends(Write("avdtp", "rdy"))
         /\ expected' = n /\ frames' = NoFrames
         /\ Goes(At("parts", what))
    ELSE Ends("auth") /\ UNCHANGED <<up, expected, frames>>

OFFICIAL_ACK == Write("avdtp", "ack")

\* _recv_variant
TakeVariant ==
    /\ pc.do = "head" /\ pc.what \in {"devRand", "devProof"}
    /\ \E f \in {Incoming[i] : i \in DOMAIN Incoming} :
          /\ Receive(f) /\ f.kind # "error"
          /\ \/ /\ f.code # Code[pc.what] \/ f.kind \notin {"inline", "announce"}
                /\ Ends("auth") /\ UNCHANGED <<up, peer, remote, frames, expected>>
             \/ /\ f.code = Code[pc.what] /\ f.kind = "inline"
                /\ Has(pc.what, f.data, OFFICIAL_ACK)
                /\ UNCHANGED <<frames, expected>>
             \/ /\ f.code = Code[pc.what] /\ f.kind = "announce"
                /\ Collects(pc.what, f.n)
                /\ UNCHANGED <<peer, remote>>
    /\ UNCHANGED answered

\* The announcement register() expects next.
TakeAnnouncement ==
    /\ pc.do = "head" /\ pc.what \in {"did", "peerPub"}
    /\ \E f \in {Incoming[i] : i \in DOMAIN Incoming} :
          /\ Receive(f) /\ f.kind # "error"
          /\ \/ /\ f.kind = "announce" /\ f.code = Code[pc.what]
                /\ Collects(pc.what, f.n) /\ UNCHANGED <<peer, remote>>
             \/ /\ f.kind # "announce" \/ f.code # Code[pc.what]
                /\ IF pc.what = "did" /\ hint # "none"
                   THEN Has("did", Empty, <<>>)
                   ELSE Ends("auth") /\ UNCHANGED <<up, peer, remote>>
                /\ UNCHANGED <<frames, expected>>
    /\ UNCHANGED answered

\* One round of the loop of _recv_parcel, and its end.
TakeParcel ==
    /\ pc.do = "parts"
    /\ \E f \in {Incoming[i] : i \in DOMAIN Incoming} :
          /\ Receive(f) /\ f.kind # "error"
          /\ IF f.kind = "parcel" /\ f.n \in 1..expected /\ f.n \notin DOMAIN frames
             THEN LET got == [i \in DOMAIN frames \cup {f.n} |->
                                 IF i = f.n THEN f.data ELSE frames[i]]
                  IN  /\ frames' = got
                      /\ IF DOMAIN got = 1..expected
                         THEN Has(pc.what, Joined(got, expected),
                                  Write("avdtp", "ok"))
                         ELSE Goes(pc) /\ UNCHANGED <<up, peer, remote>>
             ELSE Ends("auth") /\ UNCHANGED <<up, peer, remote, frames>>
    /\ UNCHANGED <<expected, answered>>
-----------------------------------------------------------------------------
(***************************************************************************)
(* The procedures' first and last steps, and the caller.                   *)
(***************************************************************************)

\* What the confirmation of a procedure means.
\* Mutants: whatever is not OK is a wrong token; whatever is not an error is OK.
Outcome_Strict(what, kind) ==
    IF what = "login" THEN IF kind = "loginOk" THEN "keys" ELSE "invalid"
    ELSE IF kind = "regOk" THEN "token" ELSE "auth"
Outcome_Lax(what, kind) ==
    IF what = "login" THEN IF kind = "loginErr" THEN "invalid" ELSE "keys"
    ELSE IF kind = "regErr" THEN "auth" ELSE "token"
Outcome(what, kind) ==
    IF what = "login" /\ kind = "loginOk" THEN "keys"
    ELSE IF what = "login" /\ kind = "loginErr" THEN "invalid"
    ELSE IF what = "register" /\ kind = "regOk" THEN "token"
    ELSE "auth"

\* The confirmation on UPNP.
TakeConfirmation ==
    /\ pc.do = "conf"
    /\ \E f \in {Incoming[i] : i \in DOMAIN Incoming} :
          /\ Receive(f) /\ f.kind # "error"
          /\ pc' = Ended
          /\ LET kind == Outcome(pc.what, f.kind)
             IN  result' = [kind |-> kind,
                            keys |-> IF kind = "keys" THEN Keys
                                     ELSE IF kind = "token"
                                     THEN derive_login(
                                             derive_register(attempts, peer), 0, 0)
                                     ELSE NoKeys]
    /\ UNCHANGED <<locals, up, answered>>

\* A fresh MiAuthClient, subscribed.  register() runs with both channels open,
\* a login opens UPNP after the greeting.  A token just registered is stored
\* and used for a login.  Between two attempts the caller sleeps, which
\* outlasts what is in flight unless the link is slow.
NewClient ==
    /\ pc = Idle /\ attempts < MaxAttempts /\ result.kind # "keys"
    /\ InTime
    /\ attempts' = attempts + 1
    /\ IF result.kind = "token"
       THEN token' = result.keys.token /\ goal' = "login"
       ELSE UNCHANGED <<token, goal>>
    /\ pc' = At("ready", "") /\ result' = NoResult
    /\ subscribed' = IF goal' = "register" THEN Channels ELSE {"avdtp"}
    /\ queue' = [ch \in Channels |-> <<>>]
    /\ dropped' = [ch \in Channels |-> FALSE]
    /\ blocked' = FALSE /\ peer' = 0 /\ remote' = 1
    /\ frames' = <<>> /\ expected' = 0
    /\ UNCHANGED <<hint, answered, link, faults, charger>>

\* greet()
Greet ==
    /\ pc.do = "ready" /\ goal = "login"
    /\ Sends(Write("upnp", "GREETING")) /\ Goes(At("chal1", ""))
    /\ UNCHANGED <<caller, blocked, locals, inbox, answered, down, faults,
                  charger>>

TakeChallenge ==
    /\ pc.do \in {"chal1", "chal2"}
    /\ \E f \in {Incoming[i] : i \in DOMAIN Incoming} :
          /\ Receive(f) /\ f.kind # "error"
          /\ IF f.kind = "challenge"
             THEN /\ Sends(Write("avdtp", "echo"))
                  /\ Goes(At(IF pc.do = "chal1" THEN "chal2" ELSE "greeted", ""))
             ELSE Ends("auth") /\ UNCHANGED up
    /\ UNCHANGED <<locals, answered>>

SubscribeUpnp ==
    /\ pc.do = "greeted"
    /\ subscribed' = Channels
    /\ Goes(At("open", ""))
    /\ UNCHANGED <<caller, blocked, locals, queue, dropped, answered, link,
                  faults, charger>>

\* login()
Login ==
    /\ pc.do = "open"
    /\ IF token \in Malformed
       THEN Ends("auth") /\ UNCHANGED up
       ELSE Announces(Write("upnp", "CMD_LOGIN"), "appRand")
    /\ UNCHANGED <<caller, blocked, locals, inbox, answered, down, faults,
                  charger>>

\* register()
Register ==
    /\ pc.do = "ready" /\ goal = "register"
    /\ Sends(Write("upnp", "CMD_GET_INFO")) /\ Goes(At("head", "did"))
    /\ UNCHANGED <<caller, blocked, locals, inbox, answered, down, faults,
                  charger>>

\* The caller gives the client up; stop_notify() may fail, which is ignored.
Unsubscribe ==
    /\ pc = Ended /\ result.kind # "keys"
    /\ pc' = Idle /\ subscribed' = {}
    /\ UNCHANGED <<caller, result, blocked, locals, queue, dropped, answered,
                  link, faults, charger>>

\* A write or a subscription raises: the connection is gone.
LinkFails ==
    /\ pc.do \notin {"none", "ended", "over"}
    /\ pc' = At("over", "") /\ result' = [kind |-> "link", keys |-> NoKeys]
    /\ subscribed' = {} /\ up' = <<>> /\ down' = <<>>
    /\ dmode' = "idle" /\ dsession' = NoKeys
    /\ UNCHANGED <<caller, blocked, locals, queue, dropped, answered, faults,
                  dwhat, dform, dtoken, dapp, drand, dgot, shown>>

Host == \/ NewClient \/ Greet \/ TakeChallenge \/ SubscribeUpnp \/ Login
        \/ Register \/ Block \/ Overflown \/ TimesOut \/ Refused
        \/ TakeReady \/ TakeOk \/ TakeVariant \/ TakeAnnouncement \/ TakeParcel
        \/ TakeConfirmation \/ Unsubscribe
-----------------------------------------------------------------------------
(***************************************************************************)
(* The link (external), and the notification handler of _ChannelQueue: it  *)
(* makes room by dropping the oldest frame.                                *)
(***************************************************************************)
Kept(q) == IF Len(q) = QueueMax THEN Tail(q) ELSE q

Deliver ==
    /\ down # <<>>
    /\ LET ch == Head(down).ch
       IN  IF ch \in subscribed
           THEN /\ queue' = [queue EXCEPT ![ch] = Append(Kept(@), Head(down).frame)]
                /\ dropped' = [dropped EXCEPT ![ch] =
                                  @ \/ Len(queue[ch]) = QueueMax]
           ELSE UNCHANGED <<queue, dropped>>
    /\ down' = Tail(down)
    /\ UNCHANGED <<caller, pc, blocked, locals, subscribed, result, answered,
                  up, faults, charger>>

LosesNotification == down # <<>> /\ down' = Tail(down) /\ UNCHANGED up
LosesWrite == up # <<>> /\ up' = Tail(up) /\ UNCHANGED down

Loses ==
    /\ lost < MaxLost /\ lost' = lost + 1
    /\ LosesNotification \/ LosesWrite
    /\ UNCHANGED <<caller, client, noise, charger>>

\* Frames the charger may send out of turn.
Oddities == {Short(kind) : kind \in OddKinds} \cup
            {Frame("announce", "ff", 1, Empty), Frame("announce", "0d", 0, Empty),
             Frame("parcel", "", 9, Empty)}

Noise ==
    /\ noise < MaxNoise /\ noise' = noise + 1
    /\ \E ch \in Channels, f \in Oddities : down' = down \o On(ch, <<f>>)
    /\ UNCHANGED <<caller, client, up, lost, charger>>
-----------------------------------------------------------------------------
(***************************************************************************)
(* The charger (external): what tests/test_xiaomi_mi.py and the client     *)
(* expect of it.                                                           *)
(***************************************************************************)
DKeys == derive_login(dtoken, dapp, drand)
DPayload(what) ==
    CASE what = "devRand"  -> Number("devRand", 0, drand)
      [] what = "peerPub"  -> Number("peerPub", 0, drand)
      [] what = "devProof" -> DevProof(DKeys)
      [] what = "did"      -> Number("did", 0, 0)

Hears(kind) == up # <<>> /\ Head(up).frame.kind = kind /\ up' = Tail(up)
Tells(fs) == down' = down \o On("avdtp", fs)
DGoes(mode, what) == dmode' = mode /\ dwhat' = what

\* It offers a value, in either form where the client takes either.
DOffers(before, what, data) ==
    \/ /\ what \in {"devRand", "devProof"}
       /\ Tells(before \o <<Inline(what, data)>>)
       /\ DGoes("ack", what)
    \/ Tells(before \o <<Announcement(what)>>) /\ DGoes("offer", what)

\* The value arrived: what comes next.
DNext ==
    \/ /\ dwhat = "devRand" /\ DOffers(<<>>, "devProof", DevProof(DKeys))
       /\ shown' = shown \cup {DKeys}
    \/ /\ dwhat = "devProof" /\ DGoes("want", "appProof") /\ UNCHANGED <<down, shown>>
    \/ /\ dwhat = "peerPub" /\ DGoes("want", "didCt") /\ UNCHANGED <<down, shown>>
    \/ /\ dwhat = "did" /\ DGoes("idle", "") /\ UNCHANGED <<down, shown>>

DCommand ==
    \/ /\ Hears("GREETING") /\ Tells(<<Short("challenge")>>)
       /\ DGoes("echo1", "") /\ UNCHANGED <<drand, dsession>>
    \/ /\ Hears("CMD_LOGIN") /\ DGoes("want", "appRand")
       /\ drand' = drand + 1 /\ dsession' = NoKeys /\ UNCHANGED down
    \/ /\ Hears("CMD_SET_KEY") /\ DGoes("want", "pub")
       /\ drand' = drand + 1 /\ UNCHANGED <<down, dsession>>
    \/ /\ Hears("CMD_GET_INFO") /\ UNCHANGED <<drand, dsession>>
       /\ \/ dform = "silent" /\ DGoes("idle", "") /\ UNCHANGED down
          \/ /\ dform = "other" /\ DGoes("idle", "")
             /\ Tells(<<Frame("announce", "01", 2, Empty)>>)
          \/ dform \in DOMAIN RawDid /\ DOffers(<<>>, "did", Empty)

DEcho ==
    /\ Hears("echo") /\ dmode \in {"echo1", "echo2"}
    /\ IF dmode = "echo1"
       THEN Tells(<<Short("challenge")>>) /\ DGoes("echo2", "")
       ELSE UNCHANGED down /\ DGoes("idle", "")

DAnnounced ==
    /\ Hears("announce") /\ dmode = "want"
    /\ Head(up).frame.code = Code[dwhat]
    /\ Head(up).frame.n = ParcelCount(dwhat)
    /\ Tells(<<Short("rdy")>>) /\ DGoes("fill", dwhat) /\ dgot' = <<>>

DParcel ==
    /\ Hears("parcel") /\ dmode = "fill"
    /\ LET f == Head(up).frame
           got == [i \in DOMAIN dgot \cup {f.n} |->
                      IF i = f.n THEN f.data ELSE dgot[i]]
           whole == DOMAIN got = 1..ParcelCount(dwhat)
           data == Joined(got, ParcelCount(dwhat))
       IN  /\ dgot' = got
           /\ \/ /\ ~whole /\ UNCHANGED <<down, dmode, dwhat, dapp, dsession>>
              \/ /\ whole /\ dwhat \in {"appRand", "pub"}
                 /\ dapp' = data.of.app
                 /\ IF dwhat = "pub"
                    THEN DOffers(<<Short("ok")>>, "peerPub", Empty)
                    ELSE DOffers(<<Short("ok")>>, "devRand",
                                 Number("devRand", 0, drand))
                 /\ UNCHANGED dsession
              \/ /\ whole /\ dwhat = "didCt"
                 /\ Tells(<<Short("ok")>>) /\ DGoes("auth", "didCt")
                 /\ UNCHANGED <<dapp, dsession>>
              \/ /\ whole /\ dwhat = "appProof"
                 /\ LET good == data = AppProof(DKeys)
                    IN  /\ dsession' = IF good THEN DKeys ELSE NoKeys
                        /\ down' = down \o On("avdtp", <<Short("ok")>>)
                              \o On("upnp", <<Short(IF good THEN "loginOk"
                                                    ELSE "loginErr")>>)
                 /\ DGoes("idle", "") /\ UNCHANGED dapp

DReady ==
    /\ Hears("rdy") /\ dmode = "offer"
    /\ Tells(Parcels(DPayload(dwhat))) /\ DGoes("send", dwhat)

DTaken ==
    /\ \/ Hears("ok") /\ dmode = "send"
       \/ Hears("ack") /\ dmode = "ack"
    /\ DNext

DConfirms ==
    /\ Hears("CMD_AUTH") /\ dmode = "auth"
    /\ LET secret == derive_register(dapp, drand)
           good == /\ dtoken = NoToken
                   /\ Joined(dgot, ParcelCount("didCt")) = DidCipher(secret, 0)
       IN  /\ dtoken' = IF good THEN secret ELSE dtoken
           /\ down' = down \o
                 On("upnp", <<Short(IF good THEN "regOk" ELSE "regErr")>>)
    /\ DGoes("idle", "")

\* Whatever it does not wait for, it ignores.
DIgnores ==
    /\ up # <<>> /\ up' = Tail(up)
    /\ LET f == Head(up).frame
       IN  \/ f.kind = "echo" /\ dmode \notin {"echo1", "echo2"}
           \/ /\ f.kind = "announce"
              /\ ~ (dmode = "want" /\ f.code = Code[dwhat]
                                   /\ f.n = ParcelCount(dwhat))
           \/ f.kind = "parcel" /\ dmode # "fill"
           \/ f.kind = "rdy" /\ dmode # "offer"
           \/ f.kind = "ok" /\ dmode # "send"
           \/ f.kind = "ack" /\ dmode # "ack"
           \/ f.kind = "CMD_AUTH" /\ dmode # "auth"

Charger ==
    /\ UNCHANGED <<caller, client, faults, dform>>
    /\ \/ UNCHANGED <<dtoken, dapp, dgot, shown>> /\ DCommand
       \/ UNCHANGED <<dtoken, dapp, drand, dgot, dsession, shown>> /\ DEcho
       \/ UNCHANGED <<dtoken, dapp, drand, dsession, shown>> /\ DAnnounced
       \/ UNCHANGED <<dtoken, drand, shown>> /\ DParcel
       \/ UNCHANGED <<dtoken, dapp, drand, dgot, dsession, shown>> /\ DReady
       \/ UNCHANGED <<dtoken, dapp, drand, dgot, dsession>> /\ DTaken
       \/ UNCHANGED <<dapp, drand, dgot, dsession, shown>> /\ DConfirms
       \/ UNCHANGED <<down, dmode, dwhat, dtoken, dapp, drand, dgot, dsession,
                      shown>> /\ DIgnores
-----------------------------------------------------------------------------
Init ==
    /\ goal \in Goals
    /\ token \in IF goal = "login" THEN Tokens ELSE {NoToken}
    /\ dtoken \in IF goal = "login" THEN Tokens \cup {NoToken} ELSE {NoToken}
    /\ hint \in IF goal = "register" THEN Hints ELSE {"none"}
    /\ dform \in IF goal = "register" THEN DidForms ELSE {"silent"}
    /\ attempts = 0 /\ result = NoResult
    /\ pc = Idle /\ blocked = FALSE /\ peer = 0 /\ remote = 1
    /\ frames = <<>> /\ expected = 0 /\ subscribed = {}
    /\ queue = [ch \in Channels |-> <<>>]
    /\ dropped = [ch \in Channels |-> FALSE]
    /\ up = <<>> /\ down = <<>> /\ lost = 0 /\ noise = 0
    /\ dmode = "idle" /\ dwhat = "" /\ dapp = 0 /\ drand = 0 /\ dgot = <<>>
    /\ dsession = NoKeys /\ shown = {} /\ answered = {}

Next == Host \/ LinkFails \/ Deliver \/ Loses \/ Noise \/ Charger

\* The event loop runs the host, the link delivers what it does not lose, and
\* the charger takes what it was sent.
Fairness == WF_vars(Host) /\ WF_vars(Deliver) /\ WF_vars(Charger)

Spec == Init /\ [][Next]_vars /\ Fairness
=============================================================================
