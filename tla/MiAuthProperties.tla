--------------------------- MODULE MiAuthProperties ---------------------------
(***************************************************************************)
(* What the authentication of MiAuth has to guarantee.                     *)
(***************************************************************************)
EXTENDS MiAuth

\* The numbers of the attempts; a DID's ciphertext has 0 or 1 in their place.
Numbers == {0, 1} \cup 0..MaxAttempts
DNumbers == Nat
Secrets == Tokens \cup {NoToken} \cup (Numbers \X DNumbers)
KeySet == [token : Secrets, app : Numbers, dev : DNumbers]
Blobs == [kind : DOMAIN Size, of : KeySet]
FrameSet == [kind : {"error", "rdy", "ok", "ack", "challenge", "echo",
                     "announce", "inline", "parcel", "loginOk", "loginErr",
                     "regOk", "regErr", "GREETING", "CMD_LOGIN",
                     "CMD_SET_KEY", "CMD_GET_INFO", "CMD_AUTH"},
             code : {"", "00", "01", "03", "0a", "0b", "0c", "0d", "ff"},
             n : Nat, data : Blobs]
Flight == [ch : Channels, frame : FrameSet]

\* Values the host sends in parcels, and values it takes.
Sending == {"appRand", "pub", "appProof", "didCt"}
Taking == {"devRand", "devProof", "did", "peerPub"}
Points == [do : {"rdy", "ok"}, what : Sending]
          \cup [do : {"head", "parts"}, what : Taking]
          \cup [do : {"conf"}, what : {"login", "register"}]
          \cup [do : {"none", "ready", "chal1", "chal2", "greeted", "open",
                      "ended", "over"}, what : {""}]
Results == [kind : {"none", "keys", "token", "auth", "invalid", "error",
                    "link"}, keys : KeySet]
Modes == ({"want", "fill"} \X Sending) \cup ({"offer", "ack", "send"} \X Taking)
         \cup ({"idle", "echo1", "echo2"} \X (Sending \cup Taking \cup {""}))
         \cup {<<"auth", "didCt">>}

\* The types of the host's variables, of the link's and of the charger's.
HostType ==
    /\ goal \in {"login", "register"} /\ token \in Secrets
    /\ hint \in {"none", "right", "wrong", "brief"}
    /\ attempts \in 0..MaxAttempts
    /\ result \in Results
    /\ pc \in Points /\ blocked \in BOOLEAN
    /\ peer \in DNumbers /\ remote \in {0, 1} /\ expected \in Nat
    /\ DOMAIN frames \subseteq 1..expected
    /\ \A i \in DOMAIN frames : frames[i] \in Blobs
    /\ subscribed \subseteq Channels
    /\ answered \subseteq KeySet
LinkType ==
    /\ queue \in [Channels -> Seq(FrameSet)]
    /\ \A ch \in Channels : Len(queue[ch]) <= QueueMax
    /\ dropped \in [Channels -> BOOLEAN]
    /\ up \in Seq(Flight) /\ down \in Seq(Flight)
    /\ lost \in 0..MaxLost /\ noise \in 0..MaxNoise
ChargerType ==
    /\ <<dmode, dwhat>> \in Modes
    /\ dform \in {"prefixed", "headed", "short", "silent", "other"}
    /\ dtoken \in Secrets /\ dapp \in Numbers /\ drand \in DNumbers
    /\ dsession \in KeySet /\ shown \subseteq KeySet
    /\ \A i \in DOMAIN dgot : dgot[i] \in Blobs

\* Every variable keeps its type, and no queue outgrows its capacity.
TypeOK == HostType /\ LinkType /\ ChargerType
-----------------------------------------------------------------------------

\* The host's own proof is written only after the charger's: nothing that was
\* computed from the token leaves the host before the HMAC comparison.
ProofAfterProof == answered \subseteq shown

\* "The supplied token cannot authenticate this device" is reported (it makes
\* Home Assistant ask the user for another token) only when the charger holds
\* another one; a bad link or a frame of an earlier attempt is not that.
InvalidIsInvalid == result.kind = "invalid" => token # dtoken

\* The parcels a value is put together from belong to one value: a lost,
\* dropped or late parcel makes the transfer fail, never a mixture.
NeverMixed ==
    \A i, j \in DOMAIN frames : frames[i] = frames[j]

\* When register() returns, the charger is bound with the very token the host
\* stores, so that the host can log in.
BoundTogether == result.kind = "token" => result.keys.token = dtoken

\* A login goes in the order MutualLogin states, and the keys it returns are
\* those of the session the charger has opened.  This needs frames that do not
\* outlive the timeout of a receive: a late confirmation of an earlier attempt
\* on the same connection would be taken for the present one's.
Mutual == INSTANCE MutualLogin
          WITH NoPair <- NoKeys, session <- dsession,
               returned <- IF result.kind = "keys" THEN result.keys ELSE NoKeys
MutualSpec == Mutual!Spec
-----------------------------------------------------------------------------
\* Every procedure ends, whatever the charger fails to do, if it sends no more
\* than finitely many frames out of turn (MaxNoise).  A receive gets its frame
\* or times out, but _recv_until starts its timeout anew with each frame it
\* discards and nothing else bounds a procedure, so a charger that never stops
\* sending such frames would keep it waiting for ever.
Running == pc.do \notin {"none", "ended", "over"}
AttemptEnds == Running ~> ~Running

\* No fault has touched the link and nothing is left on it.
Undisturbed ==
    /\ lost = MaxLost /\ noise = MaxNoise /\ up = <<>> /\ down = <<>>
    /\ \A ch \in Channels : queue[ch] = <<>>

\* What can succeed: a login with the charger's token, a registration of a
\* charger that is free and whose DID is to be had.
Feasible ==
    \/ goal = "login" /\ token = dtoken /\ token \notin Malformed
    \/ /\ goal = "register" /\ dtoken = NoToken
       /\ \/ dform \in {"prefixed", "headed"}
          \/ dform \in {"short", "other"} /\ hint = "right"

\* A procedure that can succeed and that no fault touches does, unless the
\* connection breaks: in each mixture of inline values and parcels, for each
\* presentation of the DID, and for the login with a token just registered.
Succeeds ==
    (pc.do = "ready" /\ Feasible /\ Undisturbed)
        ~> (result.kind \in {"keys", "token", "link"})
=============================================================================
