------------------------------ MODULE Capture ------------------------------
(***************************************************************************)
(* The capture tool (tools/decrypt_btsnoop_miot.py) from the ACL packets   *)
(* of the charger's connections to the rows it prints: ATT frames are put  *)
(* together from their fragments and split into login epochs, the random   *)
(* numbers and the MIOT frames of each are put together from its parcels,  *)
(* decrypted and decoded.  The host and the charger that were captured are *)
(* external: one connection at a time, on which the host logs in and the   *)
(* two exchange the plaintexts of PropertyCodec.                           *)
(*                                                                         *)
(* A random number is known by the login it was made for, a ciphertext by  *)
(* the message and the part.  The capture starts and stops anywhere.       *)
(***************************************************************************)
EXTENDS PropertyCodec, Functions

CONSTANTS
    Handles,        \* ACL handles
    Requests,       \* what the host asks
    Answers,        \* what the charger sends
    OddAnswers,     \* what it sends at most once, on the first login: cut off,
                    \* or out of place
    Duplex,         \* whether fragments and transfers of both directions may
                    \* overlap
    MaxFrames,      \* MAX_SESSION_ATT_FRAMES
    MaxRows,        \* MAX_DECODED_ROWS
    MaxLogins,      \* bound on logins
    MaxMessages     \* bound on messages

\* The messages there are: what is asked for, and what the entries of an answer
\* are made of.  A value of a known type has the width of its type.
Bytes == 0..255
Words == 0..256 * 256 - 1
EntrySet ==
    {e \in [siid : Bytes, piid : Words, status : Words, type : Bytes,
            marker : Bytes, raw : Seq(Bytes)] :
        e.type \in DOMAIN Width => Len(e.raw) = Width[e.type]}
AnswerSet ==
    [is : {"answer"}, op : Bytes, flag : Bytes, count : Bytes,
     entries : Seq(EntrySet), cut : Nat]

\* A request names at most as many keys as a byte counts, and a value to write
\* fits its kind.
KeySet == [siid : Bytes, piid : Words]
RequestSet ==
    {r \in [is : {"get"}, keys : Seq(KeySet)] : Len(r.keys) <= 255}
    \cup {r \in [is : {"set"}, key : KeySet, kind : {"bool", "u8", "u32"}, n : Nat] :
            /\ r.kind = "bool" => r.n \in {0, 1}
            /\ r.kind = "u8" => r.n \in Bytes
            /\ r.kind = "u32" => r.n \div (256 * 256) \in Words}

ASSUME CaptureConstants ==
    /\ Requests \subseteq RequestSet
    /\ Answers \cup OddAnswers \subseteq AnswerSet
    /\ Duplex \in BOOLEAN
    /\ {MaxFrames, MaxRows, MaxLogins, MaxMessages} \subseteq Nat \ {0}

VARIABLES
    link,           \* the connection and how far its login is
    tokens,         \* whether each login used the token the tool is given
    messages,       \* what was sent so far
    tx, rx,         \* the transfer under way in each direction
    air,            \* the frame of each direction whose last fragment is to come
    l2cap_buffers,  \* iter_att_frames: the frames begun, by handle
    active,         \* iter_login_sessions: the frames of the present epoch
    tool            \* decrypt_att_frames

world == <<link, tokens, messages, tx, rx, air>>
decrypt == <<active, tool>>
vars == <<world, l2cap_buffers, decrypt>>

Idle == [message |-> 0, next |-> 0]

\* A frame on the auth or the MIOT characteristic.
Frame(ch, dir, kind, n, of) ==
    [handle |-> link.handle, ch |-> ch, dir |-> dir, kind |-> kind, n |-> n,
     of |-> of]

\* No frame, and one whose beginning was not captured.
NoFrame == [kind |-> "none"]
BegunBefore == Frame("miot", "tx", "part", 0, 0)
Quiet == [dir \in {"tx", "rx"} |-> NoFrame]

Init ==
    /\ link \in [handle : Handles, step : {"greeted", "ready"}]
    /\ tokens = <<>> /\ messages = <<>> /\ tx = Idle /\ rx = Idle
    /\ \/ air = Quiet
       \/ link.step = "ready" /\ air = [Quiet EXCEPT !["tx"] = BegunBefore]
    /\ l2cap_buffers = [h \in {} |-> BegunBefore]
    /\ active = <<>>
    /\ tool = [verdict |-> "reading", rows |-> <<>>, sessions |-> 0,
               complete |-> 0, failed |-> 0]
-----------------------------------------------------------------------------
(***************************************************************************)
(* Messages.                                                               *)
(***************************************************************************)
\* The bytes of a message: a request, or an answer cut off at some byte.
EntryBytes(op, e) ==
    <<e.siid>> \o ToLE(e.piid, 2)
        \o (IF op \in RESPONSES \cup {SET_RESPONSE} THEN ToLE(e.status, 2) ELSE <<>>)
        \o (IF op = SET_RESPONSE THEN <<>> ELSE <<e.type, e.marker>> \o e.raw)
Whole(m) ==
    Header(m.op, m.flag, m.count)
        \o FlattenSeq([i \in DOMAIN m.entries |-> EntryBytes(m.op, m.entries[i])])
Plaintext(m) ==
    CASE m.is = "get" -> encode_get_properties(m.keys)
      [] m.is = "set" -> encode_set_property(m.key, m.kind, m.n)
      [] m.is = "answer" -> SubSeq(Whole(m), 1, Len(Whole(m)) - m.cut)
-----------------------------------------------------------------------------
(***************************************************************************)
(* One epoch.                                                              *)
(***************************************************************************)
\* A function with one more value, or another.
With(g, x, v) == [y \in DOMAIN g \cup {x} |-> IF y = x THEN v ELSE g[y]]

\* An announcement starts a transfer; parts outside 1..want do not count.
Fresh(f) == [want |-> f.n, got |-> <<>>, dir |-> f.dir]
None == [want |-> 0, got |-> <<>>, dir |-> ""]
Put(t, f) == IF f.n \in 1..t.want THEN [t EXCEPT !.got = With(@, f.n, f)] ELSE t
Full(t) == t.want > 0 /\ DOMAIN t.got = 1..t.want
Parts(t) == [i \in 1..t.want |-> t.got[i]]

\* extract_login_randoms: the first number of each side.
NoRandoms == [app |-> 0, dev |-> 0, ok |-> FALSE, appT |-> None, devT |-> None]
TakeRandom(s, f) ==
    IF f.ch # "auth" \/ s.ok THEN s
    ELSE IF f.dir = "tx" /\ f.kind = "announce" THEN [s EXCEPT !.appT = Fresh(f)]
    ELSE IF f.dir = "tx" /\ s.appT.want > 0
    THEN LET t == Put(s.appT, f)
         IN IF Full(t) THEN [s EXCEPT !.app = t.got[1].of, !.appT = None]
            ELSE [s EXCEPT !.appT = t]
    ELSE IF f.dir = "rx" /\ f.kind = "announce" THEN [s EXCEPT !.devT = Fresh(f)]
    ELSE LET t == Put(s.devT, f)
             dev == IF f.dir = "tx" THEN s.dev
                    ELSE IF f.kind = "inline" THEN f.of
                    ELSE IF Full(t) THEN t.got[1].of ELSE s.dev
         IN [s EXCEPT !.dev = dev, !.ok = s.app # 0 /\ dev # 0,
                      !.devT = IF f.dir = "tx" \/ f.kind = "inline" THEN @
                               ELSE IF Full(t) THEN None ELSE t]
extract_login_randoms(frames) == FoldLeft(TakeRandom, NoRandoms, frames)

Collected(s, parts) ==
    [s EXCEPT !.out = Append(@, [of |-> parts[1].of, dir |-> parts[1].dir,
                                 parts |-> parts])]

\* Mutant: an inline frame ends the transfer it interrupts.
TakeInline_Ends(s, f) == [Collected(s, <<f>>) EXCEPT !.t = None]

TakeInline(s, f) == Collected(s, <<f>>)

\* extract_miot_frames: one transfer is pending, in one direction.
TakeFrame(s, f) ==
    IF f.ch # "miot" THEN s
    ELSE IF f.kind = "inline" THEN TakeInline(s, f)
    ELSE IF f.kind = "announce" THEN [s EXCEPT !.t = Fresh(f)]
    ELSE IF s.t.dir # f.dir THEN s
    ELSE LET t == Put(s.t, f)
         IN IF Full(t) THEN [Collected(s, Parts(t)) EXCEPT !.t = None]
            ELSE [s EXCEPT !.t = t]
Transfers(frames) == FoldLeft(TakeFrame, [out |-> <<>>, t |-> None], frames)
extract_miot_frames(frames) == Transfers(frames).out

\* decrypt_miot_frame: the cipher accepts exactly the parts of one message, in
\* its direction and under the keys of its login.
Decrypts(frame, randoms) ==
    LET m == messages[frame.of]
    IN /\ frame.of \in DOMAIN messages /\ frame.dir = m.dir
       /\ Len(frame.parts) = m.parts
       /\ \A i \in 1..m.parts : frame.parts[i].of = frame.of /\ frame.parts[i].n = i
       /\ m.login = randoms.app /\ m.login = randoms.dev /\ tokens[m.login]

RowsOf(k) ==
    LET rows == decode_miot_plaintext(Plaintext(messages[k].what))
    IN [i \in DOMAIN rows |-> [message |-> k, row |-> rows[i]]]
Decrypted(found, randoms) ==
    FlattenSeq([i \in DOMAIN found |->
        IF Decrypts(found[i], randoms) THEN RowsOf(found[i].of) ELSE <<>>])

\* The loop of decrypt_att_frames for the frames of one epoch.
EpochDone(t, frames) ==
    LET randoms == extract_login_randoms(frames)
        found == extract_miot_frames(frames)
        rows == t.rows \o Decrypted(found, randoms)
        begun == [t EXCEPT !.sessions = @ + 1]
        whole == [begun EXCEPT !.complete = @ + 1]
    IN IF frames = <<>> THEN t
       ELSE IF ~randoms.ok THEN begun
       ELSE IF found # <<>> /\ \A i \in DOMAIN found : ~Decrypts(found[i], randoms)
       THEN [whole EXCEPT !.failed = @ + 1]
       ELSE IF Len(rows) > MaxRows THEN [whole EXCEPT !.verdict = "limit"]
       ELSE [whole EXCEPT !.rows = rows]
-----------------------------------------------------------------------------
(***************************************************************************)
(* iter_login_sessions, frame by frame.                                    *)
(***************************************************************************)
IsLoginStart(f) == f.ch = "auth" /\ f.dir = "tx" /\ f.kind = "announce"

\* An epoch too long to hold ends the run.
Overfull == tool' = [tool EXCEPT !.verdict = "limit"] /\ UNCHANGED active

Observe(f) ==
    IF IsLoginStart(f)
    THEN active' = <<f>> /\ tool' = EpochDone(tool, active)
    ELSE IF active = <<>> \/ active[1].handle # f.handle
    THEN UNCHANGED <<active, tool>>
    ELSE IF Len(active) >= MaxFrames THEN Overfull
    ELSE active' = Append(active, f) /\ UNCHANGED tool
-----------------------------------------------------------------------------
(***************************************************************************)
(* iter_att_frames, packet by packet: a whole frame, its first fragment or *)
(* its last.                                                               *)
(***************************************************************************)
\* Frames that are not on the attribute channel are passed over.
_parse_att_frame(f) ==
    IF f.ch = "signalling" THEN UNCHANGED decrypt ELSE Observe(f)

\* The fragments of two frames make one whose payload is of neither.
Joined(first, last) ==
    IF first = last THEN first ELSE [first EXCEPT !.dir = last.dir, !.of = 0]

\* Mutant: a frame that was broken off stays in the place of the next one.
Begun_KeepsFirst(f) ==
    IF f.handle \in DOMAIN l2cap_buffers THEN l2cap_buffers
    ELSE With(l2cap_buffers, f.handle, f)

Begun(f) == With(l2cap_buffers, f.handle, f)

FirstFragment(f) == l2cap_buffers' = Begun(f) /\ UNCHANGED decrypt

\* One whose first fragment is missing is passed over.
FinalFragment(f) ==
    IF f.handle \in DOMAIN l2cap_buffers
    THEN /\ _parse_att_frame(Joined(l2cap_buffers[f.handle], f))
         /\ l2cap_buffers' = Restrict(l2cap_buffers,
                                      DOMAIN l2cap_buffers \ {f.handle})
    ELSE UNCHANGED <<l2cap_buffers, decrypt>>
-----------------------------------------------------------------------------
(***************************************************************************)
(* The end.                                                                *)
(***************************************************************************)

\* What decrypt_att_frames makes of its counts.
Verdict(t) ==
    IF t.verdict = "limit" THEN "limit"
    ELSE IF t.complete = 0 \/ (t.failed > 0 /\ t.rows = <<>>) THEN "nothing"
    ELSE IF t.failed > 0 THEN "warned"
    ELSE "rows"

\* Rows in the order of their frames.
RowsFor(k, rows) ==
    FlattenSeq([i \in DOMAIN rows |->
                    IF rows[i].message = k THEN <<rows[i]>> ELSE <<>>])
Sorted(rows) == FlattenSeq([k \in DOMAIN messages |-> RowsFor(k, rows)])

\* The end of the capture.
CaptureEnds ==
    /\ tool.verdict = "reading"
    /\ LET last == EpochDone(tool, active)
       IN tool' = [last EXCEPT !.verdict = Verdict(last), !.rows = Sorted(@)]
    /\ active' = <<>>
    /\ UNCHANGED <<world, l2cap_buffers>>
-----------------------------------------------------------------------------
(***************************************************************************)
(* The host and the charger.                                               *)
(***************************************************************************)
Reading == tool.verdict = "reading"
Login == Len(tokens)
Ready == Reading /\ link.step = "ready"

\* A connection is seen from its first frame on: the greeting, and what the two
\* acknowledge in it, are short frames of no transfer.
Connect ==
    /\ Reading /\ Login < MaxLogins
    /\ \E h \in Handles :
        /\ link' = [handle |-> h, step |-> "greeted"]
        /\ _parse_att_frame([Frame("auth", "tx", "control", 0, 0)
                                EXCEPT !.handle = h])
    /\ tx' = Idle /\ rx' = Idle /\ air' = Quiet
    /\ UNCHANGED <<tokens, messages, l2cap_buffers>>

\* Which frame may be sent next, and which goes in two fragments: a parcel
\* that is full.
MaySend(f) ==
    air[f.dir] = NoFrame /\ (Duplex \/ f.kind = "inline" \/ air = Quiet)
MaySplit(f) ==
    /\ Duplex \/ air = Quiet
    /\ f.ch = "miot" /\ f.kind = "part" /\ f.n < messages[f.of].parts

Send(f) ==
    /\ MaySend(f)
    /\ \/ _parse_att_frame(f) /\ UNCHANGED <<air, l2cap_buffers>>
       \/ /\ MaySplit(f)
          /\ FirstFragment(f)
          /\ air' = [air EXCEPT ![f.dir] = f]

\* The last fragment of a frame.
LastFragment(dir) ==
    LET f == air[dir]
    IN /\ Reading /\ f # NoFrame
       /\ FinalFragment(f)
       /\ air' = [air EXCEPT ![dir] = NoFrame]
       /\ UNCHANGED <<link, tokens, messages, tx, rx>>

\* What the two ends agree on for the connection itself.
Signal ==
    /\ Reading /\ link.step = "greeted"
    /\ Send(Frame("signalling", "rx", "control", 0, 0))
    /\ UNCHANGED <<link, tokens, messages, tx, rx>>

LoginStart ==
    /\ Reading /\ link.step = "greeted" /\ Login < MaxLogins
    /\ \E ours \in BOOLEAN : tokens' = Append(tokens, ours)
    /\ link' = [link EXCEPT !.step = "announced"]
    /\ Send(Frame("auth", "tx", "announce", 1, 0))
    /\ UNCHANGED <<messages, tx, rx>>

\* The random numbers; the charger's comes inline or as a parcel.
LoginSteps ==
    {<<"announced", "asked", Frame("auth", "tx", "part", 1, Login)>>,
     <<"asked", "ready", Frame("auth", "rx", "inline", 0, Login)>>,
     <<"asked", "offered", Frame("auth", "rx", "announce", 1, 0)>>,
     <<"offered", "ready", Frame("auth", "rx", "part", 1, Login)>>}
Exchange ==
    /\ Reading
    /\ \E s \in LoginSteps :
        /\ link.step = s[1] /\ link' = [link EXCEPT !.step = s[2]]
        /\ Send(s[3])
    /\ UNCHANGED <<tokens, messages, tx, rx>>

Odd == \E k \in DOMAIN messages : messages[k].what \notin Requests \cup Answers
Asked ==
    LET sent == {k \in DOMAIN messages : /\ messages[k].dir = "tx"
                                         /\ messages[k].login = Login
                                         /\ messages[k].done}
    IN {0} \cup {k \in sent : \A j \in sent : j <= k}
New(dir, what, parts, done, asked) ==
    /\ Len(messages) < MaxMessages
    /\ messages' = Append(messages, [login |-> Login, dir |-> dir, what |-> what,
                                     parts |-> parts, done |-> done,
                                     asked |-> asked])
Latest == Len(messages) + 1
\* A read names many keys and is long, a write is short.
PartsOf(what) == IF what.is = "set" THEN 1 ELSE 2
Replies ==
    IF Odd \/ Login # 1 \/ tx # Idle \/ rx # Idle THEN Answers
    ELSE Answers \cup OddAnswers

RequestAnnounce ==
    /\ Ready /\ tx = Idle /\ (~Duplex => rx = Idle)
    /\ \E what \in Requests :
        /\ New("tx", what, PartsOf(what), FALSE, 0)
        /\ Send(Frame("miot", "tx", "announce", PartsOf(what), Latest))
    /\ tx' = [message |-> Latest, next |-> 1]
    /\ UNCHANGED <<link, tokens, rx>>

AnswerInline ==
    /\ Ready
    /\ Send(Frame("miot", "rx", "inline", 1, Latest))
    /\ \E what \in Replies, asked \in Asked : New("rx", what, 1, TRUE, asked)
    /\ UNCHANGED <<link, tokens, tx, rx>>

AnswerAnnounce ==
    /\ Ready /\ rx = Idle /\ (~Duplex => tx = Idle)
    /\ \E what \in Answers, asked \in Asked : New("rx", what, 2, FALSE, asked)
    /\ Send(Frame("miot", "rx", "announce", 2, Latest))
    /\ rx' = [message |-> Latest, next |-> 1]
    /\ UNCHANGED <<link, tokens, tx>>

\* The next part of a transfer.
After(t) == IF t.next = messages[t.message].parts THEN Idle
            ELSE [t EXCEPT !.next = @ + 1]
Part ==
    /\ Ready
    /\ \E dir \in {"tx", "rx"} :
        LET t == IF dir = "tx" THEN tx ELSE rx
        IN /\ t # Idle
           /\ Send(Frame("miot", dir, "part", t.next, t.message))
           /\ messages' = [messages EXCEPT ![t.message].done =
                            t.next = messages[t.message].parts]
           /\ tx' = IF dir = "tx" THEN After(t) ELSE tx
           /\ rx' = IF dir = "rx" THEN After(t) ELSE rx
    /\ UNCHANGED <<link, tokens>>

\* A transfer is given up.
GiveUp ==
    /\ Ready /\ \/ tx # Idle
                \/ rx # Idle
    /\ tx' = Idle /\ rx' = Idle
    /\ UNCHANGED <<link, tokens, messages, air, l2cap_buffers, decrypt>>
-----------------------------------------------------------------------------
Next ==
    \/ Connect \/ Signal \/ LoginStart \/ Exchange \/ GiveUp
    \/ RequestAnnounce \/ AnswerInline \/ AnswerAnnounce \/ Part
    \/ \E dir \in {"tx", "rx"} : LastFragment(dir)
    \/ CaptureEnds
Spec == Init /\ [][Next]_vars
=============================================================================
