------------------------- MODULE CaptureProperties -------------------------
(***************************************************************************)
(* What the readers of the MIOT plaintexts and the capture tool have to    *)
(* guarantee.                                                              *)
(***************************************************************************)
EXTENDS Capture

\* What the charger means by an entry, and by the entries it counts.
Meaning(op, e) ==
    LET isBool == e.type = BYTE /\ e.marker = 0
    IN Entry(e.siid, e.piid, IF op \in RESPONSES THEN e.status ELSE 0,
             IF isBool THEN "bool" ELSE "int",
             IF isBool THEN Truth(e.raw) ELSE FromLE(e.raw))
Meant(m) == [i \in 1..m.count |-> Meaning(m.op, m.entries[i])]
Counted(m) == Whole([m EXCEPT !.entries = SubSeq(@, 1, m.count)])

\* Nothing the answer counts is missing, or of a type nobody knows.
Intact(m) ==
    /\ m.count <= Len(m.entries)
    /\ Len(Plaintext(m)) >= Len(Counted(m))
    /\ \A i \in 1..m.count : m.entries[i].type \in DOMAIN Width
ByKey(list) ==
    {list[i] : i \in {j \in DOMAIN list :
        \A k \in j + 1..Len(list) : <<list[k].siid, list[k].piid>>
                                    # <<list[j].siid, list[j].piid>>}}

Received == {k \in DOMAIN messages : messages[k].dir = "rx" /\ messages[k].done}
AnswersA(k, kind) ==
    messages[k].asked # 0 /\ messages[messages[k].asked].what.is = kind
IsResponse(m) == m.op \in RESPONSES /\ Intact(m)
IsEvent(m) ==
    (m.op = NOTIFY \/ (m.op = SET_REQUEST /\ m.flag = ECHO)) /\ Intact(m)

\* A read and an event are taken exactly if they are what they should be and
\* all they count is there, and then for what the charger meant: wherever a
\* plaintext is cut off, no value is made up, and none is lost.
ReadsBack ==
    \A k \in Received :
        LET m == messages[k].what
            pt == Plaintext(m)
            got == get_properties(pt)
            event == parse_notification(pt)
        IN /\ AnswersA(k, "get") =>
                /\ got.ok <=> IsResponse(m)
                /\ got.ok => got.list = ByKey(Meant(m))
           /\ messages[k].asked = 0 =>
                /\ event.ok <=> IsEvent(m)
                /\ event.ok => event.list = Meant(m)

\* A write counts as done exactly if the charger says so of this property, and
\* says nothing else: no result of another property, cut off or followed by
\* more, stands for it.
SetConfirmed ==
    \A k \in Received : AnswersA(k, "set") =>
        LET m == messages[k].what
            key == messages[messages[k].asked].what.key
        IN set_property(key, Plaintext(m)) <=>
            /\ m.op = SET_RESPONSE /\ m.flag = 1 /\ m.count = 1
            /\ m.entries # <<>> /\ Len(Plaintext(m)) = Len(Counted(m))
            /\ m.entries[1].siid = key.siid /\ m.entries[1].piid = key.piid
            /\ m.entries[1].status = 0
-----------------------------------------------------------------------------
\* The rows a message is to be printed as: what the host asked, or what the
\* integration would make of the answer.  The tool does not know SHORT.
Printable(m) ==
    IF m.is # "answer" THEN TRUE
    ELSE (IsResponse(m) \/ IsEvent(m))
         /\ \A i \in 1..m.count : m.entries[i].type # SHORT
Expected(m) ==
    CASE m.is = "get" ->
            IF m.keys = <<>> THEN <<Blank>>
            ELSE [i \in DOMAIN m.keys |->
                    Entry(m.keys[i].siid, m.keys[i].piid, 0, "", 0)]
      [] m.is = "set" ->
            <<Entry(m.key.siid, m.key.piid, 0,
                    IF m.kind = "bool" THEN "bool" ELSE "int", m.n)>>
      [] m.is = "answer" -> IF m.count = 0 THEN <<Blank>> ELSE Meant(m)
Printed(k) ==
    LET rows == RowsFor(k, tool.rows)
    IN [i \in DOMAIN rows |-> rows[i].row.entry]

\* "Decrypt all complete login epochs" (decrypt_att_frames): if the tool gives
\* a result at all, then each message that was captured whole, under the given
\* token, is printed, once, and with the values that were exchanged; other
\* epochs, broken off or of another token, take nothing away.
Decoded ==
    tool.verdict \in {"rows", "warned", "nothing"} =>
        \A k \in DOMAIN messages :
            LET m == messages[k]
            IN m.done /\ m.login > 0 /\ tokens[m.login] =>
                /\ Printed(k) # <<>>
                /\ Printable(m.what) => Printed(k) = Expected(m.what)
=============================================================================
