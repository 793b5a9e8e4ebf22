--------------------------- MODULE PropertyCodec ---------------------------
(***************************************************************************)
(* The plaintexts of the MIOT property protocol, as the integration makes  *)
(* and reads them (lib/xiaomi/properties.py) and as the capture tool reads *)
(* them (tools/decrypt_btsnoop_miot.py).  A plaintext is a sequence of     *)
(* bytes, since both readers go by offsets and lengths; a value that was   *)
(* read is kept as a number and the way it is shown.                       *)
(***************************************************************************)
EXTENDS Naturals, Sequences, SequencesExt, TLC

\* First bytes of a plaintext; the second is always the same.
GET == 51  RESPONSES == {147, 28, 14}
SET_REQUEST == 12  SET_RESPONSE == 11  NOTIFY == 15
MIOT == 32
ECHO == 4       \* flag of a property event that echoes a write
BYTE == 1  SHORT == 2  WORD == 4    \* type bytes

\* Little-endian numbers, and Python's slices, which never fail.
ToLE(n, width) == [i \in 1..width |-> (n \div 256^(i - 1)) % 256]
FromLE(bytes) == FoldRight(LAMBDA b, rest : b + 256 * rest, bytes, 0)
Slice(bytes, from, to) ==
    SubSeq(bytes, from + 1, IF to < Len(bytes) THEN to ELSE Len(bytes))

Header(op, flag, count) == <<op, MIOT, 1, 0, flag, count>>
HEADER == 6

\* What a reader makes of the entry at an offset.
Entry(siid, piid, status, shown, n) ==
    [siid |-> siid, piid |-> piid, status |-> status, shown |-> shown, n |-> n]
EntryAt(pt, at, status, shown, n) ==
    Entry(pt[at + 1], FromLE(Slice(pt, at + 1, at + 3)), status, shown, n)
StatusAt(pt, at) == FromLE(Slice(pt, at + 3, at + 5))
Truth(raw) == IF FromLE(raw) = 0 THEN 0 ELSE 1
-----------------------------------------------------------------------------
(***************************************************************************)
(* Requests.                                                               *)
(***************************************************************************)
encode_get_properties(keys) ==
    Header(GET, 2, Len(keys))
        \o FlattenSeq([i \in DOMAIN keys |-> <<keys[i].siid>> \o ToLE(keys[i].piid, 2)])

\* Type, marker and value of a write.
EncodedValue(kind, n) ==
    CASE kind = "bool" -> <<BYTE, 0, n>>
      [] kind = "u32" -> <<WORD, 80>> \o ToLE(n, 4)
      [] kind = "u8" -> <<BYTE, 16, n % 256>>

encode_set_property(key, kind, n) ==
    Header(SET_REQUEST, 0, 1)
        \o <<key.siid>> \o ToLE(key.piid, 2) \o EncodedValue(kind, n)
-----------------------------------------------------------------------------
(***************************************************************************)
(* What the integration reads.                                             *)
(***************************************************************************)
Refused == [ok |-> FALSE, list |-> <<>>]
Accepted(list) == [ok |-> TRUE, list |-> list]

Width == [type \in {BYTE, SHORT, WORD} |->
            CASE type = BYTE -> 1 [] type = SHORT -> 2 [] type = WORD -> 4]

\* The bytes up to this offset are there.
Fits(pt, end) == end <= Len(pt)

\* Mutant: the width a type announces is not compared with what is left.
ValueFits_Always(pt, end) == TRUE

ValueFits(pt, end) == Fits(pt, end)

\* entries[k][at] reads k entries from offset at on.
_parse_property_entries(pt, count, includesStatus) ==
    LET prefix == IF includesStatus THEN 7 ELSE 5
        entries[k \in 0..count] == [at \in Nat |->
            IF k = 0 THEN Accepted(<<>>)
            ELSE IF ~Fits(pt, at + prefix) THEN Refused
            ELSE LET type == pt[at + prefix - 1]
                     start == at + prefix
                     end == start + Width[type]
                     raw == Slice(pt, start, end)
                     isBool == type = BYTE /\ pt[start] = 0
                     entry == EntryAt(pt, at,
                                      IF includesStatus THEN StatusAt(pt, at) ELSE 0,
                                      IF isBool THEN "bool" ELSE "int",
                                      IF isBool THEN Truth(raw) ELSE FromLE(raw))
                     rest == entries[k - 1][end]
                 IN IF type \notin DOMAIN Width \/ ~ValueFits(pt, end) \/ ~rest.ok
                    THEN Refused
                    ELSE Accepted(<<entry>> \o rest.list)]
    IN entries[count][HEADER]

parse_response(pt) ==
    IF Fits(pt, HEADER) /\ pt[2] = MIOT /\ pt[1] \in RESPONSES
    THEN _parse_property_entries(pt, pt[6], TRUE)
    ELSE Refused

\* A notification, or the echo of a write, is an event; a write itself is not.
parse_notification(pt) ==
    IF /\ Fits(pt, HEADER) /\ pt[2] = MIOT
       /\ pt[1] = NOTIFY \/ (pt[1] = SET_REQUEST /\ pt[5] = ECHO)
    THEN _parse_property_entries(pt, pt[6], FALSE)
    ELSE Refused

\* Mutant: what follows the last result is passed over.
AtEnd_Anywhere(pt, at) == TRUE

AtEnd(pt, at) == at = Len(pt)

\* results[k][at] reads k results of a write from offset at on.
parse_set_response(pt) ==
    LET results[k \in 0..255] == [at \in Nat |->
            IF k = 0 THEN [ok |-> AtEnd(pt, at), list |-> <<>>]
            ELSE IF ~Fits(pt, at + 5) THEN Refused
            ELSE LET rest == results[k - 1][at + 5]
                     result == EntryAt(pt, at, StatusAt(pt, at), "", 0)
                 IN [rest EXCEPT !.list = <<result>> \o rest.list]]
    IN IF Fits(pt, HEADER) /\ pt[1] = SET_RESPONSE /\ pt[2] = MIOT /\ pt[5] = 1
       THEN results[pt[6]][HEADER]
       ELSE Refused

\* get_properties() returns one value for a key: the last one it read.
get_properties(pt) ==
    LET read == parse_response(pt)
        later(i) == {j \in i + 1..Len(read.list) :
                        /\ read.list[j].siid = read.list[i].siid
                        /\ read.list[j].piid = read.list[i].piid}
    IN [read EXCEPT !.list = {@[i] : i \in {j \in DOMAIN @ : later(j) = {}}}]

\* set_property() returns only if the one result is that of this very property.
set_property(key, pt) ==
    LET read == parse_set_response(pt)
    IN /\ read.ok /\ Len(read.list) = 1
       /\ read.list[1] = Entry(key.siid, key.piid, 0, "", 0)
-----------------------------------------------------------------------------
(***************************************************************************)
(* What the capture tool prints.  It never refuses a plaintext.            *)
(***************************************************************************)
Row(action, entry) == [action |-> action, entry |-> entry]
Blank == Entry(0, 0, 0, "", 0)
OrBlank(rows, action) == IF rows = <<>> THEN <<Row(action, Blank)>> ELSE rows

\* The value at an offset, and where the next entry begins.
_decode_value(pt, at, type, marker) ==
    LET raw == Slice(pt, at, at + 1)
    IN CASE type = WORD ->
            [n |-> FromLE(Slice(pt, at, at + 4)), shown |-> "int", next |-> at + 4]
         [] type = BYTE /\ raw = <<>> -> [n |-> 0, shown |-> "", next |-> at]
         [] type = BYTE /\ raw # <<>> ->
            [n |-> IF marker = 0 THEN Truth(raw) ELSE raw[1],
             shown |-> IF marker = 0 THEN "bool" ELSE "int", next |-> at + 1]
         [] OTHER -> [n |-> 0, shown |-> "hex", next |-> Len(pt)]

_decode_get_request(pt) ==
    LET rows[k \in 0..255] == [at \in Nat |->
            IF k = 0 \/ ~Fits(pt, at + 3) THEN <<>>
            ELSE <<Row("get_request", EntryAt(pt, at, 0, "", 0))>>
                 \o rows[k - 1][at + 3]]
    IN OrBlank(rows[pt[6]][HEADER], "get_request")

_decode_property_values(pt, action, statusless) ==
    LET rows[k \in 0..255] == [at \in Nat |->
            LET type == at + (IF statusless THEN 3 ELSE 5)
            IN IF k = 0 \/ ~Fits(pt, at + 5) \/ ~Fits(pt, type + 2) THEN <<>>
               ELSE LET read == _decode_value(pt, type + 2, pt[type + 1], pt[type + 2])
                    IN <<Row(action,
                             EntryAt(pt, at,
                                     IF statusless THEN 0 ELSE StatusAt(pt, at),
                                     read.shown, read.n))>>
                       \o rows[k - 1][read.next]]
    IN OrBlank(rows[pt[6]][HEADER], action)

_decode_set_response(pt) ==
    LET rows[k \in 0..255] == [at \in Nat |->
            IF k = 0 \/ ~Fits(pt, at + 5) THEN <<>>
            ELSE <<Row("set_response", EntryAt(pt, at, StatusAt(pt, at), "", 0))>>
                 \o rows[k - 1][at + 5]]
    IN OrBlank(rows[pt[6]][HEADER], "set_response")

decode_miot_plaintext(pt) ==
    IF ~Fits(pt, HEADER) \/ pt[2] # MIOT THEN <<Row("unknown", Blank)>>
    ELSE CASE pt[1] = GET -> _decode_get_request(pt)
           [] pt[1] \in RESPONSES ->
                _decode_property_values(pt, "get_response", FALSE)
           [] pt[1] = SET_REQUEST ->
                _decode_property_values(pt, "set_request", TRUE)
           [] pt[1] = SET_RESPONSE -> _decode_set_response(pt)
           [] pt[1] = NOTIFY -> _decode_property_values(pt, "notify", TRUE)
           [] OTHER -> <<Row("unknown", Blank)>>
=============================================================================
