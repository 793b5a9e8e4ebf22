------------------------------ MODULE MCCapture ------------------------------
(***************************************************************************)
(* Small instances of Capture: a few requests, and the answers to them,    *)
(* whole and cut off at every byte.                                        *)
(***************************************************************************)
EXTENDS CaptureProperties

CONSTANTS h1, h2

HandleSymmetry == Permutations(Handles)

Key(piid) == [siid |-> 2, piid |-> piid]
SomeRequests ==
    {[is |-> "get", keys |-> <<Key(15), Key(257)>>],
     [is |-> "set", key |-> Key(15), kind |-> "bool", n |-> 1]}

Typed(piid, status, type, marker, raw) ==
    [siid |-> 2, piid |-> piid, status |-> status, type |-> type,
     marker |-> marker, raw |-> raw]
Switch == Typed(15, 0, BYTE, 0, <<2>>)
Mode == Typed(5, 0, BYTE, 16, <<3>>)
Level == Typed(257, 1, SHORT, 16, <<1, 2>>)
Watts == Typed(257, 0, WORD, 80, <<5, 1, 0, 2>>)
Strange == Typed(5, 0, 7, 0, <<1>>)
Kept == Typed(15, 1, BYTE, 0, <<0>>)
Switch2 == Typed(15, 0, BYTE, 0, <<0>>)

Answer(op, flag, count, entries, cut) ==
    [is |-> "answer", op |-> op, flag |-> flag, count |-> count,
     entries |-> entries, cut |-> cut]

\* One answer of each kind.
FewAnswers == {Answer(28, 3, 2, <<Switch, Watts>>, 0),
               Answer(SET_RESPONSE, 1, 1, <<Switch>>, 0)}

\* Entries of every kind, counted right or wrong, cut off at every byte, under
\* every opcode.
Lists == {<<Switch, Mode>>, <<Level, Switch>>, <<Watts, Kept>>,
          <<Mode, Strange>>, <<Switch, Switch2>>}
Heads == {<<28, 3>>, <<NOTIFY, 4>>, <<SET_REQUEST, ECHO>>, <<SET_REQUEST, 0>>,
          <<SET_RESPONSE, 1>>, <<SET_RESPONSE, 0>>}
CutAnswers ==
    {a \in {Answer(h[1], h[2], count, entries, cut) :
                h \in Heads, count \in 1..3, entries \in Lists, cut \in 0..20} :
        a.cut <= Len(Whole(a)) - HEADER + 1}

\* An odd answer comes when the tool can read it, no frame is unfinished and
\* nothing was sent but perhaps the request; the capture ends there.
OddEndsIt ==
    /\ Odd => tool'.verdict # "reading"
    /\ Odd' => /\ air = Quiet /\ l2cap_buffers = <<>> /\ tokens[1]
               /\ \A k \in DOMAIN messages : messages[k].dir = "tx"
                                             /\ messages[k].login = 1
=============================================================================
