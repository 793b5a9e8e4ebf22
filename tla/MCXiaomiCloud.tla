--------------------------- MODULE MCXiaomiCloud ---------------------------
(***************************************************************************)
(* Small instances of XiaomiCloud.                                         *)
(***************************************************************************)
EXTENDS XiaomiCloudProperties

Record(mac, token) == [mac |-> mac, token |-> token]

\* A list with the charger, one without it, one with a bad token.
FewDevices == {<<Record("aa-bb", "t16")>>, <<Record("CC:DD", "t12")>>,
               <<Record("AA:BB", "z12")>>}

\* Every list of at most two records.
Records == {Record(mac, token) : mac \in {"AA:BB", "aa-bb", "CC:DD"},
                                 token \in {"t12", "u12", "z12", "t16", "t3"}}
ManyDevices == UNION {[1..n -> Records] : n \in 0..2}
=============================================================================
