------------------------ MODULE XiaomiCloudProperties ------------------------
(***************************************************************************)
(* What the cloud login of XiaomiCloud has to guarantee.                   *)
(***************************************************************************)
EXTENDS XiaomiCloud

Kinds == {"none", "auth", "token", "not found", "error"}

\* Every variable keeps its type; no request outlives its timeout.
TypeOK ==
    /\ phase \in {"idle", "auth", "over"} \cup DOMAIN LimitOf
    /\ Waiting => spent \in 0..LimitOf[phase]
    /\ login \in 0..MaxLogins /\ jar \in 0..login
    /\ waited \in Nat /\ deadline \in Timeouts \cup {0}
    /\ scan \in {"fresh", "scanned", "approved"}
    /\ faults \in 0..MaxFaults
    /\ listed \in Devices \cup {<<>>}
    /\ result.kind \in Kinds
    /\ result.keys \in 0..login /\ result.cookie \in 0..login

\* An approval counts even if the deadline passes while it is on its way.
ApprovalCounts ==
    (phase \in {"poll", "pause"} /\ scan = "approved" /\ faults = MaxFaults)
        ~> (result.kind = "auth")

\* The token is that of the first record of this charger that has a good one;
\* a charger whose records are all bad is reported as that, and only a charger
\* without a record as not found.
Ours(dev) == normalize_mac(dev.mac) = target
Good(dev) == Ours(dev) /\ dev.token \in {"t12", "u12", "t16"}
GoodAt == {i \in DOMAIN listed : Good(listed[i])}
TokenIsOurs ==
    /\ result.kind = "token" =>
        \E i \in GoodAt : /\ \A j \in GoodAt : i <= j
                          /\ result.token = First24(listed[i].token)
    /\ result = Error("invalid token") =>
        GoodAt = {} /\ \E i \in DOMAIN listed : Ours(listed[i])
    /\ result.kind = "not found" => ~\E i \in DOMAIN listed : Ours(listed[i])

\* The device list is asked for with the keys and the cookie of one login, the
\* present one: the service cookie comes from a session that may hold an older
\* one, and a redirect that sets none is an error.
OwnCookie ==
    phase \in {"auth", "list"} =>
        result.kind = "auth" /\ result.keys = login /\ result.cookie = login
=============================================================================
