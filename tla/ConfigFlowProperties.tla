------------------------ MODULE ConfigFlowProperties ------------------------
(***************************************************************************)
(* What the dialogs of ConfigFlow have to guarantee.                       *)
(***************************************************************************)
EXTENDS ConfigFlow

TokenSet ==
    [from : {"none", "typed", "cloud"}, address : Addresses \cup {NoAddress},
     region : Regions \cup {NoRegion}, login : Nat]
QrErrors == {"cloud_qr_start_failed", "cloud_qr_failed", "cloud_qr_cancelled"}
FetchErrors ==
    {"cloud_fetch_failed", "cloud_fetch_cancelled", "cloud_device_not_found"}
Steps == {"idle", "bluetooth_confirm", "user", "method", "token",
          "cloud_region", "cloud_qr", "cloud_fetch", "cloud_done",
          "cloud_error", "reauth_confirm", "gone"}
TaskStates == {"running", "ok", "failed", "raised", "cancelled"}
FlowSet ==
    [step : Steps, address : Addresses \cup {NoAddress},
     listed : SUBSET Addresses, region : Regions \cup {NoRegion},
     qr : Nat, qrTask : Nat, qrError : QrErrors \cup {""},
     auth : Nat, fetchTask : Nat, fetchError : FetchErrors \cup {""},
     fetched : TokenSet, session : Nat]
TaskSet ==
    [kind : {"qr", "fetch"}, state : TaskStates, login : Nat,
     region : Regions \cup {NoRegion}, address : Addresses \cup {NoAddress},
     token : TokenSet]

\* Every variable keeps its type.
CloudType == /\ sessions \in Nat /\ qrs \in Nat /\ attempts \in Nat
             /\ tasks \in Seq(TaskSet) /\ open \subseteq Nat
FlowType == awaits \in [Flows -> Nat] /\ flow \in [Flows -> FlowSet]
EntryType == entries \in [Addresses -> TokenSet]
TypeOK == CloudType /\ FlowType /\ EntryType
-----------------------------------------------------------------------------
\* How a dialog may give a charger its token: the user types it, to add the
\* charger or to replace a rejected token, or it was fetched for this very
\* charger, in the region chosen and with the login this dialog was granted.
TypesInto(f, a) ==
    /\ flow[f].step \in {"token", "reauth_confirm"} /\ flow'[f].step = "gone"
    /\ entries[a] # NoToken => flow[f].step = "reauth_confirm"
    /\ entries'[a] = Typed
FetchedFor(f, a) ==
    /\ entries[a] = NoToken
    /\ entries'[a] = Fetched(a, flow[f].region, flow[f].auth)

\* A configured charger keeps its token until the user types another one or
\* deletes the entry, and a new one gets its own, however stale the list of
\* chargers a dialog offers, whatever earlier attempts fetched, whichever
\* dialog finishes first and however often a form is submitted.
OwnToken ==
    [][\A a \in Addresses :
        entries'[a] \notin {entries[a], NoToken}
            => \E f \in Flows : /\ flow[f].address = a
                                /\ TypesInto(f, a) \/ FetchedFor(f, a)]_vars

\* The assertions of cloud_fetch and cloud_done do not fail: a QR login that
\* succeeds finds the region and charger it was started for, provided that
\* the region form of this dialog is submitted once at a time.  The late
\* answer to a second submission may show a QR code without a region.
SubmittedOnce(f) == [](awaits[f] <= 1)
FindsWhatItAsserts(f) ==
    /\ flow[f].step = "cloud_fetch" /\ flow[f].fetchTask = 0 => FetchAsserted(f)
    /\ flow[f].step = "cloud_done" => flow[f].fetched # NoToken
Asserted == \A f \in Flows : SubmittedOnce(f) => []FindsWhatItAsserts(f)

\* The QR code on the screen is the one whose scan is awaited, in a dialog
\* whose region form is submitted once at a time: of two submissions the
\* code of the last is shown and the task of the first goes on.
PollsShown(f) ==
    flow[f].step = "cloud_qr"
        => flow[f].qrTask # 0 /\ tasks[flow[f].qrTask].login = flow[f].qr
ShownIsPolled == \A f \in Flows : SubmittedOnce(f) => []PollsShown(f)

\* The task the dialog waits for raised what no step catches.
Raised(f) ==
    LET t == IF flow[f].step = "cloud_qr" THEN flow[f].qrTask
             ELSE flow[f].fetchTask IN
    /\ flow[f].step \in {"cloud_qr", "cloud_fetch"}
    /\ t \in DOMAIN tasks /\ tasks[t].state = "raised"

\* A progress dialog ends: the scan or the fetch succeeds or is reported.  It
\* stays only where its task raised what is neither a CloudError nor a
\* cancellation, or where a second submission of the region form has left it
\* without the region cloud_fetch asserts.
ProgressEnds ==
    \A f \in Flows : SubmittedOnce(f) =>
        (flow[f].step \in {"cloud_qr", "cloud_fetch", "cloud_done"}
            ~> flow[f].step \in {"cloud_error", "gone"} \/ Raised(f))
=============================================================================
