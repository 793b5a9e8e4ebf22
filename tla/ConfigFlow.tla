----------------------------- MODULE ConfigFlow -----------------------------
(***************************************************************************)
(* AD1204UConfigFlow (config_flow.py): the dialogs that add a charger or   *)
(* replace its token, the cloud login they run in tasks of their own, and  *)
(* Home Assistant's flow manager around them (external): it runs the step  *)
(* of the present dialog again when a progress task ends or a client asks, *)
(* refuses a charger that is taken, and tells a flow that it is removed.   *)
(*                                                                         *)
(* The one await at which other steps of the same flow can run is the      *)
(* request start_qr_login sends.  A login is known by the number of its QR *)
(* code; a token by what it was fetched for.                               *)
(***************************************************************************)
EXTENDS Naturals, Sequences, FiniteSets

CONSTANTS
    Flows,          \* flow ids, each used once
    Addresses,      \* Bluetooth addresses that advertise
    Chargers,       \* those that look like an AD1204U
    Regions,        \* cloud regions
    NoAddress, NoRegion,
    MaxCalls,       \* submissions of one form that may be under way at once
    CloseAnytime,   \* whether a dialog may be closed while its step runs
    MaxAttempts     \* bound on the region forms submitted

ASSUME FlowConstants ==
    /\ Chargers \subseteq Addresses
    /\ NoAddress \notin Addresses /\ NoRegion \notin Regions
    /\ MaxCalls \in Nat \ {0} /\ CloseAnytime \in BOOLEAN
    /\ MaxAttempts \in Nat

VARIABLES
    flow,           \* the fields of each flow object, and its dialog
    awaits,         \* how many of its steps await start_qr_login
    tasks,          \* the tasks created so far
    sessions,       \* how many HTTP sessions were made
    open,           \* those not released
    qrs,            \* how many QR logins were started
    attempts,       \* region forms submitted
    entries         \* the token of each configured charger

cloud == <<tasks, sessions, open, qrs>>
vars == <<flow, awaits, tasks, sessions, open, qrs, attempts, entries>>

\* Tokens: none, typed by the user, or fetched.
NoToken == [from |-> "none", address |-> NoAddress, region |-> NoRegion,
            login |-> 0]
Typed == [NoToken EXCEPT !.from = "typed"]
Fetched(a, r, login) ==
    [from |-> "cloud", address |-> a, region |-> r, login |-> login]

\* A flow before its first step.  Steps "idle" and "gone" are not dialogs.
NewFlow ==
    [step |-> "idle", address |-> NoAddress, listed |-> {},
     region |-> NoRegion, qr |-> 0, qrTask |-> 0, qrError |-> "",
     auth |-> 0, fetchTask |-> 0, fetchError |-> "", fetched |-> NoToken,
     session |-> 0]

Live(f) == flow[f].step \notin {"idle", "gone"}
Configured == {a \in Addresses : entries[a] # NoToken}

Init ==
    /\ flow = [f \in Flows |-> NewFlow]
    /\ awaits = [f \in Flows |-> 0]
    /\ tasks = <<>> /\ sessions = 0 /\ open = {} /\ qrs = 0
    /\ attempts = 0
    /\ entries = [a \in Addresses |-> NoToken]
-----------------------------------------------------------------------------
(***************************************************************************)
(* _reset_cloud_attempt: cancel what runs, forget the login, release the   *)
(* session.  A flow that is removed is reset as well.                      *)
(***************************************************************************)
Running(t) == t \in DOMAIN tasks /\ tasks[t].state = "running"

\* Mutant: the QR task of an earlier attempt is kept.
Cleared_KeepsQrTask(r) ==
    [r EXCEPT !.qr = 0, !.qrError = "", !.auth = 0,
              !.fetchTask = 0, !.fetchError = "", !.fetched = NoToken,
              !.region = NoRegion, !.session = 0]

Cleared(r) ==
    [r EXCEPT !.qr = 0, !.qrTask = 0, !.qrError = "", !.auth = 0,
              !.fetchTask = 0, !.fetchError = "", !.fetched = NoToken,
              !.region = NoRegion, !.session = 0]

TasksOf(F) == UNION {{flow[f].qrTask, flow[f].fetchTask} : f \in F}

Release(F) ==
    /\ tasks' = [t \in DOMAIN tasks |->
                    IF t \in TasksOf(F) /\ Running(t)
                    THEN [tasks[t] EXCEPT !.state = "cancelled"] ELSE tasks[t]]
    /\ open' = open \ {flow[f].session : f \in F}
    /\ UNCHANGED <<sessions, qrs>>

\* The flows of F end, aborted or completed: async_remove.
Remove(F) ==
    /\ Release(F)
    /\ flow' = [f \in Flows |-> IF f \in F
                    THEN [Cleared(flow[f]) EXCEPT !.step = "gone"]
                    ELSE flow[f]]

Shows(f, step) ==
    /\ flow' = [flow EXCEPT ![f].step = step]
    /\ UNCHANGED cloud
-----------------------------------------------------------------------------
(***************************************************************************)
(* Choosing the charger.                                                   *)
(***************************************************************************)
\* Mutant: a configured charger is not refused.
Taken_InProgressOnly(f, a) ==
    \E g \in Flows \ {f} : Live(g) /\ flow[g].address = a

\* async_set_unique_id and _abort_if_unique_id_configured.
Taken(f, a) ==
    \/ a \in Configured
    \/ \E g \in Flows \ {f} : Live(g) /\ flow[g].address = a

Choose(f, a, step) ==
    \/ Taken(f, a) /\ Remove({f})
    \/ /\ ~Taken(f, a)
       /\ flow' = [flow EXCEPT ![f].address = a, ![f].step = step]
       /\ UNCHANGED cloud

bluetooth(f, a) ==
    /\ flow[f].step = "idle"
    /\ UNCHANGED <<awaits, attempts, entries>>
    /\ \/ a \notin Chargers /\ Remove({f})
       \/ a \in Chargers /\ Choose(f, a, "bluetooth_confirm")

bluetooth_confirm(f) ==
    /\ flow[f].step = "bluetooth_confirm"
    /\ UNCHANGED <<awaits, attempts, entries>>
    /\ Shows(f, "method")

\* The form lists what advertises and is not configured yet.
user(f) ==
    LET discovered == Chargers \ Configured IN
    /\ flow[f].step \in {"idle", "user"}
    /\ UNCHANGED <<awaits, attempts, entries>>
    /\ \/ discovered = {} /\ Remove({f})
       \/ /\ discovered # {}
          /\ flow' = [flow EXCEPT ![f].listed = discovered, ![f].step = "user"]
          /\ UNCHANGED cloud

user_chosen(f, a) ==
    /\ flow[f].step = "user" /\ a \in flow[f].listed
    /\ UNCHANGED <<awaits, attempts, entries>>
    /\ Choose(f, a, "method")

method(f, next) ==
    /\ flow[f].step = "method"
    /\ UNCHANGED <<awaits, attempts, entries>>
    /\ Shows(f, next)
-----------------------------------------------------------------------------
(***************************************************************************)
(* The entry, from a token typed or fetched.                               *)
(***************************************************************************)
\* _create_entry: Home Assistant ends every flow for the same charger.
CreateEntry(f, token) ==
    LET a == flow[f].address IN
    /\ entries' = [entries EXCEPT ![a] = token]
    /\ Remove({f} \cup {g \in Flows : Live(g) /\ flow[g].address = a})
    /\ UNCHANGED <<awaits, attempts>>

\* What may be typed, and _normalize_token's error for it.
Inputs == {"good", "not_hex", "wrong_length"}
token_error(input) == IF input = "good" THEN "" ELSE input

token(f, input) ==
    /\ flow[f].step = "token" /\ token_error(input) = ""
    /\ CreateEntry(f, Typed)

\* The coordinator reports a rejected token; one dialog for each entry.
reauth(f, a) ==
    /\ flow[f].step = "idle" /\ a \in Configured
    /\ ~\E g \in Flows : Live(g) /\ flow[g].address = a
    /\ flow' = [flow EXCEPT ![f].address = a, ![f].step = "reauth_confirm"]
    /\ UNCHANGED <<awaits, attempts, entries, cloud>>

reauth_confirm(f, input) ==
    /\ flow[f].step = "reauth_confirm" /\ token_error(input) = ""
    /\ entries' = [entries EXCEPT ![flow[f].address] = Typed]
    /\ Remove({f})
    /\ UNCHANGED <<awaits, attempts>>

\* The user deletes an entry; its token dialog goes with it.
DeleteEntry(a) ==
    /\ a \in Configured
    /\ entries' = [entries EXCEPT ![a] = NoToken]
    /\ Remove({f \in Flows : flow[f].step = "reauth_confirm"
                             /\ flow[f].address = a})
    /\ UNCHANGED <<awaits, attempts>>

\* The user closes a dialog.
Close(f) ==
    /\ Live(f) /\ (CloseAnytime \/ awaits[f] = 0)
    /\ Remove({f})
    /\ UNCHANGED <<awaits, attempts, entries>>
-----------------------------------------------------------------------------
(***************************************************************************)
(* The cloud login.                                                        *)
(***************************************************************************)
\* _get_cloud_session, on the fields r of a flow: the session is made once.
WithSession(r) ==
    IF r.session = 0 THEN [r EXCEPT !.session = sessions + 1] ELSE r
SessionMade(r) ==
    /\ sessions' = IF r.session = 0 THEN sessions + 1 ELSE sessions
    /\ open' = IF r.session = 0 THEN open \cup {sessions + 1} ELSE open

Task(kind, r) == [kind |-> kind, state |-> "running", login |-> r.qr,
                  region |-> r.region, address |-> r.address,
                  token |-> NoToken]

\* A dialog of a removed flow is shown to nobody.
ShownAt(f, step) == IF flow[f].step = "gone" THEN "gone" ELSE step

\* cloud_region with a region, and cloud_qr up to its request.
cloud_region(f, region) ==
    LET r == [flow[f] EXCEPT !.region = region] IN
    /\ flow[f].step = "cloud_region" /\ r.qr = 0
    /\ awaits[f] < MaxCalls /\ attempts < MaxAttempts
    /\ attempts' = attempts + 1
    /\ awaits' = [awaits EXCEPT ![f] = @ + 1]
    /\ SessionMade(r)
    /\ flow' = [flow EXCEPT ![f] = WithSession(r)]
    /\ UNCHANGED <<tasks, qrs, entries>>

\* start_qr_login answers: the QR code is shown and a task waits for the scan.
QrStarted(f) ==
    LET r == [flow[f] EXCEPT !.qr = qrs + 1] IN
    /\ awaits[f] > 0
    /\ awaits' = [awaits EXCEPT ![f] = @ - 1]
    /\ qrs' = qrs + 1
    /\ \/ /\ r.qrTask = 0
          /\ tasks' = Append(tasks, Task("qr", r))
          /\ SessionMade(r)
          /\ flow' = [flow EXCEPT ![f] =
                        [WithSession(r) EXCEPT
                            !.qrTask = Len(tasks) + 1,
                            !.step = ShownAt(f, "cloud_qr")]]
       \/ /\ r.qrTask # 0
          /\ flow' = [flow EXCEPT ![f] =
                        [r EXCEPT !.step = ShownAt(f, "cloud_qr")]]
          /\ UNCHANGED <<tasks, sessions, open>>
    /\ UNCHANGED <<attempts, entries>>

QrStartFailed(f) ==
    /\ awaits[f] > 0
    /\ awaits' = [awaits EXCEPT ![f] = @ - 1]
    /\ flow' = [flow EXCEPT ![f].qrError = "cloud_qr_start_failed",
                            ![f].step = ShownAt(f, "cloud_error")]
    /\ UNCHANGED <<cloud, attempts, entries>>

\* The answer is not text: r.text() raises what is no CloudError, which
\* leaves the step and shows no other dialog.
QrStartRaised(f) ==
    /\ awaits[f] > 0
    /\ awaits' = [awaits EXCEPT ![f] = @ - 1]
    /\ UNCHANGED <<flow, cloud, attempts, entries>>

\* cloud_qr when its task has ended.  If it raised what is no CloudError, so
\* does the step, and changes nothing; cloud_fetch likewise.
QrDone(f) ==
    LET t == flow[f].qrTask IN
    /\ flow[f].step = "cloud_qr" /\ t # 0
    /\ UNCHANGED <<awaits, attempts, entries, cloud>>
    /\ \/ /\ tasks[t].state = "ok"
          /\ flow' = [flow EXCEPT ![f].auth = tasks[t].login,
                                  ![f].step = "cloud_fetch"]
       \/ /\ tasks[t].state = "failed"
          /\ flow' = [flow EXCEPT ![f].qrError = "cloud_qr_failed",
                                  ![f].qr = 0, ![f].qrTask = 0,
                                  ![f].step = "cloud_error"]
       \/ /\ tasks[t].state = "cancelled"
          /\ flow' = [flow EXCEPT ![f].qrError = "cloud_qr_cancelled",
                                  ![f].step = "cloud_error"]

\* The assertions at the head of cloud_fetch; a failed one changes nothing.
FetchAsserted(f) ==
    flow[f].auth # 0 /\ flow[f].region # NoRegion
    /\ flow[f].address # NoAddress

FetchTask(r) == [Task("fetch", r) EXCEPT !.login = r.auth]

Fetch(f) ==
    LET r == flow[f] IN
    /\ r.step = "cloud_fetch" /\ r.fetchTask = 0 /\ FetchAsserted(f)
    /\ tasks' = Append(tasks, FetchTask(r))
    /\ SessionMade(r)
    /\ flow' = [flow EXCEPT ![f] = [WithSession(r) EXCEPT
                                        !.fetchTask = Len(tasks) + 1]]
    /\ UNCHANGED <<awaits, attempts, qrs, entries>>

\* Mutant: a task that finds no token counts as one that does.
Found_Always(t) == TRUE

Found(t) == tasks[t].token # NoToken

\* Mutant: the cancellation of the task escapes from the step.
FetchFailed_Uncaught(f, reason) ==
    /\ reason # "cloud_fetch_cancelled"
    /\ flow' = [flow EXCEPT ![f].fetchError = reason,
                            ![f].step = "cloud_error"]

FetchFailed(f, reason) ==
    /\ flow' = [flow EXCEPT ![f].fetchError = reason,
                            ![f].step = "cloud_error"]

\* cloud_fetch when its task has ended.
FetchDone(f) ==
    LET t == flow[f].fetchTask IN
    /\ flow[f].step = "cloud_fetch" /\ t # 0
    /\ UNCHANGED <<awaits, attempts, entries, cloud>>
    /\ \/ tasks[t].state = "failed" /\ FetchFailed(f, "cloud_fetch_failed")
       \/ tasks[t].state = "cancelled" /\ FetchFailed(f, "cloud_fetch_cancelled")
       \/ /\ tasks[t].state = "ok" /\ ~Found(t)
          /\ FetchFailed(f, "cloud_device_not_found")
       \/ /\ tasks[t].state = "ok" /\ Found(t)
          /\ flow' = [flow EXCEPT ![f].fetched = tasks[t].token,
                                  ![f].step = "cloud_done"]

cloud_done(f) ==
    /\ flow[f].step = "cloud_done" /\ flow[f].fetched # NoToken
    /\ CreateEntry(f, flow[f].fetched)

\* cloud_error, confirmed.
cloud_error(f) ==
    /\ flow[f].step = "cloud_error"
    /\ Release({f})
    /\ flow' = [flow EXCEPT ![f] = [Cleared(flow[f]) EXCEPT !.step = "method"]]
    /\ UNCHANGED <<awaits, attempts, entries>>
-----------------------------------------------------------------------------
(***************************************************************************)
(* The tasks.  Each ends: wait_for_qr_scan at its deadline, a request at   *)
(* its timeout, and either when Home Assistant stops (cancelled).  One     *)
(* whose answer is not text raises what is no CloudError ("raised").       *)
(***************************************************************************)
TaskEnds(t) ==
    /\ Running(t)
    /\ \E state \in {"ok", "failed", "raised", "cancelled"},
          token_hex \in {NoToken, Fetched(tasks[t].address, tasks[t].region,
                                          tasks[t].login)} :
        /\ token_hex # NoToken => tasks[t].kind = "fetch" /\ state = "ok"
        /\ tasks' = [tasks EXCEPT ![t].state = state, ![t].token = token_hex]
    /\ UNCHANGED <<flow, awaits, sessions, open, qrs, attempts, entries>>

Choosing(f) ==
    \/ \E a \in Addresses : bluetooth(f, a) \/ user_chosen(f, a)
    \/ bluetooth_confirm(f) \/ user(f)
    \/ method(f, "cloud_region") \/ method(f, "token")
Typing(f) ==
    \/ \E input \in Inputs : token(f, input) \/ reauth_confirm(f, input)
    \/ \E a \in Addresses : reauth(f, a)
\* The flow manager runs the step of the present dialog again.
Again(f) == QrDone(f) \/ Fetch(f) \/ FetchDone(f) \/ cloud_done(f)
Answered(f) == QrStarted(f) \/ QrStartFailed(f) \/ QrStartRaised(f)

Next ==
    \/ \E f \in Flows :
        \/ Choosing(f) \/ Typing(f) \/ Close(f)
        \/ \E region \in Regions : cloud_region(f, region)
        \/ Answered(f) \/ Again(f) \/ cloud_error(f)
    \/ \E a \in Addresses : DeleteEntry(a)
    \/ \E t \in DOMAIN tasks : TaskEnds(t)

MaxTasks == 2 * MaxAttempts

Fairness ==
    /\ \A f \in Flows : WF_vars(Answered(f)) /\ WF_vars(Again(f))
    /\ \A t \in 1..MaxTasks : WF_vars(t \in DOMAIN tasks /\ TaskEnds(t))

Spec == Init /\ [][Next]_vars /\ Fairness
=============================================================================
