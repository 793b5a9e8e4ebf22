-------------------------- MODULE ConfigFlowProofs --------------------------
(***************************************************************************)
(* Proofs about the dialogs, for any flows, chargers and regions, and      *)
(* however many logins are attempted.                                      *)
(***************************************************************************)
EXTENDS ConfigFlowProperties, TLAPS

-----------------------------------------------------------------------------
(* Types.                                                                  *)

\* Tokens are tokens, and what becomes of a flow's record is one.
LEMMA TokenType ==
    /\ NoToken \in TokenSet /\ Typed \in TokenSet /\ Typed # NoToken
    /\ \A a \in Addresses \cup {NoAddress}, r \in Regions \cup {NoRegion}, n \in Nat :
          Fetched(a, r, n) \in TokenSet /\ Fetched(a, r, n) # NoToken
BY DEF TokenSet, NoToken, Typed, Fetched

LEMMA RecordType ==
    ASSUME NEW r \in FlowSet
    PROVE  /\ Cleared(r) \in FlowSet
           /\ \A step \in Steps : [r EXCEPT !.step = step] \in FlowSet
           /\ \A step \in Steps : [Cleared(r) EXCEPT !.step = step] \in FlowSet
           /\ sessions \in Nat => WithSession(r) \in FlowSet
<1>1. Cleared(r) \in FlowSet
  BY TokenType DEF Cleared, FlowSet
<1>2. \A q \in FlowSet, step \in Steps : [q EXCEPT !.step = step] \in FlowSet
  BY DEF FlowSet
<1>3. ASSUME sessions \in Nat PROVE WithSession(r) \in FlowSet
  <2> DEFINE n == sessions + 1
  <2>1. n \in Nat
    BY <1>3
  <2> HIDE DEF n
  <2>2. [r EXCEPT !.session = n] \in FlowSet
    BY <2>1 DEF FlowSet
  <2> QED
    BY <2>2 DEF WithSession, n
<1> QED
  BY <1>1, <1>2, <1>3

LEMMA NewFlowType == NewFlow \in FlowSet
BY TokenType DEF NewFlow, FlowSet, Steps

\* Ending flows keeps the types.
LEMMA ReleaseType ==
    ASSUME CloudType, NEW F \in SUBSET Flows, Release(F)
    PROVE  /\ tasks' \in Seq(TaskSet) /\ DOMAIN tasks' = DOMAIN tasks
           /\ \A t \in DOMAIN tasks : tasks'[t] =
                IF t \in TasksOf(F) /\ Running(t)
                THEN [tasks[t] EXCEPT !.state = "cancelled"] ELSE tasks[t]
           /\ open' \subseteq Nat /\ sessions' = sessions /\ qrs' = qrs
<1>1. Len(tasks) \in Nat /\ DOMAIN tasks = 1..Len(tasks)
  BY DEF CloudType
<1>2. \A t \in DOMAIN tasks : tasks[t] \in TaskSet
  BY DEF CloudType
<1>3. \A t \in DOMAIN tasks : [tasks[t] EXCEPT !.state = "cancelled"] \in TaskSet
  BY <1>2 DEF TaskSet, TaskStates
<1>4. tasks' \in [1..Len(tasks) -> TaskSet]
  BY <1>1, <1>2, <1>3 DEF Release
<1>5. tasks' \in Seq(TaskSet)
  BY <1>1, <1>4
<1> QED
  BY <1>5 DEF Release, CloudType

LEMMA RemoveType ==
    ASSUME TypeOK, NEW F \in SUBSET Flows, Remove(F)
    PROVE  /\ tasks' \in Seq(TaskSet) /\ open' \subseteq Nat
           /\ sessions' \in Nat /\ qrs' \in Nat
           /\ flow' \in [Flows -> FlowSet]
<1>1. Release(F) /\ CloudType
  BY DEF Remove, TypeOK
<1>2. \A f \in Flows : [Cleared(flow[f]) EXCEPT !.step = "gone"] \in FlowSet
  BY RecordType DEF TypeOK, FlowType, Steps
<1>3. flow' \in [Flows -> FlowSet]
  BY <1>2 DEF Remove, TypeOK, FlowType
<1> QED
  BY <1>1, <1>3, ReleaseType DEF CloudType

\* So does a task that is added.
LEMMA TaskType ==
    ASSUME CloudType, NEW kind \in {"qr", "fetch"}, NEW r \in FlowSet
    PROVE  /\ Task(kind, r) \in TaskSet /\ FetchTask(r) \in TaskSet
           /\ \A task \in TaskSet : Append(tasks, task) \in Seq(TaskSet)
<1>1. Task(kind, r) \in TaskSet
  BY TokenType DEF Task, TaskSet, TaskStates, FlowSet
<1>2. FetchTask(r) \in TaskSet
  BY TokenType DEF FetchTask, Task, TaskSet, TaskStates, FlowSet
<1>3. \A task \in TaskSet : Append(tasks, task) \in Seq(TaskSet)
  BY DEF CloudType
<1> QED
  BY <1>1, <1>2, <1>3

LEMMA SessionType ==
    ASSUME CloudType, NEW r, SessionMade(r)
    PROVE  sessions' \in Nat /\ open' \subseteq Nat
BY DEF CloudType, SessionMade

LEMMA InitType == Init => TypeOK
<1> SUFFICES ASSUME Init PROVE TypeOK
  OBVIOUS
<1>1. CloudType
  BY DEF Init, CloudType
<1>2. FlowType
  BY NewFlowType DEF Init, FlowType
<1>3. EntryType
  BY TokenType DEF Init, EntryType
<1> QED
  BY <1>1, <1>2, <1>3 DEF TypeOK

LEMMA ChooseType ==
    ASSUME TypeOK, NEW f \in Flows, NEW a \in Addresses, NEW step \in Steps,
           Choose(f, a, step), UNCHANGED <<awaits, attempts, entries>>
    PROVE  TypeOK'
<1>1. CASE Remove({f})
  BY <1>1, RemoveType DEF TypeOK, CloudType, FlowType, EntryType
<1>2. CASE ~Remove({f})
  <2>1. [flow[f] EXCEPT !.address = a, !.step = step] \in FlowSet
    BY DEF TypeOK, FlowType, FlowSet
  <2>2. flow' \in [Flows -> FlowSet]
    BY <1>2, <2>1 DEF Choose, TypeOK, FlowType
  <2> QED
    BY <1>2, <2>2 DEF Choose, cloud, TypeOK, CloudType, FlowType, EntryType
<1> QED
  BY <1>1, <1>2

LEMMA ShowsType ==
    ASSUME TypeOK, NEW f \in Flows, NEW step \in Steps,
           Shows(f, step), UNCHANGED <<awaits, attempts, entries>>
    PROVE  TypeOK'
<1>1. [flow[f] EXCEPT !.step = step] \in FlowSet
  BY RecordType DEF TypeOK, FlowType
<1>2. flow' \in [Flows -> FlowSet]
  BY <1>1 DEF Shows, TypeOK, FlowType
<1> QED
  BY <1>2 DEF Shows, cloud, TypeOK, CloudType, FlowType, EntryType

LEMMA ChoosingType ==
    ASSUME TypeOK, NEW f \in Flows, Choosing(f)
    PROVE  TypeOK'
<1>1. ASSUME NEW a \in Addresses, bluetooth(f, a) PROVE TypeOK'
  <2>1. CASE Remove({f})
    BY <1>1, <2>1, RemoveType
       DEF bluetooth, TypeOK, CloudType, FlowType, EntryType
  <2>2. CASE Choose(f, a, "bluetooth_confirm")
    BY <1>1, <2>2, ChooseType DEF bluetooth, Steps
  <2> QED
    BY <1>1, <2>1, <2>2 DEF bluetooth
<1>2. ASSUME NEW a \in Addresses, user_chosen(f, a) PROVE TypeOK'
  BY <1>2, ChooseType DEF user_chosen, Steps
<1>3. ASSUME bluetooth_confirm(f) PROVE TypeOK'
  BY <1>3, ShowsType DEF bluetooth_confirm, Steps
<1>4. ASSUME user(f) PROVE TypeOK'
  <2>1. CASE Remove({f})
    BY <1>4, <2>1, RemoveType DEF user, TypeOK, CloudType, FlowType, EntryType
  <2>2. CASE ~Remove({f})
    <3> DEFINE discovered == Chargers \ Configured
    <3>1. discovered \in SUBSET Addresses /\ flow[f] \in FlowSet
      BY FlowConstants DEF TypeOK, FlowType
    <3>2. flow' = [flow EXCEPT ![f] = [flow[f] EXCEPT !.listed = discovered,
                                                      !.step = "user"]]
      BY <1>4, <2>2 DEF user
    <3> HIDE DEF discovered
    <3>3. [flow[f] EXCEPT !.listed = discovered, !.step = "user"] \in FlowSet
      BY <3>1 DEF FlowSet, Steps
    <3>4. flow' \in [Flows -> FlowSet]
      BY <3>2, <3>3 DEF TypeOK, FlowType
    <3> QED
      BY <1>4, <2>2, <3>4 DEF user, cloud, TypeOK, CloudType, FlowType, EntryType
  <2> QED
    BY <2>1, <2>2
<1>5. ASSUME NEW step \in {"cloud_region", "token"}, method(f, step)
      PROVE  TypeOK'
  BY <1>5, ShowsType DEF method, Steps
<1> QED
  BY <1>1, <1>2, <1>3, <1>4, <1>5 DEF Choosing

\* What gives or takes an entry.
LEMMA EntriesType ==
    ASSUME TypeOK, NEW F \in SUBSET Flows, Remove(F),
           NEW a \in Addresses \cup {NoAddress}, NEW t \in TokenSet,
           entries' = [entries EXCEPT ![a] = t], UNCHANGED <<awaits, attempts>>
    PROVE  TypeOK'
<1>1. entries' \in [Addresses -> TokenSet]
  BY DEF TypeOK, EntryType
<1> QED
  BY <1>1, RemoveType DEF TypeOK, CloudType, FlowType, EntryType

LEMMA CreateEntryType ==
    ASSUME TypeOK, NEW f \in Flows, NEW t \in TokenSet, CreateEntry(f, t)
    PROVE  TypeOK'
<1> DEFINE a == flow[f].address
           F == {f} \cup {g \in Flows : Live(g) /\ flow[g].address = a}
<1>1. a \in Addresses \cup {NoAddress}
  BY DEF TypeOK, FlowType, FlowSet
<1>2. Remove(F) /\ entries' = [entries EXCEPT ![a] = t]
      /\ UNCHANGED <<awaits, attempts>>
  BY DEF CreateEntry
<1>3. F \in SUBSET Flows
  OBVIOUS
<1> HIDE DEF a, F
<1> QED
  BY <1>1, <1>2, <1>3, EntriesType

LEMMA TypingType ==
    ASSUME TypeOK, NEW f \in Flows, Typing(f)
    PROVE  TypeOK'
<1>1. ASSUME NEW input \in Inputs, token(f, input) PROVE TypeOK'
  BY <1>1, CreateEntryType, TokenType DEF token
<1>2. ASSUME NEW input \in Inputs, reauth_confirm(f, input) PROVE TypeOK'
  <2>1. flow[f].address \in Addresses \cup {NoAddress}
    BY DEF TypeOK, FlowType, FlowSet
  <2>2. {f} \in SUBSET Flows
    OBVIOUS
  <2> QED
    BY <1>2, <2>1, <2>2, EntriesType, TokenType DEF reauth_confirm
<1>3. ASSUME NEW a \in Addresses, reauth(f, a) PROVE TypeOK'
  <2>1. [flow[f] EXCEPT !.address = a, !.step = "reauth_confirm"] \in FlowSet
    <3>1. flow[f] \in FlowSet
      BY DEF TypeOK, FlowType
    <3> QED
      BY <3>1 DEF FlowSet, Steps
  <2>2. flow' \in [Flows -> FlowSet]
    BY <1>3, <2>1 DEF reauth, TypeOK, FlowType
  <2> QED
    BY <1>3, <2>2 DEF reauth, cloud, TypeOK, CloudType, FlowType, EntryType
<1> QED
  BY <1>1, <1>2, <1>3 DEF Typing

\* The cloud steps.
LEMMA cloud_regionType ==
    ASSUME TypeOK, NEW f \in Flows, NEW region \in Regions,
           cloud_region(f, region)
    PROVE  TypeOK'
<1> DEFINE r == [flow[f] EXCEPT !.region = region]
<1>1. r \in FlowSet
  BY DEF TypeOK, FlowType, FlowSet
<1>2. SessionMade(r) /\ flow' = [flow EXCEPT ![f] = WithSession(r)]
  BY DEF cloud_region
<1>3. sessions' \in Nat /\ open' \subseteq Nat
  BY <1>2, SessionType DEF TypeOK
<1>4. WithSession(r) \in FlowSet
  BY <1>1, RecordType DEF TypeOK, CloudType
<1>5. flow' \in [Flows -> FlowSet]
  BY <1>2, <1>4 DEF TypeOK, FlowType
<1>6. awaits' \in [Flows -> Nat] /\ attempts' \in Nat
  BY DEF cloud_region, TypeOK, FlowType, CloudType
<1> QED
  BY <1>3, <1>5, <1>6 DEF cloud_region, TypeOK, CloudType, FlowType, EntryType

LEMMA ShownAtType ==
    ASSUME NEW f \in Flows, NEW step \in Steps
    PROVE  ShownAt(f, step) \in Steps
BY DEF ShownAt, Steps

LEMMA AnsweredType ==
    ASSUME TypeOK, NEW f \in Flows, Answered(f)
    PROVE  TypeOK'
<1>1. awaits' \in [Flows -> Nat]
  BY DEF Answered, QrStarted, QrStartFailed, QrStartRaised, TypeOK, FlowType
<1>2. ASSUME QrStartFailed(f) PROVE TypeOK'
  <2>1. ShownAt(f, "cloud_error") \in Steps
    BY ShownAtType DEF Steps
  <2>2. [flow[f] EXCEPT !.qrError = "cloud_qr_start_failed",
                        !.step = ShownAt(f, "cloud_error")] \in FlowSet
    BY <2>1 DEF TypeOK, FlowType, FlowSet, QrErrors
  <2>3. flow' \in [Flows -> FlowSet]
    BY <1>2, <2>2 DEF QrStartFailed, TypeOK, FlowType
  <2> QED
    BY <1>1, <1>2, <2>3
       DEF QrStartFailed, cloud, TypeOK, CloudType, FlowType, EntryType
<1>3. ASSUME QrStarted(f) PROVE TypeOK'
  <2> DEFINE r == [flow[f] EXCEPT !.qr = qrs + 1]
             at == ShownAt(f, "cloud_qr")
  <2>1. r \in FlowSet /\ qrs + 1 \in Nat
    <3> DEFINE n == qrs + 1
    <3>1. n \in Nat /\ flow[f] \in FlowSet
      BY DEF TypeOK, FlowType, CloudType
    <3> HIDE DEF n
    <3>2. [flow[f] EXCEPT !.qr = n] \in FlowSet
      BY <3>1 DEF FlowSet
    <3> QED
      BY <3>1, <3>2 DEF n
  <2>2. at \in Steps
    BY ShownAtType DEF Steps
  <2>3. qrs' \in Nat
    BY <1>3, <2>1 DEF QrStarted
  <2>4. CASE r.qrTask = 0
    <3>1. /\ tasks' = Append(tasks, Task("qr", r)) /\ SessionMade(r)
          /\ flow' = [flow EXCEPT ![f] =
                [WithSession(r) EXCEPT !.qrTask = Len(tasks) + 1, !.step = at]]
      BY <1>3, <2>4 DEF QrStarted
    <3> HIDE DEF r, at
    <3>2. tasks' \in Seq(TaskSet)
      BY <2>1, <3>1, TaskType DEF TypeOK
    <3>3. sessions' \in Nat /\ open' \subseteq Nat
      BY <3>1, SessionType DEF TypeOK
    <3>4. WithSession(r) \in FlowSet /\ Len(tasks) + 1 \in Nat
      BY <2>1, RecordType DEF TypeOK, CloudType
    <3>5. [WithSession(r) EXCEPT !.qrTask = Len(tasks) + 1, !.step = at] \in FlowSet
      BY <2>2, <3>4 DEF FlowSet
    <3>6. flow' \in [Flows -> FlowSet]
      BY <3>1, <3>5 DEF TypeOK, FlowType
    <3> QED
      BY <1>1, <1>3, <2>3, <3>2, <3>3, <3>6
         DEF QrStarted, TypeOK, CloudType, FlowType, EntryType
  <2>5. CASE r.qrTask # 0
    <3>1. /\ flow' = [flow EXCEPT ![f] = [r EXCEPT !.step = at]]
          /\ UNCHANGED <<tasks, sessions, open>>
      BY <1>3, <2>5 DEF QrStarted
    <3>2. [r EXCEPT !.step = at] \in FlowSet
      BY <2>1, <2>2, RecordType
    <3>3. flow' \in [Flows -> FlowSet]
      BY <3>1, <3>2 DEF TypeOK, FlowType
    <3> QED
      BY <1>1, <1>3, <2>3, <3>1, <3>3
         DEF QrStarted, TypeOK, CloudType, FlowType, EntryType
  <2> QED
    BY <2>4, <2>5
<1>4. ASSUME QrStartRaised(f) PROVE TypeOK'
  BY <1>1, <1>4 DEF QrStartRaised, cloud, TypeOK, CloudType, FlowType, EntryType
<1> QED
  BY <1>2, <1>3, <1>4 DEF Answered

\* Home Assistant runs the step of the present dialog again.
LEMMA AgainType ==
    ASSUME TypeOK, NEW f \in Flows, Again(f),
           flow[f].step = "cloud_qr" => flow[f].qrTask \in DOMAIN tasks,
           flow[f].step = "cloud_fetch" /\ flow[f].fetchTask # 0
             => flow[f].fetchTask \in DOMAIN tasks
    PROVE  TypeOK'
<1>1. flow[f] \in FlowSet /\ \A t \in DOMAIN tasks : tasks[t] \in TaskSet
  BY DEF TypeOK, FlowType, CloudType
<1>2. ASSUME NEW r \in FlowSet, flow' = [flow EXCEPT ![f] = r],
             UNCHANGED <<awaits, attempts, entries, cloud>>
      PROVE  TypeOK'
  BY <1>2 DEF cloud, TypeOK, CloudType, FlowType, EntryType
<1>3. ASSUME QrDone(f) PROVE TypeOK'
  <2> DEFINE n == tasks[flow[f].qrTask].login
  <2>1. n \in Nat
    BY <1>1, <1>3 DEF QrDone, TaskSet
  <2>2. /\ [flow[f] EXCEPT !.auth = n, !.step = "cloud_fetch"] \in FlowSet
        /\ [flow[f] EXCEPT !.qrError = "cloud_qr_failed", !.qr = 0,
                           !.qrTask = 0, !.step = "cloud_error"] \in FlowSet
        /\ [flow[f] EXCEPT !.qrError = "cloud_qr_cancelled",
                           !.step = "cloud_error"] \in FlowSet
    <3> HIDE DEF n
    <3> QED
      BY <1>1, <2>1 DEF FlowSet, Steps, QrErrors
  <2>3. /\ \/ flow' = [flow EXCEPT ![f] =
                [flow[f] EXCEPT !.auth = n, !.step = "cloud_fetch"]]
           \/ flow' = [flow EXCEPT ![f] =
                [flow[f] EXCEPT !.qrError = "cloud_qr_failed", !.qr = 0,
                                !.qrTask = 0, !.step = "cloud_error"]]
           \/ flow' = [flow EXCEPT ![f] =
                [flow[f] EXCEPT !.qrError = "cloud_qr_cancelled",
                                !.step = "cloud_error"]]
        /\ UNCHANGED <<awaits, attempts, entries, cloud>>
    BY <1>3, <1>1 DEF QrDone, FlowSet
  <2> HIDE DEF n
  <2> QED
    BY <1>2, <2>2, <2>3
<1>4. ASSUME FetchDone(f) PROVE TypeOK'
  <2> DEFINE k == tasks[flow[f].fetchTask].token
  <2>1. k \in TokenSet
    BY <1>1, <1>4 DEF FetchDone, TaskSet
  <2>2. /\ [flow[f] EXCEPT !.fetched = k, !.step = "cloud_done"] \in FlowSet
        /\ \A reason \in FetchErrors :
             [flow[f] EXCEPT !.fetchError = reason, !.step = "cloud_error"]
                \in FlowSet
    <3> HIDE DEF k
    <3> QED
      BY <1>1, <2>1 DEF FlowSet, Steps
  <2>3. /\ \/ flow' = [flow EXCEPT ![f] =
                [flow[f] EXCEPT !.fetched = k, !.step = "cloud_done"]]
           \/ \E reason \in FetchErrors : flow' = [flow EXCEPT ![f] =
                [flow[f] EXCEPT !.fetchError = reason, !.step = "cloud_error"]]
        /\ UNCHANGED <<awaits, attempts, entries, cloud>>
    BY <1>4, <1>1 DEF FetchDone, FetchFailed, FetchErrors, FlowSet
  <2> HIDE DEF k
  <2> QED
    BY <1>2, <2>2, <2>3
<1>5. ASSUME Fetch(f) PROVE TypeOK'
  <2> DEFINE n == Len(tasks) + 1
             r == flow[f]
  <2>1. n \in Nat
    BY DEF TypeOK, CloudType
  <2>2. WithSession(r) \in FlowSet
    BY <1>1, RecordType DEF TypeOK, CloudType
  <2>3. [WithSession(r) EXCEPT !.fetchTask = n] \in FlowSet
    <3> HIDE DEF n, r
    <3> QED
      BY <2>1, <2>2 DEF FlowSet
  <2>4. /\ tasks' = Append(tasks, FetchTask(r)) /\ SessionMade(r)
        /\ flow' = [flow EXCEPT ![f] = [WithSession(r) EXCEPT !.fetchTask = n]]
        /\ UNCHANGED <<awaits, attempts, qrs, entries>>
    BY <1>5 DEF Fetch
  <2> HIDE DEF n, r
  <2>5. tasks' \in Seq(TaskSet)
    BY <1>1, <2>4, TaskType DEF TypeOK, r
  <2>6. sessions' \in Nat /\ open' \subseteq Nat
    BY <2>4, SessionType DEF TypeOK
  <2>7. flow' \in [Flows -> FlowSet]
    BY <2>3, <2>4 DEF TypeOK, FlowType
  <2> QED
    BY <2>4, <2>5, <2>6, <2>7 DEF TypeOK, CloudType, FlowType, EntryType
<1>6. ASSUME cloud_done(f) PROVE TypeOK'
  <2>1. flow[f].fetched \in TokenSet
    BY <1>1 DEF FlowSet
  <2> QED
    BY <1>6, <2>1, CreateEntryType DEF cloud_done
<1> QED
  BY <1>3, <1>4, <1>5, <1>6 DEF Again

LEMMA cloud_errorType ==
    ASSUME TypeOK, NEW f \in Flows, cloud_error(f)
    PROVE  TypeOK'
<1>1. [Cleared(flow[f]) EXCEPT !.step = "method"] \in FlowSet
  BY RecordType DEF TypeOK, FlowType, Steps
<1>2. flow' \in [Flows -> FlowSet]
  BY <1>1 DEF cloud_error, TypeOK, FlowType
<1>3. Release({f}) /\ CloudType /\ {f} \in SUBSET Flows
  BY DEF cloud_error, TypeOK
<1> QED
  BY <1>2, <1>3, ReleaseType
     DEF cloud_error, TypeOK, CloudType, FlowType, EntryType

LEMMA TaskEndsType ==
    ASSUME TypeOK, NEW t \in DOMAIN tasks, TaskEnds(t)
    PROVE  TypeOK'
<1>1. PICK state \in {"ok", "failed", "raised", "cancelled"},
           token_hex \in {NoToken, Fetched(tasks[t].address, tasks[t].region,
                                           tasks[t].login)} :
           tasks' = [tasks EXCEPT ![t].state = state, ![t].token = token_hex]
  BY DEF TaskEnds
<1>2. tasks[t] \in TaskSet
  BY DEF TypeOK, CloudType
<1>3. token_hex \in TokenSet
  BY <1>2, TokenType DEF TaskSet
<1>4. [tasks[t] EXCEPT !.state = state, !.token = token_hex] \in TaskSet
  BY <1>2, <1>3 DEF TaskSet, TaskStates
<1>5. tasks' \in Seq(TaskSet)
  <2>1. tasks' = [tasks EXCEPT ![t] =
                    [tasks[t] EXCEPT !.state = state, !.token = token_hex]]
    BY <1>1, <1>2 DEF TaskSet
  <2> QED
    BY <1>4, <2>1 DEF TypeOK, CloudType
<1> QED
  BY <1>5 DEF TaskEnds, TypeOK, CloudType, FlowType, EntryType

-----------------------------------------------------------------------------
(* What a flow remembers at each of its dialogs.                           *)

\* Before the login no task of an earlier attempt is left.
Blank(r) == r.qrTask = 0 /\ r.fetchTask = 0
Early == {"idle", "bluetooth_confirm", "user", "method", "token",
          "cloud_region", "reauth_confirm"}
StartsBlank(f) == flow[f].step \in Early => Blank(flow[f])

\* A dialog that adds a charger is about one that is not configured, a dialog
\* that replaces a token about one that is.
Adding == {"bluetooth_confirm", "method", "token", "cloud_region", "cloud_qr",
           "cloud_fetch", "cloud_done", "cloud_error"}
Aimed(f) ==
    LET r == flow[f] IN
    /\ r.step \in Adding \cup {"reauth_confirm"} => r.address \in Addresses
    /\ r.step \in Adding => entries[r.address] = NoToken
    /\ r.step = "reauth_confirm" => entries[r.address] # NoToken

\* A request for a QR code is under way for a dialog that adds a charger.
AsksToAdd(f) == awaits[f] # 0 => flow[f].step \in Adding \cup {"gone"}

\* A fetch comes after the scan that has granted the login.
Scans(f) ==
    LET r == flow[f]
        task == tasks[r.qrTask] IN
    /\ r.qrTask # 0 => r.qrTask \in DOMAIN tasks /\ task.login # 0
    /\ r.step = "cloud_qr" => r.qrTask # 0
    /\ r.step = "cloud_fetch" \/ r.fetchTask # 0
        => r.qrTask # 0 /\ task.state = "ok" /\ task.login = r.auth

\* It is a fetch for this charger, in its region and with its login.
Fetches(f) ==
    LET r == flow[f]
        task == tasks[r.fetchTask] IN
    /\ r.fetchTask # 0
        => /\ r.fetchTask \in DOMAIN tasks
           /\ task.login = r.auth /\ task.region = r.region
           /\ task.address = r.address
    /\ r.step = "cloud_done" => r.fetched = Fetched(r.address, r.region, r.auth)

Stage(f) == StartsBlank(f) /\ AsksToAdd(f) /\ Aimed(f) /\ Scans(f) /\ Fetches(f)

\* A task brings nothing but what it was made for.
TokenOf(task) == Fetched(task.address, task.region, task.login)
Brings == \A t \in DOMAIN tasks : tasks[t].token \in {NoToken, TokenOf(tasks[t])}

Inv == TypeOK /\ Brings /\ \A f \in Flows : Stage(f)

\* Tasks keep what they were made for, and what they came to.
TasksKept ==
    \A t \in DOMAIN tasks :
        /\ t \in DOMAIN tasks' /\ tasks'[t].login = tasks[t].login
        /\ tasks'[t].region = tasks[t].region
        /\ tasks'[t].address = tasks[t].address
        /\ tasks[t].state = "ok" => tasks'[t].state = "ok"
Keeps == Inv' /\ TasksKept

\* A flow that no step touches keeps its stage.
LEMMA OtherKept ==
    ASSUME Inv, TasksKept, NEW g \in Flows,
           flow'[g] = flow[g], awaits'[g] = awaits[g],
           flow[g].address \in Addresses =>
              (entries'[flow[g].address] = NoToken
                 <=> entries[flow[g].address] = NoToken)
    PROVE  Stage(g)'
<1>1. Stage(g)
  BY DEF Inv
<1>2. StartsBlank(g)' /\ AsksToAdd(g)' /\ Aimed(g)'
  BY <1>1 DEF Stage, StartsBlank, AsksToAdd, Aimed, Blank, Adding
<1>3. Scans(g)'
  BY <1>1 DEF Stage, Scans, TasksKept
<1>4. Fetches(g)'
  <2>1. flow[g].fetchTask # 0 => flow[g].fetchTask \in DOMAIN tasks
    BY <1>1 DEF Stage, Fetches
  <2> QED
    BY <1>1, <2>1 DEF Stage, Fetches, TasksKept
<1> QED
  BY <1>2, <1>3, <1>4 DEF Stage

\* A flow that ends is gone, and so are its tasks.
LEMMA Ended ==
    ASSUME Inv, NEW F \in SUBSET Flows, Remove(F), NEW f \in F
    PROVE  flow'[f].step = "gone" /\ Blank(flow'[f])
<1>1. Cleared(flow[f]) \in FlowSet /\ Blank(Cleared(flow[f]))
  <2>1. flow[f] \in FlowSet
    BY DEF Inv, TypeOK, FlowType
  <2> QED
    BY <2>1, RecordType DEF Cleared, Blank, FlowSet
<1>2. flow'[f] = [Cleared(flow[f]) EXCEPT !.step = "gone"]
  BY DEF Remove
<1> QED
  BY <1>1, <1>2 DEF FlowSet, Blank

LEMMA GoneKept ==
    ASSUME NEW g \in Flows, flow'[g].step = "gone", Blank(flow'[g])
    PROVE  Stage(g)'
BY DEF Stage, StartsBlank, AsksToAdd, Aimed, Scans, Fetches, Early, Adding, Blank

LEMMA ReleaseKeeps ==
    ASSUME Inv, NEW F \in SUBSET Flows, Release(F)
    PROVE  TasksKept /\ Brings'
<1>1. /\ DOMAIN tasks' = DOMAIN tasks
      /\ \A t \in DOMAIN tasks : tasks'[t] =
            IF t \in TasksOf(F) /\ Running(t)
            THEN [tasks[t] EXCEPT !.state = "cancelled"] ELSE tasks[t]
  BY ReleaseType DEF Inv, TypeOK
<1>2. \A t \in DOMAIN tasks : tasks[t] \in TaskSet
  BY DEF Inv, TypeOK, CloudType
<1>3. \A t \in DOMAIN tasks : /\ tasks'[t].login = tasks[t].login
                              /\ tasks'[t].region = tasks[t].region
                              /\ tasks'[t].address = tasks[t].address
                              /\ tasks'[t].token = tasks[t].token
                              /\ tasks[t].state = "ok" => tasks'[t].state = "ok"
  BY <1>1, <1>2 DEF TaskSet, Running
<1>4. TasksKept
  BY <1>1, <1>3 DEF TasksKept
<1>5. Brings'
  BY <1>1, <1>3 DEF Brings, Inv, TokenOf, Fetched
<1> QED
  BY <1>4, <1>5

LEMMA AppendKeeps ==
    ASSUME Inv, NEW task \in TaskSet, task.token = NoToken,
           tasks' = Append(tasks, task)
    PROVE  /\ TasksKept /\ Brings'
           /\ Len(tasks) + 1 \in DOMAIN tasks' /\ Len(tasks) + 1 # 0
           /\ tasks'[Len(tasks) + 1] = task
<1>1. /\ \A t \in DOMAIN tasks : t \in DOMAIN tasks' /\ tasks'[t] = tasks[t]
      /\ DOMAIN tasks' = DOMAIN tasks \cup {Len(tasks) + 1}
      /\ tasks'[Len(tasks) + 1] = task /\ Len(tasks) + 1 # 0
  BY DEF Inv, TypeOK, CloudType
<1>2. TasksKept
  BY <1>1 DEF TasksKept
<1>3. Brings'
  BY <1>1 DEF Brings, Inv, TokenOf, Fetched
<1> QED
  BY <1>1, <1>2, <1>3

LEMMA SameTasks ==
    ASSUME Inv, UNCHANGED tasks PROVE TasksKept /\ Brings'
BY DEF Inv, TasksKept, Brings, TokenOf, Fetched

\* Flows that end, with the entries as they were.
LEMMA RemoveKeeps ==
    ASSUME Inv, NEW F \in SUBSET Flows, Remove(F),
           UNCHANGED <<awaits, attempts, entries>>
    PROVE  Keeps
<1>1. TypeOK'
  BY RemoveType DEF Inv, TypeOK, CloudType, FlowType, EntryType
<1>2. TasksKept /\ Brings'
  BY ReleaseKeeps DEF Remove
<1>3. ASSUME NEW g \in Flows PROVE Stage(g)'
  <2>1. CASE g \in F
    BY <2>1, Ended, GoneKept
  <2>2. CASE g \notin F
    <3>1. flow'[g] = flow[g]
      BY <2>2 DEF Remove
    <3> QED
      BY <1>2, <3>1, OtherKept
  <2> QED
    BY <2>1, <2>2
<1> QED
  BY <1>1, <1>2, <1>3 DEF Inv, Keeps

\* A flow takes a step, the others do not.
LEMMA OneMoves ==
    ASSUME Inv, TypeOK', TasksKept, Brings', NEW f \in Flows, NEW r,
           flow' = [flow EXCEPT ![f] = r], NEW n,
           awaits' = [awaits EXCEPT ![f] = n], UNCHANGED entries, Stage(f)'
    PROVE  Keeps
<1>1. ASSUME NEW g \in Flows, g # f PROVE Stage(g)'
  <2>1. flow'[g] = flow[g] /\ awaits'[g] = awaits[g]
    BY <1>1 DEF Inv, TypeOK, FlowType
  <2> QED
    BY <2>1, OtherKept
<1> QED
  BY <1>1 DEF Inv, Keeps

LEMMA ChoosingKeeps ==
    ASSUME Inv, NEW f \in Flows, Choosing(f)
    PROVE  Keeps
<1>1. TypeOK' /\ TypeOK /\ Stage(f)
  BY ChoosingType DEF Inv
<1>2. flow[f] \in FlowSet /\ awaits = [awaits EXCEPT ![f] = awaits[f]]
  BY <1>1 DEF TypeOK, FlowType
<1>3. ASSUME UNCHANGED cloud, UNCHANGED <<awaits, attempts, entries>>,
             NEW r \in FlowSet, flow' = [flow EXCEPT ![f] = r],
             r.step \in Early \ {"idle", "reauth_confirm"},
             r.step = "user" => awaits[f] = 0,
             r.step # "user" =>
                r.address \in Addresses /\ entries[r.address] = NoToken,
             Blank(r)
      PROVE  Keeps
  <2>1. flow'[f] = r /\ awaits'[f] = awaits[f]
    BY <1>1, <1>3 DEF TypeOK, FlowType
  <2>2. Stage(f)'
    BY <1>3, <2>1 DEF Stage, StartsBlank, AsksToAdd, Aimed, Scans, Fetches,
       Early, Adding, Blank
  <2>3. TasksKept /\ Brings'
    BY <1>3, SameTasks DEF cloud
  <2> QED
    BY <1>1, <1>2, <1>3, <2>2, <2>3, OneMoves
<1>4. ASSUME NEW a \in Addresses, Choose(f, a, "bluetooth_confirm")
                                  \/ Choose(f, a, "method"),
             flow[f].step \in {"idle", "user"},
             UNCHANGED <<awaits, attempts, entries>>
      PROVE  Keeps
  <2>1. CASE Remove({f})
    BY <1>4, <2>1, RemoveKeeps
  <2>2. CASE ~Remove({f})
    <3>1. PICK step \in {"bluetooth_confirm", "method"} : Choose(f, a, step)
      BY <1>4
    <3> DEFINE r == [flow[f] EXCEPT !.address = a, !.step = step]
    <3>2. /\ r \in FlowSet /\ r.step = step /\ r.address = a
          /\ r.qrTask = flow[f].qrTask /\ r.fetchTask = flow[f].fetchTask
      BY <1>2, <3>1 DEF FlowSet, Steps
    <3>3. Blank(flow[f])
      BY <1>1, <1>4 DEF Stage, StartsBlank, Early
    <3>4. entries[a] = NoToken /\ UNCHANGED cloud /\ flow' = [flow EXCEPT ![f] = r]
      BY <2>2, <3>1, <1>2 DEF Choose, Taken, Configured, FlowSet
    <3>5. r.step \in Early \ {"idle", "user", "reauth_confirm"} /\ Blank(r)
      BY <3>1, <3>2, <3>3 DEF Early, Blank
    <3> HIDE DEF r
    <3> QED
      BY <1>3, <1>4, <3>2, <3>4, <3>5
  <2> QED
    BY <2>1, <2>2
<1>5. ASSUME NEW a \in Addresses, bluetooth(f, a) PROVE Keeps
  BY <1>4, <1>5, RemoveKeeps DEF bluetooth
<1>6. ASSUME NEW a \in Addresses, user_chosen(f, a) PROVE Keeps
  BY <1>4, <1>6 DEF user_chosen
<1>7. ASSUME NEW step \in {"method", "cloud_region", "token"}, Shows(f, step),
             flow[f].step \in {"bluetooth_confirm", "method"},
             UNCHANGED <<awaits, attempts, entries>>
      PROVE  Keeps
  <2> DEFINE r == [flow[f] EXCEPT !.step = step]
  <2>1. /\ r \in FlowSet /\ r.step = step /\ r.address = flow[f].address
        /\ r.qrTask = flow[f].qrTask /\ r.fetchTask = flow[f].fetchTask
    BY <1>2 DEF FlowSet, Steps
  <2>2. /\ Blank(flow[f])
        /\ flow[f].address \in Addresses /\ entries[flow[f].address] = NoToken
    BY <1>1, <1>7 DEF Stage, StartsBlank, Aimed, Early, Adding
  <2>3. UNCHANGED cloud /\ flow' = [flow EXCEPT ![f] = r]
    BY <1>7, <1>2 DEF Shows, FlowSet
  <2>4. r.step \in Early \ {"idle", "user", "reauth_confirm"} /\ Blank(r)
    BY <2>1, <2>2 DEF Early, Blank
  <2> HIDE DEF r
  <2> QED
    BY <1>3, <1>7, <2>1, <2>2, <2>3, <2>4
<1>8. ASSUME bluetooth_confirm(f) PROVE Keeps
  BY <1>7, <1>8 DEF bluetooth_confirm
<1>9. ASSUME NEW step \in {"cloud_region", "token"}, method(f, step) PROVE Keeps
  BY <1>7, <1>9 DEF method
<1>10. ASSUME user(f) PROVE Keeps
  <2>1. CASE Remove({f})
    BY <1>10, <2>1, RemoveKeeps DEF user
  <2>2. CASE ~Remove({f})
    <3> DEFINE discovered == Chargers \ Configured
               r == [flow[f] EXCEPT !.listed = discovered, !.step = "user"]
    <3>1. discovered \in SUBSET Addresses
      BY FlowConstants
    <3>2. UNCHANGED cloud /\ flow' = [flow EXCEPT ![f] = r]
      BY <1>10, <2>2 DEF user
    <3>3. UNCHANGED <<awaits, attempts, entries>>
      BY <1>10 DEF user
    <3>4. Blank(flow[f]) /\ awaits[f] = 0
      BY <1>1, <1>10 DEF user, Stage, StartsBlank, AsksToAdd, Early, Adding
    <3> HIDE DEF discovered
    <3>5. /\ r \in FlowSet /\ r.step = "user"
          /\ r.qrTask = flow[f].qrTask /\ r.fetchTask = flow[f].fetchTask
      BY <1>2, <3>1 DEF FlowSet, Steps
    <3>6. r.step \in Early \ {"idle", "reauth_confirm"} /\ Blank(r)
      BY <3>4, <3>5 DEF Early, Blank
    <3> HIDE DEF r
    <3> QED
      BY <1>3, <3>2, <3>3, <3>4, <3>5, <3>6
  <2> QED
    BY <2>1, <2>2
<1> QED
  BY <1>5, <1>6, <1>8, <1>9, <1>10 DEF Choosing

\* An entry is made, replaced or deleted; what its charger's dialogs assume of
\* it they assume no longer, or it has not changed.
LEMMA EntriesKeep ==
    ASSUME Inv, NEW F \in SUBSET Flows, Remove(F),
           NEW a \in Addresses, NEW t \in TokenSet,
           entries' = [entries EXCEPT ![a] = t], UNCHANGED <<awaits, attempts>>,
           \A g \in Flows \ F :
              flow[g].step \in Adding \cup {"reauth_confirm"} /\ flow[g].address = a
                => (t = NoToken <=> entries[a] = NoToken)
    PROVE  Keeps
<1>1. TypeOK' /\ entries \in [Addresses -> TokenSet]
  BY EntriesType DEF Inv, TypeOK, EntryType
<1>2. TasksKept /\ Brings'
  BY ReleaseKeeps DEF Remove
<1>3. ASSUME NEW g \in Flows PROVE Stage(g)'
  <2>1. CASE g \in F
    BY <2>1, Ended, GoneKept
  <2>2. CASE g \notin F /\ flow[g].step \in Adding \cup {"reauth_confirm"}
    <3>1. flow'[g] = flow[g]
      BY <2>2 DEF Remove
    <3>2. flow[g].address \in Addresses =>
             (entries'[flow[g].address] = NoToken
                <=> entries[flow[g].address] = NoToken)
      BY <1>1, <2>2
    <3> QED
      BY <1>2, <3>1, <3>2, OtherKept
  <2>3. CASE g \notin F /\ flow[g].step \notin Adding \cup {"reauth_confirm"}
    <3>1. flow'[g] = flow[g] /\ awaits'[g] = awaits[g]
      BY <2>3 DEF Remove
    <3>2. Stage(g) /\ TasksKept
      BY <1>2 DEF Inv
    <3>3. StartsBlank(g)' /\ AsksToAdd(g)' /\ Aimed(g)'
      BY <2>3, <3>1, <3>2
         DEF Stage, StartsBlank, AsksToAdd, Aimed, Blank, Adding
    <3>4. Scans(g)'
      BY <3>1, <3>2 DEF Stage, Scans, TasksKept
    <3>5. Fetches(g)'
      <4>1. flow[g].fetchTask # 0 => flow[g].fetchTask \in DOMAIN tasks
        BY <3>2 DEF Stage, Fetches
      <4> QED
        BY <3>1, <3>2, <4>1 DEF Stage, Fetches, TasksKept
    <3> QED
      BY <3>3, <3>4, <3>5 DEF Stage
  <2> QED
    BY <2>1, <2>2, <2>3
<1> QED
  BY <1>1, <1>2, <1>3 DEF Inv, Keeps

LEMMA CreateEntryKeeps ==
    ASSUME Inv, NEW f \in Flows, flow[f].step \in Adding,
           NEW t \in TokenSet, CreateEntry(f, t)
    PROVE  Keeps
<1> DEFINE a == flow[f].address
           F == {f} \cup {g \in Flows : Live(g) /\ flow[g].address = a}
<1>1. a \in Addresses
  BY DEF Inv, Stage, Aimed
<1>2. Remove(F) /\ entries' = [entries EXCEPT ![a] = t]
      /\ UNCHANGED <<awaits, attempts>> /\ F \in SUBSET Flows
  BY DEF CreateEntry
<1>3. \A g \in Flows \ F : flow[g].step \in Adding \cup {"reauth_confirm"}
                            => flow[g].address # a
  BY DEF Live, Adding
<1> HIDE DEF a, F
<1>4. \A g \in Flows \ F :
        flow[g].step \in Adding \cup {"reauth_confirm"} /\ flow[g].address = a
           => (t = NoToken <=> entries[a] = NoToken)
  BY <1>3
<1> QED
  BY <1>1, <1>2, <1>4, EntriesKeep

LEMMA TypingKeeps ==
    ASSUME Inv, NEW f \in Flows, Typing(f)
    PROVE  Keeps
<1>1. TypeOK' /\ TypeOK /\ Stage(f)
  BY TypingType DEF Inv
<1>2. ASSUME NEW input \in Inputs, token(f, input) PROVE Keeps
  BY <1>2, CreateEntryKeeps, TokenType DEF token, Adding
<1>3. ASSUME NEW input \in Inputs, reauth_confirm(f, input) PROVE Keeps
  <2>1. flow[f].address \in Addresses /\ entries[flow[f].address] # NoToken
    BY <1>1, <1>3 DEF reauth_confirm, Stage, Aimed
  <2>2. {f} \in SUBSET Flows
    OBVIOUS
  <2> QED
    BY <1>3, <2>1, <2>2, EntriesKeep, TokenType DEF reauth_confirm
<1>4. ASSUME NEW a \in Addresses, reauth(f, a) PROVE Keeps
  <2> DEFINE r == [flow[f] EXCEPT !.address = a, !.step = "reauth_confirm"]
  <2>1. flow[f] \in FlowSet /\ awaits = [awaits EXCEPT ![f] = awaits[f]]
    BY <1>1 DEF TypeOK, FlowType
  <2>2. /\ r.step = "reauth_confirm" /\ r.address = a
        /\ r.qrTask = flow[f].qrTask /\ r.fetchTask = flow[f].fetchTask
    BY <2>1 DEF FlowSet
  <2>3. Blank(r) /\ awaits[f] = 0
    BY <1>1, <1>4, <2>2
       DEF reauth, Stage, StartsBlank, AsksToAdd, Early, Adding, Blank
  <2>4. /\ flow' = [flow EXCEPT ![f] = r] /\ UNCHANGED <<awaits, attempts, entries, cloud>>
        /\ entries[a] # NoToken
    BY <1>4, <2>1 DEF reauth, Configured, FlowSet
  <2> HIDE DEF r
  <2>5. flow'[f] = r /\ awaits'[f] = 0
    BY <1>1, <2>3, <2>4 DEF TypeOK, FlowType
  <2>6. Stage(f)'
    BY <2>2, <2>3, <2>4, <2>5 DEF Stage, StartsBlank, AsksToAdd, Aimed, Scans,
       Fetches, Adding, Blank
  <2>7. TasksKept /\ Brings'
    BY <2>4, SameTasks DEF cloud
  <2> QED
    BY <1>1, <2>1, <2>4, <2>6, <2>7, OneMoves
<1> QED
  BY <1>2, <1>3, <1>4 DEF Typing

LEMMA cloud_regionKeeps ==
    ASSUME Inv, NEW f \in Flows, NEW region \in Regions,
           cloud_region(f, region)
    PROVE  Keeps
<1> DEFINE q == [flow[f] EXCEPT !.region = region]
           r == WithSession(q)
<1>1. TypeOK' /\ TypeOK /\ Stage(f) /\ flow[f] \in FlowSet
  BY cloud_regionType DEF Inv, TypeOK, FlowType
<1>2. /\ r.step = flow[f].step /\ r.address = flow[f].address
      /\ r.qrTask = flow[f].qrTask /\ r.fetchTask = flow[f].fetchTask
  BY <1>1 DEF WithSession, FlowSet
<1>3. /\ flow' = [flow EXCEPT ![f] = r] /\ flow[f].step = "cloud_region"
      /\ awaits' = [awaits EXCEPT ![f] = awaits[f] + 1]
      /\ UNCHANGED <<tasks, entries>>
  BY DEF cloud_region
<1> HIDE DEF r
<1>4. flow'[f] = r
  BY <1>1, <1>3 DEF TypeOK, FlowType
<1>5. Blank(r) /\ r.address \in Addresses /\ entries[r.address] = NoToken
  BY <1>1, <1>2, <1>3 DEF Stage, StartsBlank, Aimed, Early, Adding, Blank
<1>6. Stage(f)'
  BY <1>2, <1>3, <1>4, <1>5 DEF Stage, StartsBlank, AsksToAdd, Aimed, Scans,
     Fetches, Blank, Adding
<1>7. TasksKept /\ Brings'
  BY <1>3, SameTasks
<1> QED
  BY <1>1, <1>3, <1>6, <1>7, OneMoves

\* The dialog that a late answer shows, if its flow is not gone.
LEMMA ShownAtKeeps ==
    ASSUME Inv, NEW f \in Flows, awaits[f] # 0,
           NEW step \in {"cloud_qr", "cloud_error"}
    PROVE  \/ ShownAt(f, step) = "gone"
           \/ /\ ShownAt(f, step) = step /\ flow[f].address \in Addresses
              /\ entries[flow[f].address] = NoToken
BY DEF ShownAt, Inv, Stage, AsksToAdd, Aimed, Adding

LEMMA AnsweredKeeps ==
    ASSUME Inv, NEW f \in Flows, Answered(f)
    PROVE  Keeps
<1>1. TypeOK' /\ TypeOK /\ Stage(f) /\ flow[f] \in FlowSet
  BY AnsweredType DEF Inv, TypeOK, FlowType
<1>2. /\ awaits' = [awaits EXCEPT ![f] = awaits[f] - 1] /\ UNCHANGED entries
      /\ awaits[f] # 0
  BY <1>1 DEF Answered, QrStarted, QrStartFailed, QrStartRaised, TypeOK, FlowType
<1>3. flow[f].step \in Adding \cup {"gone"}
  BY <1>1, <1>2 DEF Stage, AsksToAdd
<1>4. ASSUME QrStartRaised(f) PROVE Keeps
  <2>1. flow' = [flow EXCEPT ![f] = flow[f]] /\ UNCHANGED <<flow, tasks>>
    BY <1>1, <1>4 DEF QrStartRaised, cloud, TypeOK, FlowType
  <2>2. TasksKept /\ Brings'
    BY <2>1, SameTasks
  <2>3. Stage(f)'
    BY <1>1, <1>2, <1>3, <2>1 DEF Stage, StartsBlank, AsksToAdd, Aimed, Scans,
       Fetches, Blank
  <2> QED
    BY <1>1, <1>2, <2>1, <2>2, <2>3, OneMoves
<1>5. ASSUME QrStartFailed(f) PROVE Keeps
  <2> DEFINE at == ShownAt(f, "cloud_error")
             r == [flow[f] EXCEPT !.qrError = "cloud_qr_start_failed",
                                  !.step = at]
  <2>1. /\ r.step = at /\ r.address = flow[f].address /\ r.region = flow[f].region
        /\ r.qrTask = flow[f].qrTask /\ r.fetchTask = flow[f].fetchTask
        /\ r.auth = flow[f].auth
    BY <1>1 DEF FlowSet
  <2>2. flow' = [flow EXCEPT ![f] = r] /\ UNCHANGED tasks
    BY <1>1, <1>5 DEF QrStartFailed, cloud, FlowSet
  <2>3. \/ at = "gone"
        \/ /\ at = "cloud_error" /\ flow[f].address \in Addresses
           /\ entries[flow[f].address] = NoToken
    BY <1>2, ShownAtKeeps
  <2> HIDE DEF r, at
  <2>4. flow'[f] = r
    BY <1>1, <2>2 DEF TypeOK, FlowType
  <2>5. Stage(f)'
    BY <1>1, <1>2, <2>1, <2>2, <2>3, <2>4 DEF Stage, StartsBlank, AsksToAdd,
       Aimed, Scans, Fetches, Early, Adding
  <2> QED
    BY <1>1, <1>2, <2>2, <2>5, SameTasks, OneMoves
<1>6. ASSUME QrStarted(f) PROVE Keeps
  <2> DEFINE q == [flow[f] EXCEPT !.qr = qrs + 1]
             at == ShownAt(f, "cloud_qr")
             first == [WithSession(q) EXCEPT !.qrTask = Len(tasks) + 1, !.step = at]
             again == [q EXCEPT !.step = at]
  <2>1. q \in FlowSet /\ WithSession(q) \in FlowSet /\ qrs + 1 # 0
    <3> DEFINE n == qrs + 1
    <3>1. n \in Nat /\ n # 0 /\ sessions \in Nat
      BY <1>1 DEF TypeOK, CloudType
    <3> HIDE DEF n
    <3>2. [flow[f] EXCEPT !.qr = n] \in FlowSet
      BY <1>1, <3>1 DEF FlowSet
    <3>3. WithSession([flow[f] EXCEPT !.qr = n]) \in FlowSet
      BY <3>1, <3>2, RecordType
    <3> QED
      BY <3>1, <3>2, <3>3 DEF n
  <2>2. /\ q.qr = qrs + 1 /\ q.qrTask = flow[f].qrTask
        /\ q.region = flow[f].region /\ q.address = flow[f].address
        /\ q.fetchTask = flow[f].fetchTask /\ q.auth = flow[f].auth
    BY <1>1 DEF FlowSet
  <2>3. \/ at = "gone"
        \/ /\ at = "cloud_qr" /\ flow[f].address \in Addresses
           /\ entries[flow[f].address] = NoToken
    BY <1>2, ShownAtKeeps
  <2> HIDE DEF q
  <2>4. CASE q.qrTask = 0
    <3>1. tasks' = Append(tasks, Task("qr", q)) /\ flow' = [flow EXCEPT ![f] = first]
      BY <1>6, <2>4 DEF QrStarted, q
    <3>2. /\ TasksKept /\ Brings' /\ Len(tasks) + 1 \in DOMAIN tasks'
          /\ Len(tasks) + 1 # 0 /\ tasks'[Len(tasks) + 1] = Task("qr", q)
      <4>1. Task("qr", q) \in TaskSet
        BY <1>1, <2>1, TaskType DEF TypeOK
      <4>2. Task("qr", q).token = NoToken
        BY DEF Task
      <4> QED
        BY <3>1, <4>1, <4>2, AppendKeeps
    <3>3. /\ first.step = at /\ first.qrTask = Len(tasks) + 1
          /\ first.address = flow[f].address
          /\ first.fetchTask = flow[f].fetchTask
      BY <2>1, <2>2 DEF WithSession, FlowSet
    <3>4. tasks'[Len(tasks) + 1].login # 0
      BY <2>1, <2>2, <3>2 DEF Task
    <3>5. flow[f].fetchTask = 0
      BY <1>1, <2>2, <2>4 DEF Stage, Scans
    <3> HIDE DEF first, at
    <3>6. flow'[f] = first
      BY <1>1, <3>1 DEF TypeOK, FlowType
    <3>7. Stage(f)'
      BY <1>2, <2>3, <3>2, <3>3, <3>4, <3>5, <3>6 DEF Stage, StartsBlank,
         AsksToAdd, Aimed, Scans, Fetches, Early, Adding
    <3> QED
      BY <1>1, <1>2, <3>1, <3>2, <3>7, OneMoves
  <2>5. CASE q.qrTask # 0
    <3>1. UNCHANGED tasks /\ flow' = [flow EXCEPT ![f] = again]
      BY <1>6, <2>5 DEF QrStarted, q
    <3>2. /\ again.step = at /\ again.qrTask = flow[f].qrTask
          /\ again.region = flow[f].region /\ again.address = flow[f].address
          /\ again.fetchTask = flow[f].fetchTask /\ again.auth = flow[f].auth
      BY <2>1, <2>2 DEF FlowSet
    <3> HIDE DEF again, at
    <3>3. flow'[f] = again
      BY <1>1, <3>1 DEF TypeOK, FlowType
    <3>4. Stage(f)'
      BY <1>1, <1>2, <2>2, <2>3, <2>5, <3>1, <3>2, <3>3 DEF Stage, StartsBlank,
         AsksToAdd, Aimed, Scans, Fetches, Early, Adding
    <3> QED
      BY <1>1, <1>2, <3>1, <3>4, SameTasks, OneMoves
  <2> QED
    BY <2>4, <2>5
<1> QED
  BY <1>4, <1>5, <1>6 DEF Answered

LEMMA AgainKeeps ==
    ASSUME Inv, NEW f \in Flows, Again(f)
    PROVE  Keeps
<1>1. TypeOK /\ Stage(f) /\ flow[f] \in FlowSet
  BY DEF Inv, TypeOK, FlowType
<1>2. TypeOK'
  BY <1>1, AgainType DEF Stage, Scans, Fetches
<1>3. awaits = [awaits EXCEPT ![f] = awaits[f]]
  BY <1>1 DEF TypeOK, FlowType
<1>4. ASSUME flow[f].step \in {"cloud_qr", "cloud_fetch"}
      PROVE  flow[f].address \in Addresses /\ entries[flow[f].address] = NoToken
  BY <1>1, <1>4 DEF Stage, Aimed, Adding
<1>5. ASSUME NEW r, r.step = "cloud_error", r.address = flow[f].address,
             r.region = flow[f].region, r.auth = flow[f].auth,
             r.fetchTask = flow[f].fetchTask,
             r.qrTask = flow[f].qrTask \/ (r.qrTask = 0 /\ r.fetchTask = 0),
             flow[f].step \in {"cloud_qr", "cloud_fetch"},
             flow' = [flow EXCEPT ![f] = r],
             UNCHANGED <<awaits, attempts, entries, cloud>>
      PROVE  Keeps
  <2>1. flow'[f] = r
    BY <1>1, <1>5 DEF TypeOK, FlowType
  <2>2. Stage(f)'
    BY <1>1, <1>4, <1>5, <2>1 DEF Stage, StartsBlank, AsksToAdd, Aimed, Scans,
       Fetches, Early, Adding, cloud
  <2>3. TasksKept /\ Brings'
    BY <1>5, SameTasks DEF cloud
  <2> QED
    BY <1>2, <1>3, <1>5, <2>2, <2>3, OneMoves
<1>6. ASSUME QrDone(f) PROVE Keeps
  <2> DEFINE n == tasks[flow[f].qrTask].login
             done == [flow[f] EXCEPT !.auth = n, !.step = "cloud_fetch"]
             failed == [flow[f] EXCEPT !.qrError = "cloud_qr_failed", !.qr = 0,
                                       !.qrTask = 0, !.step = "cloud_error"]
             cancelled == [flow[f] EXCEPT !.qrError = "cloud_qr_cancelled",
                                          !.step = "cloud_error"]
  <2>1. /\ flow[f].step = "cloud_qr" /\ flow[f].qrTask # 0
        /\ UNCHANGED <<awaits, attempts, entries, cloud>>
    BY <1>6 DEF QrDone
  <2>2. \/ tasks[flow[f].qrTask].state = "ok" /\ flow' = [flow EXCEPT ![f] = done]
        \/ /\ tasks[flow[f].qrTask].state # "ok"
           /\ flow' = [flow EXCEPT ![f] = failed]
        \/ flow' = [flow EXCEPT ![f] = cancelled]
    BY <1>6, <1>1 DEF QrDone, FlowSet
  <2>3. /\ failed.step = "cloud_error" /\ failed.address = flow[f].address
        /\ failed.region = flow[f].region /\ failed.auth = flow[f].auth
        /\ failed.fetchTask = flow[f].fetchTask /\ failed.qrTask = 0
        /\ cancelled.step = "cloud_error" /\ cancelled.address = flow[f].address
        /\ cancelled.region = flow[f].region /\ cancelled.auth = flow[f].auth
        /\ cancelled.fetchTask = flow[f].fetchTask
        /\ cancelled.qrTask = flow[f].qrTask
    BY <1>1 DEF FlowSet
  <2> HIDE DEF n
  <2>4. /\ done.step = "cloud_fetch" /\ done.address = flow[f].address
        /\ done.region = flow[f].region /\ done.qrTask = flow[f].qrTask
        /\ done.auth = n /\ done.fetchTask = flow[f].fetchTask
    BY <1>1 DEF FlowSet
  <2> HIDE DEF done, failed, cancelled
  <2>5. CASE /\ tasks[flow[f].qrTask].state = "ok"
             /\ flow' = [flow EXCEPT ![f] = done]
    <3>1. flow'[f] = done
      BY <1>1, <2>5 DEF TypeOK, FlowType
    <3>2. flow[f].fetchTask # 0 => n = flow[f].auth
      BY <1>1 DEF Stage, Scans, n
    <3>3. Scans(f)'
      BY <1>1, <2>1, <2>4, <2>5, <3>1 DEF Stage, Scans, cloud, n
    <3>4. Fetches(f)'
      BY <1>1, <2>1, <2>4, <3>1, <3>2 DEF Stage, Fetches, cloud
    <3>5. StartsBlank(f)' /\ AsksToAdd(f)' /\ Aimed(f)'
      BY <1>4, <2>1, <2>4, <3>1 DEF StartsBlank, AsksToAdd, Aimed, Early, Adding
    <3>6. TasksKept /\ Brings'
      BY <2>1, SameTasks DEF cloud
    <3> QED
      BY <1>2, <1>3, <2>1, <2>5, <3>3, <3>4, <3>5, <3>6, OneMoves DEF Stage
  <2>6. CASE /\ tasks[flow[f].qrTask].state # "ok"
             /\ flow' = [flow EXCEPT ![f] = failed]
    <3>1. flow[f].fetchTask = 0
      BY <1>1, <2>6 DEF Stage, Scans
    <3> QED
      BY <1>5, <2>1, <2>3, <2>6, <3>1
  <2>7. CASE flow' = [flow EXCEPT ![f] = cancelled]
    BY <1>5, <2>1, <2>3, <2>7
  <2> QED
    BY <2>2, <2>5, <2>6, <2>7
<1>7. ASSUME Fetch(f) PROVE Keeps
  <2> DEFINE q == flow[f]
             r == [WithSession(q) EXCEPT !.fetchTask = Len(tasks) + 1]
  <2>1. /\ q.step = "cloud_fetch" /\ tasks' = Append(tasks, FetchTask(q))
        /\ flow' = [flow EXCEPT ![f] = r] /\ UNCHANGED <<awaits, attempts, entries>>
    BY <1>7 DEF Fetch
  <2>2. FetchTask(q) \in TaskSet /\ WithSession(q) \in FlowSet
    BY <1>1, TaskType, RecordType DEF TypeOK, CloudType
  <2>3. /\ FetchTask(q).token = NoToken /\ FetchTask(q).login = q.auth
        /\ FetchTask(q).region = q.region /\ FetchTask(q).address = q.address
    BY DEF FetchTask, Task
  <2>4. /\ TasksKept /\ Brings' /\ Len(tasks) + 1 \in DOMAIN tasks'
        /\ Len(tasks) + 1 # 0 /\ tasks'[Len(tasks) + 1] = FetchTask(q)
    <3> HIDE DEF q
    <3> QED
      BY <2>1, <2>2, <2>3, AppendKeeps
  <2>5. /\ r.step = q.step /\ r.address = q.address /\ r.region = q.region
        /\ r.qrTask = q.qrTask /\ r.auth = q.auth
        /\ r.fetchTask = Len(tasks) + 1
    BY <1>1, <2>2 DEF WithSession, FlowSet
  <2> HIDE DEF r
  <2>6. flow'[f] = r
    BY <1>1, <2>1 DEF TypeOK, FlowType
  <2>7. StartsBlank(f)' /\ AsksToAdd(f)' /\ Aimed(f)'
    BY <1>4, <2>1, <2>5, <2>6 DEF StartsBlank, AsksToAdd, Aimed, Early, Adding
  <2>8. Scans(f)'
    <3>1. /\ q.qrTask # 0 /\ q.qrTask \in DOMAIN tasks
          /\ tasks[q.qrTask].login = q.auth /\ tasks[q.qrTask].login # 0
          /\ tasks[q.qrTask].state = "ok"
      BY <1>1, <2>1 DEF Stage, Scans
    <3>2. /\ q.qrTask \in DOMAIN tasks' /\ tasks'[q.qrTask].login = q.auth
          /\ q.auth # 0 /\ tasks'[q.qrTask].state = "ok"
      BY <2>4, <3>1 DEF TasksKept
    <3> QED
      BY <2>1, <2>5, <2>6, <3>1, <3>2 DEF Scans
  <2>9. Fetches(f)'
    BY <2>1, <2>3, <2>4, <2>5, <2>6 DEF Fetches
  <2> QED
    BY <1>2, <1>3, <2>1, <2>4, <2>7, <2>8, <2>9, OneMoves DEF Stage
<1>8. ASSUME FetchDone(f) PROVE Keeps
  <2> DEFINE t == flow[f].fetchTask
             k == tasks[t].token
             done == [flow[f] EXCEPT !.fetched = k, !.step = "cloud_done"]
  <2>1. /\ flow[f].step = "cloud_fetch"
        /\ UNCHANGED <<awaits, attempts, entries, cloud>>
        /\ t # 0
    BY <1>8 DEF FetchDone
  <2>2. \/ k # NoToken /\ flow' = [flow EXCEPT ![f] = done]
        \/ \E reason \in FetchErrors : flow' = [flow EXCEPT ![f] =
              [flow[f] EXCEPT !.fetchError = reason, !.step = "cloud_error"]]
    BY <1>8, <1>1 DEF FetchDone, FetchFailed, FetchErrors, Found, FlowSet
  <2>3. k \in {NoToken, Fetched(flow[f].address, flow[f].region, flow[f].auth)}
    BY <1>1, <2>1 DEF Inv, Stage, Fetches, Brings, TokenOf
  <2> HIDE DEF k
  <2>4. /\ done.step = "cloud_done" /\ done.address = flow[f].address
        /\ done.region = flow[f].region /\ done.auth = flow[f].auth
        /\ done.qrTask = flow[f].qrTask /\ done.fetchTask = flow[f].fetchTask
        /\ done.fetched = k
    BY <1>1 DEF FlowSet
  <2> HIDE DEF done
  <2>5. CASE k # NoToken /\ flow' = [flow EXCEPT ![f] = done]
    <3>1. flow'[f] = done
      BY <1>1, <2>5 DEF TypeOK, FlowType
    <3>2. done.fetched = Fetched(done.address, done.region, done.auth)
      BY <2>3, <2>4, <2>5
    <3>3. Stage(f)'
      BY <1>1, <1>4, <2>1, <2>4, <3>1, <3>2 DEF Stage, StartsBlank, AsksToAdd,
         Aimed, Scans, Fetches, Early, Adding, cloud
    <3>4. TasksKept /\ Brings'
      BY <2>1, SameTasks DEF cloud
    <3> QED
      BY <1>2, <1>3, <2>1, <2>5, <3>3, <3>4, OneMoves
  <2>6. ASSUME NEW reason \in FetchErrors, flow' = [flow EXCEPT ![f] =
                  [flow[f] EXCEPT !.fetchError = reason, !.step = "cloud_error"]]
        PROVE  Keeps
    <3> DEFINE r == [flow[f] EXCEPT !.fetchError = reason, !.step = "cloud_error"]
    <3>1. /\ r.step = "cloud_error" /\ r.address = flow[f].address
          /\ r.region = flow[f].region /\ r.auth = flow[f].auth
          /\ r.qrTask = flow[f].qrTask /\ r.fetchTask = flow[f].fetchTask
      BY <1>1 DEF FlowSet
    <3>2. flow' = [flow EXCEPT ![f] = r]
      BY <2>6
    <3> HIDE DEF r
    <3> QED
      BY <1>5, <2>1, <3>1, <3>2
  <2> QED
    BY <2>2, <2>5, <2>6
<1>9. ASSUME cloud_done(f) PROVE Keeps
  <2>1. flow[f].fetched \in TokenSet /\ flow[f].step \in Adding
    BY <1>1, <1>9 DEF FlowSet, cloud_done, Adding
  <2> QED
    BY <1>9, <2>1, CreateEntryKeeps DEF cloud_done
<1> QED
  BY <1>6, <1>7, <1>8, <1>9 DEF Again

LEMMA cloud_errorKeeps ==
    ASSUME Inv, NEW f \in Flows, cloud_error(f)
    PROVE  Keeps
<1> DEFINE r == [Cleared(flow[f]) EXCEPT !.step = "method"]
<1>1. TypeOK' /\ TypeOK /\ Stage(f) /\ flow[f] \in FlowSet
  BY cloud_errorType DEF Inv, TypeOK, FlowType
<1>2. /\ flow' = [flow EXCEPT ![f] = r] /\ UNCHANGED <<awaits, attempts, entries>>
      /\ Release({f}) /\ flow[f].step = "cloud_error" /\ {f} \in SUBSET Flows
  BY DEF cloud_error
<1>3. r.step = "method" /\ r.address = flow[f].address /\ Blank(r)
  BY <1>1 DEF Cleared, FlowSet, Blank
<1> HIDE DEF r
<1>4. r.address \in Addresses /\ entries[r.address] = NoToken
  BY <1>1, <1>2, <1>3 DEF Stage, Aimed, Adding
<1>5. flow'[f] = r /\ awaits = [awaits EXCEPT ![f] = awaits[f]]
  BY <1>1, <1>2 DEF TypeOK, FlowType
<1>6. Stage(f)'
  BY <1>2, <1>3, <1>4, <1>5 DEF Stage, StartsBlank, AsksToAdd, Aimed, Scans,
     Fetches, Blank, Adding
<1>7. TasksKept /\ Brings'
  BY <1>2, ReleaseKeeps
<1> QED
  BY <1>1, <1>2, <1>5, <1>6, <1>7, OneMoves

\* A task that ends was made for what it brings.
LEMMA TaskEndsKeeps ==
    ASSUME Inv, NEW t \in DOMAIN tasks, TaskEnds(t)
    PROVE  Keeps
<1>1. TypeOK' /\ tasks[t] \in TaskSet /\ UNCHANGED <<flow, awaits, entries>>
  <2>1. TypeOK'
    BY TaskEndsType DEF Inv
  <2>2. tasks[t] \in TaskSet
    BY DEF Inv, TypeOK, CloudType
  <2> QED
    BY <2>1, <2>2 DEF TaskEnds
<1>2. PICK state \in {"ok", "failed", "raised", "cancelled"},
           token_hex \in {NoToken, TokenOf(tasks[t])} :
           tasks' = [tasks EXCEPT ![t].state = state, ![t].token = token_hex]
  BY DEF TaskEnds, TokenOf
<1> DEFINE ended == [tasks[t] EXCEPT !.state = state, !.token = token_hex]
<1>3. /\ ended.login = tasks[t].login /\ ended.region = tasks[t].region
      /\ ended.address = tasks[t].address /\ ended.token = token_hex
      /\ tasks' = [tasks EXCEPT ![t] = ended]
  BY <1>1, <1>2 DEF TaskSet
<1> HIDE DEF ended
<1>4. /\ DOMAIN tasks' = DOMAIN tasks /\ tasks'[t] = ended
      /\ \A u \in DOMAIN tasks : u # t => tasks'[u] = tasks[u]
  BY <1>3
<1>5. TasksKept
  BY <1>3, <1>4 DEF TasksKept, TaskEnds, Running
<1>6. Brings'
  BY <1>2, <1>3, <1>4 DEF Brings, Inv, TokenOf, Fetched
<1>7. \A g \in Flows : Stage(g)'
  BY <1>1, <1>5, OtherKept
<1> QED
  BY <1>1, <1>5, <1>6, <1>7 DEF Inv, Keeps

LEMMA EndingKeeps ==
    /\ Inv /\ (\E f \in Flows : Close(f)) => Keeps
    /\ Inv /\ (\E a \in Addresses : DeleteEntry(a)) => Keeps
<1>1. ASSUME Inv, NEW f \in Flows, Close(f) PROVE Keeps
  <2>1. {f} \in SUBSET Flows
    OBVIOUS
  <2> QED
    BY <1>1, <2>1, RemoveKeeps DEF Close
<1>2. ASSUME Inv, NEW a \in Addresses, DeleteEntry(a) PROVE Keeps
  <2> DEFINE F == {f \in Flows : flow[f].step = "reauth_confirm"
                                 /\ flow[f].address = a}
  <2>1. /\ F \in SUBSET Flows /\ Remove(F) /\ entries[a] # NoToken
        /\ entries' = [entries EXCEPT ![a] = NoToken]
        /\ UNCHANGED <<awaits, attempts>>
    BY <1>2 DEF DeleteEntry, Configured
  <2>2. \A g \in Flows \ F :
           flow[g].step \in Adding \cup {"reauth_confirm"} /\ flow[g].address = a
             => (NoToken = NoToken <=> entries[a] = NoToken)
    BY <1>2, <2>1 DEF Inv, Stage, Aimed
  <2> HIDE DEF F
  <2> QED
    BY <1>2, <2>1, <2>2, TokenType, EntriesKeep
<1> QED
  BY <1>1, <1>2

LEMMA InitInv == Init => Inv
<1> SUFFICES ASSUME Init PROVE Inv
  OBVIOUS
<1>1. TypeOK
  BY InitType
<1>2. Brings
  BY DEF Init, Brings
<1>3. ASSUME NEW f \in Flows PROVE Stage(f)
  <2>1. flow[f] = NewFlow /\ awaits[f] = 0
    BY DEF Init
  <2>2. flow[f].step = "idle" /\ flow[f].qrTask = 0 /\ flow[f].fetchTask = 0
    <3>1. NewFlow.step = "idle" /\ NewFlow.qrTask = 0 /\ NewFlow.fetchTask = 0
      BY DEF NewFlow
    <3> QED
      BY <2>1, <3>1
  <2> QED
    BY <2>1, <2>2 DEF Stage, StartsBlank, AsksToAdd, Aimed, Scans, Fetches,
       Adding, Blank
<1> QED
  BY <1>1, <1>2, <1>3 DEF Inv

LEMMA NextKeeps ==
    ASSUME Inv, [Next]_vars
    PROVE  Keeps
<1>1. CASE UNCHANGED vars
  <2>1. TasksKept
    BY <1>1, SameTasks DEF vars
  <2>2. Inv'
    BY <1>1 DEF vars, Inv, TypeOK, CloudType, FlowType, EntryType, Brings,
       TokenOf, Stage, StartsBlank, Blank, AsksToAdd, Aimed, Scans, Fetches
  <2> QED
    BY <2>1, <2>2 DEF Keeps
<1>2. ASSUME NEW f \in Flows,
             \/ Choosing(f) \/ Typing(f) \/ Close(f)
             \/ \E region \in Regions : cloud_region(f, region)
             \/ Answered(f) \/ Again(f) \/ cloud_error(f)
      PROVE  Keeps
  BY <1>2, ChoosingKeeps, TypingKeeps, EndingKeeps, cloud_regionKeeps,
     AnsweredKeeps, AgainKeeps, cloud_errorKeeps
<1>3. CASE \E a \in Addresses : DeleteEntry(a)
  BY <1>3, EndingKeeps
<1>4. CASE \E t \in DOMAIN tasks : TaskEnds(t)
  BY <1>4, TaskEndsKeeps
<1> QED
  BY <1>1, <1>2, <1>3, <1>4 DEF Next

-----------------------------------------------------------------------------
(* What holds besides in a dialog whose region form is submitted once at a *)
(* time.  A request is under way for its region form alone, the region is  *)
(* known from then on, and the code shown is the one that is polled.       *)

AwaitsOnce(f) ==
    awaits[f] # 0 =>
        /\ awaits[f] = 1 /\ flow[f].step \in {"cloud_region", "gone"}
        /\ flow[f].step = "cloud_region" => flow[f].region # NoRegion
Polls(f) ==
    /\ flow[f].step \in {"cloud_qr", "cloud_fetch", "cloud_done"}
        => flow[f].region # NoRegion
    /\ flow[f].step = "cloud_qr" => tasks[flow[f].qrTask].login = flow[f].qr
Once(f) == AwaitsOnce(f) /\ Polls(f)

\* A step leaves a flow as it is, or ends it, or moves it to a dialog before
\* the login with no request under way.
LEMMA OnceAside ==
    ASSUME Inv, TasksKept, NEW f \in Flows, Once(f), awaits'[f] = awaits[f],
           \/ flow'[f] = flow[f]
           \/ flow'[f].step = "gone"
           \/ awaits[f] = 0 /\ flow'[f].step \notin {"cloud_qr", "cloud_fetch",
                                                      "cloud_done"}
    PROVE  Once(f)'
<1>1. flow[f].step = "cloud_qr" => flow[f].qrTask \in DOMAIN tasks
  BY DEF Inv, Stage, Scans
<1> QED
  BY <1>1 DEF Once, AwaitsOnce, Polls, TasksKept

\* What Remove and the change of one flow make of any other.
LEMMA Aside ==
    ASSUME Inv, NEW f \in Flows
    PROVE  /\ \A F \in SUBSET Flows : Remove(F)
                => flow'[f] = flow[f] \/ flow'[f].step = "gone"
           /\ \A g \in Flows : \A r : g # f /\ flow' = [flow EXCEPT ![g] = r]
                => flow'[f] = flow[f]
<1>1. ASSUME NEW F \in SUBSET Flows, Remove(F)
      PROVE  flow'[f] = flow[f] \/ flow'[f].step = "gone"
  <2>1. CASE f \in F
    BY <1>1, <2>1, Ended
  <2>2. CASE f \notin F
    BY <1>1, <2>2 DEF Remove
  <2> QED
    BY <2>1, <2>2
<1>2. flow \in [Flows -> FlowSet]
  BY DEF Inv, TypeOK, FlowType
<1> QED
  BY <1>1, <1>2

LEMMA OnceKept ==
    ASSUME Inv, [Next]_vars, NEW f \in Flows,
           awaits[f] <= 1, awaits'[f] <= 1, Once(f)
    PROVE  Once(f)'
<1>1. /\ TasksKept /\ flow \in [Flows -> FlowSet] /\ awaits \in [Flows -> Nat]
      /\ awaits'[f] \in Nat
  BY NextKeeps DEF Keeps, Inv, TypeOK, FlowType
<1>2. ASSUME flow' = flow, awaits' = awaits PROVE Once(f)'
  BY <1>1, <1>2, OnceAside
<1>3. ASSUME NEW F \in SUBSET Flows, Remove(F), awaits' = awaits PROVE Once(f)'
  BY <1>1, <1>3, Aside, OnceAside
<1>4. ASSUME NEW g \in Flows, NEW r, flow' = [flow EXCEPT ![g] = r],
             awaits' = awaits,
             flow[g].step \notin {"cloud_region", "gone"},
             r.step \notin {"cloud_qr", "cloud_fetch", "cloud_done"}
      PROVE  Once(f)'
  <2>1. CASE g = f
    <3>1. flow'[f] = r /\ awaits[f] = 0
      BY <1>1, <1>4, <2>1 DEF Once, AwaitsOnce
    <3> QED
      BY <1>1, <1>4, <3>1, OnceAside
  <2>2. CASE g # f
    BY <1>1, <1>4, <2>2, Aside, OnceAside
  <2> QED
    BY <2>1, <2>2
<1>5. ASSUME NEW g \in Flows, Choosing(g) PROVE Once(f)'
  <2> DEFINE Dialogs == {"bluetooth_confirm", "user", "method", "cloud_region",
                         "token"}
  <2>1. /\ flow[g].step \notin {"cloud_region", "gone"} /\ awaits' = awaits
        /\ flow[g] \in FlowSet /\ {g} \in SUBSET Flows
    BY <1>1, <1>5
       DEF Choosing, bluetooth, user_chosen, bluetooth_confirm, user, method
  <2>2. ASSUME NEW r, r.step \in Dialogs, flow' = [flow EXCEPT ![g] = r]
        PROVE  Once(f)'
    BY <1>4, <2>1, <2>2
  <2>3. ASSUME NEW a \in Addresses, NEW step \in Dialogs, Choose(g, a, step)
        PROVE  Once(f)'
    <3> DEFINE r == [flow[g] EXCEPT !.address = a, !.step = step]
    <3>1. Remove({g}) \/ flow' = [flow EXCEPT ![g] = r]
      BY <2>1, <2>3 DEF Choose, FlowSet
    <3>2. r.step = step
      BY <2>1 DEF FlowSet
    <3> HIDE DEF r
    <3> QED
      BY <1>3, <2>1, <2>2, <2>3, <3>1, <3>2
  <2>4. ASSUME NEW step \in Dialogs, Shows(g, step) PROVE Once(f)'
    <3> DEFINE r == [flow[g] EXCEPT !.step = step]
    <3>1. flow' = [flow EXCEPT ![g] = r] /\ r.step \in Dialogs
      BY <2>1, <2>4 DEF Shows, FlowSet
    <3> HIDE DEF r, Dialogs
    <3> QED
      BY <2>2, <3>1
  <2>5. ASSUME user(g) PROVE Once(f)'
    <3> DEFINE r == [flow[g] EXCEPT !.listed = Chargers \ Configured,
                                    !.step = "user"]
    <3>1. Remove({g}) \/ flow' = [flow EXCEPT ![g] = r]
      BY <2>1, <2>5 DEF user, FlowSet
    <3>2. r.step \in Dialogs
      BY <2>1 DEF FlowSet
    <3> HIDE DEF r
    <3> QED
      BY <1>3, <2>1, <2>2, <3>1, <3>2
  <2>6. ASSUME NEW a \in Addresses, bluetooth(g, a) PROVE Once(f)'
    BY <1>3, <2>1, <2>3, <2>6 DEF bluetooth
  <2>7. ASSUME NEW a \in Addresses, user_chosen(g, a) PROVE Once(f)'
    BY <2>3, <2>7 DEF user_chosen
  <2> QED
    BY <1>5, <2>4, <2>5, <2>6, <2>7 DEF Choosing, bluetooth_confirm, method
<1>6. ASSUME NEW g \in Flows, Typing(g) PROVE Once(f)'
  <2>1. ASSUME NEW a \in Addresses, reauth(g, a) PROVE Once(f)'
    <3> DEFINE r == [flow[g] EXCEPT !.address = a, !.step = "reauth_confirm"]
    <3>1. /\ flow' = [flow EXCEPT ![g] = r] /\ r.step = "reauth_confirm"
          /\ awaits' = awaits /\ flow[g].step = "idle"
      BY <1>1, <2>1 DEF reauth, FlowSet
    <3> HIDE DEF r
    <3> QED
      BY <1>4, <3>1
  <2>2. ASSUME NEW input \in Inputs, token(g, input) PROVE Once(f)'
    BY <1>3, <2>2 DEF token, CreateEntry
  <2>3. ASSUME NEW input \in Inputs, reauth_confirm(g, input) PROVE Once(f)'
    BY <1>3, <2>3 DEF reauth_confirm
  <2> QED
    BY <1>6, <2>1, <2>2, <2>3 DEF Typing
<1>7. ASSUME NEW g \in Flows, NEW region \in Regions, cloud_region(g, region)
      PROVE  Once(f)'
  <2> DEFINE q == [flow[g] EXCEPT !.region = region]
             r == WithSession(q)
  <2>1. /\ flow' = [flow EXCEPT ![g] = r] /\ flow[g].step = "cloud_region"
        /\ awaits' = [awaits EXCEPT ![g] = awaits[g] + 1]
    BY <1>7 DEF cloud_region
  <2>2. r.step = flow[g].step /\ r.region = region
    BY <1>1 DEF WithSession, FlowSet
  <2> HIDE DEF r
  <2>3. CASE g = f
    <3>1. flow'[f] = r /\ awaits'[f] = 1 /\ r.region # NoRegion
      BY <1>1, <2>1, <2>2, <2>3, FlowConstants
    <3> QED
      BY <2>1, <2>2, <2>3, <3>1 DEF Once, AwaitsOnce, Polls
  <2>4. CASE g # f
    BY <1>1, <2>1, <2>4, Aside, OnceAside
  <2> QED
    BY <2>3, <2>4
<1>8. ASSUME NEW g \in Flows, Answered(g), g # f PROVE Once(f)'
  <2>1. awaits'[f] = awaits[f] /\ \E r : flow' = [flow EXCEPT ![g] = r]
    <3>1. flow = [flow EXCEPT ![g] = flow[g]]
      BY <1>1
    <3> QED
      BY <1>1, <1>8, <3>1
         DEF Answered, QrStarted, QrStartFailed, QrStartRaised
  <2> QED
    BY <1>1, <1>8, <2>1, Aside, OnceAside
<1>9. ASSUME Answered(f) PROVE Once(f)'
  <2>1. /\ awaits'[f] = 0 /\ flow[f].step \in {"cloud_region", "gone"}
        /\ flow[f].step = "cloud_region" => flow[f].region # NoRegion
    BY <1>1, <1>9 DEF Answered, QrStarted, QrStartFailed, QrStartRaised, Once,
       AwaitsOnce
  <2>2. CASE QrStartRaised(f)
    BY <2>1, <2>2 DEF QrStartRaised, Once, AwaitsOnce, Polls
  <2>3. CASE QrStartFailed(f)
    <3>1. flow'[f].step = ShownAt(f, "cloud_error")
      BY <1>1, <2>3 DEF QrStartFailed, FlowSet
    <3> QED
      BY <2>1, <3>1 DEF ShownAt, Once, AwaitsOnce, Polls
  <2>4. CASE QrStarted(f)
    <3> DEFINE q == [flow[f] EXCEPT !.qr = qrs + 1]
               at == ShownAt(f, "cloud_qr")
    <3>1. /\ q \in FlowSet /\ WithSession(q) \in FlowSet
      <4> DEFINE n == qrs + 1
      <4>1. n \in Nat /\ sessions \in Nat /\ flow[f] \in FlowSet
        BY <1>1 DEF Inv, TypeOK, CloudType
      <4> HIDE DEF n
      <4>2. [flow[f] EXCEPT !.qr = n] \in FlowSet
        BY <4>1 DEF FlowSet
      <4> QED
        BY <4>1, <4>2, RecordType DEF n
    <3>2. q.qrTask = flow[f].qrTask /\ q.region = flow[f].region
      BY <1>1 DEF FlowSet
    <3> HIDE DEF q
    <3>3. CASE flow[f].step = "gone"
      <4>1. at = "gone"
        BY <3>3 DEF ShownAt
      <4>2. flow'[f].step = at
        <5>1. flow'[f] \in {[WithSession(q) EXCEPT !.qrTask = Len(tasks) + 1,
                                                   !.step = at],
                            [q EXCEPT !.step = at]}
          BY <1>1, <2>4 DEF QrStarted, q
        <5> QED
          BY <3>1, <5>1 DEF FlowSet
      <4> QED
        BY <2>1, <4>1, <4>2 DEF Once, AwaitsOnce, Polls
    <3>4. CASE flow[f].step = "cloud_region"
      <4> DEFINE r == [WithSession(q) EXCEPT !.qrTask = Len(tasks) + 1, !.step = at]
      <4>1. q.qrTask = 0
        BY <3>2, <3>4 DEF Inv, Stage, StartsBlank, Early, Blank
      <4>2. tasks' = Append(tasks, Task("qr", q)) /\ flow' = [flow EXCEPT ![f] = r]
        BY <2>4, <4>1 DEF QrStarted, q
      <4>3. r.region = flow[f].region /\ r.qrTask = Len(tasks) + 1 /\ r.qr = q.qr
        BY <3>1, <3>2 DEF WithSession, FlowSet
      <4> HIDE DEF r
      <4>4. flow'[f] = r
        BY <1>1, <4>2
      <4>5. tasks'[Len(tasks) + 1].login = q.qr
        <5>1. tasks'[Len(tasks) + 1] = Task("qr", q)
          BY <4>2 DEF Inv, TypeOK, CloudType
        <5> QED
          BY <5>1 DEF Task
      <4> QED
        BY <2>1, <3>4, <4>3, <4>4, <4>5 DEF Once, AwaitsOnce, Polls
    <3> QED
      BY <2>1, <3>3, <3>4
  <2> QED
    BY <1>9, <2>2, <2>3, <2>4 DEF Answered
<1>10. ASSUME NEW g \in Flows, Again(g) PROVE Once(f)'
  <2>1. CASE cloud_done(g)
    BY <1>3, <2>1 DEF cloud_done, CreateEntry
  <2>2. CASE ~cloud_done(g)
    <3>1. /\ awaits' = awaits /\ flow[g].step \in {"cloud_qr", "cloud_fetch"}
          /\ \E r : flow' = [flow EXCEPT ![g] = r]
      <4>1. CASE QrDone(g)
        BY <4>1 DEF QrDone
      <4>2. CASE Fetch(g)
        BY <4>2 DEF Fetch
      <4>3. CASE FetchDone(g)
        BY <4>3 DEF FetchDone, FetchFailed
      <4> QED
        BY <1>10, <2>2, <4>1, <4>2, <4>3 DEF Again
    <3>2. CASE g # f
      BY <1>1, <3>1, <3>2, Aside, OnceAside
    <3>3. CASE g = f
      <4>1. awaits'[f] = 0 /\ flow[f].region # NoRegion
        BY <3>1, <3>3 DEF Once, AwaitsOnce, Polls
      <4>2. flow'[f].region = flow[f].region /\ flow'[f].step # "cloud_qr"
        <5>1. flow[f] \in FlowSet
          BY <1>1
        <5>2. CASE QrDone(f)
          <6> DEFINE n == tasks[flow[f].qrTask].login
          <6>1. flow'[f] \in {
                   [flow[f] EXCEPT !.auth = n, !.step = "cloud_fetch"],
                   [flow[f] EXCEPT !.qrError = "cloud_qr_failed", !.qr = 0,
                                   !.qrTask = 0, !.step = "cloud_error"],
                   [flow[f] EXCEPT !.qrError = "cloud_qr_cancelled",
                                   !.step = "cloud_error"]}
            BY <1>1, <5>1, <5>2 DEF QrDone, FlowSet
          <6> HIDE DEF n
          <6> QED
            BY <5>1, <6>1 DEF FlowSet
        <5>3. CASE Fetch(f)
          <6>1. WithSession(flow[f]) \in FlowSet
            BY <5>1, RecordType DEF Inv, TypeOK, CloudType
          <6>2. flow'[f] = [WithSession(flow[f]) EXCEPT !.fetchTask = Len(tasks) + 1]
            BY <1>1, <5>3 DEF Fetch
          <6>3. /\ flow[f].step = "cloud_fetch"
                /\ WithSession(flow[f]).step = flow[f].step
                /\ WithSession(flow[f]).region = flow[f].region
            BY <5>1, <5>3 DEF WithSession, Fetch, FlowSet
          <6> QED
            BY <6>1, <6>2, <6>3 DEF FlowSet
        <5>4. CASE FetchDone(f)
          <6> DEFINE k == tasks[flow[f].fetchTask].token
          <6>1. PICK reason \in FetchErrors : flow'[f] \in {
                   [flow[f] EXCEPT !.fetched = k, !.step = "cloud_done"],
                   [flow[f] EXCEPT !.fetchError = reason, !.step = "cloud_error"]}
            BY <1>1, <5>1, <5>4 DEF FetchDone, FetchFailed, FetchErrors, FlowSet
          <6> HIDE DEF k
          <6> QED
            BY <5>1, <6>1 DEF FlowSet
        <5> QED
          BY <1>10, <2>2, <3>3, <5>2, <5>3, <5>4 DEF Again
      <4> QED
        BY <4>1, <4>2 DEF Once, AwaitsOnce, Polls
    <3> QED
      BY <3>2, <3>3
  <2> QED
    BY <2>1, <2>2
<1>11. ASSUME NEW g \in Flows, cloud_error(g) PROVE Once(f)'
  <2> DEFINE r == [Cleared(flow[g]) EXCEPT !.step = "method"]
  <2>1. /\ flow' = [flow EXCEPT ![g] = r] /\ r.step = "method"
        /\ awaits' = awaits /\ flow[g].step = "cloud_error"
    <3>1. Cleared(flow[g]) \in FlowSet
      BY <1>1, RecordType
    <3> QED
      BY <1>11, <3>1 DEF cloud_error, FlowSet
  <2> HIDE DEF r
  <2> QED
    BY <1>4, <2>1
<1>12. CASE UNCHANGED vars
  BY <1>2, <1>12 DEF vars
<1>13. CASE Next
  <2>1. ASSUME NEW g \in Flows, Close(g) PROVE Once(f)'
    BY <1>3, <2>1 DEF Close
  <2>2. ASSUME NEW a \in Addresses, DeleteEntry(a) PROVE Once(f)'
    BY <1>3, <2>2 DEF DeleteEntry
  <2>3. ASSUME NEW t \in DOMAIN tasks, TaskEnds(t) PROVE Once(f)'
    BY <1>2, <2>3 DEF TaskEnds
  <2> QED
    BY <1>5, <1>6, <1>7, <1>8, <1>9, <1>10, <1>11, <1>13, <2>1, <2>2, <2>3
       DEF Next
<1> QED
  BY <1>12, <1>13

-----------------------------------------------------------------------------
(* The theorems.                                                           *)

LEMMA FlowInv == Spec => []Inv
<1>1. Init => Inv
  BY InitInv
<1>2. Inv /\ [Next]_vars => Inv'
  BY NextKeeps DEF Keeps
<1> QED
  BY <1>1, <1>2, PTL DEF Spec

LEMMA OnceInv ==
    ASSUME NEW f \in Flows
    PROVE  Spec /\ SubmittedOnce(f) => []Once(f)
<1>1. Init => Once(f)
  <2>1. NewFlow.step = "idle"
    BY DEF NewFlow
  <2> QED
    BY <2>1 DEF Init, Once, AwaitsOnce, Polls
<1>2. Inv /\ awaits[f] <= 1 /\ (awaits[f] <= 1)' /\ Once(f) /\ [Next]_vars
        => Once(f)'
  BY OnceKept
<1> QED
  BY <1>1, <1>2, FlowInv, PTL DEF Spec, SubmittedOnce

\* Every reachable state of the dialogs is well typed.
THEOREM FlowTypeCorrect == Spec => []TypeOK
<1>1. Inv => TypeOK
  BY DEF Inv
<1> QED
  BY <1>1, FlowInv, PTL

\* The assertions of cloud_fetch and cloud_done do not fail in a dialog whose
\* region form is submitted once at a time, whatever other dialogs do: the step
\* runs with the login, region and charger it asserts, and is done with a token.
THEOREM AlwaysAsserted == Spec => Asserted
<1> SUFFICES ASSUME NEW f \in Flows
             PROVE  Spec => (SubmittedOnce(f) => []FindsWhatItAsserts(f))
  BY DEF Asserted
<1>1. Inv /\ Once(f) => FindsWhatItAsserts(f)
  <2> SUFFICES ASSUME Inv, Once(f)
               PROVE  /\ flow[f].step = "cloud_fetch" => FetchAsserted(f)
                      /\ flow[f].step = "cloud_done" => flow[f].fetched # NoToken
    BY DEF FindsWhatItAsserts
  <2>1. Stage(f)
    BY DEF Inv
  <2>2. ASSUME flow[f].step = "cloud_fetch" PROVE FetchAsserted(f)
    BY <2>1, <2>2, FlowConstants
       DEF Stage, Aimed, Scans, Once, Polls, Adding, FetchAsserted
  <2>3. ASSUME flow[f].step = "cloud_done" PROVE flow[f].fetched # NoToken
    BY <2>1, <2>3 DEF Stage, Fetches, Fetched, NoToken
  <2> QED
    BY <2>2, <2>3
<1> QED
  BY <1>1, FlowInv, OnceInv, PTL

\* In such a dialog the code on the screen is the code whose scan the flow
\* waits for, whatever earlier attempts left behind and whoever closes what.
THEOREM AlwaysShownPolled == Spec => ShownIsPolled
<1> SUFFICES ASSUME NEW f \in Flows
             PROVE  Spec => (SubmittedOnce(f) => []PollsShown(f))
  BY DEF ShownIsPolled
<1>1. Inv /\ Once(f) => PollsShown(f)
  BY DEF Inv, Stage, Scans, Once, Polls, PollsShown
<1> QED
  BY <1>1, FlowInv, OnceInv, PTL

\* What sets a token.
LEMMA OnlyTheseSet ==
    ASSUME Inv, [Next]_vars, NEW a \in Addresses,
           entries'[a] \notin {entries[a], NoToken}
    PROVE  \E f \in Flows :
              \/ \E input \in Inputs : token(f, input) \/ reauth_confirm(f, input)
              \/ cloud_done(f)
<1>1. entries' # entries
  OBVIOUS
<1>2. ~UNCHANGED vars
  BY <1>1 DEF vars
<1>3. ASSUME NEW f \in Flows, Choosing(f) \/ Close(f) \/ Answered(f) \/ cloud_error(f)
      PROVE  FALSE
  BY <1>1, <1>3 DEF Choosing, bluetooth, user_chosen, bluetooth_confirm, user,
     method, Close, Answered, QrStarted, QrStartFailed, QrStartRaised, cloud_error
<1>4. ASSUME NEW f \in Flows, NEW region \in Regions, cloud_region(f, region)
      PROVE  FALSE
  BY <1>1, <1>4 DEF cloud_region
<1>5. ASSUME NEW b \in Addresses, DeleteEntry(b) PROVE FALSE
  BY <1>5 DEF DeleteEntry, Inv, TypeOK, EntryType
<1>6. ASSUME NEW t \in DOMAIN tasks, TaskEnds(t) PROVE FALSE
  BY <1>1, <1>6 DEF TaskEnds
<1>7. ASSUME NEW f \in Flows, Typing(f)
      PROVE  \E input \in Inputs : token(f, input) \/ reauth_confirm(f, input)
  BY <1>1, <1>7 DEF Typing, reauth
<1>8. ASSUME NEW f \in Flows, Again(f) PROVE cloud_done(f)
  BY <1>1, <1>8 DEF Again, QrDone, Fetch, FetchDone
<1> QED
  BY <1>2, <1>3, <1>4, <1>5, <1>6, <1>7, <1>8 DEF Next

\* A configured charger keeps its token until the user types another or
\* deletes it, and a new one gets a token of its own.
THEOREM OwnTokenKept == Spec => OwnToken
<1> DEFINE Set == \A a \in Addresses :
              entries'[a] \notin {entries[a], NoToken}
                 => \E f \in Flows : /\ flow[f].address = a
                                     /\ TypesInto(f, a) \/ FetchedFor(f, a)
<1>1. ASSUME Inv, [Next]_vars PROVE Set
  <2> SUFFICES ASSUME NEW a \in Addresses,
                      entries'[a] \notin {entries[a], NoToken}
               PROVE  \E f \in Flows : /\ flow[f].address = a
                                       /\ TypesInto(f, a) \/ FetchedFor(f, a)
    OBVIOUS
  <2>1. PICK f \in Flows :
           \/ \E input \in Inputs : token(f, input) \/ reauth_confirm(f, input)
           \/ cloud_done(f)
    BY <1>1, OnlyTheseSet
  <2>2. Stage(f) /\ entries \in [Addresses -> TokenSet]
    BY <1>1 DEF Inv, TypeOK, EntryType
  <2>3. CASE \E input \in Inputs : token(f, input)
    <3> DEFINE F == {f} \cup {g \in Flows : Live(g)
                                /\ flow[g].address = flow[f].address}
    <3>1. /\ flow[f].step = "token" /\ Remove(F) /\ F \in SUBSET Flows /\ f \in F
          /\ entries' = [entries EXCEPT ![flow[f].address] = Typed]
      BY <2>3 DEF token, CreateEntry
    <3>2. flow'[f].step = "gone"
      BY <1>1, <3>1, Ended
    <3>3. flow[f].address = a /\ entries'[a] = Typed
      BY <2>2, <3>1
    <3>4. entries[a] = NoToken
      BY <2>2, <3>1, <3>3 DEF Stage, Aimed, Adding
    <3> QED
      BY <3>1, <3>2, <3>3, <3>4 DEF TypesInto
  <2>4. CASE \E input \in Inputs : reauth_confirm(f, input)
    <3>1. /\ flow[f].step = "reauth_confirm" /\ Remove({f})
          /\ entries' = [entries EXCEPT ![flow[f].address] = Typed]
      BY <2>4 DEF reauth_confirm
    <3>2. flow'[f].step = "gone"
      BY <1>1, <3>1, Ended
    <3>3. flow[f].address = a /\ entries'[a] = Typed
      BY <2>2, <3>1
    <3> QED
      BY <3>1, <3>2, <3>3 DEF TypesInto
  <2>5. CASE cloud_done(f)
    <3>1. /\ flow[f].step = "cloud_done"
          /\ entries' = [entries EXCEPT ![flow[f].address] = flow[f].fetched]
      BY <2>5 DEF cloud_done, CreateEntry
    <3>2. flow[f].address = a /\ entries'[a] = flow[f].fetched
      BY <2>2, <3>1
    <3>3. /\ entries[a] = NoToken
          /\ flow[f].fetched = Fetched(a, flow[f].region, flow[f].auth)
      BY <2>2, <3>1, <3>2 DEF Stage, Aimed, Adding, Fetches
    <3> QED
      BY <3>2, <3>3 DEF FetchedFor
  <2> QED
    BY <2>1, <2>3, <2>4, <2>5
<1>2. Inv /\ [Next]_vars => [Set]_vars
  BY <1>1
<1> HIDE DEF Set
<1>3. OwnToken <=> [][Set]_vars
  BY DEF OwnToken, Set
<1> QED
  BY <1>2, <1>3, FlowInv, PTL DEF Spec
=============================================================================
