---------------------------- MODULE XiaomiCloud ----------------------------
(***************************************************************************)
(* lib/xiaomi_cloud.py: the QR login of one dialog, from the request for   *)
(* the code over the long poll for its scan to the redirect that sets the  *)
(* service cookie, the encrypted request for the device list, and the      *)
(* choice of a token in it.  The account server and the user who scans are *)
(* external; a login is known by its number, and so are the cookie and the *)
(* keys it brings.  Time goes in ticks, and each request may take as many  *)
(* as its timeout.                                                         *)
(***************************************************************************)
EXTENDS Naturals, Sequences, SequencesExt

CONSTANTS
    Timeouts,       \* how long the server may say its code is valid
    PollLimit,      \* aiohttp timeout of a poll
    Limit,          \* that of every other request
    Devices,        \* the device lists a region may hold
    MaxLogins,      \* bound on logins
    MaxFaults       \* bound on replies that are not as they should be

ASSUME CloudConstants ==
    /\ Timeouts \subseteq Nat
    /\ PollLimit \in Nat \ {0} /\ Limit \in Nat \ {0}
    /\ Devices \subseteq Seq([mac : STRING, token : STRING])
    /\ MaxLogins \in Nat /\ MaxFaults \in Nat

VARIABLES
    phase,          \* what the login waits for
    login,          \* its number
    jar,            \* the login whose service cookie the session holds
    spent,          \* ticks of the present request or pause
    waited,         \* ticks since the code was issued
    deadline,       \* of the scan, in ticks since the code was issued
    scan,           \* what the user did with the code
    faults,         \* replies out of order so far
    listed,         \* the devices of the reply
    result          \* CloudAuth, token, or the error

vars == <<phase, login, jar, spent, waited, deadline, scan, faults, listed,
          result>>

Nothing == [kind |-> "none", keys |-> 0, cookie |-> 0, token |-> ""]
Error(why) == [Nothing EXCEPT !.kind = "error", !.token = why]

Init ==
    /\ phase = "idle" /\ login = 0 /\ jar = 0 /\ spent = 0 /\ waited = 0
    /\ deadline = 0 /\ scan = "fresh" /\ faults = 0 /\ listed = <<>>
    /\ result = Nothing

Enter(next) == phase' = next /\ spent' = 0
Fail(why) == Enter("over") /\ result' = Error(why)
Faulty == faults < MaxFaults /\ faults' = faults + 1
-----------------------------------------------------------------------------
(***************************************************************************)
(* Time, and the user.                                                     *)
(***************************************************************************)
PAUSE == 1
LimitOf ==
    [starting |-> Limit, poll |-> PollLimit, redirect |-> Limit,
     pause |-> PAUSE, list |-> Limit]
Waiting == phase \in DOMAIN LimitOf

Tick ==
    /\ Waiting /\ spent < LimitOf[phase]
    /\ spent' = spent + 1
    /\ waited' = IF phase = "starting" THEN 0 ELSE waited + 1
    /\ UNCHANGED <<phase, login, jar, deadline, scan, faults, listed, result>>

\* The user scans the code, then approves.
Scan ==
    /\ phase \in {"poll", "pause"} /\ scan \in {"fresh", "scanned"}
    /\ scan' = IF scan = "fresh" THEN "scanned" ELSE "approved"
    /\ UNCHANGED <<phase, login, jar, spent, waited, deadline, faults, listed,
                   result>>
-----------------------------------------------------------------------------
(***************************************************************************)
(* The login.                                                              *)
(***************************************************************************)

\* Each attempt has a session of its own.
NewJar == 0

start_qr_login ==
    /\ phase \in {"idle", "over"} /\ login < MaxLogins
    /\ login' = login + 1 /\ jar' = NewJar
    /\ Enter("starting")
    /\ waited' = 0 /\ scan' = "fresh" /\ listed' = <<>> /\ result' = Nothing
    /\ UNCHANGED <<deadline, faults>>

\* The server issues a code; wait_for_qr_scan begins with its lifetime.
QrIssued ==
    /\ phase = "starting"
    /\ \E timeout \in Timeouts : deadline' = timeout
    /\ Enter("poll")
    /\ UNCHANGED <<login, jar, waited, scan, faults, listed, result>>

\* No reply in time, an HTTP error, or one that is not the JSON expected.
RequestFails ==
    /\ phase \in {"starting", "poll", "redirect"}
    /\ Faulty /\ Fail(phase)
    /\ UNCHANGED <<login, jar, waited, deadline, scan, listed>>

\* The codes the server gives while it waits.
PendingCodes == {"401", "700", "70016"}

\* What the reply of a poll says, from its code and its fields.
PollSays(reply) ==
    IF reply.code \in PendingCodes THEN "pending"
    ELSE IF reply.code \notin {"0", "absent"} THEN "error"
    ELSE IF ~reply.ssecurity THEN "pending"
    ELSE IF ~reply.location THEN "error" ELSE "approved"

Reply(code, ssecurity, location) ==
    [code |-> code, ssecurity |-> ssecurity, location |-> location]

\* The replies of a server in order, and those of one that is not.
PollReplies ==
    IF scan = "approved" THEN {Reply("0", TRUE, TRUE)}
    ELSE IF scan = "scanned" THEN {Reply("700", FALSE, FALSE)}
    ELSE {Reply("401", FALSE, FALSE), Reply("70016", FALSE, FALSE),
          Reply("absent", FALSE, FALSE)}
OddReplies == {Reply("87001", FALSE, FALSE), Reply("0", TRUE, FALSE),
               Reply("0", FALSE, TRUE)}

\* wait_for_qr_scan looks at the clock only when a poll found nothing.
TimedOut == waited >= deadline

\* Mutant: the clock is looked at whatever the poll found.
TakePoll_TimeFirst(reply) ==
    \/ PollSays(reply) = "error" /\ Fail("poll")
    \/ TimedOut /\ Fail("timed out")
    \/ PollSays(reply) = "pending" /\ ~TimedOut
        /\ Enter("pause") /\ UNCHANGED result
    \/ PollSays(reply) = "approved" /\ ~TimedOut
        /\ Enter("redirect") /\ UNCHANGED result

\* The end of poll_qr_login and of the loop around it.
TakePoll(reply) ==
    \/ PollSays(reply) = "error" /\ Fail("poll")
    \/ PollSays(reply) = "pending" /\ TimedOut /\ Fail("timed out")
    \/ PollSays(reply) = "pending" /\ ~TimedOut
        /\ Enter("pause") /\ UNCHANGED result
    \/ PollSays(reply) = "approved"
        /\ Enter("redirect") /\ UNCHANGED result

PollReply ==
    /\ phase = "poll"
    /\ \/ \E reply \in PollReplies : TakePoll(reply) /\ UNCHANGED faults
       \/ \E reply \in OddReplies : TakePoll(reply) /\ Faulty
    /\ UNCHANGED <<login, jar, waited, deadline, scan, listed>>

PauseEnds ==
    /\ phase = "pause" /\ spent = PAUSE
    /\ Enter("poll")
    /\ UNCHANGED <<login, jar, waited, deadline, scan, faults, listed, result>>

\* The redirect sets the cookie, or forgets to.
Redirected ==
    /\ phase = "redirect"
    /\ \/ jar' = login /\ UNCHANGED faults
       \/ jar' = jar /\ Faulty
    /\ \/ jar' = 0 /\ Fail("no cookie")
       \/ /\ jar' # 0
          /\ Enter("auth")
          /\ result' = [Nothing EXCEPT !.kind = "auth", !.keys = login,
                                       !.cookie = jar']
    /\ UNCHANGED <<login, waited, deadline, scan, listed>>
-----------------------------------------------------------------------------
(***************************************************************************)
(* The device list.  A record has a MAC, in whatever notation, and a       *)
(* token, of which only the form matters.                                  *)
(***************************************************************************)
\* What normalize_mac makes of the notations of a MAC.
normalize_mac(mac) == IF mac \in {"AA:BB", "aa-bb", "AABB"} THEN "aabb"
                      ELSE mac
target == normalize_mac("AA:BB")

\* The forms of a token: 12 and 16 bytes, too short, and not hexadecimal.
TokenLength(token) == CASE token \in {"t12", "u12", "z12"} -> 24
                        [] token \in {"t16"} -> 32
                        [] OTHER -> 6
Hex(token) == token # "z12"
First24(token) == IF token = "t16" THEN "t12" ELSE token

\* What the loop of find_token_by_mac has found so far.
Unfound == [token |-> "", invalid |-> FALSE]

\* Mutant: the search ends at the first record of the charger.
Look_FirstOnly(found, dev) ==
    IF found.token # "" \/ found.invalid
       \/ normalize_mac(dev.mac) # target THEN found
    ELSE IF TokenLength(dev.token) \notin {24, 32} \/ ~Hex(dev.token)
    THEN [found EXCEPT !.invalid = TRUE]
    ELSE [found EXCEPT !.token = First24(dev.token)]

Look(found, dev) ==
    IF found.token # "" \/ normalize_mac(dev.mac) # target THEN found
    ELSE IF TokenLength(dev.token) \notin {24, 32} \/ ~Hex(dev.token)
    THEN [found EXCEPT !.invalid = TRUE]
    ELSE [found EXCEPT !.token = First24(dev.token)]

find_token_by_mac(devices) == FoldLeft(Look, Unfound, devices)

\* The request is encrypted and signed with the keys of the login; keys that
\* are not base64 are an error of the cloud as well.
list_devices ==
    /\ phase = "auth"
    /\ \/ Enter("list") /\ UNCHANGED <<faults, result>>
       \/ Faulty /\ Fail("signing")
    /\ UNCHANGED <<login, jar, waited, deadline, scan, listed>>

\* No reply, or one that cannot be decrypted, or holds no list.
Unreadable ==
    /\ phase = "list" /\ Faulty /\ Fail("list")
    /\ UNCHANGED <<login, jar, waited, deadline, scan, listed>>

\* The reply, decrypted with the keys of the login.
Listed ==
    /\ phase = "list"
    /\ \E devices \in Devices :
        LET found == find_token_by_mac(devices) IN
        /\ listed' = devices
        /\ Enter("over")
        /\ result' =
             IF found.token # "" THEN [Nothing EXCEPT !.kind = "token",
                                                      !.token = found.token]
             ELSE IF found.invalid THEN Error("invalid token")
             ELSE [Nothing EXCEPT !.kind = "not found"]
    /\ UNCHANGED <<login, jar, waited, deadline, scan, faults>>

Replied == QrIssued \/ RequestFails \/ PollReply \/ Redirected \/ Listed
           \/ Unreadable
Next == Tick \/ Scan \/ start_qr_login \/ Replied \/ PauseEnds \/ list_devices

\* Time passes, requests are answered or time out, steps are taken.
TimesOut == Waiting /\ spent = LimitOf[phase] /\ (Replied \/ PauseEnds)
Fairness == WF_vars(Tick) /\ WF_vars(TimesOut) /\ WF_vars(list_devices)

Spec == Init /\ [][Next]_vars /\ Fairness
=============================================================================
