------------------------ MODULE MiSessionProperties ------------------------
(***************************************************************************)
(* What a session must guarantee to its owner and to its keys.             *)
(***************************************************************************)
EXTENDS MiSession

\* An answer that is handed to a request is the answer of this request: no
\* event, and no late answer, unless so many requests were made between the
\* two that the sequence number has come round again.
AnswerOfItsOwn ==
    pending.got \notin {NoFrame, Failure} =>
        /\ pending.got.kind = "reply"
        /\ \/ pending.got.ticket = pending.ticket
           \/ pending.ticket >= pending.got.ticket + SeqMax
           \/ pending.got.ticket >= pending.ticket + SeqMax

\* No received frame counts twice, nor one that is older than the last: a
\* frame is taken as genuine only under a counter above all earlier ones.
NoReplay == \A i, j \in DOMAIN seen : i < j => seen[i] < seen[j]

\* A session that cannot be used any more does not stay so silently: the
\* owner has been told, and once, of a reader that died before the session
\* was being closed.
OwnerToldOnce ==
    [][/\ reader'.at = "dead" /\ ~Closing => told' = 1
       /\ told' # told => told = 0 /\ ~Closing]_vars

\* Nobody waits for an answer that no reader can deliver any more.
NobodyWaitsInVain ==
    \A t \in Tasks :
        pc[t] = "wait" /\ ~Running => pending.got # NoFrame

\* When unsubscribe() has returned, nothing of the session is left running.
ClosedIsQuiet ==
    life = "closed" =>
        /\ reader.at = "off" /\ lock = NoTask /\ pending = NoPending
        /\ \A t \in Tasks : pc[t] \in {"off", "lock"}

\* A frame the queue lost is not passed over: at most the one frame that was
\* being received is still used.
GapStops == since <= 1

\* A charger that counts and sends in order is never accused of a replay,
\* although its frames are handled out of order of their arrival.
NoFalseAlarm == why = "reauth" => repeats > 0

\* The life of the session's transmit key.
Key == INSTANCE NonceKey WITH Limit <- MaxCounter, used <- nonces,
                              closed <- Closing
KeySpec == Key!Spec
=============================================================================
