# A formal model of the CUKTECH BLE integration

The repository is a Home Assistant integration for a CUKTECH AD1204U USB
charger.  It speaks the Mi BLE standard-auth protocol and an encrypted MIOT
request/response protocol over one Bluetooth connection, which it shares between
periodic polls, writes of settings, pushed property changes, an idle release and
a shutdown.  This directory holds TLA+ modules that model the program, TLC
configurations that check them on small instances, and TLAPS proofs about them
for every instance.

Paths below are relative to `src/custom_components/cuktech_ble/` unless they
start with another directory of the repository.

## 1. Inventory

| Component | State it keeps | Operations | Talks to | What makes it correct | Modelled |
|---|---|---|---|---|---|
| **Coordinator** (`coordinator.py`) | client, auth and session; the client being connected; a generation; a lock; idle and cleanup tasks; property cache, pending pushes, baseline session | poll, write, idle release, background cleanup, shutdown, disconnect / session-error / push callbacks | session and auth client (calls), bleak (callbacks), Home Assistant (refresh loop) | one client at a time; nothing stranded; nothing stale shown; lease and shutdown end | yes, section 3 |
| **MIOT session** (`lib/xiaomi/session.py`) | nonce counters, pending request, reader task, two notification queues | subscribe, initialize, send_request, reader loop, unsubscribe | auth client, coordinator callbacks | no nonce used twice, an answer reaches its own request, nobody waits in vain, one fatal-error report | yes, section 5 |
| **MIOT parcels** (same file) | deferred inline frames, parts of the current parcel | `_send_encrypted`, `_recv_encrypted`, `collect_pushes` | GATT characteristics 001a and 001b | reassembly is exact or fails; a loss is noticed; counters only grow; bounded memory | partly, section 5 |
| **Mi auth client** (`lib/xiaomi/auth.py`) | two notification queues, subscription flags | subscribe, greet, login, register, unsubscribe | GATT characteristics 0010 and 0019 | keys only after mutual proof; a wrong token told apart from a bad link; both ends bound with one token | yes, section 6 |
| **Crypto** (`lib/xiaomi/crypto.py`) | none | HKDF, HMAC, ECDH, AES-CCM | `cryptography` | library computation | symbolically, section 6 |
| **Config flow** (`config_flow.py`) | QR login, QR task, fetch task, errors, cloud session | bluetooth, user, method, QR, fetch, error, token, reauth and options steps | cloud client, Home Assistant's flow manager | no step reads what a previous attempt left behind; a charger gets its own token | yes, section 7 |
| **Cloud client** (`lib/xiaomi_cloud.py`) | none across calls | QR long poll, device list, token lookup | HTTP | the poll ends; an approval counts; a usable token is found if there is one | yes, section 8 |
| **Entry setup** (`__init__.py`) | runtime data | setup, unload, reload, repair of devices and old switches | coordinator | the charger is free when the entry is not loaded; what is loaded is what is stored; only a rejected token asks for a new one | yes, section 9 |
| **Property codec** (`lib/xiaomi/properties.py`) | none | encode / parse requests, responses, notifications, set results | session | parse inverts encode; every cut is rejected | yes, section 10 |
| **Capture tools** (`src/tools/*btsnoop*`, `mible_decrypt.py`) | unfinished frames, login epoch, unfinished parcels | reassemble, decrypt and decode captures | files | what was captured whole is printed as it was meant | partly, section 10 |
| **Ports and PDO words** (`lib/ports.py`), **FE95 parser** (`lib/fe95.py`), **firmware version** | none | decode one word, one advertisement, one string | sensors, config flow, scanner | one pass over one value | no |
| **Scanner** (`lib/scanner.py`) | best advertisement per address | scan | bleak | pure collection | no |
| **Entities** (`sensor.py`, `switch.py`, ...) | none | read snapshot, call `async_set_property` | coordinator | views of a record | no |
| **Interactive tools** (other `src/tools`) | none | scripts | the library | sequential | no |

What is hard here, part by part:

* In the coordinator a dozen activities meet on one asyncio event loop, every
  `await` lets the others run, the resource is one physical slot ("The charger
  only accepts a single Bluetooth client", `docs/usage.md`), and the failures
  (link loss, silence, a missed callback, cancellation) can hit any of them.
* In a session, requests, the one reader, an owner that unsubscribes and a
  charger that sends at any time share two bounded queues and two nonce counters.
* A login reads two characteristics in an order the charger chooses, and frames
  of an attempt that timed out may still arrive in the next one.
* A dialog goes back and forth while tasks of its own poll the cloud, and Home
  Assistant runs its steps again when they end.
* Setup, reload and unload follow each other while a coordinator may hold the link.

The complete list of hazards, with the line each one bites at and the
properties that watch it, is `hazards` in `PROJECT.json`.

## 2. Plan

| Order | Module | Content | Theorems |
|---|---|---|---|
| 1, done | `PeerSlot` | abstract: the charger's one peer slot | refined by 2 |
| 2, done | `Coordinator`, `CoordinatorProperties`, `MCCoordinator` | the connection owner | every safety property |
| 3, done | `NonceKey` | abstract: the life of a key whose nonce is a counter | refined by 4 |
| 4, done | `MiSession`, `MiSessionProperties`, `MCMiSession` | requests, reader, nonces, unsubscribe, stale control frames, parcels with deferred frames and the drop-oldest queue | every safety property |
| 5, done | `MutualLogin` | abstract: the order in which a login shows its proofs | refined by 6 |
| 6, done | `MiAuth`, `MiAuthProperties`, `MCMiAuth` | greeting, login and registration against a charger that may be silent, reject or answer out of turn | types, `ProofAfterProof`, `MutualSpec`, `BoundTogether`, `NeverMixed`, `InvalidIsInvalid` |
| 7, done | `ConfigFlow`, `ConfigFlowProperties`, `MCConfigFlow`, `ConfigFlowProofs` | dialogs, their tasks and sessions, and Home Assistant around them | types, `OwnToken`; `Asserted` and `ShownIsPolled` where a dialog's form is submitted once at a time |
| 8, done | `XiaomiCloud`, `XiaomiCloudProperties`, `MCXiaomiCloud` | the QR login, its polls and the choice of a token | types, `TokenIsOurs` for lists of any length, `OwnCookie` |
| 9, done | `EntrySetup`, `EntrySetupProperties`, `MCEntrySetup`, `EntrySetupProofs` | setup, unload, reload, reauthentication | all safety properties |
| 10, done | `PropertyCodec`, `Capture`, `CaptureProperties`, `MCCapture`, `CaptureProofs` | both readers of the property messages, and the capture tool | `ReadsBack`, `SetConfirmed`, `Decoded` for entries of any number and kind |
| left | `CoordinatorSession` | the coordinator over `MiSession` instead of the abstract reader | none |

`CoordinatorSession` is left because the product is far beyond an exhaustive
run: the two modules have 941 and 493 thousand states for their smallest
interesting instances.  What the two promise each other is checked on either
side: `MiSession` tells its owner once and leaves nothing running
(`OwnerToldOnce`, `ClosedIsQuiet`), and `Coordinator` takes a reader that may
fail at any moment, tells it once and may survive its `unsubscribe()`.

Modules that are proved about declare no RECURSIVE operator; recursion is
written as recursive functions or folds.  Types are stated in the
`...Properties` modules (not for the variables of a capture); those of sections
3 and 5 to 9 are theorems.

## 3. The coordinator

### State

| Variable | Code |
|---|---|
| `current` | `_client`, `_auth` and `_session`, which are set and cleared together between two awaits |
| `connecting` | `_connecting_client` |
| `open` | clients returned by `establish_connection` on which `disconnect()` has not been tried yet |
| `link`, `notices` | `client.is_connected`; disconnect callbacks scheduled with `call_soon_threadsafe` |
| `readers`, `wire`, `spent` | per session: reader task running, frames not read yet, a counter exhausted |
| `lock`, `pc`, `mode` | who is inside `async with self._lock`; where each poll or write is suspended |
| `op` | the holder's locals: `session`/`client`, whether the captured generation is still the current one, the request and its answer |
| `rel` | the arguments of `_cleanup_resources` that are still to be released |
| `props`, `pend`, `baseline`, `pubPending` | `_property_values`, `_pending_notification_values`, `_baseline_session`, `_notification_publish_pending` |
| `pubs`, `data`, `success` | queued `_publish_notification_update` calls; the coordinator's `data` and `last_update_success` |
| `idle`, `cleanup`, `stop` | `_idle_task`, `_disconnect_task`, `async_shutdown` |
| `dev` | the charger's own property values |
| `failed` | history variable: clients a callback has reported as failed while attached |

One action is what the event loop runs between two awaits.  Three abstractions
keep it finite:

* *Generation.*  `_connection_generation` only ever is compared with the value
  the lock holder captured, so `op.same` records whether they are still equal.
  It is set at each capture and cleared wherever the code increments the counter.
* *Values.*  A property value is the version the charger gave it, 0 when absent.
  That is all that "stale", "lost" and "newer" can tell apart.
* *Clients.*  A client's name is reused once nothing of the old client (callback,
  queued publication, timer, cleanup, reader with frames) is left (`Forgotten`).
  A leftover reader that already runs dry would stay silent for ever after.

The setup between the connection and the settle delay is one stage that can end
at any moment with any prefix of session, auth client and client created.
`unsubscribe()` and `disconnect()` may time out; a reader may survive its
`unsubscribe`; `disconnect()` may or may not trigger a callback and may leave the
link up.  BlueZ may lose a disconnect callback.  A poll is one
`get_properties` request, a write one `set_property` request, as in the code.
While a session is set up, its reader already runs; what it pushes is dropped
because it is not the current session.

External, modelled from what the coordinator sees: Home Assistant's refresh loop
(`Start`, `Reported`: it starts no refresh after shutdown was requested, a failed
refresh clears `last_update_success`, a completed one sets it), cancellation of
the calling task (`Cancel`), bleak and BlueZ (`LinkDrop`), and the charger
(`Serve`, `Change`: it pushes a change to its peer before it answers a later
read).

`async_shutdown` is called once.  A second call finds nothing attached and no
timer, and changes nothing.  Cancelling the shutdown itself is not modelled.

### Properties

Safety, in `CoordinatorProperties.tla`:

* `NoOrphan` - an established client is always known to somebody who will
  disconnect it.
* `SlotSpec` - the coordinator implements `PeerSlot`: a client is established
  only when no other one is open, and none after the shutdown.
* `NoResurrection` - after a failure was reported, nothing makes entities
  available again for that connection.
* `LiveBaseline` - what is shown as live comes from the attached session, whose
  reader runs and which nobody has reported failed (proved, section 4; no run).
* `LeaseHeld` - an attached connection always has a running timer for exactly
  that client.
* `ShutdownIsFinal` - after the shutdown no client is open, no task of the
  coordinator is left, nobody holds the connection.
* `CleanupOnlyFailed` - a queued cleanup takes down only a failed connection.
* `NoLostUpdate`, `QuietFresh`, `NoRegress` - pushes and reads in any order:
  every change is shown or about to be, nothing stale stays, nothing goes back.

Liveness: `ShutdownCompletes`, `LeaseExpires`.

### Runs

| Run | Instance | Why it is enough |
|---|---|---|
| `lifecycle` | 2 tasks, 2 clients, lease of 1 tick, 1 key whose value never changes; cancellation everywhere except inside an unprotected release | two tasks and three agents contend for the lock; two clients give "the old one and its replacement"; 941 thousand states up to symmetry |
| `data` | 1 task, 2 clients, 1 key with 3 versions, no lease; not shutting down | three versions order an old read, a push and a newer push; two clients let frames of the old session meet the new one; values of different keys do not interact; 3.2 million states |
| `liveness` | 2 tasks, 1 client, lease of 2 ticks, cancellation at every await | a second task is needed to compete with the shutdown and to keep polling |
| `secondcancel` | 1 task, 1 client | a violation, see section 11 |

Bounds: `MaxVersion` (how often a property changes), `IdleRelease` (ticks of the
lease; only whether it is over matters), the sizes of `Tasks`, `Conns` and `Keys`,
`CancelAt` (the awaits at which a task may be cancelled: `undo` is the shielded
cleanup of a setup, `undoBare` the same after a first cancellation, `refit` and
`drop` are `_disconnect()` before a reconnect and after a failure) and, in
`data`, the constraint `NotStopping`.  Queues need no bound: each
push consumes a version.  `SYMMETRY` permutes tasks and clients and is used only
where no liveness property is checked.  Deadlock is checked in every run.

Each passing property is also run against a plausible bug, a definition named
after the one it replaces with a suffix (`Captured_TooLate`,
`ConnectionUnchanged_NoGeneration`, ...): all of them are caught.

### Fairness

Every await of a lock holder is bounded by a timeout in the code
(`establish_connection(timeout=...)`, the session's timeout, the timeout in
`_cleanup_resources`), so the holder's steps are weakly fair.  `asyncio.Lock`
serves its waiters first come, first served; the model grants the lock in any
order, and strong fairness of each acquisition stands for the queue.  Timers are
weakly fair.  Nothing is assumed of the charger, the radio, writes or
cancellation.

## 4. Proofs

`CoordinatorProofs.tla`, for arbitrary `Tasks`, `Conns`, `Keys` and bounds that
satisfy `ConstantsAssumption`:

* `TypeCorrect`: `Spec => []TypeOK`.
* `NeverOrphaned`: `Spec => []NoOrphan`, assuming `NoReleaseCancelled` (no
  cancellation at `undoBare`, `refit` and `drop`).  Without the assumption it is
  false: that is what the run `secondcancel` shows.
* `ShutdownFinal`: `Spec => []ShutdownIsFinal`, under the same assumption.
* `ImplementsSlot`: `Spec => SlotSpec`, under the same assumption.

The inductive invariant is `Inv == TypeOK /\ Ownership`.  `Ownership` says who
may know a client: the lock belongs to the task inside its critical section
(`LockOwned`), only the holder releases (`ReleaseOwned`), a client is being set
up exactly by the holder in its setup (`SetupOwned`), and a connection is
attached only while nobody reconnects or releases (`AttachedOwned`).  `NoOrphan`
alone is not inductive: a release started while another client is being set up
would overwrite one of the three places; `Ownership` excludes it.  There is one
lemma per action for `Inv`, then one pass over the actions for each further
property.  `ShutdownOwned` adds what is special about the shutdown: after its
release the lock stays free, nothing is attached and no timer is armed.

The second part of `CoordinatorProofs.tla` builds on `Inv` and needs no
assumption about cancellation:

* `AlwaysLeased`: `Spec => []LeaseHeld`, inductive on top of `Inv` because an
  agent or a task that releases has nothing attached (`AgentDetached`).
* `NeverResurrected`: `Spec => []NoResurrection`, and `AlwaysLive`:
  `Spec => []LiveBaseline`, both from the strengthening `Shown`: an attached
  client is open (`OpenKnown`), a client with a callback on its way is down
  (`NoticedDown`), a request that got through on the captured generation has a
  running reader (`AnswerLive`), and a failed connection that is still attached is
  down or does not read any more (`FailedDead`).
* `NothingLost`: `Spec => []NoLostUpdate`, with `PubQueued`: a pending flag next to
  a completed read means that a publication for this session is queued.
* `OnlyFailedCleaned`: `Spec => CleanupOnlyFailed`, with `CleanupAimed`: a cleanup
  is about a failed client for as long as this one is around, and while it
  releases it holds the lock, which keeps every task out (`TasksKeptOut`).

* `FreshWhenQuiet`: `Spec => []QuietFresh`, and `NeverBack`: `Spec => NoRegress`,
  both from `Telling`, which follows every value from the charger to the entities.
  What a session has still to tell of a property never goes back, is not ahead of
  the charger and is not older than what entities show (`Streams`); cache, pending
  push and answer are of the attached session and not newer than what it has still
  to tell (`Cached`); what is shown is not newer than the cache, nor than what an
  answer will put there (`NotNewer`); and what no push will correct any more is
  what the charger has (`UpToDate`).  A frame of an old session cannot be in the
  way: only the attached session and the one being set up have anything to tell,
  and while a request is under way no other session is set up (`Asking`).
  Neither property is inductive without `Streams`: an older value in the wire would
  be published after a newer one.  TLC checked `Telling` on the instance `data`
  before it was proved.

Only model-checked: the liveness properties (fairness and ENABLED are out of the
prover's reach).

## 5. The session

### State

| Variable | Code |
|---|---|
| `life` | how far `subscribe()` and `unsubscribe()` have come: `new`, `half` (responses subscribed), `open`, `stopping`, `left` (unsubscribe abandoned by its caller), `closed`; `_closing` is the last three |
| `tx`, `rx`, `seqNext` | `_tx_counter`, `_rx_counter`, `_request_seq` |
| `told` | `_fatal_error_reported`, as a count |
| `lock`, `pc`, `mine` | `_request_lock` and `_request_task`; where each task is suspended; the request it built |
| `pending` | `_pending_seq`, `_pending_opcodes`, `_pending_response` |
| `reader`, `deferred`, `why` | `_reader_task` with the locals of `_recv_encrypted`; `_deferred_frames`; `_reader_error` |
| `resp`, `gap`, `ctl`, `ctlGap` | the two `_ChannelQueue`s; `dropped > 0` |
| `owed`, `todo`, `dctr`, `xfer`, `repeats` | the charger: control frames on their way, unanswered requests, its counter, the long frame it is sending, repeated deliveries |
| `calls`, `nonces`, `seen`, `since` | history: tickets of requests, counters that encrypted, counters taken as genuine, frames used after a loss |

One action is one run of the event loop between two awaits, or a notification.

* *Frames* have a counter, a kind, a sequence number and, as history, the ticket
  of the request they answer.  Kind `reply` means an opcode the pending request
  expects, `event` any other, `noise` a frame that does not decrypt.  An echo of
  a setting carries the sequence number of its request with another opcode, as
  `test_property_echo_with_matching_sequence` has it.
* *Writes* take effect when they are started or, if lost, never: the charger then
  stays silent.  The parcels of a request are one write.
* *Control frames* carry no number.  Those of a request that was given up stay on
  their way or in the queue and may serve the next one, as in the code.
* *Failures.*  `RequestFails` is a timeout, a failed write, an overflow of the
  control queue or a cancellation, at every await.  `ReaderFails` is a failed
  acknowledgement or a missing parcel.  `unsubscribe()` cancels the request and
  the request ends in one step; it may be abandoned and called again.
* *The charger* counts its frames in the order it announces or sends them, which
  is the order `src/tests/test_xiaomi_session.py:336` uses: a long frame that is
  interrupted by an inline one has the smaller counter.  A charger that numbered
  a long frame only when it is granted would be taken for a replay; nothing in
  the repository says that one does.
* A session is subscribed once, as `coordinator.py` and the tools do.

### Properties

* `AnswerOfItsOwn` - the answer handed to a request is this request's own, unless
  the sequence number has come round between the two.
* `NobodyWaitsInVain` - nobody waits for an answer that no reader can deliver.
* `OwnerToldOnce` - the owner learns of a reader that died, once, and of nothing
  once it is closing.
* `ClosedIsQuiet` - `unsubscribe()` leaves nothing running.
* `KeySpec` - the session implements `NonceKey`: no counter encrypts twice, even
  when requests are cancelled half way.
* `NoReplay`, `NoFalseAlarm` - counters taken as genuine strictly increase, and a
  charger that does not repeat itself is never accused, although deferred frames
  are handled out of the order of their arrival.
* `GapStops` - at most one frame is used after the queue has lost one.

### Runs

| Run | Instance | Why it is enough |
|---|---|---|
| `requests` | 2 tasks, 4 calls, counters 0..1, sequence numbers 1..2, queues of 2, inline frames | a second request meets what the first left behind; four calls let the sequence number come round; two counters exhaust the key; 493 thousand states up to symmetry |
| `frames` | 1 task that makes no call, counters 0..3, parcels of 2, queue of 3, 2 deferred frames, 1 repeated delivery | four frames fill, overflow and reorder every queue; what the reader does to a request is in `requests`; 1.2 million states |

Bounds: `MaxCalls` and `MaxRepeats` limit how often something happens;
`MaxCounter`, `SeqMax`, `QueueMax`, `DeferMax` and `Parts` are the code's 0xFFFF,
0xFFFF, 64 and 16, 16 and 64, made small so that each limit is reached.  A
session ends, so deadlock is not checked.

### Proofs

`MiSessionProofs.tla`, for arbitrary constants that satisfy `SessionConstants`,
with nothing assumed of the charger or the radio:

* `SessionTypeCorrect`: `Spec => []TypeOK`.
* `Answered`: `Spec => []NobodyWaitsInVain`; `Quiet`: `Spec => []ClosedIsQuiet`.
* `ToldOnce`: `Spec => OwnerToldOnce`.
* `NeverReplayed`: `Spec => []NoReplay`; `StopsAtGap`: `Spec => []GapStops`.
* `KeyKept`: `Spec => KeySpec`, the refinement of `NonceKey`.
* `OwnAnswer`: `Spec => []AnswerOfItsOwn`.
* `NeverAccused`: `Spec => []NoFalseAlarm`.

The inductive invariant is `IInv`.  `Owned` ties the lock, the suspended task and
the pending request together and keeps all three inside an open session: without
it, "nobody waits in vain" could be broken by a task that waits without having
registered.  `Alive` says that a reader that died has answered the request it
left and told the owner.  `Counted` says that the transmit counter is the number
of encryptions, which makes the step `Append(nonces, tx)` the abstract
`Append(used, Len(used))`.  `Above` keeps the receive counter above all that was
taken.  `Noticed` says where the reader stands once a frame was used after a
loss.  `ReaderKeeps`, `LeaveKeeps` and `ChargerKeeps` say once what the steps of
each actor have in common, so that each part needs one short proof.

`OwnAnswer` needs `NumberInv`: wherever a request or its answer is (with its task,
at the charger, in a long frame, in the queue, deferred, or handed over), its
sequence number is its ticket modulo `SeqMax`, without the zero.  Two tickets with
one number are then a whole round apart, which is the exception the property
makes.

`NeverAccused` needs `OrderInv`: as long as nothing was repeated and the reader has
not given up, it meets the frames in the order of their counters, wherever they
wait.  `Rising` says so of the queue, `PutOff` of the deferred frames, which come
before the rest of the queue.  The counter of a long frame is fixed when it is
announced, so `Announced` gives the announcement the place of the frame, `Granted`
and `PartsComing` say that until its last parcel is there nothing with a greater
counter gets ahead of it, and `Current` says it of the frame in the reader's hands.
A loss (`gap`) suspends the last three: a frame whose parcels were dropped never
comes.

Every safety property of the session is proved.  It has no liveness property.

### Not modelled

`captured_frames` and `collect_pushes` (a diagnostic history), the limit on the
parcels of an outgoing request, malformed frames that are too short to be parsed,
and an announced parcel count out of range.

## 6. The authentication

### State and actions

| Variable | Code |
|---|---|
| `goal`, `token`, `hint`, `attempts`, `result` | the caller: `coordinator.py` and the tools make a fresh `MiAuthClient` per attempt, register, store the token, log in |
| `pc`, `blocked` | the receive the coroutine is in, and whether it found its queue empty |
| `peer`, `frames`, `expected`, `remote` | `dev_rand` or the charger's public key; the locals of `_recv_parcel`; `remote_info` |
| `subscribed`, `queue`, `dropped` | `_subscribed` and the two `_ChannelQueue`s |
| `up`, `down`, `lost`, `noise` | the link: what is in flight, and its faults |
| `dmode` ... `dsession` | the charger, as `tests/test_xiaomi_mi.py` and the client expect it |
| `shown`, `answered` | history: the proofs each side has sent |

`TakeChallenge`, `TakeReady`, `TakeOk`, `TakeVariant`, `TakeAnnouncement`,
`TakeParcel` and `TakeConfirmation` are what the client does with the frame it
received; `Refused`, `Overflown` and `TimesOut` are the ways `_recv` raises.
A step runs to the next receive, so what the code sends in between (an
acknowledgement, a command, the next announcement) is part of it.

Cryptography is symbolic: a key is a record of token and random numbers, a proof
or a ciphertext names the key it was made with, two of them are equal only if
their inputs are.  Nobody forges; a frame may be lost, late or out of turn.

### Properties

* `ProofAfterProof` - the host's proof leaves only after the charger's was verified.
* `MutualSpec` - a login implements `MutualLogin`: charger's proof, host's proof,
  session, keys, in this order and for one pair of random numbers.
* `InvalidIsInvalid` - "invalid token", which makes Home Assistant ask for
  another one, is reported only if the charger holds another one.
* `NeverMixed` - the parcels of a value are of one transfer.
* `BoundTogether` - when `register()` returns, both ends hold the same token.
* `AttemptEnds` - every procedure ends, if the charger sends finitely many frames
  out of turn: `_recv_until` (`auth.py:185`) starts its timeout anew with each frame
  it discards, and nothing bounds a procedure as a whole (section 11).
* `Succeeds` - a procedure that can succeed does once no fault is left, unless the
  connection breaks.

### Runs

| Run | Instance | Why it is enough |
|---|---|---|
| `auth` | registration and login, 2 attempts, MTU 40, queues of 2, one frame lost, one frame out of turn (an error, an announcement or a parcel; all but the error are discarded); 539 thousand states | two attempts: a registration and the login with its token, or a failed attempt and its repetition; with this MTU a proof is one parcel and a public key two |
| `auth_slow` | login, 2 attempts, no known MTU (parcels of 18 bytes), frames that outlive a timeout, errors, acknowledgements and confirmations out of turn | frames of the first attempt meet the second; a proof takes two parcels |

Bounds: `MaxAttempts`, `MaxLost`, `MaxNoise`; `QueueMax` is the code's 64 made
small, so that the queue overflows.  `Slow = FALSE` says that what is in flight
arrives before a receive times out.  `MutualSpec` and `BoundTogether` need it: a
confirmation carries no name, so one of an earlier attempt on the same connection
would be taken for the present one's.  `coordinator.py` drops the connection
after a failed attempt and is not exposed to that; `tools/sweep_logger.py` tries
again on the same connection.

Fairness: the event loop runs the host, the link delivers what it does not lose,
the charger handles what it was sent.  With `Slow = FALSE` a receive times out only
once nothing is in flight, which is why `AttemptEnds` needs the link and the
charger to go on as well.  `MaxNoise` is for `AttemptEnds` more than a bound of the
run: it is the assumption that the charger stops sending frames out of turn.

### Proofs

`MiAuthProofs.tla`, for any tokens, MTU, capacities and bounds that satisfy
`AuthConstants`, with frames late or not:

* `Types`: `Spec => []TypeOK`.
* `NothingBeforeProof`: `Spec => []ProofAfterProof`, inductive with `VouchInv`: a
  proof of the charger's, on the link, in a queue or among the parcels, is of keys
  the charger has shown to know, and the host announces its own proof only for such
  keys.  A value put together from parcels counts only if all of them are of it
  (`Joined`), so a mixture of two proofs is none.

In the second part of `MiAuthProofs.tla`, under `InTurn`: frames do not outlive a timeout (`~Slow`)
and no confirmation is made up out of turn (`"loginOk" \notin OddKinds`).  Without
either the property is false, since a confirmation names no keys:

* `LoginIsMutual`: `Spec => MutualSpec`, the refinement of `MutualLogin`, with
  `MutualInv`: a host's proof on the link is of the present keys and nothing but
  parcels follows it (`ProofsGoing`); what the charger has collected of one was
  sent (`ProofsHeard`); and "logged in" on its way means that the charger's session
  has the present keys and that nothing still on its way to the charger will change
  them (`ConfirmationComing`).

`MiAuthAttemptProofs.tla`, under `~Slow` alone:

* `Bound`: `~Slow => (Spec => []BoundTogether)`.  `BindInv` says that a ciphertext
  of the DID which is going to the charger, or which it has collected, was made with
  the secret of the present attempt (`CipherGoing`, `CipherHeld`; it holds none yet
  when the host is about to take the key that makes the secret); that `CMD_AUTH` is
  the last a registration writes (`AuthLast`); and that "bound" on its way means
  that the charger has the present secret and no `CMD_AUTH` can change it any more
  (`BoundComing`, `Settled`).
* `Unmixed`: `~Slow => (Spec => []NeverMixed)`.  Parcels carry an index and no name, so
  the argument is about the order of all that is in flight.  `TransferInv` says
  that what the host has sent is in the order of the procedure (`GoingInv`); that
  an offer on its way to the host is the one the charger makes now, that only noise
  is behind it (`NoiseBehind`) and only parcels, which the charger ignores, are on
  their way to it (`OfferComing`); and that while the host collects, the charger
  offers or sends the value the host waits for, so every parcel on the link and
  every one collected is of it (`Collecting`).  Parcels out of turn have number 9
  in the model, and `FewParcels` shows that no value takes as many for any MTU.

* `JustAccusation`: `~Slow => (Spec => []InvalidIsInvalid)`.  "Invalid" has two sources:
  the charger's rejection, and a proof of the charger's that is not of the host's
  keys.  `LoginInv`, on top of `TransferInv`, says that the two sides go by the same
  two random numbers from the charger's number on (`NumberHeard`, `Agreed`), so
  proofs differ only where the tokens do; that a charger whose proof the host has
  accepted has the host's keys and is sent a proof of these (`ProofOwn`); and that a
  rejection never is on its way while the host can still get so far (`Rejected`): a
  charger left in an earlier attempt may take the first parcels it hears for the
  proof it waits for, but then no number of the host's is left for it to answer.
  That a new registration cannot make the report false afterwards is
  `Settled` of `BindInv`.

Only model-checked: the liveness properties, and with late frames `InvalidIsInvalid`
and `NeverMixed` (run `auth_slow`): there a parcel of an earlier transfer may be on
the link, and `TransferInv` does not hold.

## 7. The config flow

### State and actions

`flow[f]` holds the fields of one `AD1204UConfigFlow` (`address`, `_qr`, `_qr_task`,
`_qr_error`, `_auth`, `_fetch_task`, `_fetch_error`, `_fetched_token`, `_region`,
`_session`) and the dialog it shows; `tasks` are the asyncio tasks made so far,
`sessions` and `open` the HTTP sessions, `entries` the token of each configured
charger.  A dialog's step is an action named after it; `QrDone`, `Fetch` and
`FetchDone` are the runs of `cloud_qr` and `cloud_fetch` that Home Assistant
makes when a task ends.  The one await inside a step at which other steps of
the same flow can run is `start_qr_login`: `cloud_region` goes up to it,
`QrStarted`, `QrStartFailed` and `QrStartRaised` go on from it.  A task ends `ok`,
`failed` (a `CloudError`), `cancelled`, or `raised`: with an exception that is none
of these, such as the `UnicodeDecodeError` of `r.text()` on a body that is no text.
No step catches it, so the step Home Assistant runs at the end of such a task
raises it again and changes nothing.

A login is the number of its QR code, a token what it was fetched for: that is
all a mix-up could show.

### Properties

* `OwnToken` - a charger's token changes only if the user types it, or to a token
  fetched for this charger in the region and with the QR code of the present
  attempt; a configured charger keeps its token whatever stale dialog is confirmed.
* `Asserted` - the assertions at the head of `cloud_fetch` and `cloud_done` hold.
* `ShownIsPolled` - the QR code on the screen is the one that is polled.
* `ProgressEnds` - a progress dialog does not stay for ever, unless its task has
  raised what no step catches (`Raised`, section 11).

The last three speak of dialogs whose region form is submitted once at a time
(`SubmittedOnce`), whatever happens in the others.  Nothing in the code or in Home
Assistant ensures that; with two submissions at a time all three fail (section 11).
`OwnToken` needs no such condition.

### Run

`flow`: two dialogs, two addresses of which one is a charger's, two regions,
two region forms, which may be submitted at the same time (`MaxCalls = 2`), dialogs
that may be closed at any time (`CloseAnytime = TRUE`); 86 thousand states.  Two
dialogs compete for one charger; two submissions are an error, a second attempt
and what the first left behind, or two requests under way.  Fairness: every
task ends (the scan at its deadline, a request at its timeout), and Home Assistant
runs the step again.

### Proofs

`ConfigFlowProofs.tla`, for any flows, chargers, regions, number of attempts,
number of requests at a time (`MaxCalls`) and `CloseAnytime`:

* `FlowTypeCorrect`: `Spec => []TypeOK`.
* `OwnTokenKept`: `Spec => OwnToken`.
* `AlwaysAsserted`: `Spec => Asserted`, and `AlwaysShownPolled`:
  `Spec => ShownIsPolled`, each of the dialogs submitted once at a time.

There are two invariants.  `Inv` holds always: `Brings` says that a task brings
nothing but what it was made for, and `Stage` what a flow remembers at each of its
dialogs, which it does even if a late answer has moved it.  `Scans` says that a
fetch comes after the scan that granted the login, `Fetches` that it is for the
charger, region and login the dialog has now.  `Aimed` says that a dialog which adds a
charger is about one that is not configured: it survives because whoever
finishes first ends the others.  `StartsBlank` is the reason
`_reset_cloud_attempt` exists: at the region form nothing of an earlier login is
left.  `TasksKept` is about a step: tasks keep what they were made for, and
what has ended well stays so; so the step of one flow leaves the others alone.

`Once(f)` is inductive on top of it as long as at most one request of `f` is under
way (`OnceKept`): the flow is then still at the region form (`AwaitsOnce`), so that
the answer finds it blank, makes a new task, and the code shown, the task and the
region are of one attempt (`Polls`).  A second request breaks `AwaitsOnce`: the
answer to the first moves the flow on before that to the second arrives.

Only model-checked: `ProgressEnds`.

## 8. The cloud client

`XiaomiCloud` is one QR login with its clock: `starting`, `poll`, `pause`,
`redirect` and `list` are the requests of `start_qr_login`, `poll_qr_login`,
`wait_for_qr_scan` and `list_devices`, and each may take up to its timeout.
`PollSays` is the classification of a poll's reply, `find_token_by_mac` the loop
over the records.  RC4, signature and JSON are a reply that can be read or not;
a reply whose cipher decrypts to something that is no text is outside the model,
and so is a body that is no text, on which `r.text()` raises no `CloudError`: what
that does to a dialog is in section 7.

* `ApprovalCounts` - an approval counts although the deadline has passed while it
  was on its way: the clock is looked at only when a poll found nothing.
* `TokenIsOurs` - the token is that of the first good record of this charger,
  however many bad ones precede it, and "not found" means that there is none.

Run `cloud`: two logins, one fault, codes valid for 0, 2 or 6 ticks against polls
of at most 3, every list of at most two records of 3 notations and 5 forms; 30
thousand states.  Ticks matter only in their order; two records show every order
of a bad and a good one.  Fairness: time passes, requests end.

Proved in `XiaomiCloudProofs`, for all timeouts, lifetimes and device lists:

* `RightToken`: `Spec => []TokenIsOurs`.  `find_token_by_mac` is a fold, whose
  definition in the community modules is a recursive function over the sets of
  places of the list.  `BodyDefined` shows by induction that this function exists,
  `LoopSteps` reads it as what the loop has found after each record, and
  `LookStep` shows that `FoundIn` (the first good record so far, or none and
  whether there was a bad one) survives a turn of the loop.  The induction is
  `Induction`: its predicate is a set, since the provers cannot instantiate the
  operator that the library's induction theorems take; it rests on the
  well-foundedness of the naturals, which the library states without one.
* `CookieOfLogin`: `Spec => []OwnCookie`, the keys and the cookie of the device
  request are of the present login; inductive with `JarOwn`, that the session
  holds no cookie of another one.
* `CloudTypeCorrect`: `Spec => []TypeOK`.

Only model-checked: `ApprovalCounts`, which is liveness.

## 9. Entry setup

### State and actions

`lifecycle` is the state of the entry and where its setup or unload awaits,
`data` what is stored, `used` what the present coordinator was made with, `held`
the coordinators that hold the charger's connection, `listening` and `reloads`
the update listener and what it requested, `parent`, `child` and `legacy` the
registries.  `async_setup_entry`, `Refreshed`, `NotRefreshed`, `Forwarded` and
`NotForwarded` are the stretches of the setup; `PlatformsUnloaded` and `Stopped`
those of the unload.  Home Assistant is external: it serialises the two, retries
a setup that was not ready, and runs what was registered with `async_on_unload`,
which includes the coordinator's `async_shutdown` because the coordinator is
given the entry.

### Properties

* `FreeWhenStopped` - an entry that is not loaded leaves the charger to the phone
  (docs/usage.md, "HA → phone"), whichever step of setup or unload failed.
* `LoadedIsCurrent` - a loaded entry uses what is stored, or a reload waits.
* `AsksOnlyIfRejected`, `TriedAgain` - only a rejected token ends the attempts.

### Run and proofs

`entry`: four tokens (the charger's, another, two malformed), two edits, two
faults; 51 thousand states.  The second edit meets what the first has caused: a
reload that is requested, a retry, an entry that is disabled or has failed.  Edits
while a setup or an unload is under way are excluded (`EditDuringSetup = FALSE`, see
section 11).  Fairness: Home Assistant goes on with
a setup, an unload and a retry, and the charger advertises again.

`EntrySetupProofs.tla`, for any tokens, ports, keys and bounds:

* `EntryTypeCorrect`: `Spec => []TypeOK`.
* `AlwaysFreed`: `Spec => []FreeWhenStopped`.  Inductive with `OnlyPresent`: only
  the present coordinator ever holds the link, and none does before its refresh.
* `AlwaysCurrent`: `Spec => []LoadedIsCurrent`, assuming `~EditDuringSetup`, with
  `Current`: from the copy the setup makes on, what is used is what is stored or
  a reload waits, and once the first refresh is done somebody listens.
* `OnlyRejectedAsked`: `Spec => AsksOnlyIfRejected`.

Only model-checked: `TriedAgain`.

## 10. Property messages and the capture tool

`PropertyCodec` has the messages byte by byte, because both readers go by offset
and length: the integration's (`parse_response`, `parse_notification`,
`parse_set_response`, and what the session's callers do with the result) and
the capture tool's (`decode_miot_plaintext`), which never refuses anything.

`Capture` records a connection on the air and runs the tool over it packet by
packet: `FirstFragment` and `FinalFragment` are `iter_att_frames`, `Observe` is
`iter_login_sessions`, `EpochDone` one round of `decrypt_att_frames` with
`extract_login_randoms`, `extract_miot_frames`, decryption and decoding.
`active`, `l2cap_buffers` and `tool` are the tool's variables, the others the
world: the host may connect, log in (with the given token or another), send
requests in parcels, give a transfer up; the charger answers or pushes, in one
frame or two parcels.  A capture may begin in the middle of a frame and end
anywhere.

* `ReadsBack` - a read or an event is taken exactly if all it counts is there, and
  then for what the charger meant: no cut makes up or loses a value.
* `SetConfirmed` - a write counts as done exactly if the charger's answer says so of
  this property and nothing else.
* `Decoded` - `decrypt_att_frames` is to "Decrypt all complete login epochs": what was
  captured whole under the given token is printed, once, with its values.

Run `capture`: two ACL handles, two logins, two messages, one of about 700 odd
answers (five lists of entries under six heads, miscounted and cut at every
byte); 159 thousand states.  Two logins show a stale fragment, random number or
token of the first; two messages an inline answer inside a transfer.  The odd
answers concern the plaintext alone, so one comes first or right after the request
and ends the capture (`OddEndsIt`).
Bounds: `MaxFrames` is 65,536 made small enough to be hit,
`MaxLogins`, `MaxMessages`; `MaxRows`, 100,000 in the tool, is more than two messages
print.  Only full parcels are sent in two fragments, and `Duplex = FALSE`
keeps transfers and fragments of the two directions apart (section 11).  The
limit on bytes is left out: it acts as the one on frames does.

### Proofs

`CaptureProofs.tla`, for any answers in `AnswerSet` (any opcode, flag and count
of a byte, a sequence of entries of any length, values as wide as their type
says, an unknown type with anything behind it, and a cut at any place), which
`CaptureConstants` asks of `Answers` and `OddAnswers`:

* `TakenAsMeant`: `Spec => []ReadsBack`.
* `Confirmed`: `Spec => []SetConfirmed`.

Their invariant is `SentOK`: what is sent keeps its type, and what the charger
sends is one of its answers.  The rest is about the messages:

* what the charger writes: `LittleEndian` (a number of two bytes survives `ToLE` and
  `FromLE`), `EntryForm` (the fields of an entry and their places),
  `FlattenJoins` (what the recursive `FlattenSeq` puts together), `AnswerPlaces`
  (`Layout`: where each entry of a whole answer begins and ends), `CutAnswer` (a cut
  answer begins like the whole one);
* what a parser does with one entry: `StepReads`, from `ReadHead`, `ReadType` and
  `ReadRaw`, says that it is taken for its `Meaning` exactly if its type is known
  and its last byte is there;
* what it does with all of them: the parsers are recursive functions, which exist
  (`EntriesDefined`, `ResultsDefined`) and are read off their definitions
  (`Entries`, `Results`).  `ReadEntries` shows by induction on the number of
  entries left that they are taken exactly if each is there, and `AsManyResults`
  that a parser of results returns as many as are counted.  The induction is the one of
  `XiaomiCloudProofs`, over a set instead of an operator.

* `PrintedAsExchanged`: `Duplex = FALSE => (Spec => []Decoded)`, for any handles,
  requests of a byte's count of keys and values that fit their kind, answers in
  `AnswerSet`, and bounds.  Without the hypothesis it is false (section 11).

It has two halves.  The first is about the bytes: `AnyPrinted` says that the tool's
decoder returns, for each request and each answer, the entries it was made of if
it is `Printable`, and some row if not.

* A decoder is a reader that goes on from place to place while there is something
  to read (`IsWalk`); `GetWalks`, `ValuesWalk` and `ResultWalks` say so of the three
  recursive functions, which exist by `WalkExists`.
* `WayRead` is the induction, once for all of them: along places `pl` that lead
  on, from the header to the last entry counted, the rows are those read there.
* `EntryDecoded` reads one entry at its place (`Shows`), and `AnswerWay`, with
  `KeyPlaces` and `WriteValue` for requests, finds the places in the plaintext.

The second is about the frames.  What the tool holds is two folds over the frames
of the present epoch; `OneMoreFrame` unfolds them by one frame, so that
the rest is about `TakeRandom` and `TakeFrame` alone.  The inductive invariant is
`SentOK /\ ToolOK`, which TLC finds invariant on the instance of the run.  `ToolOK`
says, as long as the tool reads:

* `WorldOK`, `AirOK`: one transfer at a time, of a message of this login that is not
  done; a frame in two fragments is the first part of it, and is also what
  `l2cap_buffers` holds for the connection, even if an older one is there for another.
* `Started`: `active` is the frames since the last login start, on its handle.
* `RandomsOK`: the numbers found so far are as far as the login is, and are its own.
* `TransfersOK`: what was put together is each message of the login that is done,
  once, with all its parts in order (`FoundOK`); of the one under way the tool
  has announced the number of parts and seen exactly those sent (`Seen`).
* `RowsOK`: the rows of earlier logins are, for each message that is due, its own.

And after the end, unless a limit was hit: `AllPrinted`.  It is needed because
`Decoded` says nothing until the capture ends: that the transfer pending is the
one under way, of the right side and with the parts sent, is what makes the last
part complete it.  `ToolStep` has one lemma for each action: `LoginStartOK` and
`EndPrinted` rest on `EpochPrinted`, which takes an epoch that is done to its rows
(`RowsForFlatten` picks those of one message out of all, and a `Decrypts` that fails
takes nothing away), and `PartOK` and `LastFragmentOK` on `TakesFirst` and
`TakesLast`, what the fold makes of the parts.

What the tool shows differently from the integration is not counted as an error:
it labels the echo of a write as a request, does not know two-byte values, prints
a value cut short as what is left of it.

## 11. Where the code and its words differ

* `coordinator.py:311` promises that a second cancellation does not strand the
  established connection.  The shield absorbs one cancellation of the waiting
  task; after it the cleanup is awaited bare, and one more reaches the cleanup
  itself before `client.disconnect()`.  When the setup failed by itself, that is
  the second cancellation.  Run `secondcancel`.

The following were met while modelling.  Each is a constant away from a run above,
which then shows it, and is described here only:

* `coordinator.py:181` promises that the shutdown releases all BLE resources.
  `_disconnect()` forgets the client before it awaits its release, without a
  shield: a poll or write cancelled there leaves a client open that the later
  shutdown does not know (`CancelAt = {"drop"}`, `ShutdownIsFinal`).
* `config_flow.py:208`: a region form submitted twice while the first request is
  under way replaces the code on the screen while the first one is polled
  (`ShownIsPolled` without `SubmittedOnce`).  If one of the two requests fails and the
  user leaves the error before the other is answered, that answer shows a code in
  a dialog whose region was reset; its scan ends at the assertion of line 247
  (`Asserted`), and the dialog stays (`ProgressEnds`).  The same await lets a dialog
  that was closed meanwhile start a task and a session that nobody ends
  (`CloseAnytime = TRUE`; no property is about sessions).
* `lib/xiaomi_cloud.py:77`: `CloudError` is "Raised for any Xiaomi cloud error", but a
  body that is no text raises the `UnicodeDecodeError` of `r.text()` (lines 143,
  179 and 318), before the status is looked at.  Neither these functions nor the
  steps (`config_flow.py:209`, `:227` and `:267`) catch it: the progress dialog stays,
  and shows no reason, until the user closes it (`ProgressEnds` without `Raised`).
* `lib/xiaomi/auth.py:185`: each frame that `_recv_until` discards starts its timeout
  anew, and neither `login()` nor `register()` has one of its own.  A charger that
  goes on sending such frames keeps the procedure waiting as long as it does
  (`AttemptEnds` without `MaxNoise`).
* `__init__.py:110`: options changed while a setup awaits its refresh are stored and
  not used until the next reload, since the listener is added after the refresh
  (`EditDuringSetup = TRUE`, `LoadedIsCurrent`).  Those changed while the platforms
  are set up are heard.
* `docs/usage.md:31`: "All sub-devices inherit the parent's area".  The area is
  handed down at each setup, and only to sub-devices that exist by then and have
  none (`__init__.py:185`, called before the platforms make them).  Those a first
  setup makes get it at the next one, and a later change of the parent's area is
  not followed.
* `decrypt_btsnoop_miot.py:374` and `:168`: the tool keeps one pending transfer for both
  directions and one unfinished frame for an ACL handle.  An announcement of one
  side while the other sends its parcels drops the transfer, and fragments of both
  sides at once are joined into one frame (`Duplex = TRUE`, `Decoded`).

## 12. Not modelled

* `ports.py`, `fe95.py`, the firmware version: one pass over one value without
  state; `src/tests/` enumerates their cases, and a model would repeat the code.
* `scanner.py`: a dictionary filled by bleak for a fixed time.
* `lib/miot/`: tables.
* The entity platforms: views of the snapshot; a write from one is a task of
  `Coordinator`.
* `crypto.py` beyond its symbolic form, RC4 and signatures of the cloud.
* btsnoop records and the connection events of a capture, `btsnoop_att.py` and
  `mible_decrypt.py` (older tools that print frame by frame), and the other tools:
  scripts that run once, from top to bottom, over the library modelled here.
