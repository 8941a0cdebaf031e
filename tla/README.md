# Verification of the Hik-Connect Intercom integration

TLA+ models of the Home Assistant integration in `src/custom_components/hikconnect_intercom`, checked
with TLC on small instances, and theorems about them checked with the TLA+ proof system. Paths below
are relative to that directory.

## 1. The system

Home Assistant (HA) runs the integration on one asyncio event loop and moves blocking requests to
executor threads. A door station is reached in two ways: over the LAN for video, and through the
Hik-Connect cloud for everything else.

| part | state | operations | talks to |
|---|---|---|---|
| shared upstream (`camera.py`, `_ChannelStream`) | `_lan`, `_pump`, `_subs`, `_lock`, `_linger`, the station's semaphore | `subscribe`, `unsubscribe`, linger timer and task, `_open`, `_teardown` | camera handlers call it, it starts the pump |
| fan-out and feed (`_pump_loop`, `_feed`) | one bounded queue per viewer, `_sps`/`_pps` | read, publish, drop oldest, close | decoder, viewers |
| quality select (`select.py`) | a dictionary shared with the cameras | select, restore | stream opening |
| stream opening (`_open_lan`, `lib/lan_client.py`) | the cached control key | fetch key, INIT, INVITE, PLAY, one retry | station, key server (CAS) |
| transport (`lib/lan_client.py`, `lib/cas.py`) | one socket per exchange, `_play_sock`, `_closed` | connect, TLS with a fallback, framed replies, `read_chunk`, `close` | station, CAS; pump and teardown on two threads |
| media decoder (`lib/hik_decoder.py`) | `_buf`, `_synced` | `feed`, `take` | pump |
| cloud session (`hikconnect_api.py`) | `_session_id`, its copy in the header, `_auth_lock` | `login`, `_relogin`, `_call`, `isapi`, `get_control_key` | all executor threads |
| call status (`__init__.py`, `push.py`, `sensor.py`, `button.py`) | the coordinator's data | poll, push event, answer / hang up / cancel | cloud, MQTT broker |
| settings (`switch.py`, `number.py`) | `_pending` of a switch; the device's volumes | toggle, confirm by poll; read-modify-write | cloud, status poll |
| door locks, unlock-all (`lock.py`, `button.py`) | assumed lock state, relock timers | lock, unlock, unlock all | cloud |
| setup, unload (`__init__.py`), push client (`push.py`) | what `hass.data` holds, an MQTT thread, signal connections | setup, retry, unload, reload, start, stop | all of the above |
| config flow (`config_flow.py`) | one form | user, reconfigure | login, reload |

What is hard about it: handlers are cancelled at any await (a browser tab closes, HA's own timeout of
a snapshot); several viewers share one connection, several channels share the station's few slots;
executor threads renew one session concurrently; polls and writes cross each other, and the cloud
shows a write only later; the station rotates its key; queues have limits. `PROJECT.json` lists each
hazard at its line with the properties that would catch it.

## 2. The modules

Steps on the event loop are the stretches between two awaits that can suspend; steps of a thread
lie between two accesses of shared state or two requests. The stations, the cloud, the key server,
HA and asyncio are external: modelled by what the code relies on, nondeterministic where it cannot know.

**`SharedUpstream`** is the abstract promise of `camera.py`: an upstream per channel is `closed`,
`opening`, `live`, `dead` or `closing`; at most `MaxStreams` are not closed; a viewer attaches only to
a live one; one is given up only when dead or unwatched. No locks, no timers.

**`ChannelStream`** is the implementation. `sem`, `lan`, `pump`, `subs`, `linger` are the attributes of
that name; `lock[ch]` is the FIFO of the `asyncio.Lock` (its head owns it), `step[ch]` the await at which
the owner stands, `timers`/`spawned` what the event loop still has to run, `pc` the handlers. `Arrive`
to `OpenSucceeds` are `subscribe` and `_open`; `Leave`, `Unsubscribe` are `_cleanup` and `unsubscribe`;
`LingerFires` to `CloseDone` are the timer, its task and `_teardown`; `PumpEnds` is the end of
`_pump_loop`, which puts `None` into every queue that has room (`eof`) and drops it for a full one (`missed`). A slot
is handed over in two steps: `GrantSlot` wakes the first in line, who is then `"granted"`, and `AcquireSlot` or
`SlotTooLate` is what `wait_for` makes of it when the time-out or a cancellation meets the grant; the slot is given
back then. The `Interrupted...` actions are cancellations and exceptions of a handler, enabled at
the awaits in the constant `Interrupts`. It implements `SharedUpstream` under
`up <- UpstreamState, viewers <- subs` (property `KeepsPromise`).

**`FanOut`** refines the inside of a live upstream: `_pump_loop` publishes frames and parameter sets to
the queues, `_feed` takes them, the pump dies and is reopened, and `Select` changes the quality with which
the next upstream is opened. Frames are numbers in publishing order; a parameter set is the quality it
belongs to, so that `held[v]`, what a viewer's ffmpeg has, can be compared with a picture's quality.

**`StreamOpen`** fills in the time between `Reserve` and `Opened`/`OpenFails` of `SharedUpstream`, which
it composes (`Shared == INSTANCE SharedUpstream`): fetch the key if none is cached, INIT, INVITE, PLAY,
and on a refusal one retry with a refetched key. Keys are numbers; the station moves on to the next
one at will (`Rotate`), the key server follows later (`CasLearns`). AES, XML and sockets are reduced to
"was the request encrypted with the station's key". A key that is not 16 ASCII characters (`BadKey`) is cached before
the client's constructor rejects it.

**`Transport`** has the sockets below `StreamOpen`: the exchange with the CAS (connection, TLS, the second
connection after an expired certificate, framed reply), the datagram socket that looks for the local address
("discover"), INIT, INVITE, PLAY, the media behind PLAY's reply,
and `read_chunk` against `close` on two threads. Bytes are counted, not represented: `arrived` is what TCP has
delivered, `got` what was taken, `Room` what the next `recv` asks for. What a peer puts on the wire
(`WireSize`) and what the client computes from the header (`Expected`) are defined apart.

**`HikDecoder`** translates `feed` and `take` on byte strings, with one step per way through `_consume_one_chunk`:
`NoMarker` and `Waits` return False and end the feed, `Resync`, `LosesSync` and `Handles` go on. `Base` and `Header` stand
for 256 and the 25 header bytes, and the tests of the NAL type are reduced. The places of the handled packets in all
that was fed are kept as history, so that the reference, "a packet starts at the first marker after the end of the one
before", is a relation between places of the whole recording. The output is kept by packet.

**`CloudSession`** has one action per request or access of shared state of `_call`, `_relogin`, `login` and
`get_control_key`, for any number of threads. An ISAPI request carries the id twice, in the form it has built
(`Compose`) and in the header as it is when the form goes out (`Post`); which of two the cloud goes by is left open.
`split` records that a login has stored a new id and raised before it set the header. `SingleSession` says whether a
login ends the account's other sessions, which the code cannot tell.

**`CallStatus`** has the poll, which asks one station after the other (`Reads`, `ReadsNothing`,
`PollFails`), the sensor (`Shown`), what a push event comes to (`OnMessage`) and the call buttons
(`Press`, `Obeys`, `Refuses`, `Answered`). A reply is a meta code and the device's rc, if one can be read; whoever sends
it chooses among the replies that say so and those that say nothing, and `Rejected` is the code's test.

**`DeviceSettings`** has an optimistic switch (`Toggle`, `Written`, `Applied`, `Confirm`), the status poll
that confirms it, the owner's phone as a competitor, and the three volumes: the read-modify-write of
the two that share the `AudioOut` resource, and the plain write of the microphone's. The
history `raced` has the calls that another one overtook, `unread` those whose GET did not yield the other volume.

**`DoorLocks`** has the lock entities and the unlock-all button: `Unlock`, `Unlocked`, `Relock` and `Lock`, the loop
over the doors (`UnlockAll`, `NextDoor`, `AllUnlocked`) and its end at the first error (`Raises`). Entities come and
go with `Added` and `Removed`; `mine[c]` says whether the entity that made a call is still there.

**`Entry`** composes it (`Doors == INSTANCE DoorLocks`) with the life of a config entry: `step` is the await at which
`async_setup_entry` or `async_unload_entry` stands, `running` and `targets` count the MQTT clients and the sets of
dispatcher connections that exist, whoever made them. The two forms (`Submit`, `FormSaves`) store credentials at any
time, so between a setup's two readings of `entry.data` too.

`MC...` modules name the model values for TLC; `..._proofs` hold the theorems. Operators called mutants in
comments are plausible bugs with which each property is shown to fail.

## 3. The runs

| run | instance | shows |
|---|---|---|
| `stream_safety` | 2 channels, 4 viewers, 1 slot, all interruptions | `TypeOK`, `NeverOverReleased`, `OneLinger`, `CancelsOnlyUnwatched` |
| `stream_live` | 2 channels, 3 viewers, 1 slot, interruptions in the queues for lock and slot | `SlotsConserved`, `Served`, `KeepsPromise`, `HandlersProgress`, `ClosedWhenUnwatched` |
| `leaked_slot` | the same, interruption during `_open_lan` | violation of `TimeoutMeansBusy` |
| `fanout` | 2 viewers, queues of 2, 3 frames, 2 empty reads, 1 selection | `NewestKept`, `InOrder`, `EofReachesViewers`, `ClosedFeedEnds`, `PicturesDecode` |
| `stream_open` | 2 channels, 2 key changes, 1 fault or malformed key | `TypeOK`, `OpensUnlessDisturbed`, `SelfHeals` |
| `transport` | headers and tails of 2 bytes, bodies of 0, 1 and 3, declared CAS tails of 0, 1 and 3, 3 bytes of media | `RepliesExact`, `SocketsAccounted`, `ReaderReleased` |
| `decoder` | all streams of up to 8 bytes over 4 values, chunks of up to 3 | `CutsDoNotMatter`, `BufferBounded` |
| `cloud_session` | 2 threads, all kinds of calls (plain ones by one thread), 8 names of sessions, 1 fault | `TypeOK`, `HeaderMatches`, `OneLogin`, `RetryIsFresh`, `RenewsWhatWasRefused`, `CallsEnd`, `SessionHeals` |
| `call_status` | 2 stations, 2 changes by people, 1 press, 1 fault | `NoSilentNoOp`, `ReadingsAreFresh`, `StatusFollows` |
| `push_ignored` | the same, no fault | violation of `PushTriggersPoll` |
| `settings` | 2 overlapping calls, volumes 0 and 7, 3 changes, 1 fault | `NoBounce`, `Confirmed`, `OtherVolumeKept` |
| `entry` | 2 doors, 2 calls, 2 sets of credentials, 5 changes, 2 faults | `DoorsRelock`, `NothingElseLeft`, `LoadedMatchesData`, `ReturnsToService` |

`TypeOK` is checked in three runs, and is a theorem for every other module too but `HikDecoder`: its `DecoderTypeOK`
documents the state, and the theorems' own invariant types it with the pieces that packets come to in place of byte
strings.

Bounds. One slot for two channels makes the channels compete; three viewers of one channel are the owner of the lock,
a waiter and one already attached, and the fourth watches the other channel. A linger task, a new viewer and a dying
pump meet with these. Queues of two items fill, drop and close. Two key changes give a channel a key that is two
behind. Eight bytes hold a broken start, a whole packet and the head of a second one. Two threads suffice for every
race on the session id, since a third one only repeats what the second does; a plain call of the second thread would
carry no more than the header that its ISAPI request carries anyway. Names of session ids that nobody holds are
reused; TLC finds at most seven held at once in this instance, so that the eighth always leaves one to issue. One
selection gives an upstream of each quality, and with three frames a viewer is primed with sets of the one and shown
pictures of the other. In `transport` a body may be empty, shorter and longer than a header, and a CAS tail shorter
and longer than the default. Five changes are a form, a reload or a password change while two unlocks are under way;
two faults fail a setup and its retry. Bounds on changes and faults (`MaxChanges`, `MaxFaults`, ...) keep behaviours
finite; after the last one the system runs on, so liveness is checked for systems that are left alone in the end.

Deadlock is checked except where a bounded behaviour really ends or where a leaked resource may
stop the handlers: `stream_safety`, `leaked_slot`, `decoder`, `entry` (an entry that is disabled or refused) and
`transport` (a stream that has failed or is closed).

`stream_safety` interrupts handlers at every await, and its properties hold there. `stream_live` leaves out the awaits
at which the code has no guard: `"opening"`, which `leaked_slot` shows, `"closing"` and `"prelude"`, of which section 4
says what they break (the theorems assume the former two away only where they need to). No passing run catches those.

Fairness. The event loop runs what is ready, and every wait has a timeout or ends by itself, hence weak fairness of
the handlers' and linger tasks' steps in `ChannelStream`; nothing forces a viewer to arrive or a pump to die.
`asyncio.Lock` is FIFO and modelled so. Executor threads are scheduled weakly fair; a `threading.Lock` is not FIFO,
therefore strong fairness of `EntersRelogin`. Requests have timeouts. Coordinators poll on while there are listeners,
and do not overlap themselves. In `FanOut` weak fairness of the feed assumes that `writer.drain()` returns, as for a
client that reads or goes away (`camera.py:289`). In `StreamOpen` viewers keep trying, reads of an upstream that
delivers nothing end, and the key server learns a new key in the end. In `Entry` HA carries out what is due and
retries a setup that is not ready (`WF_vars(Proceeds)`); since faults are bounded, the cloud is reachable in the end.
Relock timers, forms and people are under no fairness. In `Transport` the two threads are scheduled; the time-out of
`recv`, eight seconds, is deliberately not counted on.

## 4. Where the code departs from what it says

* **A cancelled opening leaks its slot** (`leaked_slot`). `_open` awaits `_open_lan` between acquire and
  release without `finally`. After `_MAX_STREAMS_PER_DEVICE` such cancellations every camera of the station
  reports "no free stream slot" until a reload.
* **A push event has no effect** (`push_ignored`). The dispatcher's target is a plain lambda, which
  HA runs in an executor thread where `hass.async_create_task` raises; the status waits for the interval.

For the following there is no run; where a property touches one, it names it as an exception.

* A full queue swallows the end of the stream: `put_nowait(None)` is suppressed, the viewer drains its queue and
  waits for ever. `EofReachesViewers` says that nobody else does; `Served` names the same queues by `missed`.
* A late 401 renews a fresh session: `_call` hands `_relogin` the current id, not the one its refused request
  carried. `RenewsWhatWasRefused` says that this, an ISAPI request that was refused for one of two ids while the
  current one was good, and a key request that failed for another reason, are the only ways.
* A login that raises at `login_user["username"]` (`hikconnect_api.py:105`) has stored the new id and not the
  header. The lock is free again, and a thread that waited for it takes the session for renewed and repeats its call
  with the refused header (`split` in `HeaderMatches` and `RetryIsFresh`), until a later login sets both.
* A handler that fails before its `try` leaves its queue behind and the upstream open: adding `"prelude"` to
  `Interrupts` of `MCChannelStream_live.cfg` violates `ClosedWhenUnwatched`.
* A subscribe cancelled while a dead connection is closed leaves `_lan` set without a pump: adding `"closing"`
  violates `Served`.
* A viewer who joins after a channel's very first SPS and before its PPS is primed with half a pair
  (`PicturesDecode` excepts it).
* A key of the CAS that is not 16 ASCII characters is cached, and the client's constructor raises for it. Only a
  refusal by the station drops a key, so that the channel fails until a reload (excepted in `OpensUnlessDisturbed`
  and `SelfHeals`).
* `_discover_local_ip` creates its socket and connects it before the `try` whose `finally` closes it: without a route to
  the station it stays open until it is collected (`"unrouted"` in `SocketsAccounted`).
* A call operation that comes back with meta code 200 and no readable rc passes for one that was carried out, also when
  the station refused (`muted` in `NoSilentNoOp`).
* `select.py` says that the next stream uses a new quality; a viewer within the linger time, or beside another
  one, joins the old upstream. `PicturesDecode` says that it can decode what it gets.
* Of the two volumes of `AudioOut`, the other one becomes 5 by `cur.get(...) or 5` if it was 0, or if the GET did not show
  it; and of two overlapping calls the second undoes the first (`OtherVolumeKept` excepts the three).
* If forwarding the platforms fails, the signals stay connected and the MQTT client runs on (`abandoned` in
  `NothingElseLeft`).
* `ConfigEntryAuthFailed` is raised for a CAPTCHA and for unknown codes as for a wrong password, and HA does not
  retry it (`rebuffed` in `ReturnsToService`).
* The answer to an unlock is not looked at: the lock is shown open although the station refused. The code cannot
  know, so no property is about it.
* `_send_cas_payload` in `cas.py` connects without a time-out before it sets one; `Transport` lets a connection
  fail and counts on no time-out.

## 5. The theorems

All are proved for arbitrary constants under the named `ASSUME`s (finite channels, `ChannelOf` a function,
bounds natural numbers, names distinct).

* `ChannelStream_proofs`. `TypeCorrect`: the induction needs `ArmedPending` (an armed handle has a pending timer),
  since `subscribe` decrements the count. `NoOverRelease` and `SlotsKept`: `StepInv` says at which awaits `_lan` is
  set; lemma `AccountStep` classifies every action as keeping, taking, returning or leaking a slot, and
  `AccountKeepsBalance` does the arithmetic of cardinalities once. `SlotsKept` assumes `"opening" \notin
  Interrupts`, and `leaked_slot` shows that it has to. `WarningTrue`, under the same assumption, is the property
  which that run violates: the leak is the only cause of a false warning. `CancelsUnwatched` from `TeardownInv`: the
  owner of the lock keeps it through every step of others (`OwnersStay`), so that nobody attaches a queue between
  the linger task's look at `_subs` and the end of its `_teardown`. `LingersOnce`: that a channel never has a timer
  and a task, or two tasks, rests on the order of the lock's queue. `LingerInv` says that a task created by the
  timer queues before any handler that will leave (`TaskSeen`, `TaskAhead`), so that it has run or been skipped
  before the next timer can be armed; that a channel which is watched or busy has no timer (`TimerIdle`); and that
  the timer, the task to come and the task in the queue exclude each other (`OneOfThree`). What a step does to the
  queue is `Grows` or `Shrinks`. `AlwaysServed` (a viewer is fed, has its `None`, or had a full queue when the pump
  ended): `FeedInv` adds that a pump belongs to a connection (`Pumped`) and that queues are attached only where
  there is one (`Attached`). `PromiseKept`: under `FeedInv` and the slot invariants every step is a step of
  `SharedUpstream` or leaves its state alone (`PromiseStep`, one case per action). Both assume `"closing" \notin
  Interrupts`.
* `FanOut_proofs`. `TypeCorrect`. `FramesInOrder` and `NewestFramesKept` from `FrameInv`, stated of one queue: the
  frames in it are sorted and lie between the last one taken and the last one published (`InSequence`), have no gap
  up to the latter (`NoGap`), begin where the viewer stopped unless the queue is full (`Kept`), and the cached sets
  stand in front, `None` at the end (`Ends`). One lemma per operation on a queue (`FramePut`, `FramePutEof`,
  `FrameTake`, `FrameJoin`) preserves it. `EofReaches` from `EofOwed`: a viewer of a dead pump has `None` to come or
  its queue was full. `PicturesHaveTheirSets`: `After(q, h, i, k, p)` says that an ffmpeg which holds `h` and takes
  the first `i` items of `q` then holds the set of quality `p`; `DecodeInv` that this is so before every picture in
  a queue, and at its end for the quality now streamed. The lemmas say what a prefix, a put and a take do to
  `After`.
* `CloudSession_proofs`. `HeaderFollowsSession` and `LoginsExclude` from `SessionInv`: a thread is in `login()` if
  and only if it holds the lock, and the two ids differ only between the assignments of its holder or while `split`.
  `TypeCorrect` needs that a session name is left for the cloud to issue (`FreshIsNew`). `RetriesAreFresh` and
  `RenewalsJustified` from `RetryInv`: after a thread's look under the lock, or its login, neither copy of the id is
  one of the refused request, but for the header while `split` (`Renewed`), which needs that a name is not issued
  again while a thread remembers it; and a request other than for a key was refused because one of its ids is not
  accepted (`Refused`).
* `StreamOpen_proofs`. `TypeCorrect` and `AttemptsSucceed`: `KeyInv` says that in an undisturbed attempt the key
  server knows the station's key, that a request past INIT carries it, and that the retry does; a client that cannot be
  made is one of a malformed key, which the property excepts.
* `CallStatus_proofs`. `TypeCorrect`; `ReadingsFresh` from `FreshInv`: the present call of every station, asked
  already or not, and what the poll under way has recorded of it are among the states seen since the poll began; and
  `ButtonsAct` from `PressInv`: a press that has been answered is rejected by the test of meta code and rc, has
  acted, or is in `muted`.
* `DeviceSettings_proofs`. `TypeCorrect`; `OthersKept`: `KeepInv` says that the value a call not in `raced` will
  write along is the present one, or 5 for 0, or 5 if it is in `unread`, and `CallInv` that a call which reads
  volumes is about one of `AudioOut`, one which writes them about one of the three, and one which writes a switch
  about the switch. `TogglesStay` from `Optimistic`: every toggle under way wants the value of the sole change,
  nothing else is on its way to the cloud's view, and the value is pending until a reading has shown it, after which
  no poll, under way or later, reads the old one.
* `Entry_proofs`. `TypeCorrect`, `DoorsLockAgain`, `CredentialsMatch` and `NothingLeft`. `StepOK` says
  which awaits belong to which state of the entry, and `SeesData` that `client` and `push` differ from `data` only
  while a reload is due; the doors' part is proved over `DoorsNext`, to which lemma `DoorsStep` reduces `Next`.
* `MediaPath_proofs`. Of `Transport`: `TypeCorrect`, `Exact` and `NoSocketLeft`, for headers, bodies, tails and
  media of any size. `NoSocketLeft` is inductive with the order of the exchanges' steps (`Progress`). `Exact` rests
  on `Expected = WireSize`: the client's arithmetic and the peers' are the same. Of `HikDecoder`: `CutsNeverMatter`
  and `BufferStaysBounded`, for chunks and streams of any length, any marker and header length. `DecoderInv` says
  that the buffer is the end of what was fed (`Suffix`); that no marker lies between the last packet and the buffer,
  and, if a byte was dropped there, that one is still in the buffer, since the byte dropped last could otherwise be
  the first half of a marker (`Skipped`); what the buffer may hold between two feeds (`Settled`); that only the last
  packet may break (`OnlyLastBreaks`); and which packet's content each piece of output is (`PutOut`). Lemma `Shows`
  carries markers, lengths and packets from the buffer over to the recording, `Grows` from a recording to a longer
  one. What a packet comes to (`Depacketized`) is left folded, so the recursion over an aggregate's units plays no
  part; TLC evaluates it.

The inductive invariants were checked with TLC on the instances of the runs before they were proved.

Only model-checked: everything under fairness (`HandlersProgress`, `ClosedWhenUnwatched`, `ClosedFeedEnds`, `SelfHeals`,
`ReaderReleased`, `CallsEnd`, `SessionHeals`, `StatusFollows`, `Confirmed`, `ReturnsToService`), which the prover's
temporal logic does not reach. Every invariant and every action property of the passing runs has a theorem.

## 6. Not modelled

* Media bytes, ffmpeg and MJPEG, XML, HTTP and MQTT formats, and display-only entities (telemetry, binary sensors).
* `crypto.py`: vendored, used for an unneeded key pair only. Of `cas.py`, the requests that arm a device; nothing
  here calls them.
* Enumeration of devices and cameras: stateless parsing; its results are constants.
* Upstreams that stay open across a reload: unload closes none, and the new entities count with a new semaphore, so
  that the station's slots are no longer those counted. It would compose the largest model with itself.
* The time-sync button, and the time zone and format that the daylight-saving write takes from the last poll: there
  is no guard whose work could be checked.
* The decoder's exception on a one-byte fragmentation unit is modelled, its effect on viewers is that of any
  dying pump.

## 7. Plan

1. Upstreams across a reload: `SharedUpstream` twice, for old and new entities, over the station's real slots, with
   the reloads of `Entry`.
2. The clock: time sync and the daylight-saving write as two writers of one resource beside the status poll.
3. Proofs: the safety of both, by composing the theorems about `ChannelStream` and `Entry`.
