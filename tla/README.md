# mumble-sip in TLA+

mumble-sip bridges telephone calls to a Mumble server: every SIP call becomes
one Mumble user, whose caller speaks, listens, changes channels with the
keypad and hears announcements. These modules model the bridge as the Rust
sources have it, the TLC configurations check small instances of them, and eight
proof modules carry theorems about them for instances of every size.

Line numbers in comments refer to the repository (`src/session.rs:606` and so
on; the crate's sources are in its directory `src/`).

## 1. The system

| part | source | state | operations |
|---|---|---|---|
| session manager | `src/session.rs` | `sessions`, `pending_setups` (generation and token), `pending_writes` | `on_incoming_call` (one task per INVITE), `on_call_disconnected` (main loop), `on_dtmf_digit` (main loop) |
| SIP callbacks | `src/sip/callbacks.rs` | the process-wide tables `PENDING_PORTS`, `ACTIVE_MEDIA`, `MEDIA_READY_TX`, `PENDING_CLEANUP` | `on_incoming_call`, `on_call_state`, `on_call_media_state`, `on_dtmf_digit`, `on_conf_op_completed`, called by pjsip's threads |
| media port | `src/sip/media_port.rs` | the boxed port with its two ring buffers | `port_put_frame`, `port_get_frame` on pjsip's clock thread; create and destroy |
| audio bridge | `src/audio/bridge.rs` | silence gate, sequence numbers, a jitter queue per speaker, the sound queue | encoder task, mixed decoder task |
| event task | `src/session.rs:501-590` | `our_channel_id`, `user_channels` | chimes, voice in, text messages, announcements |
| announcement and text workers | `src/session.rs:405-500` | `last_announced_channel`, their queues | debounce, synthesis |
| Pocket-TTS runtime | `src/audio/tts.rs` | LRU cache, in-flight table, availability | `synthesize_phrase`, background synthesis, recovery burst, cooldown |
| Mumble control connection | `src/mumble/control.rs` | outgoing queue, event queue, user names, channel list | handshake and the joins after it, `handle_packet`, receive loop, send loop, and how they end |
| caller store | `src/db.rs` | tables `callers` (nickname, last_seen), `caller_channels` | lookup, nickname creation, whether the intro is due, last channel |
| process | `src/main.rs`, `src/sip/mod.rs` | the event channel, the signal | wait for Pocket-TTS, database, endpoint and registration; main loop, drain, flush |
| sounds and WAV processing | `src/audio/sounds.rs`, `src/audio/tts.rs` | the embedded chimes | `decode_wav_48k`, `mix_to_mono`, `linear_resample` |
| configuration, SMS, bindings | `src/config.rs`, `src/sms/`, `pjsip-sys/` | constants | none that run concurrently |

### How the parts interact

pjsip's callbacks turn what happens to a call into `SipEvent`s on an unbounded
channel, which the main loop reads one by one. `Incoming` spawns a setup task;
`Disconnected` and `DtmfDigit` are handled inline. The setup task leaves a
pointer to the media port in `PENDING_PORTS` and a one-shot sender in
`MEDIA_READY_TX`, answers, and waits until `on_call_media_state`, on a pjsip
thread, has taken the port, attached it to the conference bridge, published it
in `ACTIVE_MEDIA` and fired the sender. It then plays the intro, connects to
Mumble, spawns the call's tasks and stores the session. Teardown takes the
port out of the tables and starts its removal from the conference bridge;
`on_conf_op_completed` destroys it when that is over.

All these tables are keyed by the pjsua call id, a small integer that pjsua
reuses, and each is guarded by a lock of its own. That is where the hard
behaviour of this program lies.

### What is hard

* setup task, main loop and three callbacks change one call's entries in seven
  tables, in any order, with an await or a lock release between any two steps;
* raw memory is shared with a C library whose removals are asynchronous;
* call ids are reused while the bridge still works on the old call;
* Mumble's answers, the keypad and the server's own moves cross each other;
* TTS requests share a cache, syntheses and an availability state;
* bounded queues drop audio, and ticks come late;
* a connection that closes ends its tasks one after the other, while the call
  stays up;
* calls come before startup is over, and shutdown races with setups, hangups and
  the writes teardowns have spawned.

`PROJECT.json` lists each of these hazards at its line.

### What makes each part correct

* calls: a port is destroyed once, and never while the conference bridge can
  call into it; nobody keeps a pointer to a destroyed port; a session has its
  audio path; a cancelled setup never becomes a session; every setup returns
  and every port is reclaimed;
* navigation: from the login on, the session and the event task know the
  caller's channel, and chimes are about that channel;
* audio: order is kept through every queue, losses are accounted for, a talk
  spurt is terminated, no speaker is stuck;
* TTS: one synthesis of a phrase at a time, everybody is answered, recovery
  ends, the cache is consistent;
* announcements: the final room, once, and the text messages in order, by their
  senders' names, with none skipped;
* database: a caller keeps a nickname, a stored channel is one that was left, and the
  intro is not repeated;
* sounds: decoders stay within their input and keep the duration;
* process: startup ends, an early call is heard, the writes of last channels are
  not cut off, and the process ends.

## 2. Modules

| module | models | EXTENDS / instantiates |
|---|---|---|
| `CallLifecycle` | setup tasks, main loop, media callbacks, shared tables, port lifetime | instantiates `MediaPortContract` |
| `MediaPortContract` | the abstract promise about a port: created, attached, removing, destroyed | |
| `CallLifecycle_proofs` | theorems about `CallLifecycle` | |
| `TtsRuntime` | requests, background syntheses, availability | extends `LruCache` |
| `LruCache` | the audio cache, as operators on its state | |
| `TtsRuntime_proofs` | theorems about `TtsRuntime` | |
| `ChannelNav` | login, server, control connection, session, watch channel and event task, all of whom have an opinion on the caller's channel | |
| `AudioUplink` | ring buffer, silence gate, encoder queue, forwarder, send loop, and their end | |
| `AudioMixer` | packet channel, jitter queues, decoders, samples of sounds, ring buffer | extends `WavAudio` |
| `WavAudio` | the sample arithmetic of the WAV decoders, as operators | |
| `Announcer` | server, receive task, event task, the end of the decoder, announcement worker, text worker | |
| `CallerStore` | the queries of concurrent calls | |
| `Shutdown` | startup, signal, drain, flush, with setups and callbacks going on | |
| `ChannelNav_proofs`, `AudioUplink_proofs`, `Announcer_proofs`, `CallerStore_proofs`, `Shutdown_proofs`, `AudioMixer_proofs` | theorems about these | extend theirs |
| `MCCallLifecycle`, `MCTtsRuntime`, `MCChannelNav`, `MCAudioMixer` | constants and symmetry for TLC | extend theirs |

Definitions that start with "Mutant:" in their comment are plausible mistakes
in the code; no specification uses them. Each shows that a property depends on
what it is said to depend on, because TLC refutes the property when the mutant
takes the place of the definition.

### CallLifecycle

An element `k` of `Calls` is a SIP call, and names everything the bridge makes for
that call alone: setup task, generation, token, one-shot sender, port, and the
conference slot of the port. An element of `Slots` is a pjsua call id. So a table
such as `PENDING_PORTS` is a function from ids to calls, and `pendingSetups[s] = k`
is the test of the generation.

The setup task is the program counter `pc[k]`, with one action for each thing
the task does under a lock or between two awaits; `abort_setup` and
`cleanup_media_port` are the states `abort`, `clean1`, `clean2` and `post`,
with the exit that called them in `reason`. The main loop is `loopPc`;
`on_call_media_state` is `cbStage[s]`, in three steps because it takes its
three locks one after the other. What the environment does:

* `Invite` gives the call a free id. pjsua has `sip.max_concurrent_calls` ids
  (`src/sip/mod.rs:86`) and reuses them. With `Recycle`, at once; without it,
  only once the bridge keeps nothing under the id, as when many more ids are
  free than calls come.
* `Disconnected` comes at any moment of a live call, except within a media
  callback of the same id, because pjsip holds the dialog lock during both. The
  id is free after that callback, so a call's `Disconnected` event precedes the
  `Incoming` event of the next call under its id.
* `Hangup` and `Answer` act on the call that has the id at that time, whoever
  that is. `pjsua_call_answer` succeeds if that call is ringing.
* `DeferredDestroy` is the 250 ms timer, which fires only when no callback
  holds the port: callbacks are far shorter.
* `Faults` says which pjsua calls may fail: adding the port, starting its
  removal, completing the removal, and the `pjsua_call_get_info` of
  `on_call_state`. With the last, `DisconnectedUnseen`, a call ends and frees
  its id without an event.
* Whether an intro plays depends on configuration and database, and is left to
  chance.

### TtsRuntime and LruCache

A request is a task in `synthesize_phrase`; the job it may launch and the
watch channel of that job have its name. Each action does what the code does
under one of the mutexes `cache`, `in_flight` and `runtime_state`. A cooldown
is an instant that has passed or not. The service may fail any request and any
health check.

### ChannelNav

A behaviour begins when the handshake has been read: the server has the caller
in some channel, the client asks for the configured channel if the server has
it, and setup asks for the caller's last channel unless its id is too high. The
client takes both joins for granted. Channel ids need not be contiguous:
`Existing` has holes, digits count through them up to `max_channel_id`, and the
server denies them. When the connection closes the receive loop tells the event
task, and digits fail.

The server handles join requests in order, may deny one without an answer the
client reads, may move the caller by itself, and tells the client of every
move. `current` is what digits count from and hangup persists; `watch` and
`changed` are the watch channel that tells the event task of a digit before the
server does; `our` and `known` are what the event task believes. `stirred` and
`strayed` are history: whether a join is still under way, and what the server
did of its own accord since the last digit.

### AudioUplink and AudioMixer

A frame is 10 ms of audio: upwards "voice" or "quiet", which is all the gate
asks; downwards the set of what it mixes. A packet decodes to a number of
frames or is broken. Ticks may be late (`Tick(d)` with `d` larger than one), as
the interval skips missed ticks. The `biased` order of the decoder's `select!`
is ignored: either branch may go first. Sound effects and phrases have the
length in samples that `WavAudio` computes from their file, and are mixed frame
by frame, two of them in one frame where they meet.

The uplink ends from behind: the send loop when the connection fails, the
forwarder with the next frame it cannot pass on, the encoder with the next one
after that. The mixer stops when the event task has dropped the only sender.

### Announcer, CallerStore, Shutdown

`Announcer` has the server that moves the caller, renames and removes users and
passes on their texts; the receive task, which keeps the names and resolves
senders; the event task; and the two workers, with the queues between them. The
receive task ends with the stream, having read it all, or at an error of the stream
(`ReceiveError`), with packets unread that will stay so. Behind it the event task ends,
and some time after that the mixed decoder, which `DecoderStops` stands for. The workers
learn nothing of it: the result of `sound_tx.send` is ignored
(`src/session.rs:481`, 494), and what they send then is in `missed`. A text
carries its number among those posted, which the code does not have and no step looks
at: without it two equal texts could not be told apart. The
timeout of a debounce can only end it when the queue is empty, because tokio
polls the inner future first. `CallerStore` has one action per SQL query, since
the code opens no transaction; a failed lookup gives the caller a nickname
without a row. `previous` is the `last_seen` the lookup read, from which the
intro is decided; `again` and `rows` are history. `Shutdown` shrinks a call to
what beginning and end of the process depend on: its state in pjsip and in the
bridge, and the write of its channel, which only a caller with a number has
(`Numbered`) and which the database may refuse (`WriteFails`): the code warns, and the
handle counts as done. At the limit of `MaxCalls` a call is rejected; a setup may or may
not be counted there, because it is in `pending_setups` for a part of its time only.
pjsip reports calls from `pjsua_start`
on, while the account is still being registered and nobody reads the events.
After the signal the loop drops incoming calls, but setup tasks and pjsip go on
until `exit`.

### WavAudio

Operators for how many samples the decoders produce and which samples of their
input each output sample reads. The code computes these with `f64`; the
operators with exact quotients, so rounding errors of very long inputs are
outside of the model.

## 3. Model checking

| run | instance | what it shows |
|---|---|---|
| `CallLifecycle` | 2 calls, 2 ids, no reuse under the bridge's feet, `add_port` may fail | `NoFreeWhileAttached`, `NoDanglingPort`: no use after free. `PortNeverLost`: somebody is left to free every port. `EstablishedHasMedia`, `WaitingSetupReachable`: a session has audio and a waiting setup can be woken. `ImplementsPortContract`: every port's life refines `MediaPortContract`. `SetupTerminates`, `PortReclaimed`: nothing outlives its caller. |
| `CallRecycled` | 2 calls, 1 id, reuse at once, every fault | `PortHeldOnce`, `CancelledNeverActive`: no double free and no session for a cancelled setup, even then |
| `CallOrphan` | 2 calls, 1 id | a violation, see below |
| `CallClobbered` | 2 calls, 1 id, reuse at once | a violation, see below |
| `TtsRuntime` | 3 requests, 2 phrases, a cache of 1, 2 health checks | `OneSynthesisPerPhrase`, `WaitersAreServed`: syntheses are shared and nobody waits for one that is over. `RecoveringHasBurst`, `RecoveryEnds`: recovery is under way and ends. `QueueMatchesMap`: the cache is consistent and bounded. `RequestsAnswered` |
| `ChannelNav` | channels 0, 2 and 3, every login and last channel, one other user, 2 digits, 3 events of the server's own accord | `SessionKnowsChannel`, `TaskKnowsChannel`, `ChimesExact` |
| `AudioUplink` | 7 frames, ring and queue of 2, hold of 2, encoder and connection may fail | `GateFollowsVoice`, `FramesAccountedFor`, `HeardInOrder`, `TalkEnds`: the gate, the numbering, the order and the terminator |
| `AudioMixer` | 2 speakers, 3 packets of no frame, two, or broken, two sounds or phrases of a frame and a half, queues of 2 | `PlayedInOrder`, `IdleHadNothing`, `QueuesDrain`, `SoundsGiven` |
| `Announcer` | 2 rooms, one user with 2 names, 3 packets, failing syntheses, a connection that closes or breaks | `OnlyFinalRoom`, `FinalRoomAnnounced`, `NeverTwiceInARow`: rooms. `NoTextSkipped`: texts, without a decoder only at the end of a connection |
| `CallerStore` | 3 calls of 2 callers, 2 nicknames, failing queries | `KnownByTheirNickname`, `NicknameStable`, `ClashOnlyByRace`: nicknames. `StoredChannelWasLeft`, `IntroNotRepeated` |
| `StoreTwice` | 2 calls of one new caller | a violation, see below |
| `Shutdown` | 3 calls, 2 with a number, a limit of 2, failing writes | `StartupEnds`, `EarlyCallsHeard`, `SignalEnds`; `NoWriteCutOff`: unless a deadline forces the exit, every write has ended, in success or not |

Every state machine but the abstract `MediaPortContract` has a `TypeOK`. No run lists
it, because it is proved of each of them, for every value of the constants (section 4).

### Why these bounds

Two calls are enough for a race between an old and a new call under one id, and two
ids enough for calls that are truly independent; the tables have no entry that
depends on a third. In `TtsRuntime` three requests give two that share a synthesis
while another runs or waits for a cooldown, and a cache of one makes every insertion
evict. Rings and queues of two can be empty, full and in between. A hold of two and
seven frames allow a talk spurt, its hold, its terminator and another spurt. Two
digits and three events let a move by the server fall before, between and after
joins and the moves of another user; the channels 0, 2 and 3 have a hole below the
highest, and the last channel may be missing, the root, in the hole, there, or above
the highest. Three packets let a caller leave a room and come back, and a user be
renamed between two texts, or leave and come back before one; with a fourth
`Announcer` passes too, on seven times the states. At 200 Hz a frame is two samples,
so that a sound of three ends in half a frame, alone or, when another follows,
together with its beginning. Three calls of two callers make both a race of one
caller and a clash of nicknames, with the row of a third call before it. Three calls
can be in setup, active and torn down at once at shutdown, queue before and after
the registration, and meet a limit of two; one of them has no number, and the writes
of the other two are reaped, awaited and refused independently.

Symmetry is used only in `CallRecycled`, which has no liveness property.
Deadlock is not checked: every system here may come to rest, with all calls over
or a bound used up.

### Fairness

* `CallLifecycle`: weak fairness of every setup task, of the main loop, of the
  media callback once begun, of media coming up for an answered call, of
  conference removals, of the deferred timer, and of the disconnect that follows
  a hangup by the bridge. tokio and pjsip run what can run, and every wait in
  these steps (Mumble's handshake, the intro) has a timeout or a token. Callers
  owe nothing: an established call may last for ever.
* `TtsRuntime`: weak fairness of each request and job. HTTP requests have a
  timeout; health checks are limited in number.
* `AudioMixer`: the interval ticks and the task takes what was sent, as long as
  it runs.
* `Announcer`: the receive task, the event task and the two workers run, and every
  synthesis ends. The server owes nothing, and neither an error of the connection nor
  the end of the decoder is promised.
* `Shutdown`: only the main task: what it calls at startup returns, and its
  deadlines pass. Callers, servers and Pocket-TTS owe nothing.

### Violations

* `CallOrphan` / `NoOrphanSession`. The comment at `src/session.rs:602` says that
  the transition from pending to active is atomic, lest an orphaned session be
  stored. The entry is removed, the token tested and the session inserted
  under separate locks. A `Disconnected` handled between the first and the last
  finds neither a session nor a pending setup, and nobody tears the session down.
* `CallClobbered` / `CleanupSparesNewCall`. The comment at `src/session.rs:252`
  says that the generation protects a new call under a recycled id from the
  cleanup of the old. It protects the entry of `pending_setups`; the cleanup
  then takes `PENDING_PORTS` and `MEDIA_READY_TX` by id alone, and a new call may
  have registered there since the generation was compared.
* `StoreTwice` / `NewKnownByTheirNickname`. `src/db.rs:24` says that the first
  call inserts a nickname and returns it. When two first calls of a caller
  race, the second insertion keeps the row of the first, and returns the
  nickname that was not stored.

With recycling, `NoFreeWhileAttached`, `NoDanglingPort`, `EstablishedHasMedia`,
`WaitingSetupReachable` and `PortNeverLost` do not hold, because one call's cleanup
takes the other call's entries: the same cause as `CallClobbered`. They are
therefore checked without it.

### What the models show besides

Some behaviour is in the models, restricts what the properties claim, and is
not in contradiction to any line of the repository:

* A join that is denied, or a move by the server, leaves `current_channel_id`
  where the digits put it (`strayed` in `SessionKnowsChannel`).
* The watch channel overtakes events that are already queued, so that during
  navigation chimes are attributed to the channel the caller is going to
  (`stirred` in `ChimesExact`).
* The comment at `src/session.rs:360` rejoins the last channel "if it still
  exists"; the code tests that its id is at most `max_channel_id`. A channel that
  was removed below the highest is asked for, denied, and still taken for the
  caller's (`strayed` again).
* Users who were on the server before the call are not in `user_channels`: they
  leave without a chime (`seen` in `ChimesExact`).
* Once the Mumble connection closes, the call stays up in silence and digits have
  no feedback (`running` in `SoundsGiven`). The encoder and the forwarder end only
  when frames come for them to pass on.
* `decode_wav_48k` skips a header of 44 bytes whatever the file says. Files with a
  further chunk before their data have it decoded as samples; four of the
  embedded chimes have one of 34 bytes, which is 17 samples of noise.
* Chimes are decoded to 48 kHz and phrases to the configured rate, and the mixer
  plays both at the configured rate: at another rate chimes change their pitch.
* An empty WAV answer is a success with no samples. It is cached, and the phrase
  stays silent as long as it is in the cache.
* A failed announcement is neither repeated nor replaced by a chime, unlike a
  failed message; `FinalRoomAnnounced` counts it as synthesized.
* Texts that the text worker has not spoken when the decoder ends with the Mumble
  connection are spoken to nobody (`missed` in `NoTextSkipped`), and those behind an
  error of the stream are never read.
* Nothing orders the writes of a caller's last channel by two overlapping calls,
  and nothing keeps two new callers from drawing one nickname.
* A request that has missed the cache before a synthesis ended, and looks into
  the in-flight table after that, synthesizes the phrase again.
* The write of a last channel that fails is reported in the log alone, and is not tried
  again (`refused` in `NoWriteCutOff`); a caller without a number has none.
* The drain at shutdown does not wait for calls in setup. Their tasks, and the
  timer of `DeferredCleanup`, may call pjsua after `pjsua_destroy`.
* When `on_call_state` cannot query the call, its DISCONNECTED is lost: a session
  stays (`DisconnectedUnseen`).
* Under `remove_op`, a port whose removal completes with an error is never
  destroyed, and a session torn down with neither pending nor active entry
  leaves its port. Under `remove_port`, `DeferredCleanup` destroys a port that may still
  be on the conference bridge. `CallRecycled` has both faults, and `PortHeldOnce` holds;
  the other properties about a port's end are checked without them, and `NoPortIsLost`
  is proved with `remove_port`.

## 4. Proofs

All theorems hold for any sets of calls, ids, requests, phrases, channels, users,
callers and nicknames, and for any capacities. They assume what the modules'
`ASSUME`s say: `None` is none of the values it stands beside, limits and
capacities are numbers, positive where the code needs it, and switches are
Booleans. `Shutdown` assumes in addition that there are finitely many calls,
`ChannelNav` that the server has the root and a highest channel.

**`CallLifecycle_proofs`**. Whether or not ids are recycled, under any set of
faults:

* `TypeCorrect`: `Spec => []TypeOK`. `TypeOK` is not inductive: an action that
  uses a call's id as an index needs the id to be there. `TypeInv` adds `LocalsOK`,
  which says when local variables have values.
* `CancelledSetupsNeverActive`: `Spec => []CancelledNeverActive`. The invariant
  is `CallInv`, that is `TypeInv` with `EventsOnce` (an `Incoming` event is queued
  once, before its task exists, so that no task starts twice) and `TablesOK`
  (an entry of `pending_setups` belongs to a task that is between its insertion
  and its removal, and a task in `store` has no entry and was not cancelled).
  `cancel_pending_setup` needs the entry; without it nobody can cancel.
* `PortsHeldOnce`: `Spec => []PortHeldOnce`, no double free. `PortHeldOnce` needs
  `HandedOver` beside `CallInv`: a port has an owner beyond its task only once the
  task has given it up. Every step either leaves a port with its owner
  (`MovePreserves`) or passes it to exactly one other (`RetirePreserves`).

And under `NoReuse`, that is when an id is reused only once the bridge keeps nothing
under it:

* `NothingDangles`, `SessionsHaveMedia` and `WaitingSetupsReachable`, whatever fails:
  no table keeps the pointer of a destroyed port, a session has its audio, and a
  waiting setup can be woken and cancelled.
* `NoPortIsLost`: `Spec => []PortNeverLost`, unless a removal completes with an error
  (no `remove_op` fault). `OwnersOK` gives every port that its task has let go of an
  owner. A teardown finds the port pending or active, because of `SafeInv`, and hands it
  to the conference bridge or a timer; the end of the removal destroys it.
* `NothingFreedWhileAttached`: `Spec => []NoFreeWhileAttached`, when every removal that
  is asked for is started (`RemovalsStart`, no `remove_port` fault). Otherwise
  `DeferredCleanup` destroys a port that is still on the conference bridge.
* `PortContractKept`: `Spec => ImplementsPortContract`, with neither `remove_port` nor
  `remove_op`. Every step takes at most one port one step on in `MediaPortContract`
  (`ContractStep`).

None of these is inductive: each needs to know where the port of a call is. The
invariant is `SafeInv`, which needs `NoReuse` alone and adds three parts to the above:

* `IdsOK`: two calls that use ids (`UsesId`: pjsua knows the call, its task runs, or
  it has a session) never use the same.
* `EndsOK`: an event that a call has ended comes, in the queue, before the `Incoming`
  of any later call under its id, so a cancelled setup is one whose call has ended;
  and a call is answered only by its own setup.
* `PortsOK`: for every program counter of the setup task, the port is in one of four
  places (`Located`): nowhere yet, in `PENDING_PORTS` (`Waits`), in the hands of
  `on_call_media_state` (`InCallback`), or attached and in `ACTIVE_MEDIA`
  (`OnBridge`). The task's sender and entry of `pending_setups` are its own
  (`Registered`), and a port that is being removed is registered under its own
  conference slot (`CleanedUp`). Whoever is in a table under an id uses that id.

A step is about the port of one call. `OthersKeep` shows once that such a step
leaves all others where they are (`OnlyOf`: it touches only what is under the
call's own id), so that each step has to be followed for its own call alone. The
proof also shows that the recycled path of `abort_setup` is never taken under
`NoReuse`, nor `DeferredCleanup` under `RemovalsStart`, and that a `DeferredCleanup`
for a removal that cannot be started finds the port in no table (`DeferredStep`).

**`TtsRuntime_proofs`**, for any number of requests and phrases:

* `SynthesisIsDeduplicated`, `NobodyWaitsForNothing`, `RecoveryIsUnderWay`:
  the three follow from the one inductive invariant `RuntimeInv`. It says that a job
  runs for exactly the phrases in the in-flight table, that the entry names that
  job until it is removed, that a job's channel is pending until it has sent, and
  that `recovering` has its burst.
* `CacheQueueMatchesMap`: `Spec => []QueueMatchesMap`, for any capacity. `CacheOK`
  says that the eviction queue holds each key once and exactly the keys of the
  map; lemmas say what removing the first occurrence, appending and dropping the
  head do to such a sequence (`RemoveFirstKeepsOrder`, `AppendKeepsOrder`,
  `TailKeepsOrder`), and from them what `get` and `insert` do.
* `RuntimeTypes`: `Spec => []TypeOK`.

**`AudioUplink_proofs`**, for any capacities of ring and queue, any hold of the
gate, and any number of frames:

* `GateIsExact`, `SpurtsEnd`, `FramesArriveInOrder` follow from `UplinkInv`.
  `GateOK` ties the counter of the hold to the quiet frames heard since the last
  voice. `NumbersRise` says that sequence numbers rise from what the server has,
  over what is being sent and what is queued, to the next number; the order in
  which the server hears alone says nothing about what comes next.
  `SpurtClosed` says that while the gate is closed the newest packet anywhere is
  a terminator, or that the terminator was lost.
* `NumbersAreAccountedFor`: `Spec => []FramesAccountedFor`. Since numbers rise from
  queue to queue (`NumbersRise`), a number that moves is nowhere else; `Accounted`
  adds that none has left the set of those given.
* `UplinkTypes`: `Spec => []TypeOK`, ring and queue within their capacities.

**`ChannelNav_proofs`**, for any channels, users, digits and moves:

* `SessionKnowsTheChannel`: `Spec => []SessionKnowsChannel`. `SessionHeads` says it
  of a join not yet recorded as well: what is being joined, or else `current`,
  is where the last request will put the caller.
* `TaskKnowsTheChannel`: `Spec => []TaskKnowsChannel`. `TaskFollows` follows a move
  through the queue: the last event about the caller names the channel the server
  has (`LastMoveArrives`), and with no such event and no other request under way
  (`Settled`) the task has noticed it.
* `ChimesAreExact`: `Spec => []ChimesExact`. `HomesChain` and `MovesChain` follow the
  events under way: each finds the caller, and its user, where the one before left
  them. `HomeKnown` ties the first event to the channel the task knows, and event 0
  of `MovesChain` is what `user_channels` holds. When the last thing under way is
  handled, `TaskFollows` gives the chain its start back.
* `NavigationTypes`: `Spec => []TypeOK`.

**`Announcer_proofs`**, with or without a debounce, for any rooms and packets:

* `NeverAnnouncedTwice`: `LastIsKept` says that `last_announced` is the room
  synthesized last, or the one being synthesized.
* `FinalRoomIsChosen`: `NewestIsSent` says that the newest of what is queued, or
  else what the debounce holds, is the room handed over last.
* `AnnouncerTypes`: `Spec => []TypeOK`, with `HoldsRoom`, that a worker which debounces
  or speaks has a room.
* `NoTextIsSkipped`: `Spec => []NoTextSkipped`. `EndInv` says that sounds find no
  decoder only after the connection has ended, the event task behind it and the
  decoder behind that: as long as the receive task runs, its last event is not in
  the queue. `TakenIsPosted` says that the texts handed over are the first of those
  posted, `TextsInOrder` that those under way are the rest, in a row. `NamesKept`
  says why the receive task finds the name the sender had when posting: there is a
  list of names, one for each packet under way, that leads from those the client
  knows to those of now, changes at a user's packets alone, and has the sender's
  name at each message. A user who left before ServerSync is still known to the
  client, but posts nothing. How rows of numbers behave when their head is taken,
  one is added or one is left out are lemmas of their own (`RowTaken`, `RowAdded`,
  `RowWithout`).

**`AudioMixer_proofs`**, for any speakers, packets, capacities and idle timeout; for
every length of a file, every number of channels and every rate:

* `SpeakersAreHeardInOrder`: `Spec => []PlayedInOrder`. `Has` says which packet is at
  which position of which stage; `InOrder` that no two of one speaker are out of
  order, `Known` that none is from the future. For each action a relation
  (`Received`, `Ticked`) maps a packet's place after the step to one before it, and
  never lets two of them overtake each other.
* `SoundsAreAccountedFor`: `Spec => []SoundsAccounted`, the safety half of
  `SoundsGiven`: while the decoder runs, the samples asked for are those given and
  those queued. It rests on `SoundLengthsAreNat`, that every file and phrase has a
  length.
* `MixerKeepsTypes`: `Spec => []TypeOK`. That ring, ear and PCM hold packets that have
  arrived follows from `Known` (`PacketsArrived`); `LensOK` keeps the capacities.
* `NobodyIsCutOff`: `Spec => IdleHadNothing`, since a decoding that leaves nothing had
  only empty packets, or a broken one at the end.
* `EffectsStayInBounds`, `ResamplingStaysInBounds`: the decoders read no sample
  beyond their input. `ResamplingKeepsDuration`: output and input last as long, to
  half a sample. They rest on four lemmas about division.

**`CallerStore_proofs`**, for any calls, callers, nicknames and channels:

* `KnownCallersKeepTheirNames`, `StoredChannelsWereLeft`, `NicknamesAreStable`
  follow from `StoreInv`, which adds `InsertsNew`: who inserts has found no row. A
  caller known by a nickname therefore never writes one, and the insertions of
  others leave a row that is there.
* `IntroIsNotRepeated`: `IntroKept` says that whoever was chosen for the intro has
  a row with a recent `last_seen`, and that a call that comes after has read it or
  will.
* `NicknamesClashOnlyByRace`: `CheckedNames` says that a nickname about to be
  inserted differs from all those its check has seen.
* `StoreTypes`: `Spec => []TypeOK`.

**`Shutdown_proofs`**, for any finite number of calls:

* `NoWriteIsCutOff`: `Spec => []NoWriteCutOff`. `ChannelsKept` follows a channel
  from the session to a write under way and from there to the database or to its
  error, and says that the flush has awaited every write. The drain ends when no call is
  active: that calls are finite makes a count of zero mean that. `EventsOK` keeps an
  `Incoming` event from starting a call twice.
* `NoCallIsMissed`: `Spec => []EarlyCallsQueued`, the safety half of `EarlyCallsHeard`:
  until main stops, the event of every call that the bridge has not heard of is in
  the queue.
* `ShutdownTypes`: `Spec => []TypeOK`.

Model-checked only: liveness, which the prover does not reach under fairness
(`SetupTerminates`, `PortReclaimed`, `RequestsAnswered`, `RecoveryEnds`, `QueuesDrain`,
`SoundsGiven`, `FinalRoomAnnounced`, `StartupEnds`, `EarlyCallsHeard`, `SignalEnds`).
Every invariant and every action property of the passing runs is stated by a theorem.

## 5. What is not modelled

* Conversion of text and formats: phone numbers, SIP headers, phrases and HTML to
  spoken words, sample formats, `normalize_streamed_wav`, Opus, the arithmetic of
  mixing. Unit tests hold examples of them.
* TLS, authentication and the ping of the Mumble connection: a sequential exchange
  before the state `ChannelNav` begins with, and packets that change nothing.
* Codec settings, thread registration, configuration, telemetry: values handed to
  libraries, with no state of the bridge behind them. The limits of the
  configuration are the constants of the models.
* `set_nickname`, which nothing calls; SMS, which nothing implements; the generated
  pjsip bindings and their build script.
* The error that `create_custom_port` declares: only a NUL in the port's name could
  raise it, and the name is a constant (`src/sip/media_port.rs:83`).
* The teardown of a call in `AudioUplink`, `AudioMixer` and `Announcer`: it aborts the
  call's tasks, and these modules are about a call as long as it lasts.
* A failing `pjsua_call_get_info` in `on_incoming_call`, which leaves the caller
  without a number: such a call has no row in the database.

## 6. Plan

Done: every part with concurrent state has its module, its run and its theorems, and
every safety property of a passing run is proved. To come:

1. What liveness rests on, as safety: that a setup which neither waits nor has ended
   has a step to take, whatever it is told, and that every wait has somebody to end it
   (for `SetupTerminates` and `RequestsAnswered`).
2. What still holds of memory when ids are reused at once, beyond `PortHeldOnce`: which
   entries of a new call the cleanup of an old one can take.
