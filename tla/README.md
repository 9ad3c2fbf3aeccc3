# A TLA+ verification of the Hubble Device SDK

The Hubble Device SDK is a C library for small radio devices. An application
calls it to build encrypted BLE advertisements, and to build satellite packets,
predict satellite passes and transmit. It runs on Zephyr, on FreeRTOS and on
bare metal. This directory holds TLA+ models of its stateful parts, TLC runs of
them on small instances, and TLAPS proofs of what matters most for every
instance. All paths below are relative to the repository (`src/` in
`PROJECT.json` stands for its root).

## 1. The system

| component | state | operations | uses |
|---|---|---|---|
| Nonce allocation (`src/hubble_crypto.c`) | `_sequence_number`; the six statics of the reuse check; under the SDK lock | `hubble_internal_sequence_acquire`, `hubble_sequence_counter_get`, `hubble_internal_nonce_values_check` | the time counter, read by the caller before the lock |
| Device state (`src/hubble.c`, key in `src/hubble_crypto.c`) | `unix_time_synced`, `unix_time_base`, `eid_initial_counter`, `master_key`; no lock | `hubble_init`, `_deinit`, `_time_set`, `_time_get`, `_counter_get`, `_key_set` | the uptime of the platform, the satellite port |
| BLE advertisements (`src/hubble_ble.c`), challenge (`src/hubble_challenge.c`) | none | `hubble_ble_advertise_get`, `_expiration_get`; `hubble_challenge_get`, `_response_check` | device state, nonce, cryptography |
| Satellite planning (`src/hubble_sat.c`) | none | `hubble_sat_packet_send`, `_pass_send`, drift, period, DTM calls | device state, the port |
| Pass prediction (`src/hubble_sat_pass_prediction.c`) | the ephemeris pointer and count | `hubble_sat_satellites_set`, `_next_pass_get`, `_next_pass_region_get` | drift and period |
| Packets and frames (`src/hubble_sat_packet.c`, `src/reed_solomon_encoder.c`, `src/utils/bitarray.c`) | `_hopping_sequence`, `_last_used_channel`, the encoder's tables and registers; under the SDK lock | `hubble_sat_packet_get`, `_frames_get`, the choice of a hopping sequence | nonce, cryptography |
| Radio ports (`port/zephyr/hubble_sat_zephyr.c`, `port/freertos/hubble_sat_freertos.c`) | a binary semaphore (static, or created and deleted); the radio | packet_send, init, deinit, DTM | the board driver, frames; calls back the application |
| System ports (`port/*/hubble_zephyr.c`, `hubble_freertos.c`, `hubble_esp_idf.c`, `hubble_sisdk.c`) | the lock; on FreeRTOS the overflow and last tick counts | uptime, lock, random numbers | the kernel |
| Radio drivers (`port/zephyr/boards/nordic`, `port/zephyr/boards/silabs`, `port/sisdk/boards`, `port/esp-idf/.../espressif`, `port/freertos/boards/ti`) | the transmission semaphore and a symbol semaphore; a hardware timer; the radio's power, interrupt, clock; what Bluetooth had before | enable, packet_send, disable, test mode | timers, interrupts, RAIL, TI's command queue |
| MPSL timeslot radio (`port/zephyr/boards/nordic/nrf_softdevice.c`) | two semaphores, a request queue, one result | the same; a callback at interrupt level and a cooperative thread | Nordic's multiprotocol scheduler |
| Dual-stack samples (`samples/*/sat-dual-stack`) | what a peer wrote, timers, semaphores, the advertising | provisioning over Bluetooth, the beacon and its hourly refresh, the loop over passes | everything above, the platform's Bluetooth host |
| Test mode samples (`samples/*/sat-dtm`) | flags, settings, the interval's semaphore and timer | shell commands, the transmit task | the DTM calls |
| Key derivation, crypto adapters | transient | pure functions and provider calls | |

The SDK's own operations run in the task that calls them; only the radio drivers
have interrupts, timers and (MPSL) a thread. Components share static variables and
call each other directly; the only callback to the application is
`hubble_sat_packet_sent_cb`, made with the radio on and the semaphore held.

What is hard:

* **Interleaving.** The nonce and the frames are under the SDK lock, the
  transmissions under the port's semaphore. The time counter of a message, the
  Unix time, the key, the uptime of FreeRTOS and the ephemeris are read and
  written under neither.
* **Time.** The counter rotates, the clock is set forwards and backwards, the
  tick counter wraps, the sequence number wraps, the clock drifts.
* **Restarts.** A reboot loses the statics of the reuse check while an
  application's own generator may persist; `hubble_deinit` and `hubble_init`
  clear some of the state and keep the rest.
* **Failure.** Enable, frames, transmission and disable may each fail; the
  radio must be off, the semaphore given and the first error returned.
* **Borrowed hardware.** The drivers take the radio from Bluetooth and must give
  back its power, its interrupt, its clock and its owner, whatever failed. A
  symbol's timing comes from a timer that may or may not wait for the task.
* **Applications.** The samples show the intended use: a beacon that a task
  refreshes while another stops it, a peer that leaves at any moment, a stop that
  meets the transmit task asleep. An integrator copies them.
* **Unbounded search.** The search for a pass loops over orbits and days with no
  bound but the geometry.

What makes each component correct: no pair of time counter and sequence number
is used twice, and none is refused needlessly; a time read is one that was set;
a message is derived from one key (section 5 says where the code falls short of
these three); the radio is used by one call at a time and
is off at rest; the semaphore's handle is valid when used; the uptime is exact;
a send made for a pass is on the air when the satellite passes, and the pass is
the next one; a receiver can follow the channels and read packets and frames; a
packet reported as sent was on the air whole; the beacon is silent during a
transmission and the samples' loops go on. `PROJECT.json` lists the hazards with their lines.

## 2. The modules

| module | models | proofs |
|---|---|---|
| `NonceCheck` | the reuse check, as operators on its six statics | |
| `MessageNonce` | the callers, the lock, the generator, the clock, reboots | `MessageNonceProofs` |
| `StayMemory` | abstract: a memory of the numbers handed out in the stay on a counter | |
| `SatPort` | both radio ports, with init, deinit and the test mode | `SatPortProofs` |
| `RadioSession` | abstract: exclusive sessions of the radio | |
| `DeviceState` | init, deinit, time, key, the getters and the challenge that read them | `DeviceStateProofs` |
| `TickUptime` | the uptime of FreeRTOS | `DeviceStateProofs` |
| `SatSchedule` | prediction of the window, plan of the transmissions, the loop that makes them | `PassProofs` |
| `PassSearch` | the search for the next pass over a place or a region | `PassProofs` |
| `ChannelHopping` | the channels of the frames | `SatPacketProofs` |
| `SymbolCode` | bits, symbols, the Reed-Solomon code, whitening, as operators | `SatPacketProofs` |
| `SatPacket` | packets and frames, on top of the two modules above | `SatPacketProofs` |
| `SymbolRadio` | what the radio drivers share: callers, semaphores, errors, the test mode | |
| `NordicRadio`, `MpslRadio`, `EspRadio`, `RailRadio`, `TiRadio` | one driver family each, on top of `SymbolRadio` | |
| `BoardRadio` | all the drivers together; their properties | `BoardRadioProofs` |
| `DualStack` | what the dual-stack samples share: the main loop, the timers, the peer | |
| `ZephyrBeacon`, `EspBeacon`, `TiBeacon`, `SilabsBeacon` | the advertising and its refresh on each platform | |
| `DualStackSamples` | the four samples together; their properties | `DualStackProofs` |
| `DtmShell`, `DtmSamples` | the test mode samples: what they share, and the three of them | `DtmSamplesProofs` |

`MC*` modules hold what the TLC instances need: symmetry sets, the table of
hopping sequences, messages, orbits, the sets of clock errors. Each component has
one next-state relation; the platform or board is a variable chosen by `Init`, so
that one run covers them all.

### Nonce allocation: `MessageNonce`

`hubble_ble_advertise_get` and `hubble_sat_packet_get` both read the counter
(`CounterGet`), then call `hubble_internal_sequence_acquire`: `Lock`, the
load and the increment of `_sequence_number++` (two steps), the load and the
store of the check's statics (two steps), `Unlock`. Between any two steps the
counter may rotate, the time may be set (`hubble_time_set`, or deinit and
init) and the device may reboot. `Generator` is the counting one of the SDK,
the same one persisted by the application, or one that returns anything, values
beyond 10 bits included (`CONFIG_HUBBLE_NETWORK_SEQUENCE_NONCE_CUSTOM`).
`used`, `reused`, `reentered`, `counted` and `stay` are history: no action's
guard reads them.

*The abstraction.* A *stay* is the time during which the check keeps the same
counter. `StayMemory` remembers every number of the stay and never hands one
out twice; the six statics of the code (a last number, a reference, two flags,
a counter, an initialised flag) are shown to decide no less strictly
(`StaySpec`). The refinement mapping takes the check's counter for the period.

*What is not kept.* The documentation says that nonces are never reused. The
code forgets a counter when it leaves it. `NeverReused` is violated (section 5)
and `NonceUnique` states exactly what remains: a pair is handed out twice only
when the check went back to a counter it had left.

### Radio ports: `SatPort`

`pc` follows `hubble_sat_port_packet_send`: waiting, enabling, sending,
callback, sleeping, disabling, giving; the init and deinit of both ports; the
test-mode calls. `held` is the handle a call loaded before it blocked, `sem`
the static: on FreeRTOS the two may differ, and the final give is to the
static. `power` is `"stuck"` when disabling has failed. Every board call may
fail; `xSemaphoreCreateBinary` may fail whenever the heap is full, whoever
filled it. `left` is the loop's counter `retries`, `failed` is `ret != 0`. `again` is
history: an init has replaced the handle of a semaphore that still existed.

### Device state: `DeviceState`

Each read and write of a static is a step. `source` is the counter source the
firmware is built with, frozen from the start. A getter's values are in `read`;
`used` records the key pointer at each derivation of a message. The drift is
a difference of two reads in either order, as C leaves it to the compiler. The
64-bit difference wraps at `Word`. `raced[t]` is set when a change of the state
was in progress during the call of `t`, `early[t]` when the call began before any
time was stored, `torn` when the last time was stored by a `hubble_time_set` that
another change overlapped. The base is an offset to the uptime, so of an old and
a new base each gives a time that was set; the one mixture the two stores allow
is the first synced time with the base 0 of the image or of `hubble_deinit`,
and that is what `TimeWhole` leaves out of `TimeKnown`. A challenge and the check of
a response test the key, read the counter and derive from the key pointer as it
is then; what they compare with is the caller's, so each comparison goes either
way.

### Uptime: `TickUptime`

One step per access of `overflow_ticks` (its `+=` is two) and `last_ticks`.
`total` is the true number of ticks; `Polled` says that somebody asks at least
once in every turn of the tick counter.

### Schedule: `SatSchedule`

Times are in half seconds on the device's clock, relative to the predicted
culmination; `error` is what that clock is ahead of true time, negative when it
is behind, and at most the estimated drift either way. `Predict` is the end of both prediction functions, `SendCall` the plan of both send functions,
`Transmit` and `Pause` the loop of the ports with the five random offsets.

### The search for a pass: `PassSearch`

One step per turn of a loop: the satellite, the orbit, the jump over the days
until the Earth has turned towards it (`TurnEarth`), the crossing followed, the
comparison with the best so far. The orbital mathematics is a toy: integers,
uniform circular motion, a satellite that climbs one unit of latitude in one unit
of time. It keeps what the search depends on: two crossings of a latitude per
orbit with opposite directions, an order of the two that depends on the
hemisphere, orbits that drift to the west, a latitude a satellite does not reach.
`Passes` enumerates the crossings of every orbit by definition and is what the
search is compared with.

### Packets, frames and channels: `ChannelHopping`, `SymbolCode`, `SatPacket`

`ChannelHopping` is the walk of `hubble_sat_packet_frames_get` through the
channels under the lock: the sequence is noted for the header, and each frame's
channel is found and stored in two steps. `SatPacket` extends its actions with
the packet: the fields and their bits, the lock, the encoder's generator and
registers (`gg`, `bb`, shared by all tasks), the header with its own parity, the
whitening by channel and the cut into frames. The field, the generator, the code
and the table of channels are the real ones: nothing is scaled down. `gg` and `bb`
are forgotten where the code does not read them again. Two `ASSUME`s of
`MCSatPacket` compare the operators with the output of the C functions. The encrypted payload, the
device and the tag are given with each message.

### Radio drivers: `SymbolRadio` and the modules on top of it

`pc[u]` follows `hubble_sat_board_enable`, `_packet_send` and `_disable` for two
users: the port, which transmits in sessions, and the test mode, which the port
does not keep apart. `lock` is `_transmit_sem`, `sym` the semaphore that a timer
or an interrupt gives for each symbol, `hw` the radio (carrier, tuned symbol,
timer, routing, interrupt, settings, amplifier, clock), `saved` what Bluetooth
had. `air` is the packet as a receiver hears it: a symbol, or 0 for one that was
cut, repeated or sent on the wrong frequency.

* `NordicRadio`: a periodic timer keys the radio through hardware channels; the
  task only retunes during the pause. If it is late (`~cond.prompt`) the symbol
  is spoiled.
* `MpslRadio`: the callers queue requests for the cooperative thread; the
  callback delivers `ts.signals` in the order MPSL may give them (start, timer,
  blocked, idle, closed) and transmits within the slot.
* `EspRadio`, `RailRadio`: the task keys the carrier and sleeps on a one-shot
  timer. RAIL's timer may still be set by a packet that failed.
* `TiRadio`: a symbol is a command with an absolute start, on a global object.

`cond` names what the properties need of the application: `alone` (the test
mode leaves the port's session alone), `prompt` (the task runs within the pause),
`tidy` (the test mode does not set the power of a radio at rest). Every
combination is an initial state, and each property names the ones it needs.

### Dual-stack samples: `DualStack` and the four beacons

The main task waits for the time and the orbits a peer writes, starts the
beacon, plans a pass, sleeps until its timer, stops the beacon, transmits, starts
the beacon again. A timer asks for a refresh of the payload, which another task or
work queue makes; `data` turns stale when the period of the payload ends. `host`
is the Bluetooth host (Zephyr's `bt_enable`, NimBLE's sync and reset, TI's queue of
functions, the Silicon Labs task). `faulty` lets every platform call fail.

### Test mode samples: `DtmShell`, `DtmSamples`

`shell` and `thread` are the shell's and the transmit task's places. What
`_shell_sem` protects is used only under it, so a critical section is one step;
only the one in which a packet is on the air is two. The commands of the user are
arbitrary, in any order, with valid and invalid arguments; the settings are
copied where the platform copies them. A set-up that fails ends the sample; TI's
table of commands has the size of the source, and the heap is taken to suffice.

## 3. The runs

| run | asks | instance |
|---|---|---|
| `nonce_calls` | `TypeOK`, `NonceUnique`, `RefusedOnlyWhenSpent`, `StaySpec`, `AcquireReturns` (fair) | 2 tasks, 2 counters, 2 sequence numbers, any clock, reboots, any generator |
| `port_zephyr` | `RadioFollows`, `SuccessIsComplete`, `DeinitOnlyAtRest`, `SessionSpec` | 3 tasks, 2 transmissions a call, init and deinit at any time |
| `port_freertos` | `SemaphoreKept`, `RadioExclusive`, `SendReturns` (fair) | 3 tasks, 2 semaphores, test mode, init (repeated) and deinit alone |
| `device_calls` | `TimeWhole`, `ElapsedBounded`, `ExpiresWithPeriod` | 2 tasks, all calls, both sources, 2 times, uptime to 2, period 2 |
| `ticks_one_caller` | `UptimeExact` | 1 task, counter of 4 ticks, 14 ticks |
| `sched_pass` | `PassCoveredUnlessAhead`, `FitsWindow`, `CallbackContract` | all modes, drifts up to 6 minutes, clocks ahead and behind, 2 crossing times, every pause |
| `pass_search` | `PassVisible`, `EarliestIfNarrow`, `DurationRight`, `SearchEnds` (fair) | 0 to 2 satellites, 5 latitudes, 12 longitudes, 3 widths, points and regions |
| `hop_frames` | `HeaderPredicts`, `EveryChannelInTurn`, `PacketReadable`, `FramesReadable` | 2 tasks, the real table and code, messages of every length, 2 sequences |
| `boards` | `OneSender`, `WholePacket`, `HandedBack`, `SendReturns` (fair) | 8 drivers, packets of 2 symbols, every failure, every combination of conditions |
| `dual_stack` | `Quiet`, `LoopRepeats`, `Pairable`, `Refreshed` (fair) | 4 platforms, with and without failing calls, room for 2 satellites |
| `dtm` | `StopEnds`, `AsAsked`, `StopReturns`, `Repeats` (fair) | 3 platforms, any commands |
| `nonce_two_callers` | `NeverReused`: violated | 2 tasks and a rotation |

What each shows:

* `nonce_calls`: the reuse check, whatever is interleaved with it, is a memory of
  the current stay; it refuses only when nothing is left; nobody waits forever.
* `port_zephyr`, `port_freertos`: a call of the port is a session that nobody
  enters, its radio is on while it transmits and off when everybody is done, a
  success means that every transmission was made, and the semaphore is neither
  used after deletion nor lost. A second `hubble_init` without a deinit, which the API
  test makes, replaces the handle on FreeRTOS (`again`): the old semaphore is leaked,
  and still no two calls transmit at once.
* `device_calls`: without any lock, a time is never mixed from two others and never
  left over from before a deinit, although it may be the bare uptime beside the first
  `hubble_time_set`; the time since the last sync cannot wrap in a call that nothing
  overlaps; the expiration is that of the counter. Only the calls `hubble.h` keeps
  apart are kept apart.
* `ticks_one_caller`: the carry of the 32-bit tick counter is exact in one context.
* `sched_pass`: prediction, plan and loop fit together, to within the pauses, for a
  clock behind by up to the drift or ahead by up to 40 s of it (`AheadMargin`).
* `pass_search`: the search finds what the definition does, and ends.
* `hop_frames`: what a receiver decodes is what was sent, two tasks at once.
* `boards`: a packet reported as sent was whole, the radio goes back to
  Bluetooth as it was, no sender waits forever: per driver, with what it needs.
* `dual_stack`, `dtm`: what the samples' READMEs and help texts say of stopping,
  refreshing, pairing and repeating.
* `nonce_two_callers`: the first difference of section 5.

Why the bounds are enough.

* *Nonces.* Two sequence numbers give a first one and a last one, a reference
  that is either, numbers on both sides of it, and a wrap within a period; any
  generator also returns one beyond them. Two counters are enough to leave a
  counter, enter another and come back. Two tasks are enough for one to be delayed
  while the other runs. The proofs do not depend on any of these.
* *Ports.* Three tasks give one that transmits, one that waits and one that
  deinitialises. Two transmissions give a first, a last and a pause. Two
  semaphores let an old handle and a new one coexist.
* *Device.* Times 0 and 7 with an uptime to 2 give a time that is refused once the
  uptime has passed it, one that leaves the time unset, and bases that differ; `Word` = 16 makes a difference below zero wrap far from
  any legal value. `Period` = 2 makes the counter move within a call.
* *Ticks.* Fourteen ticks of a counter of four wrap it three times.
* *Schedule.* The tested drifts (up to 350 s: at the default 10 ppm, more than a
  year without a sync) add 0 to 17 retries of the normal mode. The errors of the clock are the
  drifts with both signs, none, and two on either side of the 40 s that the
  window bears ahead. With much more drift the random pauses, which may all be
  short, end a send before a satellite for a clock that is 40 s ahead: it is what
  the code gives, not a limit of the tool. The 8-bit cap of a count only bites beyond it.
* *Packets.* Nothing is scaled down except the number of tasks, of messages (one
  per length, and one of a length that is refused) and of hopping sequences (2 of 4:
  each is a permutation of the channels).
* *Pass search.* A day of 62 units and orbits of 8 and 12 do not divide each other,
  so a ground track does not repeat daily; inclinations of 2 and 3 make one of the
  latitudes out of reach of one satellite; windows of 2, 6 and 16 units are narrower
  and wider than the distance between two orbits. `LastOrbit` = 80 bounds the orbits of
  the reference definition and of the search, and is more than a ground track's
  repetition; `Never` is later than all of them, as the constants' assumption says.
* *Boards.* Two symbols give a first one, a pause and a last one; only the place
  relative to these decides what a driver does. `BoardRadioProofs` has any number.
* *Dual stack.* Two satellites give none, some and a full table; three pending
  functions let TI's Bluetooth task lag behind a stop, a start and a refresh.
* *Test mode.* One valid and two invalid values per setting are all the code tells
  apart; ten commands is the size in the source.

Fairness. `MessageNonce` assumes that the owner of the lock keeps running (weak
fairness of its steps), and that the mutex is granted to each of its waiters in
turn (strong fairness of `Lock`): kernel mutexes hand over to a waiter. Calls
need not be made. `SatPort` assumes the same of the semaphore, and that board
calls, the application's callback and pauses end; the code waits with
`K_FOREVER` and `portMAX_DELAY`, so it depends on that.

`BoardRadio` assumes that tasks run, timers expire, interrupts come and MPSL
answers its requests; a semaphore passes to a waiter (strong fairness of each
driver). In `DualStackSamples` tasks, work queues and the refresh timer run, but
nothing is assumed of the peer or of the next pass, which may be a day away. In
`DtmSamples` semaphores serve their waiters in turn and the interval's timer expires,
but the user need not type anything. `PassSearch` is one task that runs.
`CHECK_DEADLOCK FALSE` is given where the system may stop: tasks of the boards run
that a misused test mode has left waiting, samples whose set-up failed.

Discipline. `hubble.h` says that `hubble_deinit` must not run beside other
calls, and that `hubble_init` comes before them: `Serialized` (SatPort) and
`AloneCalls` (DeviceState) say so; in `MessageNonce` an uptime counter is set only
while no task is in a call. The Zephyr port is checked without any of it.

## 4. The proofs

TLAPS checks 33 theorems, for every value of the constants allowed by the modules'
assumptions. The invariants of many parts (`CountInv`, `HInv`, `DInv`, `PackInv`, and those of `PassSearch`) were given to
TLC, as invariants of the modules' instances, before they were proved; the names below
are those of their parts in the proof modules.

* **`MessageNonceProofs`.** `TypeCorrect`: the types. `StayRefinement`:
  `Spec => StaySpec`. The inductive invariant `Inv` says that only the owner of
  the lock is inside the critical section, that the statics it loaded are still
  the statics, and what the six statics mean in terms of `stay`: before a wrap,
  every number of the stay lies between the reference and the last number;
  after one, it is at or above the reference or at most the last number.
  Without the meaning of the flags the refusal of a second wrap could not be
  shown to be sufficient. `UniqueUnlessReentered`: `Spec => []NonceUnique`,
  from `Inv` and the fact that everything used with the current counter is in
  the stay until the check re-enters a counter. `NeverReusedUnderSteadyClock`:
  one task, a Unix clock that only moves forward and no reboot (`SteadyClock`)
  give the documented promise; the invariant adds that the statics never run
  ahead of the clock. `NoNumberLost` (`RefusedOnlyWhenSpent`) needs no condition:
  `CountInv` follows a counting generator from the draw to the check. One number at
  a time is on its way, since it is drawn under the lock, and the numbers of the
  stay are a run without holes up to it (`InARow`), around the wrap if there was one.
  With a hole a refusal would not mean that everything is spent.
* **`SatPortProofs`.** `TypeCorrect`, for every discipline. Under `Orderly`
  (Zephyr, or init and deinit kept apart): `Exclusive`, `SessionRefinement`, and, without the
  test mode, `RadioState` (`RadioFollows`) and `SuccessComplete` (`SuccessIsComplete`).
  The invariant says that calls in progress work on the handle the static has, that
  the semaphore is not given while anyone holds it, and that two tasks never hold it.
  `SemaphoreLife` (`SemaphoreKept`) and `DeinitAtRest` add `KeepInv`: on FreeRTOS the
  handle is NULL or that of a semaphore that exists, and while no second init has
  replaced it (`again`), that there is no other semaphore.
* **`DeviceStateProofs`.** No lock protects this state. `TimeIsWhole` (`TimeWhole`) and
  `ElapsedIsBounded` hold without a condition on the callers beyond `hubble.h`'s
  on init and deinit. `ReadOK`: the base a call has read is one that was
  accepted since the last deinit, unless the call began before there was one and is
  raced. `EarlyOK`: a call that began later finds an accepted base, since they stay
  until a deinit. `Unraced`: beside a call that is not
  marked as raced no change is in progress, so what it reads is what it read.
  `Stored`: a synced time without a base means that a task is between the two
  stores; deinit, which is alone, clears both. `Synced`: unless
  the last store was raced or is half done, the base and the synced time are within
  the uptime of each other, so that the subtraction cannot wrap.
  `ExpiresExactly` (`ExpiresWithPeriod`) needs no condition. `hubble_counter_get`
  divides a clock by the period and takes the remainder by the pool; the expiration
  is computed from the remainder of the same clock by the period, in another file.
  The lemmas show that every clock before the expiration gives the counter of the
  advertisement and the clock at it another one, the wrap of the word included.
  The module also has the theorem of `TickUptime`, the clock this state reads on
  FreeRTOS. `ExactForOneCaller`: one caller (`SingleCaller`), any
  width of the counter, any number of wraps. The invariant relates the carry
  and the last reading to the true tick count at each place of the call.
* **`SatPacketProofs`, the channels.** `HeaderPredictsFrames`: any table of
  permutations, any number of tasks and channels. The invariant (`Inv`) says that the
  last channel of the packet in progress is the shared last channel.
  `ChannelsInTurn` (`EveryChannelInTurn`): `TurnInv` places each of the last
  channels in the row, as many positions behind the last one as frames have passed
  since, and a permutation has each channel once. Both hold of the walk alone and of
  `PacketSpec`. The module assumes at least two channels: a single one would follow itself.
* **`SatPacketProofs`, packets and frames.** `PacketsAreReadable` (`PacketReadable`)
  and `FramesAreReadable` (`FramesReadable`), for any messages and any number of
  tasks. `ParityDivides`: for data of any length the register leaves a codeword. Its
  contents, taken for the lower coefficients of what went in, vanish at the roots of
  the generator after every symbol (`ShiftKeepsRoot`): a shift multiplies by the root
  and adds a multiple of the generator. `NumberIs`, `OctetsIs`, `BitsOfEncoded`: a
  number, bytes and bits are read back from their bits and symbols. `PlusTwice`: a
  whitening added twice is gone. These are inductions over data: `Induction` proves
  what holds of a set of naturals from the pigeonhole principle, `Recursion` that a
  recursive function exists. Of the tasks, `PackInv` says that whoever is
  between two calls of the encoder holds the lock, so that `gg` and `bb` are still
  its own (`EncoderInv`), that a finished packet is the one of its message
  (`MessageInv`), and that the frames so far are consecutive pieces of preamble,
  header and whitened packet (`FramesInv`), as many as channels were taken
  (`CountInv`). Three facts are assumed that have no parameters, and TLC
  evaluates them in full: the tables make GF(64) a field (`FieldAssumption`), the
  five generators have the roots they should (`GeneratorAssumption`), and a whitening is
  made of symbols (`WhiteningAssumption`). `SatPacketAssumption` bounds the fields of a
  message by their widths, the channels by 19 and the sequences by 4.
* **`PassProofs`, the search.** `ReportedIsPass` (`PassVisible`), `DurationOfRegion`
  (`DurationRight`) and `NoneEarlier` (`EarliestIfNarrow`), for any length of the
  day, any orbits, any number of satellites and any place, region and time. What has
  to be shown is that a search that moves its own `t`, jumps over days and follows
  one of two crossings still looks at every orbit. `TypeInv` (`OrbitOK`): the
  crossings are those of the orbit that is searched, which never goes back.
  `SinceInv`: `t` falls behind the time asked for only where the crossing that is
  followed has left the window, so that what is found there comes later than asked.
  `ReportInv`: what was found, and the best so far, is a crossing of the reference
  definition. `DurationInv`: a region's satellite was timed between its two limits,
  in the order of its direction. `NoneMissed`: in no orbit up to the
  one that is searched was either crossing within the window; while one of
  them is followed (`Follows`) it is less than an orbit away from the window's
  eastern limit, and the other one cannot get there before. `BestSoFar` says it of the
  satellites that were compared. `NoneEarlier` has two hypotheses. One is the
  property's own: the window is narrower than two orbits of a satellite are apart
  (`Narrow`; section 5 shows a wider one missing a pass). The other is that four
  orbits fit in a day (`LowOrbits`), so that the crossing that is not followed is far
  away: the satellites of the service make some fifteen, those of the run five
  and seven. The lemmas about directions (`Same`, `Turn`, `HalfTurn`: equal but for whole
  turns) and orbits (`OrbitAt` inverts `AtOrbit`) are stated once.
* **`PassProofs`, the send.** `CallbackOncePerTransmission` (`CallbackContract`) and
  `SendFitsWindow` (`FitsWindow`) hold for any drifts, crossing times, clock errors,
  air time and limit of the count. `PassIsCovered` (`PassCoveredUnlessAhead`) has the
  limits the code has: eight bits hold the planned count (`Uncapped`), and
  what the random pauses may lose is small beside the window (`SmallLoss`): with
  half a second of air time, as in the run, drifts up to 290 s, eleven months
  without a sync; any drift once a packet takes a second. The run's drift of 350 s
  is checked by TLC only. `PlanInv` ties the plan to the prediction, `LoopInv`
  the counters to the callback, and `ClockInv` bounds the clock from both sides by
  the transmissions and pauses made so far.
* **`BoardRadioProofs`.** `Exclusion`: on every driver, with any number of symbols,
  any failures and a test mode that interferes at will, whoever drives the symbols
  holds the transmission semaphore. One lemma per driver shows that its actions keep
  the invariant; only the places of the tasks are needed for it. `WholePackets`
  (`WholePacket`) and `RadioHandedBack` (`HandedBack`) rest on `HInv`: as long as the
  properties' conditions hold, one task may be inside the driver and the other is
  at rest (`Only`), the radio's settings are those the task's place calls for
  (`Settings`), and a packet reported as sent was heard (`Heard`). What makes this
  inductive is an account of radio, timer, interrupt and air for each family
  (`NordicState`, `EspState`, `RailState`, `TiState`, `MpslState`): a Nordic symbol ends as an
  event or as a count of the semaphore, never both; an MPSL signal still to come
  finds an error as the result; the packet's symbols so far are on the air, but for
  RAIL's first (`Played`). A radio at rest is as good for one user as for the
  other (`Anybody`), so that they may take turns.
* **`DualStackProofs`.** `QuietOnAir` (`Quiet`) and `LoopGoesOn` (`LoopRepeats`), with
  any number of satellites and connections and a queue of any length. `DInv` has a part
  per platform. `Peering`: once the time is known nobody is connected and nothing
  advertises for a peer, so only the main loop starts the beacon. `ZephyrInv`: the
  work that advertises for a peer again is pending only between two connections,
  before the time is known. `TiInv`: where the beacon must be off, every start still in the
  queue has a stop behind it, and a beacon on the air has a stop still to come; the
  advertising for a peer is queued at most once. Without the order of
  the queue a late start would undo the stop. `SilabsInv`: the refresh timer runs as
  long as the beacon is active, and `_bt_sem` exists after a set-up that
  succeeded. `Looping`: whoever returns was failed by a call, or has no orbits.
  Espressif is exempt as in the properties: section 5 says what its refresh does.
* **`DtmSamplesProofs`.** `StopsForGood` (`StopEnds`) and `SentAsAsked` (`AsAsked`), on
  any of the three platforms, whatever is typed. `Joined`: on Zephyr and TI no task is there
  while `in_progress` is clear, except between the stop that clears it and its join.
  `Notified`: on Espressif the stop's handle, the task about to notify and the
  notification are one token, which exists only during a stop (`Token`). `Asked`: the
  kind of transmission last accepted is in the shared setting until the task copies
  it, and in the copy from then on.

Only model-checked: liveness (`AcquireReturns`, both `SendReturns`, `SearchEnds`,
`Pairable`, `Refreshed`, `StopReturns`, `Repeats`), which depends on
fairness and is beyond the prover. Every invariant of the passing runs is stated by
a theorem.

## 5. Where code and documentation differ

`nonce_two_callers` is a run (`findings` in `PROJECT.json`). The comment at
`hubble_priv.h:58` says that the lock keeps two callers from the same sequence
number, "which would reuse the AES-CTR keystream"; a task that read the counter
before a rotation takes the check back to it after another has moved on, and a
pair is handed out again.

For each of the following TLC finds a counterexample when the named definition is
given as an INVARIANT, with the `.cfg` of the module changed as said:

* `NeverReused`, `nonce_two_callers` with one task, `Uptime = TRUE`, `Events = {"set"}`,
  `MaxSeq = 2`: `hubble.h:97` says that initializing the SDK again does not reuse a
  nonce; an init with another initial counter and one with the first again are each
  a step forward for the check, which then allows a wrap over the numbers used.
  With `Uptime = FALSE` a clock set back does the same, above the new reference.
* `NeverReused`, one task, `Events = {"reboot"}` and a `"persisted"` generator: the check
  "prevents nonce reuse" (`port/zephyr/Kconfig:150`); after a reboot it has forgotten
  the period, and a generator that wraps reuses its numbers.
* `TimeKnown`, `device_calls` as it is: `hubble_time_get` returns 0 or the current time
  (`hubble.h:130`), and nothing asks to keep it apart from `hubble_time_set`; between
  the two stores of the first one (lines 45 and 46) it returns the bare uptime, a
  time in 1970. `TimeWhole` is what holds.
* `DriftFromElapsed`, `device_calls` as it is: the drift is computed "based on the elapsed
  time since the last successful time synchronization" (`hubble_priv.h:160`); a time
  set between the two reads of `hubble_sat.c:64` makes the elapsed time wrap, and the
  drift the largest one. `ElapsedBounded` is what holds.
* `OneKeyPerMessage`, `device_calls` with two `Keys`: the payload is encrypted with "the
  configured Hubble device key" (`docs/satellite/index.rst:22`); every derivation reads
  the key pointer again, so a message that `hubble_key_set` overlaps is made of two
  keys. Without an overlap there is nothing that could change the key, so no
  passing run asks for it.
* `UptimeExact`, `ticks_one_caller` with two `Callers`: two calls around a wrap count it
  twice. The comment at `hubble_freertos.c:51-54` asks for a single context; the SDK
  calls it from the context of every caller. (With `Polled = FALSE` a turn of the counter
  during which nobody asked is lost.)
* `PassCovered`, `sched_pass` as it is: the comment at `pass_prediction.c:873` names a clock
  that is ahead or behind, and `clock-drift.rst:13` one that is "early or late". The
  window is moved half a drift earlier on the device's clock and prolonged by one drift:
  it begins before the satellite for a clock behind by all of the drift, and ends before it
  for one that is ahead by it. `PassCoveredUnlessAhead` says how much it bears ahead.
* `Earliest`, `pass_search` as it is: "the next pass" (`pass_prediction.h:138`); with a window
  wider than the distance between two orbits, the jump of `pass_prediction.c:670` passes
  over an orbit that is visible, and a later pass is reported. `EarliestIfNarrow` is
  what holds.
* `Silent`, `dual_stack` as it is: "the device stops BLE advertising and transmits" (the
  README of the Espressif sample, line 174); the refresh task may start the beacon
  after the main task stopped it (`app_ble.c:140`), so that it runs during a
  transmission. On TI the stop may still be queued. `Quiet` is what holds.

The others were met with the same models, or while reading:

* `SatPort` with `Dtm = TRUE` and `RadioFollows`: a test-mode call
  switches the radio off in the middle of another call's transmissions.
* `hubble_init(0, key)` in Unix mode is refused only when the uptime is not 0
  (`hubble.h:45` says always).
* `hubble_ble_advertise_expiration_get` is about the period of the clock when
  it is called, not about the advertisement on show (`ble.h:112`).
* `SatSchedule`: `hubble_sat_packet_pass_send` returns up to an interval before
  the end of the window (`sat.h:95`); a long send outlasts it by the random part
  of its pauses (`hubble_priv.h:173`); at the maximum drift the 8-bit count is
  below the documented one (`sat.h:35`).
* A second `hubble_init` picks another hopping sequence (`hubble_priv.h:150`).
* `PassSearch`: a device exactly at the equator is told the opposite direction; a
  region that ends at the equator from the south is never served; a crossing exactly at the western limit may
  be skipped, and with a tolerance of 0 the search may not end. The region's search
  ignores the minimum elevation that the header says applies to both.
* `SatPacket`: the header's 4 bits announce channels 16, 17 and 18 as 0, 1 and 2; a
  receiver has to whiten with the channel it heard. A payload of a refused length
  spends a sequence number.
* `BoardRadio`, what the conditions exclude. Nordic: a task late by a pause sends a
  symbol on the wrong frequency and may leave the carrier on; the nRF52's
  test-mode disable masks the interrupt a sender waits for; nested enables, and a
  power set at rest, lose Bluetooth's power; a failed `cw_start` leaves the
  amplifier on. MPSL: `k_msgq_cleanup` may drop another task's queued call, and the
  one result and semaphore are shared by all callers. RAIL: the timer of a packet that
  failed may cut the first symbol of the next one.
* `DualStackSamples`: on Espressif a stop or start of the main task that fails because
  of the refresh task ends the main loop. On TI a stop is only queued,
  and its failure unseen. A peer that writes the time alone ends the sample. On
  Silicon Labs a set-up that fails deletes a semaphore the Bluetooth task still
  gives. Orbits written before a disconnection are counted again after it, except on
  Silicon Labs.
* `DtmSamples`: on Zephyr a packet that cannot be built leaves
  `_transmission_in_progress` set, and every later start is refused with the advice
  to use stop, which does not clear it; a stop that comes before the task has set
  its flag does not stop it. On Espressif a second start before the task takes
  over replaces the settings and may leave a transmission to come after a stop. On
  TI a stop leaves a carrier wave on; the shell never stores the `\r` it looks for
  before a `\n`, so each CRLF runs an empty command.
* `hubble_crypto.c`: a derivation that fails halfway returns without clearing what
  it derived (read, not modelled).

## 6. What is not modelled

* Cryptographic values. Of the derivations only the order in which they read the
  key is modelled; the adapters keep no state between calls.
* The orbital mathematics and the refinement of the culmination: floating point,
  replaced by a uniform motion in `PassSearch`, taken to be right in `SatSchedule`.
  Whether the toy's search and the real one agree on every real orbit is not shown:
  the control is the code's, the numbers are not.
* The ephemeris replaced during a search: nothing is promised of the result.
* Register values, frequencies and power tables of the board drivers; their
  initialisation, which runs once at boot; TI's generated radio configuration.
* The line editing of TI's shell, the text of the samples' output, the Bluetooth
  services beyond the two values a peer writes.
* Halves of 64-bit accesses on 32-bit cores: an access is one step.
* `hubble_init`'s choice of a hopping sequence is one step, as the API's note
  keeps it apart from transmissions.
* The drift is that of the prediction when the packet is sent.
* The ESP-IDF and Silicon Labs system ports (platform calls without state), the
  host tools, and the samples that call the SDK in a straight line.

## 7. What could come next

1. Composition: `BoardRadio`'s two users replaced by `SatPort`'s tasks, to show
   that the sessions of the one satisfy the conditions of the other.
2. Proofs: `NoneEarlier` for fewer than four orbits a day, which the code may be right
   about as well.
3. Acquisition and release of key slots and buffers on the error paths of the
   derivations and adapters.
