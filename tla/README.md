# Verification of the rf433 MQTT bridge

This directory is a TLA+ verification project for the firmware of the rf433
bridge (`rf433-mqtt-bridge.yaml`, `rf433_scheduler.h`, `rf433_rx.h`,
`components/`). A bridge is an ESP8285 that takes motor commands over MQTT and
hands 433 MHz frames to an RF coprocessor over a UART. A blind that is sent
"down for 20 seconds" moves until a second frame stops it, so the program's
central duty is a fail-safe one: **whoever starts a timed motion must send its
STOP, in time, whatever else happens**.

Everything runs on one cooperative loop. There are no threads; the
interleavings that matter are those of MQTT handlers, the 5 ms interval, the
update handler, the broker's redeliveries, the coprocessor and the clock.

## 1. The system

| Part | State | Operations | Talks to |
|---|---|---|---|
| `TargetScheduler` (`rf433_scheduler.h:482-1156`) | live commands by target, their order and a round-robin cursor, flush queue of displaced STOPs, air horizon, repeat-gap floor, ring of 64 remembered ids | `schedule`, `disarm`, `next`, `drain_armed_stops`, `replay_state`, `idle`, `rf_air_clear` | called by `/tx`, `/cmd`, the 5 ms tick, OTA begin, the watchdog |
| `LifecycleOutbox` (`:200-300`) | up to 32 statuses, drop counter | `publish_or_enqueue`, `flush` | called by `/tx`, `/cmd`, the tick; publishes through the MQTT client |
| B0 codec and key parser (`:302-480`) | none | `normalize_b0`, `valid_key`, `parse_target` | called by `/tx` and `schedule` |
| `RxState` (`rf433_rx.h`) | bounded sniff deadline, rate limiter, radio mode, keepalive | `command_allowed`, `start_sniff`, `tick`, `wants_sniff`, ... | called by `/cmd`, the tick, bucket reception |
| Bridge automation (`rf433-mqtt-bridge.yaml`) | `boot_id`, `ota_active`, `next_info_ms`, watchdog instant | `/tx` and `/cmd` handlers, 5 ms tick, OTA begin and error, 10 s watchdog, boot | composes all of the above |
| `rf_bridge` (`components/rf_bridge/`) | receive buffer, candidate flag, last byte instant, bucket offset | `loop`, `send_raw`, sniffing on and off | UART to the coprocessor, bucket callback |
| MQTT client (`components/mqtt/`, vendored and patched) | connection state, name lookup, subscriptions with their marks, birth flag, payload buffer, components to resend | `loop`, `enable`, `disable`, `subscribe`, `unsubscribe`, `publish`, the library's callbacks | broker, through AsyncMqttClient |
| Coprocessor firmware (third party) | busy with a frame, sniffing mode | transmits a B0 frame, reports buckets | UART |

What is hard here, and what each part owes:

* **Scheduler.** A command can be displaced, disarmed, refused, redelivered or
  drained at any point of a train of ACTION copies, TRAILER copies, a wait, and
  STOP copies. Arithmetic is on a wrapping 32-bit clock with four kinds of
  comparison. Correct means: no STOP is lost or sent too often; nothing is sent
  while the coprocessor transmits; the repeat gap holds; one timed train is on
  the air at a time; memory and delays stay in bounds; ids run once and their
  answers never contradict each other; every command gets its turn.
* **Outbox.** Statuses are produced in the order of the calls, not of the
  command's life, and wait in 32 places over an outage. Correct means: per
  command the broker hears the life in its order; nothing is lost uncounted but
  completions.
* **Receiver.** The radio is half duplex: receive mode must be off while a frame
  is out and come back afterwards, through silent fall-backs of the coprocessor.
* **Automation.** Sessions (boot id), redelivery, an update that blocks the
  loop, and a reboot that loses RAM have to leave no motor running.
* **UART.** A capture has no length byte and its stop byte may be a pulse, so
  its end is guessed from its shape and from silence, by a loop that may stall.
  Outbound frames are judged on characters and sent as bytes. Correct means:
  captures come out whole, once and in order; the parser always comes to rest;
  no bucket reaches the air that keeps the carrier on.
* **MQTT.** Callbacks of the network run between passes of the loop and inside
  its waits; connections may be half open; a broker may forget. Correct means:
  nothing marked on one connection is believed on the next, no two payloads are
  mixed, and the client always gets back to serving, as nothing restarts it.

`PROJECT.json` lists every component with its status, and every hazard with the
line where it bites and the property that covers it (or why none does yet).

## 2. Modules

| Module | Role |
|---|---|
| `Millis` | `uint32_t` clock arithmetic: `Later`, `Since`, `Due`, on a wheel of `Wheel` instants |
| `TargetScheduler` | the scheduler, one action per call |
| `FailSafeStop` | abstract: debts of STOP copies that are opened, paid, or waived in the open |
| `LifecycleOutbox` | the outbox, one action per path of its operations |
| `StatusBuffer` | abstract: a bounded buffer of statuses that counts what it loses, completions apart |
| `Bridge` | the automation: `/tx`, disarm, the dispatching tick, the update, the watchdog, boot ids and redelivery |
| `Receiver` | the receive side: sniff windows, the tick's reconciliation of receive mode, the coprocessor's mode, updates and restarts as it sees them |
| `B1Frame` | received captures: `b1_frame_status` and the shape of an A-OK transmission |
| `B0Frame` | outbound frames: admission, the air reserved for them, bucket floor and compensation |
| `RfBridge` | the UART parser, its timeouts, the stop of sniffing, `send_raw` and the other commands; extends `B1Frame` and `B0Frame` |
| `MqttInbound` | the inbound path: topic filters, payload guard, assembly of parts, deferred dispatch |
| `MqttClient` | the client and its broker: setup, lookup, connection, subscriptions, birth, discovery and resends; extends `MqttInbound` |
| `MCTargetScheduler`, `MCLifecycleOutbox`, `MCBridge`, `MCRfBridge`, `MCMqttClient` | constants for TLC |
| `TargetScheduler_proofs` | the scheduler's inductive invariant, the bound on armed STOPs, the air and the repeat gap |
| `TargetSchedulerSteps_proofs` | what a step does to each command and debt: budgets, ids, answers, the refinement of `FailSafeStop` |
| `LifecycleOutbox_proofs` | order, coalescing and the refinement of `StatusBuffer` |
| `Bridge_proofs`, `MqttClient_proofs`, `Receiver_proofs`, `RfBridge_proofs` | the safety of those four |
| `Counting_proofs` | lemmas: cardinalities, sums over finite sets and how they change |

How they compose: `Bridge` stands above the scheduler and the outbox and takes
over what their modules promise. A command goes through the places that
`TargetScheduler` gives it; that its STOPs are neither lost nor repeated inside
is `StopsHonoured`, and statuses may reach the outbox in any order, which is what
`LifecycleOutbox` is checked for. `Receiver` sees the scheduler through `idle()`
and `rf_air_clear()`, and the UART through `receive_idle()`, whose return is
`ComesToRest` of `RfBridge`.

### TargetScheduler and the code

The ten members of the class are the ten variables of `schedulerVars`, with the
same names without underscores. Five more variables are not in the class:
`now` is `millis()`; `polled` says that the interval has run since the clock
moved; `airLeft` and `gapLeft` are ghosts that count real time, which the
wrapping arithmetic is judged against; `waived` names the STOPs that the last
step gave up on purpose.

| Code | Action |
|---|---|
| `schedule` that returns true | `Admit(r)` |
| `schedule` refused by a limit (remembered as state 3) | `Refuse(r)` |
| `disarm` | `Disarm(id)` |
| `drain_armed_stops` | `DrainArmedStops` |
| `next` | `PollIdle`, `PollAirBusy`, `SendFlushStop`, `SendScheduledStop`, `SendAction`, `PollNothingDue`: its early returns and its three kinds of frame |
| the 5 ms interval, and the clock | `Poll` (one `next` between two ticks) and `Elapse` (a tick, or a stall of up to `MaxStall`) |
| `replay_state`, `idle`, `rf_air_clear` | operators `ReplayState`, `Idle`, `RfAirClear` |

Abstractions. A frame is its bytes, UART milliseconds and RF milliseconds,
because nothing else of its text steers the scheduler. A target is its rank in
`std::map` order, its remote and its channel set; two targets may differ in rank
alone, as the code keys the map by a string in which the case of hex digits is
free. `started_at_ms`, `displaced_at_ms` and the instants of ring entries only
feed the ages in statuses and are left out. `schedule`'s syntactic refusals and
its duplicate test change no state and are guards of `Admit` and `Refuse`.
Iteration orders that decide something are kept: displaced commands enter the
flush queue in key order, the cursor and the order vector are repaired as in
`erase_`, the scan of `next` starts at the cursor.

### LifecycleOutbox and the code

`events` is `events_[0 .. size_)`, `droppedCount` is `dropped_count_`, and
`sent` shows what the last call published. `enqueue_` is `Coalesce`, `Insert`,
`DiscardCompletion` and `InsertEvicting`; `publish_or_enqueue` is `PublishNow`
or `Enqueue`; `flush` is `Flush`, which publishes any non-empty prefix because a
publish may fail at any point. A status is its id and kind: ages and reasons
travel with it but steer nothing, so two statuses of one id and kind are equal,
as they are for the coalescing test of `enqueue_`.

### Bridge and the code

`boot`, `update` (`ota_active` with the phase of the update) and `outage`
(`mqtt_ok_ms`, in passes of the watchdog) are globals of the YAML file. `place`
says where the scheduler has a command and `ring` what it remembers of it.
`link`, `info` and `mail` are the world: the connection, the retained `/info`, and
what the controller has published. `runs`, `moving`, `said` and `refused` record
what happened to motors and what was said.

| Code | Action |
|---|---|
| `/tx` handler | `ReceiveCommand`: latched, boot mismatch, replay, unsound, full, admitted, in the order of the handler |
| `/cmd` disarm | `ReceiveDisarm` |
| the 5 ms tick, and the pump of the update | `Dispatch`: `Begin`, `EndActions`, `FallDue` (a deadline cuts a timed train short), `SendStop` |
| `remember_` | `Remember`, in the actions that call it |
| `/info` | `PublishInfo` |
| OTA `on_begin`, drain, transfer, `on_error`, success | `BeginUpdate`, `DrainArmedStops`, `SendEmergencyStop`, `BeginTransfer`, `FailUpdate`, `CompleteUpdate` |
| the 10 s watchdog; a restart nobody planned | `Watchdog`, `PowerLoss` |

Abstractions. The scheduler is seen from outside. The ring has `RingSize` slots: an
id it holds keeps its slot, another takes a free one or that of *some* id that is not
live, which is then forgotten with all that is recorded of it; which one depends on
the cursor and is left open. There is always such an id (`LiveIdsAlwaysRemembered`),
so the model takes no step of `remember_` where there is none. A train is its first
frame, its last before the STOP, and its last STOP. Statuses are composed, not
queued. Boot ids are fresh and command ids valid; the field checks of `/tx` are
the one condition `sound`. A failing publish of `/info` is an action that nothing
obliges. Redelivery is delivery of a message that stays in `mail`. Whether
handlers run during the transfer depends on the OTA platform: the model lets them.

### RfBridge and the code

`rxBuffer`, `candidate` and `quiet` are `rx_buffer_`, `bucket_candidate_` and the
time since `last_bridge_byte_`. `line` is the UART's buffer, `sending` what the
coprocessor is in the middle of, `due` what it has sent whole and `reported` what
reached a callback.

| Code | Action |
|---|---|
| a pass of `loop`, byte by byte | `ReadsByte` with `Parse` (`parse_bridge_byte_`, `b1_frame_status`), `reading` inside a pass |
| a pass of `loop` that finds the line silent for too long | `TimesOut` |
| `stop_advanced_sniffing`, `reset_receive_state_` | `StopSniffing` |
| `send_raw` | `SendRaw` with `Outgoing` |
| `learn`, `beep`, `send_code`, `send_advanced_code`, `start_advanced_sniffing`, `start_bucket_sniffing` | `SendCommand` with `Commands` |
| the coprocessor and time | `BeginsToSend`, `SendsByte`, `Elapse` |

What is written shares no state with the receiving side, so it is enough to take
`send_raw` and the commands in one of its states. A frame is a sequence of characters, each a nibble in one of
two cases, a blank or junk, because the code decides on characters and sends
nibbles.

### MqttClient and the code

`clientVars` are members of `MQTTClientComponent` and of its components under
their names; ages replace instants. `worldVars` are the library's connection, its
outstanding report, lookups, the network, and the broker with its session,
subscriptions and retained availability.

| Code | Action |
|---|---|
| `loop` by state | `Loop`: `LoopDisconnected`, `LoopResolving`, `LoopConnecting`, `LoopLost`, `LoopConnected` |
| `check_connected` before and after its wait | `CheckConnected`, `Settle` |
| `setup`, `enable`, `disable` with `on_shutdown` | `SetupClient`, `Enable`, `Disable` |
| `subscribe`, `unsubscribe`, `resubscribe_subscriptions_` | `Subscribe`, `Unsubscribe`, `Resubscribe` |
| `dns_found_callback`, `set_on_connect`, `set_on_disconnect` | `LookupAnswered`, `Opens`, `Lost`, `Reported` |
| the `on_message` lambda, `on_message`, `topic_match` | `Receives` with `PartArrives`, `Handles` with `Dispatch` |
| `MQTTComponent::call_setup`, `send_discovery_`, `schedule_resend_state`, `process_resend` | `SetupComponent`, `Resends` with `SendsOf` and `MustResend` |
| broker, network, restart, time | `BrokerDrops`, `BrokerRestarts`, `NetworkChanges`, `Calms`, `Reboot`, `Elapse` |

Abstractions. Any send may fail, which covers a connection lost within a pass;
the report of a disconnection that the client itself forces comes at once.
Several subscriptions to one topic are one entry. A component has a state to send,
and its discovery entry is one value, sent or removed. Messages deferred to the loop
wait for an arbitrary time. `connect_begin_` is read before it is set, so its
age is any at boot. `disable()` changes the state before `on_shutdown`, so the
shutdown message is not published and the will stands in for it. The wrap of
`connect_begin_` can delay an attempt by five seconds only and is left out.

### Receiver and the code

`rxVars` are the six members of `RxState`. `mode` is what the coprocessor does,
which the code cannot see; `receiving` says whether the UART parser is inside a
frame (`receive_idle`). The scheduler is seen through its two queries only:
`queued` is `!idle()`, `onAir` is `!rf_air_clear()`. `windowLeft` and `deafFor`
count real time, which the wrapping comparisons are judged against, and `did`
names what the last step did.

| Code | Action |
|---|---|
| `/cmd` sniff, accepted or limited | `Sniff(seconds)` |
| a sniff command that `validate_rx_command` turns away | `Refuse` |
| `/cmd` sniff of 0 seconds | `Cancel` |
| the tick: `rx.tick`, reconciliation, then `next` and `send_raw` | `Tick`, with `Expire`, `Reconcile` and `HandOver` |
| OTA `on_begin`, its pump and drain, `on_error` | `UpdateBegins`, `UpdateSends`, `UpdateFails` |
| `on_bucket_received`, and the parser's other frames | `BytesArrive`, `FrameEnds` |
| restart, with `RFBridgeComponent::setup` | `Reboot` |
| a command admitted or disarmed; a frame leaving the air | `WorkChanges`, `AirClears` |
| the coprocessor's silent fall-back | `FallBack` |

The air is abstract here, so a reboot clears it; that the coprocessor may still
be transmitting then is in `Bridge` (`airBusy` outlives a restart).

## 3. What is checked

| Run | Question | Result |
|---|---|---|
| `core` | the safety of the scheduler under every call, over the whole wheel | holds |
| `limits` | is the first-STOP reservation, checked on admission, still true later, do frames of displaced STOPs stay in the storage budget, are live ids remembered, and do answers to redeliveries only advance? | holds |
| `live` | how long may a due first STOP wait behind displaced trains, is every armed STOP sent, does every command leave? | fewer than 2N-1 turns; holds |
| `outbox` | order, coalescing and loss of statuses | holds |
| `bridge` | does a command run twice or in the wrong boot, is a STOP lost, does a status disagree with scheduler and ring, does an outage end? | holds |
| `sniff` | do sniff windows, the privacy boundary, the keepalive and the rate limit hold, round the clock, does listening resume? | holds |
| `uart` | do captures come out whole, does the parser come to rest, do frames leave that stick the carrier or outlast their reservation? | holds |
| `mqtt` | are payloads mixed, marks or birth messages believed that belong to an earlier connection, does the client always come to serve? | holds |
| `rollover` | does the air stay clear once it is? | **violated**, see findings |
| `reserve` | does the reservation bound the wait itself? | **violated**, see findings |
| `echo` | is the radio yielded before each frame, those of an update too? | **violated**, see findings |
| `latch` | does what a controller was told of a command stay true? | **violated**, see findings |

The properties of `core`: `TypeOK`; `CopiesCounted` (delivered and remaining
copies add up); `OrderMatchesCommands` (map, vector and cursor agree);
`OneAirOwner`; `ChannelsExclusive` (latest command wins, per channel);
`LiveIdsUnique`; `ObligationsBounded` (displacing cannot grow the flush queue
past the number of targets); `AirClearIsSafe` (never clear while the coprocessor
is busy); `RepeatGapKept`; and `StopsHonoured`, the
refinement of `FailSafeStop`: each armed STOP is a debt that shrinks by exactly
the copies handed over and is waived by a disarm or an update only.

The properties of `bridge`: `RunsOnce`; `NoStopLost` (the STOP of a running motor
is in the scheduler or in the hands of the update); `StatusesAgree` (a status agrees
with scheduler and ring when it is composed, and what a check rejected never runs
while it is remembered; that is less than a controller may expect, see
`AnswersStand` under findings);
`OutageEnds` (also on a connection that only a restart repairs).

The properties of `sniff`: `WindowExact` (open for exactly the longest time
asked for since the last cancel), `ListensOnlyWhenAsked` (the
privacy boundary), `DeafnessBounded` (less than a keepalive period and two stalls
after a silent fall-back), `RateKept` (accepted commands are a full rate limit apart
in real time) and `ListeningResumes`. That the tick itself yields the radio before it
hands a frame over is no property: it follows from the order of its statements.

The properties of `uart`: `OnlyWholeCaptures` (never joined, cut, repeated or out
of order), `ComesToRest` (and, on a line without fragments, everything sent was
reported), `CarrierNeverStuck` and `AirReserved` (compensation and floor against
the milliseconds `frame_airtime_ms_` reserves).

The properties of `mqtt`: `WholeMessagesOnly`, `SubscribedIsHeld`,
`AvailabilityTruthful` and `ComesToServe`.

Every property has a mutant in `PROJECT.json`: a variant of one definition,
marked "Faulty variant" in its module, under which the run finds the property
violated.

### Bounds, and why they are enough

* **Clock.** `Wheel` is 4 to 64 instead of 2^32. Every comparison in the code is
  of a difference with half the wheel or with 60 s (`MaxRepeatGap`); the wheels
  keep the order *waits < MaxRepeatGap < half a wheel* of the firmware, so each
  comparison has both outcomes, and they are small enough for TLC to go all the
  way round, with every leftover instant in every relation to the clock.
* **Stalls.** `MaxStall = 1`: the interval runs at every tick of the model. One
  tick stands for any time shorter than the shortest pause; stalls longer than a
  whole train are not in the runs (the proofs cover every `MaxStall`). The UART
  line of `RfBridge` is lossless: a stall so long that the buffer of the UART
  overflows is not modelled.
* **Commands.** Three or four requests with trains of one to three copies. Two
  commands on single channels and one on both are the least that can displace
  two trains at once, in different phases; a trailer is on one of them; `limits`
  and `live` add a second remote. In `live` and `limits` the ring has fewer slots
  than there are ids: an id is forgotten and comes back, so a run goes on for ever
  and a stream of commands may compete with a waiting STOP without end. In `core`
  the ring has a slot for each of the three ids, and each is admitted once.
* **Capacity.** One to three targets and a ring of two to four. In `limits` one
  STOP fits in the reservation, so that a timed command is refused while another's
  STOP waits; a bulky frame fits in memory beside no displaced STOP. It has one
  target, so that three slots are enough for the ids that can be live; the sums
  over several targets are in the proofs.
  `live` and `reserve` take the environment `SendsOnly`, which neither disarms
  nor updates, so that a command has to leave by the scheduler's own doing.
* **Outbox.** Four places, two commands, all six kinds: evicting a completion,
  evicting the oldest and refusing a completion all occur, before and behind the
  insertion point. The order of statuses of *different* commands is in the module
  but in no property: a controller reads each
  command's life by itself. `MaxDropped = 2` bounds the drop counter.
* **Bridge.** A timed command, an untimed one that overlaps it and an unsound one,
  two boots, an outage of two passes of the watchdog, a ring of two slots for the
  three ids. Two boots are enough for a retained command and a wedged connection to
  outlive a restart; the proofs cover any number. `latch` has one boot and a slot for
  each id, so that its violations owe nothing to forgetting or to a restart.
* **Receiver.** Windows of one tick and of four, a longer one capped, and a rate
  limit of two ticks, so that a later command is refused, extends the open window,
  falls inside it or just misses it; an update as long as a stall; a wheel that
  keeps *window + update + stall < half a wheel*, as 60 s do of 24.8 days. Updates
  fail and begin again without end, with a tick between two of them.
* **UART.** One bit of payload instead of 64 (limits of sizes follow it), so that
  captures of three and six buckets, with padding and a trailer of one or two
  bits, fit in a buffer of 20. Two transmissions, each any of five replies and
  captures or five fragments, are the least that can join. Timeouts of 1, 2 and 3
  ticks keep the order of 5, 50 and 250 ms. Eighteen outbound frames put a
  bucket on, just below and far below the floor, at offset 0 and 73, referenced
  and not, well-formed and broken in each way that is told apart.
* **MQTT.** One subscription with a wildcard, a message in two parts and one too
  large, a component with a topic of its own and a discovery entry, an internal one,
  one lookup under way. What the instance leaves out is a component that is
  registered for its command topic only, with an empty topic prefix: it has no state
  topic, its state send fails, and it is resent for ever. With `MaxResends` (8) of
  them ahead the others never get a turn and `ComesToServe` fails; with fewer it
  holds. TLC was run on both cases while the model was written, with `MaxResends` of
  1 and 2 and no messages; together with messages they are too many states. For the
  same reason one component only is registered, so the limit of resends in a pass is
  never reached. Timeouts of 0 mean "after a tick" and leave several passes and
  callbacks within one; longer ones were tried while the model was written and add states,
  not outcomes.

### Fairness

`WF(Poll)` and `WF(Elapse)` of the scheduler: the interval is a loop component of
ESPHome that fires every 5 ms while the loop runs, and the clock runs by itself.
Nothing is assumed of a controller: it may send for ever, or never. `Receiver`
assumes the same of `Tick` and `Elapse`, and of `AirClears`, as a frame on the
air ends. `RfBridge` assumes that the loop runs, time passes, and the coprocessor
finishes what it has begun to send. `Bridge` assumes the tick, the watchdog, the
steps of an update that has begun, the end of a frame, and that a connection
which is merely down is retried with success; a wedged one is not. `OutageEnds`
is about executions in which updates come to an end, as one after another could
keep the loop from running. `MqttClient` assumes the loop, the time, and that the
library answers: lookups end, connections open or fail, losses are reported and
the keep-alive notices the end of a half-open connection; `ComesToServe` is about
executions in which network and broker are eventually calm and the client is not
switched off. The outbox has no fairness, as nothing promises that a broker comes
back.

## 4. What is proved

TLAPS proves these for **every** value of the constants that satisfies the named
assumptions of the modules: all sets of requests, clock widths, gaps, limits,
stalls, numbers of boots, topics, timeouts, replies and frames.

| Module | Theorem | Statement |
|---|---|---|
| `TargetScheduler_proofs` | `TypeCorrect`, `CopiesAlwaysCounted`, `OrderAlwaysMatches`, `AirHasOneOwner`, `ChannelsAlwaysExclusive` | `Spec => []` of `TypeOK`, `CopiesCounted`, `OrderMatchesCommands`, `OneAirOwner`, `ChannelsExclusive` |
| | `ObligationsAlwaysBounded` | `Spec => []ObligationsBounded` |
| | `StopsGoFirst` | no ACTION or TRAILER copy goes out past a displaced STOP |
| | `AirAlwaysSafe` | `Spec => []AirClearIsSafe` |
| | `GapAlwaysKept` | `Spec => RepeatGapKept` |
| `TargetSchedulerSteps_proofs` | `StorageAlwaysWithinBudget`, `FirstStopsAlwaysWithinBudget` | `Spec => []` of `StorageWithinBudget`, `FirstStopsWithinBudget` |
| | `LiveIdsAlwaysUnique` | `Spec => []LiveIdsUnique` |
| | `StopsAlwaysHonoured` | `Spec => StopsHonoured`: the scheduler implements `FailSafeStop` |
| | `AnswersAlwaysAdvance` | `Spec => AnswersOnlyAdvance` |
| | `LiveIdsAlwaysRemembered` | `Spec => []LiveIdsRemembered`, if `RingSize > 2 * MaxTargets` |
| | `FirstStopsInTime` | `Spec => []FirstStopBounded`, if `ClockFits` (see *The wait of a STOP*) |
| `LifecycleOutbox_proofs` | `OutboxTypes`, `StatusesInOrder` | `Spec => []` of `TypeOK`, `RankOrdered` |
| | `OutboxBuffersStatuses` | `Spec => BuffersStatuses`: the outbox implements `StatusBuffer` |
| `Bridge_proofs` | `CommandsRunOnce`, `NoStopIsLost`, `StatusesAlwaysAgree` | `Spec => []` of `RunsOnce`, `NoStopLost`, `StatusesAgree` |
| `MqttClient_proofs` | `TypeCorrect` | `Spec => []TypeOK` |
| | `MessagesAreWhole`, `MarkedIsHeld`, `AvailabilityIsTrue` | `Spec => []` of `WholeMessagesOnly`, `SubscribedIsHeld`, `AvailabilityTruthful` |
| `Receiver_proofs` | `ReceiverTypes`, `WindowsAreExact`, `DeafnessIsBounded` | `Spec => []` of `TypeOK`, `WindowExact`, `DeafnessBounded` |
| | `ListeningIsAskedFor`, `RateIsKept` | `Spec => ListensOnlyWhenAsked`, `Spec => RateKept` |
| `RfBridge_proofs` | `TypeCorrect`, `CarrierIsNeverStuck`, `AirIsReserved` | `Spec => []` of `TypeOK`, `CarrierNeverStuck`, `AirReserved` |
| | `WholeCapturesOnly` | `Spec => []OnlyWholeCaptures` |

The assumptions are about constants, and the code or its configuration justifies
each: `RequestAssumption` is what `/tx` lets through; `KeyAssumption` that a map has
one value per key; `LimitAssumption` that limits are numbers and the repeat gap is
clamped; `AirAssumption` that no admitted frame outlasts the guard of 60 s (2 s of
airtime at most) and the guard is short of half the wheel; `ReceiverAssumption` that
a window with an update and a stall stays within half the wheel (24.8 days) and a
keepalive period with a stall within the wheel; `B0Assumption`, `BridgeAssumption`
and `CommandAssumption` that bytes, limits and arguments are what their C++ types
hold, and that timeouts are ordered as 5, 50 and 250 ms are; `CoprocessorAssumption`
what the coprocessor sends (see *The captures* below); `ClientAssumption` and
`TopicAssumption` the shapes of components, topics and filters.

**The scheduler.** `IInv` is the conjunction of the first five. None
is inductive alone. `TypeOK` bounds the delivered count by 20 only because
`CopiesCounted` makes it the complement of what remains; every step of `next`
needs `OrderMatchesCommands`, as it reaches the map through the order; and
`OneAirOwner` needs it too, since the owner is looked for through the order: an
owner that the order did not list would be overlooked and a second train
started. There is one lemma per action, and lemmas about `erase_` (the positions
that survive, the cursor that wraps) that all removing actions share.

**The bound on STOPs.** `BInv` adds that live commands fit in `MaxTargets`. The
argument is not local: a displaced debt moves to the queue and its place goes to
a new command, so the sum would grow with each displacement if the new command
could start. It cannot: `QueueEmptyAtAction` shows that a call of `next` that
reaches an ACTION copy has passed an empty queue, because a non-empty one is only
passed over for a due STOP, which `next` then sends instead. So when a debt is
opened the queue is empty, and debts are at most the live commands.

**The air and the gap.** `TInv` adds `AirInv` and `GapInv`, which tie the ghosts to
the stored instants: as long as the coprocessor is really busy, the horizon is
ahead of the clock by no less than the time that remains and by no more than the
guard; as long as a gap lasts, the floor is ahead by exactly that. Without the
upper bound neither is inductive: a horizon more than the guard ahead is taken for
stale, and one more than half the wheel ahead for passed. `AirAssumption` keeps
both away, whatever the width of the clock and however long the loop stalls.

**The budgets.** Both are sums over a map and a queue, checked on admission only.
`SInv` is `IInv` with the two bounds. Every step but an admission keeps commands
and queue as they are or makes them fewer or shorter (`StepKeeps`), and an admission
moves the debts of displaced commands whole to the queue (`AdmitShape`);
`Counting_proofs` shows what either does to a sum. A
displaced train keeps its STOP frame only, and a started command's first STOP was
in the reservation before it was displaced, so neither move can raise a sum.

**Ids, debts and answers.** `UInv` is `IInv` with `LiveIdsUnique`: displacement
moves an id between the map and the queue, and admission takes none that is live.
With ids unique the debts form a function of the id, and each action is shown to be
a step of `FailSafeStop` on it, `[Stops!Next]_(Stops!promise)`: to open a debt, pay
one copy, waive, or change nothing. `RInv` adds that no id has two slots in the ring
(`Once`) and that the slot of a live id holds what its live state answers
(`Truthful`); that is why an answer cannot step back when a command leaves the
scheduler and the ring begins to speak for it. `MInv` adds the bound on live ids:
they are at most two per target, so a ring with more slots than that always has one
whose id is not live, `remember_` finds it, and no live id is overwritten. The
firmware has 64 slots and 16 targets.

**The wait of a STOP.** `FirstStopBounded` bounds in milliseconds how long the first
copy of a due STOP waits: with N targets, 2N-1 times the longest frame and the longest
pause of the loop. Nothing in the state counts turns, so the proof does. The rivals of
a command (`Rivals`) are the commands that owe a STOP and come before it in the round
that starts at the cursor. No step adds one: `erase_` keeps the round (`RoundAfterErase`),
a newcomer goes to its end, and whoever is served goes behind everybody who is due
(`TurnTaken`). Each rival may go once, and the flush queue once before each
(`TurnsAhead`); when every place is a rival's, the queue is empty, by the bound on
STOPs above. `Promised` adds it up: time waited, the pause until next() can act, and
the turns ahead stay below the bound. Ages are counted from the first ACTION copy
(`Origin`), since differences of instants wrap; `DeadlinesOk` says which commands have
such an origin. `WInv` is `BInv` with both, and each call of next() either
finds the air busy, which the pause pays for, or ends a turn, or, with no turn left,
serves the command. The attempt corrected the property, which had 2(N-1): a command
that displaces another in the middle of the round refills the queue once more. TLC
had found no counterexample in the instance checked before; `LatencyRequests` is now
one in which a first copy waits for longer than 2(N-1) frames.

`ClockFits` asks for frames that take time, and for waits and delays that fit on the
wheel: twice the bound, twice each stop delay, and delay, bound and guard together
within it. In the firmware a frame costs at least the margin of 5 ms and at most
2.2 s, delays are at most an hour (`rf433-mqtt-bridge.yaml:361`), there are 16 targets,
and the wheel is 49.7 days, so it holds unless the loop pauses for 19 hours; with
pauses of 5 ms the bound is 67 s. The `live` run meets it with equality.

**The automation.** Its three invariants need one another. That a command is not
run twice rests on the ring agreeing with the scheduler about it (`RingInv`); the
ring is only consulted for what is not live, so `RunInv` and `MotorInv` tie
places, runs and motors together; and `UpdateInv` says that once the update has
drained, the scheduler is idle, so that a restart or a failed update finds no
motor running that it does not know of. Forgetting an id (`RememberFacts`,
`ForgottenInv`) makes all four true of it anew, because only an id that is not live
is forgotten, and such an id has no motor running unless the update holds its STOP;
while it does, nothing is remembered. So the theorems hold for every size of the ring
and every choice of the slot, and say of a command what the ring can know of it:
once it is forgotten, a redelivery in the same boot is a new command.

**The client.** `LinkInv` ties marks, birth flag and retained availability to the
phase of the connection. A mark may outlive its connection, and the two
properties say nothing while the ends disagree; what makes them true again is
that a client on its way to a new connection has no mark (`start_dnslookup_`
clears them), and that a connected client cannot be opening another connection.
`TypeCorrect` says besides the types that marks are of existing subscriptions and
resends of registered components.

**The receiver.** `WindowInv` relates the stored end of the window to the time
that really remains, and bounds by a stall plus an update how long a window may
be over before a tick expires it; together with `ReceiverAssumption` that keeps
both within half the wheel, where the serial comparison is right. `DeafInv` ties the
time of deafness to the age of the last arming. The proof corrected the property:
*a keepalive period plus one stall*, as it first read, is true only of a loop that
never stalls for more than a tick. A fall-back may come a stall after the arming is
seen to be young, and the tick that would mend it another stall after it is due. `RateInv` is the same idea with a ghost that
saturates: as the clock tells it, no more time passes than really does, so what the
limiter lets through is really apart, however often the clock comes round.

**The UART.** `IInv` adds to `TypeOK` what the line and the coprocessor hold.
`CarrierNeverStuck` and `AirReserved` are about the bytes written, so `WInv` says
where they come from: nothing yet, a command, or what `send_raw` makes of *some*
frame of characters at *some* offset. The rest is about one frame: the table is read
where it was written (`BucketRead`, `Rewritten`), what is admitted has the shape that
compensation takes (`AdmittedShape`), a compensated or floored bucket is no shorter
than the floor, and the times rewritten add up to no more than the times reserved
(`TimesMonotone`, `SentShorter`). So the runs' eighteen frames are examples only.

**The captures.** `OnlyWholeCaptures` compares two lists, and the state does not tell
what the bytes between them once were. So `RxInv` says that they can be described:
there is a tag (which reply or fragment, which byte of it, which place in `due`) for
the byte read last and for each one on the line, in the order they were sent
(`Describes`). `Shape` says what the buffer can be: the head of one piece; a start
byte from the middle of one; no capture; or a capture into which another piece has
run, with the start byte of that one inside. The step that matters is `ShapeGrows`:
whatever byte comes next, the buffer keeps its shape, and `AokShape`: of the four only
the first can be an A-OK capture, as a start byte among pulses is a pair of high
pulses, which no bit and no sync pair has. So a candidate is the head of a whole
capture; a start byte finds it at its end, because inside it no stop byte is followed
by one; the timeout does too, because while the coprocessor is sending the line is
never quiet for two ticks (`Quiet`). What is published then has a place in `due`
behind those published before (`LeadingCapture`, `AheadAfter`), and `StopSniffing` may
discard anything at any time.

The proof named what has to be assumed of the coprocessor (`CoprocessorAssumption`):
what it sends starts with the start byte and an action, has no capture's head inside,
and a whole capture is an A-OK frame. Two coincidences are excluded, because the
parser cannot see through them: the head of a capture (`AA B1`) within other data, and
a table cut short by exactly its last byte, so that the start byte of the next thing
sent completes it, if the bytes behind then read as a sync pair. `MCRfBridge` has a
fragment that ends one byte short of its table, and TLC evaluates the assumption on it.

Only model-checked:

* liveness (`StopsPaid`, `CommandsLeave`, `ListeningResumes`, `ComesToRest`,
  `OutageEnds`, `ComesToServe`), which is out of the prover's reach.

Every invariant and every action property that holds is proved.

## 5. Findings

* `rollover` / `AirStaysClear`. `rf_air_clear` treats a deadline more than 60 s
  ahead as stale. In the last 60 s before the counter comes round to the last
  hand-off, a bridge that sent nothing for 49.7 days reports its air busy: it
  stops receiving and holds up a watchdog reboot or an update. The comment in
  `rf433_scheduler.h:498-501` says that the test "preserves idle recovery across
  the full millis() rollover".
* `reserve` / `FirstStopWithinReserve`. `rf433_scheduler.h:52-56` says that one
  STOP copy reserved per obligation, with one frame in flight, "bounds a newly
  due first STOP". `next` alternates flushed and scheduled STOPs, and a displaced
  train has up to 20 copies: each further copy delays a first copy again. What
  does hold is `FirstStopBounded`: 2N-1 turns, the one in flight included.
* `echo` / `YieldsBeforeSend`. `README.md:324-326` says that the reconciler
  "yields the radio before TX". An update blocks the tick and hands frames over
  itself; what was admitted after the last tick is sent with the coprocessor
  still in bucket sniffing.
* `latch` / `AnswersStand`. The comment at `rf433-mqtt-bridge.yaml:306-311` says that
  a redelivery "replays the original lifecycle idempotently", because rejecting an
  admitted duplicate would tell a controller that a command failed which "already
  moved the motor", and re-admitting a rejected one "would transmit a command the
  controller was told failed". The latch of an update is looked at before the replay
  (`:289`), and its rejection is not remembered. So a duplicate of a command that has
  run is told "OTA update in progress"; and when the update fails, a redelivery of
  one that was told so is admitted and transmitted. `README.md:231-232` promises an
  admitted id its `accepted` "instead of a fresh rejection". The same property fails
  for a command that the update discarded before its first frame: the ring goes on
  answering `accepted` for it, though it will never run (`rf433_scheduler.h:530`).

Smaller disagreements met on the way, of which no run is made:

* `README.md:248-249` says that memory is authoritative for "the 64 most recent"
  ids, and `rf433_scheduler.h:63-67` that the ring leaves "a full dedup window".
  `remember_` skips the slots of live ids, so a finished id is forgotten after as
  many newer ones as there are slots that were not live.
* `rf_bridge.h:70` and `rf_bridge_protocol.h:298` say that unreferenced entries
  of the bucket table are never rewritten. With an offset above 0
  `b0_with_bucket_offset` rewrites, and raises to the floor, the whole table.
* `topic_match` does not match `a/#` with `a`, nor a wildcard with an empty last
  level, as the protocol does. The bridge's own filters have no wildcards;
  `TopicAssumption` leaves these cases out.

## 6. Not modelled, and the plan

Left out for good: the MQTT entity classes and the ESP32 and LibreTiny backends
(the bridge declares no entities and runs on an ESP8285), what a discovery entry
says, log forwarding, the discovery of addresses and the setters of the client, the
Python configuration schemas (build time only), the syntax checks of keys and of
`/tx` fields, the coprocessor's binary (seen as the time a frame keeps it busy, its
mode and its replies), logging and JSON layout.

What may still be done: a bound on how far back the ring of ids reaches, which needs
a history of the ids and more of them than TLC can take.
