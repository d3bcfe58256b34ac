--------------------------- MODULE TargetScheduler ---------------------------
(***************************************************************************)
(* rf433::TargetScheduler (rf433_scheduler.h): the queue that owns every   *)
(* transmission of the bridge.  A command is a train of ACTION copies, an  *)
(* optional train of TRAILER copies and, when it is timed, a fail-safe     *)
(* STOP train that falls due stop_after_ms after the first ACTION copy     *)
(* went out.  A command for overlapping channels of one remote displaces   *)
(* the commands it overlaps; a STOP they still owe moves to a flush queue. *)
(*                                                                         *)
(* The class runs on the ESPHome main loop: schedule() and disarm() from   *)
(* MQTT handlers, next() from a 5 ms interval.  Each is one atomic action; *)
(* the interleaving is theirs and the clock's.                             *)
(*                                                                         *)
(* Frames are records of the three numbers the class derives from their    *)
(* text: bytes held, UART milliseconds and RF milliseconds.  A target is a *)
(* record of its rank in std::map order, its remote and its channel set;   *)
(* two targets may differ in rank only, because valid_key lets the case of *)
(* the hex digits vary and the map is keyed by the string.                 *)
(***************************************************************************)
EXTENDS Millis, Sequences, FiniteSets, FiniteSetsExt

CONSTANTS
    Requests,               \* the commands a controller may send
    NoId,                   \* the empty command_id of an unused ring slot
    RepeatGap,              \* repeat_gap_ms_
    RfAirtimeMargin,        \* RF_AIRTIME_MARGIN_MS
    MaxRepeatGap,           \* MAX_REPEAT_GAP_MS, the 60 s serial-time guard
    MaxTargets,             \* MAX_TARGETS
    MaxTotalFrameBytes,     \* MAX_TOTAL_FRAME_BYTES
    MaxFirstStopOccupancy,  \* MAX_FIRST_STOP_OCCUPANCY_MS
    RingSize,               \* COMMAND_ID_RING_SIZE
    MaxStall                \* longest pause between two next() calls

NoFrame == [bytes |-> 0, uart |-> 0, air |-> 0]
NoTime == -1

Phases == {"ACTION", "TRAILER", "WAIT_STOP", "STOP"}

Ids == {r.id : r \in Requests}
Targets == {r.target : r \in Requests}
Frames == {r.raw : r \in Requests} \cup {r.trailer : r \in Requests}
            \cup {r.stop : r \in Requests} \cup {NoFrame}

(* What the /tx handler lets through to schedule(): 1 to 20 copies, at     *)
(* least one channel, every frame a normalised B0 frame with a positive    *)
(* airtime, and a STOP frame exactly when there is a stop delay.           *)
ASSUME RequestAssumption ==
    \A r \in Requests :
        /\ DOMAIN r = {"id", "target", "raw", "trailer", "stop", "repeats", "stopAfter"}
        /\ r.id # NoId
        /\ DOMAIN r.target = {"key", "identity", "mask"}
        /\ r.target.key \in Nat
        /\ r.target.mask # {}
        /\ \A f \in {r.raw, r.trailer, r.stop} : f \in [bytes : Nat, uart : Nat, air : Nat]
        /\ r.raw # NoFrame
        /\ r.repeats \in 1 .. 20
        /\ r.stopAfter \in Nat
        /\ r.stopAfter > 0 <=> r.stop # NoFrame

(* One target string is one key: two targets of one rank are one target.   *)
ASSUME KeyAssumption == \A t, u \in Targets : t.key = u.key => t = u

ASSUME LimitAssumption ==
    /\ RepeatGap \in Nat
    /\ RfAirtimeMargin \in Nat
    /\ MaxRepeatGap \in Nat
    /\ RepeatGap <= MaxRepeatGap
    /\ MaxTargets \in Nat \ {0}
    /\ MaxTotalFrameBytes \in Nat
    /\ MaxFirstStopOccupancy \in Nat
    /\ RingSize \in Nat \ {0}
    /\ MaxStall \in Nat \ {0}

VARIABLES
    commands,       \* commands_: target -> live command
    order,          \* order_: targets in order of admission
    cursor,         \* cursor_: where the round robin resumes, 0-based
    flushStops,     \* flush_stops_: STOP trains of displaced commands
    flushLast,      \* flush_last_: the last frame was a flushed STOP
    nextUserAt,     \* next_user_at_: floor of the next ACTION/TRAILER, or NoTime
    rfDispatched,   \* rf_dispatched_: some frame was ever handed off
    rfBusyUntil,    \* rf_busy_until_: end of the last frame's occupancy
    recent,         \* recent_ids_: the ring of remembered command ids
    recentCursor    \* recent_cursor_

VARIABLES
    now,            \* millis()
    polled,         \* the interval has called next() since the clock moved
    airLeft,        \* ms the coprocessor will really stay busy with the last frame
    gapLeft,        \* ms that really remain of the repeat gap of the last frame
    waived          \* ids whose armed STOP the last step, a disarm or an update, gave up

schedulerVars == <<commands, order, cursor, flushStops, flushLast, nextUserAt,
                   rfDispatched, rfBusyUntil, recent, recentCursor>>
clockVars == <<now, polled, airLeft, gapLeft>>
vars == <<commands, order, cursor, flushStops, flushLast, nextUserAt,
          rfDispatched, rfBusyUntil, recent, recentCursor,
          now, polled, airLeft, gapLeft, waived>>

Slots == 0 .. RingSize - 1

-----------------------------------------------------------------------------
(* Helpers.                                                                *)

Timed(request) == request.stopAfter > 0

(* Faulty variant: serialisation over the UART is not counted.             *)
OccupancyAirOnly(frame) ==
    IF frame.air > 0 THEN frame.air + RfAirtimeMargin ELSE RfAirtimeMargin

(* frame_occupancy_ms_ and record_dispatch_: a frame that keys no RF only  *)
(* costs the margin.                                                       *)
Occupancy(frame) ==
    IF frame.air > 0 THEN frame.uart + frame.air + RfAirtimeMargin ELSE RfAirtimeMargin

(* The time the coprocessor really spends on a frame, without the margin.  *)
PhysicalHold(frame) == IF frame.air > 0 THEN frame.uart + frame.air ELSE 0

(* No frame the B0 parser lets through outlasts the guard (2 s of airtime, *)
(* 135 ms of UART and the margin, against 60 s), and the guard is short of *)
(* half the wheel.                                                         *)
ASSUME AirAssumption ==
    /\ \A f \in Frames : Occupancy(f) <= MaxRepeatGap
    /\ 2 * MaxRepeatGap < Wheel

StoredBytes(request) == request.raw.bytes + request.trailer.bytes + request.stop.bytes

(* Faulty variants: a train that has begun is taken for paid; a command    *)
(* that never went on air is taken to owe its STOP.                        *)
OwesStopUntilDue(c) == c.started /\ Timed(c.req) /\ c.phase # "STOP"
OwesStopUnstarted(c) == Timed(c.req) /\ (c.phase # "STOP" \/ c.remaining > 0)

(* Command::owes_stop.                                                     *)
OwesStop(c) ==
    /\ c.started
    /\ Timed(c.req)
    /\ c.phase # "STOP" \/ c.remaining > 0

CopiesOwed(c) == IF c.phase = "STOP" THEN c.remaining ELSE c.req.repeats

Owing(D) == {t \in D : OwesStop(commands[t])}

(* The STOP copies owed to each command, wherever they are kept.           *)
Debts ==
    {[id |-> commands[t].req.id, copies |-> CopiesOwed(commands[t])] : t \in Owing(DOMAIN commands)}
        \cup {[id |-> flushStops[i].id, copies |-> flushStops[i].remaining] : i \in DOMAIN flushStops}

(* is_active_, as a set: ids scheduled or displaced and still flushing.    *)
ActiveIds(cmds, flush) ==
    {cmds[t].req.id : t \in DOMAIN cmds} \cup {flush[i].id : i \in DOMAIN flush}

(* Every listing of S in increasing rank: the iteration order of a std::map *)
(* by key, or of a vector by position.                                     *)
Listings(S, Rank(_)) ==
    {s \in [1 .. Cardinality(S) -> S] :
        /\ \A x \in S : \E i \in DOMAIN s : s[i] = x
        /\ \A i, j \in DOMAIN s : i < j => Rank(s[i]) < Rank(s[j])}

InMapOrder(S) == Listings(S, LAMBDA t : t.key)

(* Positions of order_ that erase_ leaves when the targets in D go.        *)
Survivors(D) == Listings({i \in DOMAIN order : order[i] \notin D}, LAMBDA i : i)

(* erase_ for every target in D: order_ closes up, and the cursor keeps    *)
(* pointing at the entry it pointed at, or wraps to the front.             *)
OrderAfter(kept) == [k \in DOMAIN kept |-> order[kept[k]]]

(* Faulty variant: the cursor moves down but never wraps.                  *)
CursorAfterNoWrap(kept, from) == Cardinality({k \in DOMAIN kept : kept[k] - 1 < from})

CursorAfter(kept, from) ==
    IF kept = <<>> THEN 0
    ELSE Cardinality({k \in DOMAIN kept : kept[k] - 1 < from}) % Len(kept)

Without(cmds, D) == [t \in DOMAIN cmds \ D |-> cmds[t]]
With(cmds, target, c) ==
    [t \in DOMAIN cmds \cup {target} |-> IF t = target THEN c ELSE cmds[t]]

-----------------------------------------------------------------------------
(* The ring of remembered ids.  States: 1 admitted, 2 started, 3 rejected  *)
(* by a state-dependent check, 4 displaced or disarmed.                    *)

(* Faulty variant: a slot that says started is never updated.              *)
MarkedUnlessStarted(ring, ids, state) ==
    [s \in Slots |->
        IF ring[s].id \in ids /\ ring[s].state # 2 THEN [ring[s] EXCEPT !.state = state] ELSE ring[s]]

(* mark_recent_: changes the state of ids the ring still holds.            *)
Marked(ring, ids, state) ==
    [s \in Slots |-> IF ring[s].id \in ids THEN [ring[s] EXCEPT !.state = state] ELSE ring[s]]

(* Faulty variant: the oldest slot goes, live or not.                      *)
IsVictimOldest(s, ring, active) == s = recentCursor

(* The slot remember_ probes its way to: the first from the cursor whose   *)
(* id is not active, or the cursor's own when every id is.                 *)
IsVictim(s, ring, active) ==
    LET vacant == {v \in Slots : ring[v].id \notin active}
        Probe(v) == (v - recentCursor) % RingSize
    IN  IF vacant = {} THEN s = recentCursor
        ELSE s \in vacant /\ \A v \in vacant : Probe(s) <= Probe(v)

Remember(ring, id, state, active) ==
    IF \E s \in Slots : ring[s].id = id
    THEN /\ recent' = Marked(ring, {id}, state)
         /\ UNCHANGED recentCursor
    ELSE \E s \in Slots :
            /\ IsVictim(s, ring, active)
            /\ recent' = [ring EXCEPT ![s] = [id |-> id, state |-> state]]
            /\ recentCursor' = (s + 1) % RingSize

SeenRecently(id) == \E s \in Slots : recent[s].id = id

(* Faulty variant: an id that is only flushing, or only in the ring, is new. *)
IsDuplicateScheduled(id) == \E t \in DOMAIN commands : commands[t].req.id = id

IsDuplicate(id) == SeenRecently(id) \/ id \in ActiveIds(commands, flushStops)

(* replay_state: live state first, then the ring; 0 is an unknown id.      *)
ReplayState(id) ==
    IF \E t \in DOMAIN commands : commands[t].req.id = id
    THEN IF \E t \in DOMAIN commands : commands[t].req.id = id /\ commands[t].started THEN 2 ELSE 1
    ELSE IF \E i \in DOMAIN flushStops : flushStops[i].id = id THEN 4
    ELSE IF SeenRecently(id) THEN (CHOOSE e \in {recent[s] : s \in Slots} : e.id = id).state
    ELSE 0
-----------------------------------------------------------------------------
Init ==
    /\ commands = << >>
    /\ order = << >>
    /\ cursor = 0
    /\ flushStops = << >>
    /\ flushLast = FALSE
    /\ nextUserAt = NoTime
    /\ rfDispatched = FALSE
    /\ rfBusyUntil = 0
    /\ recent = [s \in Slots |-> [id |-> NoId, state |-> 0]]
    /\ recentCursor = 0
    /\ now = 0
    /\ polled = FALSE
    /\ airLeft = 0
    /\ gapLeft = 0
    /\ waived = {}

-----------------------------------------------------------------------------
(* schedule().                                                             *)

(* Faulty variant: only the very same key is displaced.                    *)
OverlappedSameKey(target) == DOMAIN commands \cap {target}

(* The live commands the new target shares a channel of its remote with.   *)
Overlapped(target) ==
    {t \in DOMAIN commands : t.identity = target.identity /\ t.mask \cap target.mask # {}}

Retained(target) == DOMAIN commands \ Overlapped(target)

TargetsFull(r) == Cardinality(Retained(r.target)) >= MaxTargets

(* Faulty variant: a displaced command is taken to free all its frames.    *)
StorageDemandRetained(r) ==
    StoredBytes(r)
    + SumFunction([t \in Retained(r.target) |-> StoredBytes(commands[t].req)])
    + SumFunction([i \in DOMAIN flushStops |-> flushStops[i].stop.bytes])

(* Frames that stay in memory once r is in: retained commands whole, of a  *)
(* displaced one the STOP it still owes, and the flush queue.              *)
StorageDemand(r) ==
    StoredBytes(r)
    + SumFunction([t \in Retained(r.target) |-> StoredBytes(commands[t].req)])
    + SumFunction([t \in Owing(Overlapped(r.target)) |-> commands[t].req.stop.bytes])
    + SumFunction([i \in DOMAIN flushStops |-> flushStops[i].stop.bytes])

(* Faulty variant: the flush queue is left out of the reservation.         *)
FirstStopDemandScheduled(r) ==
    (IF Timed(r) THEN Occupancy(r.stop) ELSE 0)
    + SumFunction([t \in {u \in Retained(r.target) : Timed(commands[u].req)}
                            \cup Owing(Overlapped(r.target)) |-> Occupancy(commands[t].req.stop)])

(* One STOP copy for every obligation that is armed, that may still be     *)
(* armed, or that r would add.                                             *)
FirstStopDemand(r) ==
    (IF Timed(r) THEN Occupancy(r.stop) ELSE 0)
    + SumFunction([t \in {u \in Retained(r.target) : Timed(commands[u].req)}
                            \cup Owing(Overlapped(r.target)) |-> Occupancy(commands[t].req.stop)])
    + SumFunction([i \in DOMAIN flushStops |-> Occupancy(flushStops[i].stop)])

OverBudget(r) ==
    \/ TargetsFull(r)
    \/ StorageDemand(r) > MaxTotalFrameBytes
    \/ FirstStopDemand(r) > MaxFirstStopOccupancy

(* A rejection that depends on the state is remembered, so that a          *)
(* redelivery cannot turn it into an admission.                            *)
Refuse(r) ==
    /\ ~ IsDuplicate(r.id)
    /\ OverBudget(r)
    /\ Remember(recent, r.id, 3, ActiveIds(commands, flushStops))
    /\ UNCHANGED <<commands, order, cursor, flushStops, flushLast, nextUserAt,
                   rfDispatched, rfBusyUntil>>
    /\ waived' = {}
    /\ UNCHANGED clockVars

NewCommand(r) ==
    [req |-> r, phase |-> "ACTION", remaining |-> r.repeats, delivered |-> 0,
     started |-> FALSE, deadlineArmed |-> FALSE, deadlineAt |-> 0, nextAt |-> now]

FlushStop(c) == [id |-> c.req.id, stop |-> c.req.stop, remaining |-> CopiesOwed(c)]

(* displace_overlapping_, then the insertion: owed STOPs go to the flush   *)
(* queue in map order, displaced ids are marked in the ring, the new       *)
(* command enters at the back of the order.                                *)
Admit(r) ==
    /\ ~ IsDuplicate(r.id)
    /\ ~ OverBudget(r)
    /\ LET D == Overlapped(r.target) IN
       \E debtors \in InMapOrder(Owing(D)), kept \in Survivors(D) :
           /\ flushStops' = flushStops \o [k \in DOMAIN debtors |-> FlushStop(commands[debtors[k]])]
           /\ commands' = With(Without(commands, D), r.target, NewCommand(r))
           /\ order' = Append(OrderAfter(kept), r.target)
           /\ cursor' = CursorAfter(kept, cursor)
           /\ Remember(Marked(recent, {commands[t].req.id : t \in D}, 4), r.id, 1,
                       ActiveIds(commands', flushStops'))
    /\ UNCHANGED <<flushLast, nextUserAt, rfDispatched, rfBusyUntil>>
    /\ waived' = {}
    /\ UNCHANGED clockVars

-----------------------------------------------------------------------------
(* disarm(): drops the command and every queued STOP of the id, and        *)
(* remembers it as terminal even when it was never seen.                   *)
Disarm(id) ==
    LET D == {t \in DOMAIN commands : commands[t].req.id = id}
        spared == {i \in DOMAIN flushStops : flushStops[i].id # id}
    IN  /\ \E kept \in Survivors(D) :
              /\ order' = OrderAfter(kept)
              /\ cursor' = CursorAfter(kept, cursor)
        /\ commands' = Without(commands, D)
        /\ \E s \in Listings(spared, LAMBDA i : i) :
              flushStops' = [k \in DOMAIN s |-> flushStops[s[k]]]
        /\ Remember(recent, id, 4, ActiveIds(commands', flushStops'))
        /\ waived' = {d.id : d \in Debts} \cap {id}
        /\ UNCHANGED <<flushLast, nextUserAt, rfDispatched, rfBusyUntil>>
        /\ UNCHANGED clockVars

-----------------------------------------------------------------------------
(* drain_armed_stops(): the OTA handler takes one STOP per obligation and  *)
(* the scheduler forgets everything but the ring and the air horizon; the  *)
(* floor of the repeat gap goes too, and the ghost gap with it.            *)
DrainArmedStops ==
    /\ commands' = << >>
    /\ order' = << >>
    /\ cursor' = 0
    /\ flushStops' = << >>
    /\ flushLast' = FALSE
    /\ nextUserAt' = NoTime
    /\ waived' = {d.id : d \in Debts}
    /\ gapLeft' = 0
    /\ UNCHANGED <<rfDispatched, rfBusyUntil, recent, recentCursor, now, polled, airLeft>>

-----------------------------------------------------------------------------
(* next(): one call hands at most one frame to the coprocessor.            *)

Idle == DOMAIN commands = {} /\ flushStops = << >>

(* rf_air_clear().                                                         *)
RfAirClear ==
    \/ ~ rfDispatched
    \/ Due(now, rfBusyUntil)
    \/ Since(rfBusyUntil, now) > MaxRepeatGap

(* Faulty variant: the age of the floor is compared unsigned, so a floor   *)
(* still ahead looks like one long past.                                   *)
LiveFloorUnsigned ==
    IF nextUserAt # NoTime /\ Since(now, nextUserAt) > MaxRepeatGap THEN NoTime ELSE nextUserAt

(* A floor more than 60 s in the past is dropped before it can turn into   *)
(* the future on the other half of the wheel.                              *)
LiveFloor ==
    IF /\ nextUserAt # NoTime
       /\ Due(now, nextUserAt)
       /\ Since(now, nextUserAt) > MaxRepeatGap
    THEN NoTime ELSE nextUserAt

UserFloorClear == LiveFloor = NoTime \/ Due(now, LiveFloor)

(* Due deadlines turn their command to the STOP phase before either gate.  *)
Armed ==
    [t \in DOMAIN commands |->
        LET c == commands[t] IN
        IF c.deadlineArmed /\ c.phase # "STOP" /\ Due(now, c.deadlineAt)
        THEN [c EXCEPT !.phase = "STOP", !.remaining = c.req.repeats, !.nextAt = now]
        ELSE c]

Entries == 0 .. Len(order) - 1
Entry(cmds, i) == cmds[order[i + 1]]

StopReady(cmds) ==
    {i \in Entries : Entry(cmds, i).phase = "STOP" /\ Due(now, Entry(cmds, i).nextAt)}

ActionReady(cmds) ==
    {i \in Entries : /\ Entry(cmds, i).phase \in {"ACTION", "TRAILER"}
                     /\ Due(now, Entry(cmds, i).nextAt)}

(* A started timed train that has not yet handed its last ACTION or        *)
(* TRAILER copy over.                                                      *)
OwnsAir(c) == c.started /\ Timed(c.req) /\ c.phase \in {"ACTION", "TRAILER"}

(* Faulty variant: the owner is looked for at the cursor only.             *)
AirOwnersAtCursor(cmds) == {i \in Entries : i = cursor /\ OwnsAir(Entry(cmds, i))}

AirOwners(cmds) == {i \in Entries : OwnsAir(Entry(cmds, i))}

FirstFromCursor(S) ==
    {i \in S : \A j \in S : (i - cursor) % Len(order) <= (j - cursor) % Len(order)}

(* The owner of the air, when there is one, is the only candidate.         *)
ActionCandidates(cmds) ==
    IF AirOwners(cmds) = {} THEN FirstFromCursor(ActionReady(cmds))
    ELSE FirstFromCursor(AirOwners(cmds)) \cap ActionReady(cmds)

ScheduledStopDue(cmds) ==
    \E t \in DOMAIN cmds : cmds[t].phase = "STOP" /\ Due(now, cmds[t].nextAt)

(* Faulty variant: the flush queue never takes turns.                      *)
FlushTurnAlways(cmds) == flushStops # << >>

(* The flush queue goes first, but never twice in a row past a due STOP.   *)
FlushTurn(cmds) == flushStops # << >> /\ ~ (flushLast /\ ScheduledStopDue(cmds))

RecordDispatch(frame) ==
    /\ rfBusyUntil' = Later(now, Occupancy(frame))
    /\ rfDispatched' = TRUE
    /\ nextUserAt' = Later(now, RepeatGap)
    /\ airLeft' = PhysicalHold(frame)
    /\ gapLeft' = RepeatGap

PollIdle ==
    /\ Idle
    /\ nextUserAt' = LiveFloor
    /\ UNCHANGED <<commands, order, cursor, flushStops, flushLast,
                   rfDispatched, rfBusyUntil, recent, recentCursor, airLeft, gapLeft>>

PollAirBusy ==
    /\ ~ Idle
    /\ ~ RfAirClear
    /\ commands' = Armed
    /\ nextUserAt' = LiveFloor
    /\ UNCHANGED <<order, cursor, flushStops, flushLast,
                   rfDispatched, rfBusyUntil, recent, recentCursor, airLeft, gapLeft>>

SendFlushStop ==
    /\ RfAirClear
    /\ FlushTurn(Armed)
    /\ LET entry == Head(flushStops)
           rest == Tail(flushStops)
       IN  /\ flushStops' = IF entry.remaining > 1
                            THEN Append(rest, [entry EXCEPT !.remaining = @ - 1]) ELSE rest
           /\ RecordDispatch(entry.stop)
    /\ commands' = Armed
    /\ flushLast' = TRUE
    /\ UNCHANGED <<order, cursor, recent, recentCursor>>

PhaseFrame(c) ==
    CASE c.phase = "TRAILER" -> c.req.trailer
      [] c.phase = "STOP" -> c.req.stop
      [] OTHER -> c.req.raw

Starts(c) == c.phase = "ACTION" /\ ~ c.started

(* Faulty variant: the deadline is never armed.                            *)
WithStartUnarmed(c) == IF Starts(c) THEN [c EXCEPT !.started = TRUE] ELSE c

(* The first ACTION copy starts the command and, when it is timed, arms    *)
(* its deadline.                                                           *)
WithStart(c) ==
    IF ~ Starts(c) THEN c
    ELSE IF Timed(c.req)
         THEN [c EXCEPT !.started = TRUE, !.deadlineArmed = TRUE,
                        !.deadlineAt = Later(now, c.req.stopAfter)]
         ELSE [c EXCEPT !.started = TRUE]

(* Faulty variant: every frame counts as an action copy.                   *)
WithCopyCounted(c) == [c EXCEPT !.remaining = @ - 1, !.delivered = @ + 1]

WithCopy(c) ==
    [c EXCEPT !.remaining = @ - 1,
              !.delivered = IF c.phase = "ACTION" THEN @ + 1 ELSE @]

(* Faulty variant: a trailer train is followed by another one.             *)
HasTrailerAlways(c) == c.req.trailer # NoFrame

(* advance_, for a train whose last copy just went out.                    *)
HasTrailerNext(c) == c.phase = "ACTION" /\ c.req.trailer # NoFrame
HasStopNext(c) == c.phase \in {"ACTION", "TRAILER"} /\ Timed(c.req)

WithAdvance(c) ==
    CASE c.remaining > 0 -> c
      [] c.remaining = 0 /\ HasTrailerNext(c) ->
            [c EXCEPT !.phase = "TRAILER", !.remaining = c.req.repeats]
      [] c.remaining = 0 /\ ~ HasTrailerNext(c) /\ HasStopNext(c) ->
            [c EXCEPT !.phase = "WAIT_STOP", !.remaining = c.req.repeats]
      [] OTHER -> c

(* A command whose remaining is still 0 after advance_ is complete.        *)
WithPacing(c) ==
    IF c.remaining = 0 THEN c
    ELSE [c EXCEPT !.nextAt = IF c.phase = "STOP" THEN now ELSE Later(now, RepeatGap)]

Handed(c) == WithPacing(WithAdvance(WithCopy(WithStart(c))))
(* Faulty variant: a STOP train that has run out stays scheduled.          *)
CompletesBeforeStop(c) == Handed(c).remaining = 0 /\ c.phase # "STOP"

Completes(c) == Handed(c).remaining = 0

(* Hand over the next copy of the entry at position i.                     *)
Dispatch(i) ==
    LET target == order[i + 1]
        c == Armed[target]
        following == (i + 1) % Len(order)
    IN  /\ IF Completes(c)
           THEN /\ commands' = Without(Armed, {target})
                /\ \E kept \in Survivors({target}) :
                      /\ order' = OrderAfter(kept)
                      /\ cursor' = CursorAfter(kept, following)
           ELSE /\ commands' = [Armed EXCEPT ![target] = Handed(c)]
                /\ cursor' = following
                /\ UNCHANGED order
        /\ recent' = IF Starts(c) THEN Marked(recent, {c.req.id}, 2) ELSE recent
        /\ flushLast' = FALSE
        /\ RecordDispatch(PhaseFrame(c))
        /\ UNCHANGED <<flushStops, recentCursor>>

SendScheduledStop ==
    /\ ~ Idle
    /\ RfAirClear
    /\ ~ FlushTurn(Armed)
    /\ \E i \in FirstFromCursor(StopReady(Armed)) : Dispatch(i)

SendAction ==
    /\ ~ Idle
    /\ RfAirClear
    /\ ~ FlushTurn(Armed)
    /\ StopReady(Armed) = {}
    /\ UserFloorClear
    /\ \E i \in ActionCandidates(Armed) : Dispatch(i)

PollNothingDue ==
    /\ ~ Idle
    /\ RfAirClear
    /\ ~ FlushTurn(Armed)
    /\ StopReady(Armed) = {}
    /\ ~ UserFloorClear \/ ActionCandidates(Armed) = {}
    /\ commands' = Armed
    /\ flushLast' = IF flushStops = << >> THEN flushLast ELSE FALSE
    /\ nextUserAt' = LiveFloor
    /\ UNCHANGED <<order, cursor, flushStops, rfDispatched, rfBusyUntil,
                   recent, recentCursor, airLeft, gapLeft>>

NextCall ==
    \/ PollIdle
    \/ PollAirBusy
    \/ SendFlushStop
    \/ SendScheduledStop
    \/ SendAction
    \/ PollNothingDue

(* The interval calls next() once between two movements of the clock.      *)
Poll ==
    /\ ~ polled
    /\ polled' = TRUE
    /\ waived' = {}
    /\ UNCHANGED now
    /\ NextCall

(* The clock moves by one tick, or by a stall of the loop up to MaxStall.  *)
Elapse ==
    \E delay \in 1 .. MaxStall :
        /\ polled
        /\ polled' = FALSE
        /\ now' = Later(now, delay)
        /\ airLeft' = IF airLeft > delay THEN airLeft - delay ELSE 0
        /\ gapLeft' = IF gapLeft > delay THEN gapLeft - delay ELSE 0
        /\ waived' = {}
        /\ UNCHANGED schedulerVars

Next ==
    \/ \E r \in Requests : Admit(r) \/ Refuse(r)
    \/ \E id \in Ids : Disarm(id)
    \/ DrainArmedStops
    \/ Poll
    \/ Elapse

(* The interval keeps firing and time keeps passing.  Nothing obliges a    *)
(* controller to send, disarm or update.                                   *)
Fairness == WF_vars(Poll) /\ WF_vars(Elapse)

Spec == Init /\ [][Next]_vars /\ Fairness
-----------------------------------------------------------------------------
(* Properties.                                                             *)

Command ==
    [req : Requests, phase : Phases, remaining : 1 .. 20, delivered : 0 .. 20,
     started : BOOLEAN, deadlineArmed : BOOLEAN, deadlineAt : Instants, nextAt : Instants]

(* Type invariant.  A live command always has copies left to send, and a   *)
(* queued STOP always has one.                                             *)
TypeOK ==
    /\ DOMAIN commands \subseteq Targets
    /\ \A t \in DOMAIN commands : commands[t] \in Command
    /\ order \in Seq(Targets)
    /\ cursor \in Nat
    /\ flushStops \in Seq([id : Ids, stop : Frames, remaining : 1 .. 20])
    /\ flushLast \in BOOLEAN
    /\ nextUserAt \in Instants \cup {NoTime}
    /\ rfDispatched \in BOOLEAN
    /\ rfBusyUntil \in Instants
    /\ recent \in [Slots -> [id : Ids \cup {NoId}, state : 0 .. 4]]
    /\ recentCursor \in Slots
    /\ now \in Instants
    /\ polled \in BOOLEAN
    /\ airLeft \in Nat
    /\ gapLeft \in Nat

(* The ACTION copies handed over and those still to go add up to what was  *)
(* asked for, so a completed status never reports more than the train had, *)
(* and a train cut short by its deadline reports what it really sent       *)
(* (action_repeats_delivered).                                             *)
CopiesCounted ==
    \A t \in DOMAIN commands :
        LET c == commands[t] IN
        /\ c.delivered <= c.req.repeats
        /\ c.phase = "ACTION" => c.delivered + c.remaining = c.req.repeats

(* The map and the vector of targets describe the same commands, each      *)
(* target is listed once, and the cursor stays inside the vector, whatever *)
(* mixture of displacement, disarming and completion erased entries        *)
(* (erase_, schedule; next() indexes order_ and commands_ without a check). *)
OrderMatchesCommands ==
    /\ {order[i] : i \in DOMAIN order} = DOMAIN commands
    /\ \A i, j \in DOMAIN order : order[i] = order[j] => i = j
    /\ IF order = << >> THEN cursor = 0 ELSE cursor < Len(order)

(* At most one started timed train is between its first and its last       *)
(* ACTION/TRAILER copy: "The policy permits at most one started timed      *)
(* ACTION/TRAILER train" (next).                                           *)
OneAirOwner ==
    \A t, u \in DOMAIN commands : OwnsAir(commands[t]) /\ OwnsAir(commands[u]) => t = u

(* No channel of a remote has two live commands: the latest command wins   *)
(* (displace_overlapping_), also against a key that spells the same remote *)
(* in another case.                                                        *)
ChannelsExclusive ==
    \A t, u \in DOMAIN commands :
        t # u /\ t.identity = u.identity => t.mask \cap u.mask = {}

(* A command id is live once: in the map, or in one entry of the flush     *)
(* queue, never twice (schedule's duplicate test; disarm and replay_state  *)
(* stop at the first match).                                               *)
LiveIdsUnique ==
    /\ \A t, u \in DOMAIN commands : commands[t].req.id = commands[u].req.id => t = u
    /\ \A i, j \in DOMAIN flushStops : flushStops[i].id = flushStops[j].id => i = j
    /\ \A t \in DOMAIN commands, i \in DOMAIN flushStops : commands[t].req.id # flushStops[i].id

(* Armed STOPs, queued or still with their command, never outnumber the    *)
(* targets: "Bounded by MAX_TARGETS concurrent flush entries" (FlushStop). *)
(* An ACTION never starts while the flush queue holds anything, which is   *)
(* what keeps displacing fresh commands from growing the queue.            *)
ObligationsBounded ==
    Len(flushStops) + Cardinality(Owing(DOMAIN commands)) <= MaxTargets

(* The frames held in memory, those of displaced STOPs included, stay      *)
(* within the storage budget schedule() enforces on admission.             *)
StorageWithinBudget ==
    SumFunction([t \in DOMAIN commands |-> StoredBytes(commands[t].req)])
    + SumFunction([i \in DOMAIN flushStops |-> flushStops[i].stop.bytes])
        <= MaxTotalFrameBytes

(* One copy of every STOP that is owed or may come to be owed fits the     *)
(* first-STOP reservation, at every moment and not only on admission.      *)
FirstStopsWithinBudget ==
    SumFunction([t \in {u \in DOMAIN commands : Timed(commands[u].req)} |->
                    Occupancy(commands[t].req.stop)])
    + SumFunction([i \in DOMAIN flushStops |-> Occupancy(flushStops[i].stop)])
        <= MaxFirstStopOccupancy

(* Whenever rf_air_clear() says yes the coprocessor really is done with    *)
(* the last frame, at every position of the wrapping clock.                *)
AirClearIsSafe == RfAirClear => airLeft = 0

(* Once the occupancy of the last frame is over the air stays clear until  *)
(* another frame is handed off: "This preserves idle recovery across the   *)
(* full millis() rollover" (rf_air_clear).                                 *)
AirStaysClear == [][RfAirClear /\ rfBusyUntil' = rfBusyUntil => RfAirClear']_vars

(* The first STOP copy of a scheduled command is due and not handed over.  *)
FirstStopPending(c) ==
    /\ c.deadlineArmed
    /\ Due(now, c.deadlineAt)
    /\ c.phase = "STOP" => c.remaining = c.req.repeats

LongestHold == CHOOSE m \in {Occupancy(f) : f \in Frames} : \A f \in Frames : Occupancy(f) <= m

(* A due first STOP waits for the frame in flight, and then flushed and    *)
(* scheduled STOPs alternate, which a command that displaces one of them   *)
(* in the middle can draw out by one: with N targets no first copy waits   *)
(* for more than 2 N - 1 frames, the pauses of the loop between them       *)
(* included, however many copies each train has (next, schedule).          *)
FirstStopBounded ==
    \A t \in DOMAIN commands :
        FirstStopPending(commands[t]) =>
            Since(now, commands[t].deadlineAt)
                < (2 * MaxTargets - 1) * (LongestHold + MaxStall - 1)

(* The reservation of schedule() bounds the wait itself: "Reserve no more  *)
(* than four seconds of aggregate physical occupancy for one fail-safe     *)
(* STOP copy per concurrent timed obligation.  Together with at most one   *)
(* already in-flight legal frame ... this bounds a newly due first STOP"   *)
(* (MAX_FIRST_STOP_OCCUPANCY_MS).                                          *)
FirstStopWithinReserve ==
    \A t \in DOMAIN commands :
        FirstStopPending(commands[t]) =>
            Since(now, commands[t].deadlineAt) <= MaxFirstStopOccupancy + LongestHold

(* An id that is scheduled or flushing keeps its slot in the ring: "so     *)
(* remember_ always finds an inactive slot and never overwrites a live id" *)
(* (COMMAND_ID_RING_SIZE).                                                 *)
LiveIdsRemembered == \A id \in ActiveIds(commands, flushStops) : SeenRecently(id)

(* A call to next() that hands over a copy of an ACTION or TRAILER train.  *)
ActionHandoff ==
    /\ ~ polled /\ polled'
    /\ \E t \in DOMAIN commands :
          /\ Armed[t].phase \in {"ACTION", "TRAILER"}
          /\ \/ t \notin DOMAIN commands'
             \/ <<commands'[t].phase, commands'[t].remaining>> # <<Armed[t].phase, Armed[t].remaining>>

(* The repeat gap holds between any frame and a following ACTION/TRAILER   *)
(* copy of any command; only STOP copies may skip it.                      *)
RepeatGapKept == [][ActionHandoff => gapLeft = 0]_vars

(* What a redelivery of an id is told only moves forward: an answer may be *)
(* forgotten, but admitted never follows started, and nothing follows      *)
(* displaced or rejected except a disarm.                                  *)
AnswersOnlyAdvance ==
    [][\A id \in Ids :
        LET before == ReplayState(id)
            after == ReplayState(id)'
        IN  before # 0 /\ after # 0 =>
                \/ after = before
                \/ after = 4
                \/ before = 1 /\ after = 2]_vars

Stops == INSTANCE FailSafeStop WITH debts <- Debts, Owners <- Ids, MaxCopies <- 20

(* The scheduler implements FailSafeStop: admission, displacement, arming, *)
(* rotation and clock steps leave every debt as it is.                     *)
StopsHonoured == Stops!Safety

(* ... and every debt is paid while it stands.                             *)
StopsPaid == Stops!Spec

(* Every admitted command leaves the scheduler: it completes, is displaced *)
(* and flushed, or is disarmed; nothing waits forever behind another       *)
(* remote's trains, the air gate or the clock's roll-over.                 *)
CommandsLeave ==
    \A id \in Ids : id \in ActiveIds(commands, flushStops) ~> id \notin ActiveIds(commands, flushStops)
=============================================================================
