-------------------------------- MODULE Bridge --------------------------------
(***************************************************************************)
(* The automation of the bridge (rf433-mqtt-bridge.yaml): the handlers of  *)
(* /tx and /cmd, the dispatching half of the 5 ms tick, the update, the    *)
(* watchdog and the boot id, between a controller and a broker on one side *)
(* and the radio on the other.                                             *)
(*                                                                         *)
(* The scheduler is seen from outside: where each command is, what the     *)
(* ring of remembered ids says of it, whether the air is clear.            *)
(* TargetScheduler models it in full, and proves what is relied on here:   *)
(* the ring always has a slot whose id is not live (LiveIdsRemembered).    *)
(* Which of those ids it forgets for a new one is left open.               *)
(* Statuses are what the handlers compose; LifecycleOutbox models what     *)
(* becomes of them, for every order in which they may come.                *)
(***************************************************************************)
EXTENDS Naturals, Sequences, FiniteSets

CONSTANTS
    Requests,       \* contents of /tx messages, boot apart
    RingSize,       \* COMMAND_ID_RING_SIZE
    OutageLimit,    \* 15 minutes, in passes of the watchdog
    MaxBoots        \* bound of the model

ASSUME AutomationAssumption ==
    /\ \A r \in Requests :
          /\ DOMAIN r = {"id", "remote", "channels", "timed", "sound"}
          /\ r.channels \in Seq(Nat)
          /\ {r.timed, r.sound} \subseteq BOOLEAN
    /\ \A r, q \in Requests : r.id = q.id => r = q
    /\ RingSize \in Nat \ {0}
    /\ OutageLimit \in Nat
    /\ MaxBoots \in Nat \ {0}

Ids == {r.id : r \in Requests}
RequestOf(id) == CHOOSE r \in Requests : r.id = id

VARIABLES
    boot,           \* boot_id; ids are random and taken to be fresh
    update,         \* "none", "pumping", "draining" or "transfer"; ota_active is the rest but "none"
    place,          \* id -> where the scheduler has the command
    ring,           \* id -> what the ring of remembered ids answers
    airBusy,        \* ~ rf_air_clear()
    emergency,      \* ids whose STOP drain_armed_stops handed to the update
    outage          \* passes of the watchdog since mqtt_ok_ms

VARIABLES
    link,           \* the connection to the broker: "up", "down" or "wedged"
    info,           \* boot id in the retained /info, or NoBoot
    mail            \* /tx messages the controller has published

(* History: what happened to the motors, and what was said of it.          *)
VARIABLES
    runs,           \* id -> how often the command began in this boot, since last forgotten
    moving,         \* ids of timed commands whose motor runs and was not stopped
    said,           \* statuses the last step composed
    refused         \* ids rejected by a check in this boot, and not forgotten

ram == <<boot, update, place, ring, airBusy, emergency, outage>>
world == <<link, info, mail>>
history == <<runs, moving, said, refused>>
vars == <<boot, update, place, ring, airBusy, emergency, outage,
          link, info, mail, runs, moving, said, refused>>

NoBoot == 0

(* Never heard of, or forgotten; admitted; begun; timed, with its STOP     *)
(* left; displaced, with its STOP left; gone; discarded by an update.      *)
Places == {"none", "waiting", "acting", "armed", "flushing", "left", "discarded"}

Scheduled == {"waiting", "acting", "armed"}
Live == Scheduled \cup {"flushing"}         \* is_active_

(* remember_: states 0 to 4, with "disarmed" for a 4 without a timestamp.  *)
Answers == {"unknown", "admitted", "started", "rejected", "displaced", "disarmed"}

Init ==
    /\ boot = 1
    /\ update = "none"
    /\ place = [id \in Ids |-> "none"]
    /\ ring = [id \in Ids |-> "unknown"]
    /\ airBusy = FALSE
    /\ emergency = {}
    /\ outage = 0
    /\ link = "down"
    /\ info = NoBoot
    /\ mail = {}
    /\ runs = [id \in Ids |-> 0]
    /\ moving = {}
    /\ said = {}
    /\ refused = {}

-----------------------------------------------------------------------------
(* The scheduler as the automation sees it.                                *)

Idle == \A id \in Ids : place[id] \notin Live

(* parse_target: the channels of a target increase strictly.               *)
ValidChannels(channels) ==
    /\ channels # << >>
    /\ \A i \in DOMAIN channels : channels[i] \in 1 .. 16
    /\ \A i, j \in DOMAIN channels : i < j => channels[i] < channels[j]

(* The same remote, letters large or small, and a channel in common.       *)
Overlap(r, q) ==
    /\ r.remote.digits = q.remote.digits
    /\ \E i \in DOMAIN r.channels, j \in DOMAIN q.channels : r.channels[i] = q.channels[j]

(* replay_state: the live command, the queue of displaced STOPs, the ring. *)
ReplayState(id) ==
    CASE place[id] \in {"acting", "armed"} -> "started"
      [] place[id] = "waiting" -> "admitted"
      [] place[id] = "flushing" -> "displaced"
      [] OTHER -> ring[id]

OwesStop(id) == place[id] \in {"acting", "armed"} /\ RequestOf(id).timed

Status(kind, id) == [kind |-> kind, id |-> id]

(* remember_: an id the ring holds keeps its slot; another takes a free    *)
(* one, or that of an id that is not live, which is then forgotten.        *)
Known(answers) == {id \in Ids : answers[id] # "unknown"}

Forgettable(answers, places) == {id \in Known(answers) : places[id] \notin Live}

Evictions(answers, places, id) ==
    IF id \in Known(answers) \/ Cardinality(Known(answers)) < RingSize THEN {{}}
    ELSE {{d} : d \in Forgettable(answers, places)}

Forgetting(f, gone, blank) == [id \in Ids |-> IF id \in gone THEN blank ELSE f[id]]

(* Faulty variant: the ring keeps nothing.                                 *)
RememberedNot(answers, id, answer) == answers

Remembered(answers, id, answer) == [answers EXCEPT ![id] = answer]

(* The ring and the scheduler as remember_ leaves them: whatever could be  *)
(* said of a forgotten id is forgotten with it.                            *)
Remember(answers, places, id, answer) ==
    \E gone \in Evictions(answers, places, id) :
        /\ ring' = Remembered(Forgetting(answers, gone, "unknown"), id, answer)
        /\ place' = Forgetting(places, gone, "none")
        /\ runs' = Forgetting(runs, gone, 0)
        /\ refused' = IF answer = "rejected" THEN (refused \ gone) \cup {id} ELSE refused \ gone

-----------------------------------------------------------------------------
(* /tx.                                                                    *)

(* The main loop handles messages, unless the update's callback holds it.  *)
LoopRuns == update \in {"none", "transfer"}

Latched(m) == update # "none"

(* Faulty variant: whatever boot the command names.                        *)
BootMismatchNever(m) == FALSE

BootMismatch(m) == m.boot # boot

RejectLatched(m) ==
    /\ Latched(m)
    /\ said' = {Status("LATCHED", m.request.id)}
    /\ UNCHANGED <<ram, world, runs, moving, refused>>

RejectMismatch(m) ==
    /\ ~ Latched(m) /\ BootMismatch(m)
    /\ said' = {Status("MISMATCH", m.request.id)}
    /\ UNCHANGED <<ram, world, runs, moving, refused>>

(* What a redelivery hears.                                                *)
Replayed(id) ==
    CASE ReplayState(id) = "rejected" -> {Status("REJECTED", id)}
      [] ReplayState(id) = "displaced" -> {Status("DISPLACED", id), Status("DATED", id)}
      [] ReplayState(id) = "disarmed" -> {Status("DISPLACED", id)}
      [] ReplayState(id) = "admitted" -> {Status("ACCEPTED", id)}
      [] ReplayState(id) = "started" -> {Status("ACCEPTED", id), Status("STARTED", id)}

Replay(m) ==
    /\ ~ Latched(m) /\ ~ BootMismatch(m)
    /\ ReplayState(m.request.id) # "unknown"
    /\ said' = Replayed(m.request.id)
    /\ UNCHANGED <<ram, world, runs, moving, refused>>

Fresh(m) ==
    /\ ~ Latched(m) /\ ~ BootMismatch(m)
    /\ ReplayState(m.request.id) = "unknown"

Sound(r) == r.sound /\ ValidChannels(r.channels)

(* Types, ranges and frames: nothing is remembered.                        *)
RejectUnsound(m) ==
    /\ Fresh(m) /\ ~ Sound(m.request)
    /\ said' = {Status("REJECTED", m.request.id)}
    /\ refused' = refused \cup {m.request.id}
    /\ UNCHANGED <<ram, world, runs, moving>>

(* schedule() refuses for want of room, which another command takes up.    *)
RefuseFull(m) ==
    /\ Fresh(m) /\ Sound(m.request)
    /\ ~ Idle
    /\ Remember(ring, place, m.request.id, "rejected")
    /\ said' = {Status("REJECTED", m.request.id)}
    /\ UNCHANGED <<boot, update, airBusy, emergency, outage, world, moving>>

(* schedule() admits, and displaces what overlaps.                         *)
DisplacedBy(r) == {d \in Ids : place[d] \in Scheduled /\ Overlap(r, RequestOf(d))}

PlacesDisplaced(displaced) ==
    [d \in Ids |-> IF d \notin displaced THEN place[d]
                   ELSE IF OwesStop(d) THEN "flushing" ELSE "left"]

RingDisplaced(displaced) == [d \in Ids |-> IF d \in displaced THEN "displaced" ELSE ring[d]]

Admit(m) ==
    LET id == m.request.id
        displaced == DisplacedBy(m.request)
    IN  /\ Fresh(m) /\ Sound(m.request)
        /\ Remember(RingDisplaced(displaced),
                    [PlacesDisplaced(displaced) EXCEPT ![id] = "waiting"], id, "admitted")
        /\ said' = {Status("ACCEPTED", id)}
                      \cup {Status(kind, d) : kind \in {"DISPLACED", "DATED"}, d \in displaced}
        /\ UNCHANGED <<boot, update, airBusy, emergency, outage, world, moving>>

(* QoS 1 and retained messages: whatever was published may arrive at any   *)
(* time, in any order and again.                                           *)
ReceiveCommand ==
    /\ LoopRuns /\ link = "up"
    /\ \E m \in mail :
          \/ RejectLatched(m) \/ RejectMismatch(m) \/ Replay(m)
          \/ RejectUnsound(m) \/ RefuseFull(m) \/ Admit(m)

-----------------------------------------------------------------------------
(* /cmd, disarm: the controller may publish one at any time for a command  *)
(* it has published, and it may arrive before that command.                *)
ReceiveDisarm ==
    /\ LoopRuns /\ link = "up"
    /\ \E id \in {m.request.id : m \in mail} :
          /\ Remember(ring, [place EXCEPT ![id] = IF @ \in Live THEN "left" ELSE @],
                      id, "disarmed")
          /\ said' = {Status("DISARMED", id)}
          /\ moving' = moving \ {id}
    /\ UNCHANGED <<boot, update, airBusy, emergency, outage, world>>

-----------------------------------------------------------------------------
(* The tick, and the loop of the update that stands in for it: one frame   *)
(* handed over when the air is clear.  Only the tick publishes statuses.   *)

(* Faulty variant: the tick returns early without a connection.            *)
DispatchingOnline == ~ airBusy /\ update \in {"none", "pumping"} /\ link = "up"

Dispatching == ~ airBusy /\ update \in {"none", "pumping"}

Telling(statuses) == IF update = "none" THEN statuses ELSE {}

(* The first frame of a command; no action while a displaced STOP waits.   *)
Begin(id) ==
    /\ Dispatching
    /\ place[id] = "waiting"
    /\ \A d \in Ids : place[d] # "flushing"
    /\ place' = [place EXCEPT ![id] = "acting"]
    /\ ring' = [ring EXCEPT ![id] = "started"]
    /\ runs' = [runs EXCEPT ![id] = @ + 1]
    /\ moving' = IF RequestOf(id).timed THEN moving \cup {id} ELSE moving
    /\ airBusy' = TRUE
    /\ said' = Telling({Status("STARTED", id)})
    /\ UNCHANGED <<boot, update, emergency, outage, world, refused>>

(* The last frame before the STOP of a timed command, or the last of all.  *)
EndActions(id) ==
    /\ Dispatching
    /\ place[id] = "acting"
    /\ \A d \in Ids : place[d] # "flushing"
    /\ place' = [place EXCEPT ![id] = IF RequestOf(id).timed THEN "armed" ELSE "left"]
    /\ airBusy' = TRUE
    /\ said' = IF RequestOf(id).timed THEN {} ELSE Telling({Status("COMPLETED", id)})
    /\ UNCHANGED <<boot, update, ring, emergency, outage, world, runs, moving, refused>>

(* The deadline of a timed command cuts its train short: it takes no frame *)
(* and no clear air, and other STOPs may be on their way.                  *)
FallDue(id) ==
    /\ update \in {"none", "pumping"}
    /\ place[id] = "acting" /\ RequestOf(id).timed
    /\ place' = [place EXCEPT ![id] = "armed"]
    /\ said' = {}
    /\ UNCHANGED <<boot, update, ring, airBusy, emergency, outage, world,
                   runs, moving, refused>>

(* The last STOP of a command that ran its time, or was displaced.         *)
SendStop(id) ==
    /\ Dispatching
    /\ place[id] \in {"armed", "flushing"}
    /\ place' = [place EXCEPT ![id] = "left"]
    /\ moving' = moving \ {id}
    /\ airBusy' = TRUE
    /\ said' = IF place[id] = "armed" THEN Telling({Status("COMPLETED", id)}) ELSE {}
    /\ UNCHANGED <<boot, update, ring, emergency, outage, world, runs, refused>>

Dispatch == \E id \in Ids : Begin(id) \/ EndActions(id) \/ FallDue(id) \/ SendStop(id)

(* The retained /info, at once after a connection and then now and again.  *)
PublishInfo ==
    /\ LoopRuns /\ link = "up" /\ info # boot
    /\ info' = boot
    /\ said' = {}
    /\ UNCHANGED <<ram, link, mail, runs, moving, refused>>

-----------------------------------------------------------------------------
(* A restart: everything but the broker's memory is lost.                  *)
Restart ==
    /\ boot < MaxBoots
    /\ boot' = boot + 1
    /\ update' = "none"
    /\ place' = [id \in Ids |-> "none"]
    /\ ring' = [id \in Ids |-> "unknown"]
    /\ emergency' = {}
    /\ outage' = 0
    /\ link' = "down"
    /\ runs' = [id \in Ids |-> 0]
    /\ said' = {}
    /\ refused' = {}
    /\ UNCHANGED <<airBusy, info, mail>>

(* "An unexpected reset or power loss still cannot preserve" armed STOPs:  *)
(* the motors that run now are given up.                                   *)
PowerLoss == Restart /\ moving' = {}

(* Faulty variant: the air is looked at, the scheduler is not.             *)
WatchdogFreeAir == ~ airBusy

WatchdogFree == Idle /\ ~ airBusy

(* Every 10 s.                                                             *)
Watchdog ==
    /\ LoopRuns
    /\ \/ /\ link = "up"
          /\ outage' = 0
          /\ said' = {}
          /\ UNCHANGED <<boot, update, place, ring, airBusy, emergency, world, runs, moving, refused>>
       \/ /\ link # "up"
          /\ outage < OutageLimit
          /\ outage' = outage + 1
          /\ said' = {}
          /\ UNCHANGED <<boot, update, place, ring, airBusy, emergency, world, runs, moving, refused>>
       \/ /\ link # "up"
          /\ outage = OutageLimit
          /\ WatchdogFree
          /\ Restart
          /\ UNCHANGED moving

-----------------------------------------------------------------------------
(* The update.                                                             *)

BeginUpdate ==
    /\ update = "none"
    /\ update' = "pumping"
    /\ said' = {}
    /\ UNCHANGED <<boot, place, ring, airBusy, emergency, outage, world, runs, moving, refused>>

(* Idle with the air clear, or OTA_IDLE_WAIT_MS over.                      *)
DrainArmedStops ==
    /\ update = "pumping"
    /\ update' = "draining"
    /\ emergency' = {id \in Ids : OwesStop(id) \/ place[id] = "flushing"}
    /\ place' = [id \in Ids |->
                    IF place[id] = "waiting" THEN "discarded"
                    ELSE IF place[id] \in {"acting", "armed", "flushing"} THEN "left"
                    ELSE place[id]]
    /\ said' = {}
    /\ UNCHANGED <<boot, ring, airBusy, outage, world, runs, moving, refused>>

SendEmergencyStop ==
    /\ update = "draining" /\ ~ airBusy
    /\ \E id \in emergency :
          /\ emergency' = emergency \ {id}
          /\ moving' = moving \ {id}
    /\ airBusy' = TRUE
    /\ said' = {}
    /\ UNCHANGED <<boot, update, place, ring, outage, world, runs, refused>>

BeginTransfer ==
    /\ update = "draining" /\ emergency = {}
    /\ update' = "transfer"
    /\ said' = {}
    /\ UNCHANGED <<boot, place, ring, airBusy, emergency, outage, world, runs, moving, refused>>

(* on_error.                                                               *)
FailUpdate ==
    /\ update = "transfer"
    /\ update' = "none"
    /\ said' = {}
    /\ UNCHANGED <<boot, place, ring, airBusy, emergency, outage, world, runs, moving, refused>>

CompleteUpdate == update = "transfer" /\ Restart /\ UNCHANGED moving

Update ==
    \/ DrainArmedStops \/ SendEmergencyStop
    \/ BeginTransfer \/ FailUpdate \/ CompleteUpdate

-----------------------------------------------------------------------------
(* The controller, the broker and the air.                                 *)

PublishCommand ==
    /\ info # NoBoot
    /\ \E r \in Requests : mail' = mail \cup {[request |-> r, boot |-> info]}
    /\ mail' # mail
    /\ said' = {}
    /\ UNCHANGED <<ram, link, info, runs, moving, refused>>

Connect ==
    /\ link = "down" /\ link' = "up"
    /\ said' = {}
    /\ UNCHANGED <<ram, info, mail, runs, moving, refused>>

(* A connection lost, and one that only a restart repairs ("a stale        *)
(* LB-conntrack tuple").                                                   *)
Disconnect ==
    /\ link = "up"
    /\ \/ link' = "down"
       \/ boot < MaxBoots /\ link' = "wedged"
    /\ said' = {}
    /\ UNCHANGED <<ram, info, mail, runs, moving, refused>>

AirClears ==
    /\ airBusy /\ airBusy' = FALSE
    /\ said' = {}
    /\ UNCHANGED <<boot, update, place, ring, emergency, outage, world, runs, moving, refused>>

Next ==
    \/ ReceiveCommand \/ ReceiveDisarm
    \/ Dispatch \/ PublishInfo
    \/ PowerLoss \/ Watchdog
    \/ BeginUpdate \/ Update
    \/ PublishCommand \/ Connect \/ Disconnect \/ AirClears

(* The loop and the update go on, frames end, a line that is only down     *)
(* comes back.  Nobody has to send anything.                               *)
Fairness ==
    /\ WF_vars(Dispatch) /\ WF_vars(Watchdog) /\ WF_vars(Update)
    /\ WF_vars(AirClears) /\ WF_vars(Connect)

Spec == Init /\ [][Next]_vars /\ Fairness
-----------------------------------------------------------------------------
(* Properties.                                                             *)

(* A command begins at most once in a boot as long as the ring remembers   *)
(* it, and only if the controller published it for this very boot:         *)
(* redelivery, retained messages, failed updates, ids forgotten for newer  *)
(* ones and restarts never move a motor again ("a retained command         *)
(* republished after a reboot now dies on the boot check"; "authoritative  *)
(* for live commands and for the 64 most recent same-boot command IDs").   *)
RunsOnce ==
    \A id \in Ids :
        /\ runs[id] <= 1
        /\ runs[id] = 1 => [request |-> RequestOf(id), boot |-> boot] \in mail

(* Once a motor runs on a timed command its STOP is armed in the scheduler *)
(* or in the hands of the update, until it was sent: displacement, update, *)
(* watchdog and a new boot never lose it.  A disarm and a power loss may.  *)
NoStopLost ==
    \A id \in moving :
        place[id] \in {"acting", "armed", "flushing"} \/ id \in emergency

(* Every status agrees with the scheduler and the ring when it is          *)
(* composed, and a command rejected by a check does not run later, unless  *)
(* it was forgotten: "re-admitting a state-dependently rejected one would  *)
(* transmit a command the controller was told failed" (/tx).  Two answers  *)
(* agree with them and still mislead, accepted for a command an update has *)
(* discarded and the rejection of the update's latch: AnswersStand.        *)
StatusesAgree ==
    /\ \A s \in said :
          /\ s.kind \in {"REJECTED", "LATCHED"} => place[s.id] \notin Live
          /\ s.kind = "ACCEPTED" => place[s.id] # "none"
          /\ s.kind = "ACCEPTED" /\ Status("STARTED", s.id) \notin said =>
                place[s.id] \in {"waiting", "discarded"}
          /\ s.kind \in {"STARTED", "COMPLETED"} => runs[s.id] = 1
          /\ s.kind \in {"DISPLACED", "DISARMED"} => place[s.id] \notin Scheduled
          /\ s.kind = "DATED" => ring[s.id] \in {"displaced", "unknown"}
          /\ s.kind = "DISARMED" => s.id \notin moving
    /\ \A id \in refused : runs[id] = 0 /\ place[id] = "none"

(* What a controller hears of a command is what becomes of it in that      *)
(* boot: one answered rejected, by the latch too, has not run and does not *)
(* run later, and one answered accepted is not discarded.  "QoS-1 broker   *)
(* redelivery of an already-seen command replays the original lifecycle    *)
(* idempotently.  Rejecting an admitted duplicate would tell a controller  *)
(* ... that the command failed although its RF already moved the motor;    *)
(* re-admitting a state-dependently rejected one would transmit a command  *)
(* the controller was told failed" (/tx).                                  *)
AnswersStand ==
    \A id \in Ids, b \in 1 .. MaxBoots :
        /\ [](/\ boot = b
              /\ said \cap {Status("REJECTED", id), Status("LATCHED", id)} # {}
              => [](boot = b => runs[id] = 0))
        /\ [](Status("ACCEPTED", id) \in said => place[id] # "discarded")

(* An outage ends, whatever was under way when it began: the watchdog      *)
(* waits for the scheduler, which a disconnected bridge can only drain     *)
(* ("always eventually true during an outage"), unless update follows      *)
(* update, each of which keeps the loop from running.                      *)
OutageEnds == <>[](update = "none") => []<>(link = "up")
=============================================================================
