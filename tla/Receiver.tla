------------------------------ MODULE Receiver ------------------------------
(***************************************************************************)
(* The receive side of the bridge: RxState (rf433_rx.h), the sniff command *)
(* of /cmd, and the part of the 5 ms tick that reconciles the coprocessor  *)
(* with what is wanted (rf433-mqtt-bridge.yaml).  The radio is half        *)
(* duplex: the tick takes it out of bucket sniffing before it hands a      *)
(* frame over and puts it back when the scheduler is idle and the air is   *)
(* clear.  The coprocessor may fall back to standard sniffing unnoticed;   *)
(* a keepalive re-arms it.                                                 *)
(*                                                                         *)
(* The scheduler is seen through idle() and rf_air_clear() only: whether   *)
(* it holds work and whether its last frame is still out.                  *)
(***************************************************************************)
EXTENDS Millis

CONSTANTS
    SniffSeconds,   \* values of "seconds" a controller sends, 0 to cancel
    MaxSniff,       \* MAX_SNIFF_SECONDS
    Second,         \* one second, in ticks of the model
    RateLimit,      \* CMD_RATE_LIMIT_MS
    Keepalive,      \* RX_KEEPALIVE_MS
    ListenBuilds,   \* values the listen_enabled substitution is built with
    MaxUpdate,      \* longest time an update blocks the loop
    MaxStall        \* longest pause between two ticks

ASSUME ReceiverAssumption ==
    /\ SniffSeconds \subseteq Nat
    /\ MaxSniff \in Nat /\ Second \in Nat /\ RateLimit \in Nat /\ Keepalive \in Nat
    /\ ListenBuilds \subseteq BOOLEAN
    /\ MaxUpdate \in Nat
    /\ MaxStall \in Nat \ {0}
    /\ MaxSniff * Second + MaxUpdate + MaxStall < Wheel \div 2
    /\ Keepalive + MaxStall < Wheel

VARIABLES
    boundedActive,      \* bounded_active_
    boundedUntil,       \* bounded_until_ms_
    positiveSeen,       \* positive_command_seen_
    lastPositive,       \* last_positive_command_ms_
    radioSniffing,      \* radio_sniffing_: what the bridge believes
    lastArm,            \* last_arm_ms_
    listenEnabled       \* the listen_enabled substitution of this build

VARIABLES
    mode,           \* what the coprocessor does: "bucket", "standard" or "off"
    receiving,      \* what the UART parser is inside of: "none", "reply" or "capture"
    queued,         \* the scheduler is not idle
    onAir,          \* rf_air_clear() is false
    updating        \* an update blocks the loop

VARIABLES
    now,            \* millis()
    ticked,         \* the tick has run since the clock moved
    windowLeft,     \* ms that really remain of the longest window asked for
    deafFor,        \* ms spent in a fall-back with the UART quiet and the loop running
    updateFor,      \* ms the update has taken
    sinceAccepted,  \* ms since a positive command was accepted in this boot, RateLimit at most
    did             \* what the last step did

rxVars == <<boundedActive, boundedUntil, positiveSeen, lastPositive, radioSniffing, lastArm,
            listenEnabled>>
worldVars == <<mode, receiving, queued, onAir, updating>>
timeVars == <<now, ticked, windowLeft, deafFor, updateFor, sinceAccepted>>
vars == <<boundedActive, boundedUntil, positiveSeen, lastPositive, radioSniffing, lastArm, listenEnabled,
          mode, receiving, queued, onAir, updating,
          now, ticked, windowLeft, deafFor, updateFor, sinceAccepted, did>>

Modes == {"bucket", "standard", "off"}
Deeds == {"nothing", "accepted", "sent", "published", "withheld"}

-----------------------------------------------------------------------------
(* At boot setup() has switched the coprocessor's sniffing off.            *)
Init ==
    /\ boundedActive = FALSE
    /\ boundedUntil = 0
    /\ positiveSeen = FALSE
    /\ lastPositive = 0
    /\ radioSniffing = FALSE
    /\ lastArm = 0
    /\ listenEnabled \in ListenBuilds
    /\ mode = "off"
    /\ receiving = "none"
    /\ queued = FALSE
    /\ onAir = FALSE
    /\ updating = FALSE
    /\ now = 0
    /\ ticked = FALSE
    /\ windowLeft = 0
    /\ deafFor = 0
    /\ updateFor = 0
    /\ sinceAccepted = RateLimit
    /\ did = "nothing"

-----------------------------------------------------------------------------
(* The sniff command.                                                      *)

(* Faulty variant: the end of the limit is compared, not the time passed.  *)
WithinLimitUntil == positiveSeen /\ now < Later(lastPositive, RateLimit)

(* command_allowed(), for a positive command that is turned away.          *)
WithinLimit == positiveSeen /\ Since(now, lastPositive) < RateLimit

(* Faulty variant: the number of seconds is taken as it comes.             *)
CappedNot(seconds) == seconds

(* normalize_sniff_seconds().                                              *)
Capped(seconds) == IF seconds > MaxSniff THEN MaxSniff ELSE seconds

BoundedActive == boundedActive /\ ~ Due(now, boundedUntil)

(* Faulty variant: a later command always sets the end of the window.      *)
LaterEndAlways(candidate) == candidate

(* start_sniff(): a command extends an open window and never shortens it.  *)
LaterEnd(candidate) ==
    IF ~ BoundedActive \/ (candidate # boundedUntil /\ Due(candidate, boundedUntil))
    THEN candidate ELSE boundedUntil

Start(seconds) ==
    LET length == Capped(seconds) * Second IN
    /\ boundedUntil' = LaterEnd(Later(now, length))
    /\ boundedActive' = TRUE
    /\ windowLeft' = IF length > windowLeft THEN length ELSE windowLeft

Sniff(seconds) ==
    /\ ~ updating
    /\ seconds > 0
    /\ IF WithinLimit
       THEN did' = "nothing" /\ UNCHANGED <<rxVars, timeVars>>
       ELSE /\ Start(seconds)
            /\ positiveSeen' = TRUE
            /\ lastPositive' = now
            /\ sinceAccepted' = 0
            /\ did' = "accepted"
            /\ UNCHANGED <<radioSniffing, lastArm, listenEnabled, now, ticked, deafFor, updateFor>>
    /\ UNCHANGED worldVars

(* A command that validate_rx_command() turns away, its seconds negative   *)
(* or no integer, leaves an open window and the limiter alone.             *)
Refuse ==
    /\ ~ updating
    /\ did' = "nothing"
    /\ UNCHANGED <<rxVars, worldVars, timeVars>>

(* A cancellation passes the limiter and leaves it as it is.               *)
Cancel ==
    /\ ~ updating
    /\ 0 \in SniffSeconds
    /\ boundedActive' = FALSE
    /\ boundedUntil' = 0
    /\ windowLeft' = 0
    /\ did' = "nothing"
    /\ UNCHANGED <<positiveSeen, lastPositive, radioSniffing, lastArm, listenEnabled, worldVars,
                   now, ticked, deafFor, updateFor, sinceAccepted>>

-----------------------------------------------------------------------------
(* The 5 ms tick.                                                          *)

Busy == queued \/ onAir

(* Faulty variant: idle listening is not resumed, only a window is.        *)
WantsSniffWindow == BoundedActive

WantsSniff == BoundedActive \/ listenEnabled
Desired == ~ Busy /\ WantsSniff

(* expire_bounded_().                                                      *)
Expire ==
    IF boundedActive /\ ~ BoundedActive
    THEN boundedActive' = FALSE /\ boundedUntil' = 0
    ELSE UNCHANGED <<boundedActive, boundedUntil>>

(* Faulty variant: one period late.                                        *)
KeepaliveDueLate == radioSniffing /\ Since(now, lastArm) > Keepalive

KeepaliveDue == radioSniffing /\ Since(now, lastArm) >= Keepalive

Arm == Desired /\ ~ radioSniffing
Yield == ~ Desired /\ radioSniffing
Rearm == Desired /\ radioSniffing /\ KeepaliveDue /\ receiving = "none"

(* start_bucket_sniffing() on arming and on the keepalive;                 *)
(* stop_advanced_sniffing(), which also discards a frame half received, on *)
(* yielding.                                                               *)
Reconcile ==
    \/ /\ Arm \/ Rearm
       /\ mode' = "bucket"
       /\ lastArm' = now
       /\ radioSniffing' = TRUE
       /\ UNCHANGED receiving
    \/ /\ Yield
       /\ mode' = "off"
       /\ receiving' = "none"
       /\ radioSniffing' = FALSE
       /\ UNCHANGED lastArm
    \/ /\ ~ Arm /\ ~ Rearm /\ ~ Yield
       /\ UNCHANGED <<mode, receiving, radioSniffing, lastArm>>

(* next(), then send_raw() when it returned a frame: some call, once there *)
(* is work and the air is clear.                                           *)
HandOver ==
    /\ queued /\ ~ onAir
    /\ onAir' = TRUE
    /\ queued' \in BOOLEAN
    /\ did' = "sent"

Tick ==
    /\ ~ updating
    /\ ~ ticked
    /\ ticked' = TRUE
    /\ Expire
    /\ Reconcile
    /\ HandOver \/ (did' = "nothing" /\ UNCHANGED <<queued, onAir>>)
    /\ deafFor' = IF mode' = "standard" /\ radioSniffing' THEN deafFor ELSE 0
    /\ UNCHANGED <<positiveSeen, lastPositive, listenEnabled, updating,
                   now, windowLeft, updateFor, sinceAccepted>>

-----------------------------------------------------------------------------
(* What else happens: the scheduler's work, the coprocessor, an update.    *)

(* A command is admitted, or what is scheduled is disarmed.                *)
WorkChanges ==
    /\ ~ updating
    /\ queued' = ~ queued
    /\ did' = "nothing"
    /\ UNCHANGED <<rxVars, mode, receiving, onAir, updating, timeVars>>

AirClears ==
    /\ onAir
    /\ onAir' = FALSE
    /\ did' = "nothing"
    /\ UNCHANGED <<rxVars, mode, receiving, queued, updating, timeVars>>

(* An acknowledgement or a watchdog reset of the coprocessor.              *)
FallBack ==
    /\ mode # "standard"
    /\ mode' = "standard"
    /\ did' = "nothing"
    /\ UNCHANGED <<rxVars, receiving, queued, onAir, updating, timeVars>>

(* The first byte of a reply or of a bucket capture reaches the parser; it *)
(* may have been on its way when the coprocessor changed its mode.         *)
BytesArrive ==
    /\ ~ updating
    /\ receiving = "none"
    /\ receiving' \in {"reply", "capture"}
    /\ deafFor' = 0
    /\ did' = "nothing"
    /\ UNCHANGED <<rxVars, mode, queued, onAir, updating,
                   now, ticked, windowLeft, updateFor, sinceAccepted>>

(* The frame is complete, or is given up; a good capture goes to           *)
(* on_bucket_received.                                                     *)
FrameEnds ==
    /\ ~ updating
    /\ receiving # "none"
    /\ receiving' = "none"
    /\ \/ did' = "nothing"
       \/ receiving = "capture" /\ did' = IF radioSniffing THEN "published" ELSE "withheld"
    /\ UNCHANGED <<rxVars, mode, queued, onAir, updating, timeVars>>

(* An update blocks the loop in on_begin and pumps next() itself, then     *)
(* hands over one STOP of each command still armed.  It does not reconcile *)
(* the receive side.  Ticks run between two updates, as each is accepted   *)
(* by another component of the same loop.                                  *)
UpdateBegins ==
    /\ ~ updating
    /\ ticked
    /\ updating' = TRUE
    /\ deafFor' = 0
    /\ did' = "nothing"
    /\ UNCHANGED <<rxVars, mode, receiving, queued, onAir, now, ticked, windowLeft, updateFor,
                   sinceAccepted>>

UpdateSends ==
    /\ updating
    /\ HandOver
    /\ UNCHANGED <<rxVars, mode, receiving, updating, timeVars>>

(* on_error, after the drain has emptied the scheduler.                    *)
UpdateFails ==
    /\ updating
    /\ ~ queued
    /\ updating' = FALSE
    /\ updateFor' = 0
    /\ ticked' = FALSE
    /\ did' = "nothing"
    /\ UNCHANGED <<rxVars, mode, receiving, queued, onAir, now, windowLeft, deafFor, sinceAccepted>>

(* Faulty variant: setup() leaves the coprocessor as it is.                *)
BootModeKept == mode

(* setup() sends an A7 whatever the coprocessor was doing.                 *)
BootMode == "off"

(* An update succeeds, the watchdog or a crash restarts the ESP: RAM is    *)
(* gone, the coprocessor keeps running.  A boot outlasts any frame and the *)
(* rate limit.                                                             *)
Reboot ==
    /\ boundedActive' = FALSE /\ boundedUntil' = 0
    /\ positiveSeen' = FALSE /\ lastPositive' = 0
    /\ radioSniffing' = FALSE /\ lastArm' = 0
    /\ UNCHANGED listenEnabled
    /\ mode' = BootMode
    /\ receiving' = "none"
    /\ queued' = FALSE /\ onAir' = FALSE
    /\ updating' = FALSE /\ updateFor' = 0
    /\ now' = 0 /\ ticked' = FALSE
    /\ windowLeft' = 0 /\ deafFor' = 0
    /\ sinceAccepted' = RateLimit
    /\ did' = "nothing"

Shorter(left, delay) == IF left > delay THEN left - delay ELSE 0

Elapse ==
    \E delay \in 1 .. MaxStall :
        /\ ticked \/ updating
        /\ updating => updateFor + delay <= MaxUpdate
        /\ ticked' = FALSE
        /\ now' = Later(now, delay)
        /\ windowLeft' = Shorter(windowLeft, delay)
        /\ updateFor' = IF updating THEN updateFor + delay ELSE 0
        /\ deafFor' = IF mode = "standard" /\ radioSniffing /\ receiving = "none" /\ ~ updating
                      THEN deafFor + delay ELSE 0
        /\ sinceAccepted' = IF sinceAccepted + delay < RateLimit THEN sinceAccepted + delay
                            ELSE RateLimit
        /\ did' = "nothing"
        /\ UNCHANGED <<rxVars, worldVars>>

Next ==
    \/ \E seconds \in SniffSeconds : Sniff(seconds)
    \/ Refuse
    \/ Cancel
    \/ Tick
    \/ WorkChanges
    \/ AirClears
    \/ FallBack
    \/ BytesArrive
    \/ FrameEnds
    \/ UpdateBegins \/ UpdateSends \/ UpdateFails
    \/ Reboot
    \/ Elapse

(* The loop runs, the clock runs and a frame comes to its end.             *)
Fairness == WF_vars(Tick) /\ WF_vars(Elapse) /\ WF_vars(AirClears)

Spec == Init /\ [][Next]_vars /\ Fairness
-----------------------------------------------------------------------------
(* Properties.                                                             *)

TypeOK ==
    /\ {boundedUntil, lastPositive, lastArm, now} \subseteq Instants
    /\ {boundedActive, positiveSeen, radioSniffing} \subseteq BOOLEAN
    /\ mode \in Modes
    /\ receiving \in {"none", "reply", "capture"}
    /\ {queued, onAir, updating, ticked} \subseteq BOOLEAN
    /\ windowLeft \in 0 .. MaxSniff * Second
    /\ deafFor \in Nat
    /\ updateFor \in 0 .. MaxUpdate
    /\ sinceAccepted \in 0 .. RateLimit
    /\ did \in Deeds

(* A bounded sniff lasts exactly as long as the longest window that was    *)
(* asked for since the last cancel: "another positive command never        *)
(* shortens an active window" (README, start_sniff), on every lap of the   *)
(* clock, whatever updates and stalls delay the ticks that expire it.      *)
WindowExact == BoundedActive <=> windowLeft > 0

(* No tick leaves the coprocessor in bucket sniffing unless idle listening *)
(* is built in or a window really is open: "This is a privacy boundary"    *)
(* (README), over restarts in the middle of a window, when the bridge no   *)
(* longer knows that the coprocessor was sniffing, and over silent changes *)
(* of its mode.                                                            *)
ListensOnlyWhenAsked ==
    [][~ ticked /\ ticked' /\ mode' = "bucket" => listenEnabled \/ windowLeft > 0]_vars

(* With the UART quiet and the loop running, a coprocessor that fell back  *)
(* is deaf for one keepalive period at most: "deafness is bounded to one   *)
(* period" (RX_KEEPALIVE_MS), though work, noise and updates come between. *)
(* The pause before the tick that is due adds to it, and so does the one   *)
(* before, when noise ends as the clock comes round to the last arming.    *)
DeafnessBounded == deafFor < Keepalive + 2 * MaxStall

(* Two commands that start or extend a window are a full rate limit apart, *)
(* wherever the clock stood at the first and however updates and stalls    *)
(* delay the second (CMD_RATE_LIMIT_MS: "bounding accepted starts/         *)
(* extensions keeps a noisy broker client from monopolizing the 5 ms       *)
(* dispatch loop").                                                        *)
RateKept == [][did' = "accepted" => sinceAccepted = RateLimit]_vars

(* No frame is handed over to a coprocessor in bucket sniffing: the        *)
(* reconciler "yields the radio before TX" (README).  The tick does, an    *)
(* update hands frames over too.                                           *)
YieldsBeforeSend == [][did' = "sent" => mode' # "bucket"]_vars

(* A bridge that listens while idle comes back to listening whenever work, *)
(* noise and updates stop, however often the coprocessor falls back, a     *)
(* window is cancelled or the ESP restarts.                                *)
ListeningResumes ==
    listenEnabled /\ <>[](~ queued /\ receiving = "none" /\ ~ updating) => []<>(mode = "bucket")
=============================================================================
