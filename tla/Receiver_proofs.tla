--------------------------- MODULE Receiver_proofs ---------------------------
(***************************************************************************)
(* Proofs about Receiver, for every set of sniff commands, every period,   *)
(* stall and update and every width of the clock.                          *)
(***************************************************************************)
EXTENDS Receiver, TLAPS

(* The clock without its modulus.                                          *)
LEMMA LaterValue ==
    ASSUME NEW x \in Instants, NEW d \in 0 .. Wheel - 1
    PROVE  Later(x, d) = IF x + d < Wheel THEN x + d ELSE x + d - Wheel
  <1>1. Wheel \in Nat /\ Wheel > 0
    BY WheelAssumption
  <1>2. CASE x + d < Wheel
    BY <1>1, <1>2 DEF Later, Instants
  <1>3. CASE x + d >= Wheel
    <2>1. x + d - Wheel \in 0 .. Wheel - 1
      BY <1>1, <1>3 DEF Instants
    <2>2. x + d = Wheel * 1 + (x + d - Wheel)
      BY <1>1 DEF Instants
    <2>. QED  BY <1>1, <1>3, <2>1, <2>2 DEF Later, Instants
  <1>. QED  BY <1>1, <1>2, <1>3 DEF Instants

LEMMA SinceValue ==
    ASSUME NEW x \in Instants, NEW y \in Instants
    PROVE  Since(x, y) = IF x >= y THEN x - y ELSE x - y + Wheel
  <1>1. Wheel \in Nat /\ Wheel > 0
    BY WheelAssumption
  <1>2. CASE x >= y
    BY <1>1, <1>2 DEF Since, Instants
  <1>3. CASE x < y
    <2>1. x - y + Wheel \in 0 .. Wheel - 1
      BY <1>1, <1>3 DEF Instants
    <2>. QED  BY <1>1, <1>3, <2>1 DEF Since, Instants
  <1>. QED  BY <1>1, <1>2, <1>3 DEF Instants

LEMMA SinceNat ==
    ASSUME NEW x \in Instants, NEW y \in Instants
    PROVE  Since(x, y) \in Nat
  BY SinceValue, WheelAssumption DEF Instants
-----------------------------------------------------------------------------
(* The longest time a window may be over before the tick that expires it.  *)
Lag == IF updating THEN updateFor ELSE IF ticked THEN 0 ELSE MaxStall + MaxUpdate

(* What is stored about the window against what really remains of it.      *)
WindowInv ==
    /\ windowLeft > 0 => boundedActive /\ boundedUntil = Later(now, windowLeft)
    /\ boundedActive /\ windowLeft = 0 => Since(now, boundedUntil) <= Lag

(* A coprocessor in bucket sniffing was put there by this boot.            *)
ModeInv == mode = "bucket" => radioSniffing

IInv == TypeOK /\ WindowInv /\ ModeInv

(* Windows, stalls and updates together stay within half the wheel, so the *)
(* serial comparison never meets an instant of another lap.                *)
LEMMA Spans ==
    /\ Wheel \in Nat /\ Wheel > 1 /\ Wheel = 2 * (Wheel \div 2)
    /\ MaxStall \in Nat \ {0} /\ MaxUpdate \in Nat
    /\ MaxSniff * Second \in Nat
    /\ MaxSniff * Second + MaxUpdate + MaxStall < Wheel \div 2
  BY WheelAssumption, ReceiverAssumption

(* normalize_sniff_seconds() keeps the window within MAX_SNIFF_SECONDS.    *)
LEMMA CappedWindow ==
    ASSUME NEW seconds \in SniffSeconds
    PROVE  Capped(seconds) * Second \in 0 .. MaxSniff * Second
  <1>1. Capped(seconds) \in Nat /\ MaxSniff - Capped(seconds) \in Nat
    BY ReceiverAssumption DEF Capped
  <1>2. /\ Capped(seconds) * Second \in Nat
        /\ (MaxSniff - Capped(seconds)) * Second \in Nat
    BY <1>1, ReceiverAssumption
  <1>3. MaxSniff * Second = Capped(seconds) * Second + (MaxSniff - Capped(seconds)) * Second
    BY <1>1, ReceiverAssumption
  <1>4. MaxSniff * Second \in Nat
    BY ReceiverAssumption
  <1>. QED  BY <1>2, <1>3, <1>4

(* An open window is pending and one that is over is due.                  *)
LEMMA WindowIsExact == IInv => WindowExact
  <1>. SUFFICES ASSUME IInv PROVE BoundedActive <=> windowLeft > 0
    BY DEF WindowExact
  <1>1. now \in Instants /\ boundedUntil \in Instants /\ windowLeft \in 0 .. MaxSniff * Second
    BY DEF IInv, TypeOK
  <1>2. CASE windowLeft > 0
    <2>1. boundedActive /\ boundedUntil = Later(now, windowLeft)
      BY <1>2 DEF IInv, WindowInv
    <2>2. boundedUntil = IF now + windowLeft < Wheel THEN now + windowLeft ELSE now + windowLeft - Wheel
      BY <1>1, <2>1, Spans, LaterValue
    <2>3. Since(now, boundedUntil) = Wheel - windowLeft
      <3>1. Since(now, boundedUntil) = IF now >= boundedUntil THEN now - boundedUntil
                                       ELSE now - boundedUntil + Wheel
        BY <1>1, SinceValue
      <3>. QED  BY <1>1, <1>2, <2>2, <3>1, Spans DEF Instants
    <2>4. ~ Due(now, boundedUntil)
      BY <1>1, <2>3, Spans DEF Due
    <2>. QED  BY <1>2, <2>1, <2>4 DEF BoundedActive
  <1>3. CASE windowLeft = 0
    <2>1. CASE boundedActive
      <3>1. Since(now, boundedUntil) <= Lag
        BY <1>3, <2>1 DEF IInv, WindowInv
      <3>2. Lag \in 0 .. MaxStall + MaxUpdate
        BY Spans DEF Lag, IInv, TypeOK
      <3>3. Since(now, boundedUntil) \in Nat
        BY <1>1, SinceNat
      <3>4. Due(now, boundedUntil)
        BY <3>1, <3>2, <3>3, Spans DEF Due
      <3>. QED  BY <1>3, <3>4 DEF BoundedActive
    <2>. QED  BY <1>3, <2>1 DEF BoundedActive
  <1>. QED  BY <1>1, <1>2, <1>3, Spans
-----------------------------------------------------------------------------
(* The steps that move the window or the clock.                            *)

(* start_sniff(): the later of the two ends is the longer of the windows.  *)
LEMMA StartInv ==
    ASSUME IInv, NEW seconds \in SniffSeconds, Start(seconds), UNCHANGED <<now, ticked, updating, updateFor>>
    PROVE  /\ boundedActive' \in BOOLEAN /\ boundedUntil' \in Instants
           /\ windowLeft' \in 0 .. MaxSniff * Second
           /\ WindowInv'
  <1>. DEFINE length == Capped(seconds) * Second
              candidate == Later(now, length)
  <1>1. now \in Instants /\ boundedUntil \in Instants /\ windowLeft \in 0 .. MaxSniff * Second
    BY DEF IInv, TypeOK
  <1>2. length \in 0 .. MaxSniff * Second
    BY CappedWindow
  <1>3. /\ boundedActive' = TRUE
        /\ boundedUntil' = LaterEnd(candidate)
        /\ windowLeft' = IF length > windowLeft THEN length ELSE windowLeft
    BY DEF Start
  <1>. HIDE DEF length
  <1>4. candidate = IF now + length < Wheel THEN now + length ELSE now + length - Wheel
    BY <1>1, <1>2, Spans, LaterValue
  <1>5. candidate \in Instants
    BY <1>1, <1>2, <1>4, Spans DEF Instants
  <1>. HIDE DEF candidate
  <1>6. Lag \in Nat /\ Lag' = Lag
    BY Spans DEF Lag, IInv, TypeOK
  <1>7. CASE windowLeft = 0
    <2>1. ~ BoundedActive
      BY <1>7, WindowIsExact DEF WindowExact
    <2>2. boundedUntil' = candidate /\ windowLeft' = length
      BY <1>2, <1>3, <1>7, <2>1 DEF LaterEnd
    <2>3. length = 0 => Since(now, candidate) = 0
      BY <1>1, <1>4, <1>5, Spans, SinceValue DEF Instants
    <2>4. WindowInv'
      BY <1>2, <1>3, <1>6, <2>2, <2>3 DEF WindowInv, candidate
    <2>. QED  BY <1>2, <1>3, <1>5, <2>2, <2>4
  <1>8. CASE windowLeft > 0
    <2>1. BoundedActive
      BY <1>8, WindowIsExact DEF WindowExact
    <2>2. boundedUntil = IF now + windowLeft < Wheel THEN now + windowLeft ELSE now + windowLeft - Wheel
      BY <1>1, <1>8, Spans, LaterValue DEF IInv, WindowInv
    <2>3. Since(candidate, boundedUntil)
            = IF length >= windowLeft THEN length - windowLeft ELSE length - windowLeft + Wheel
      <3>1. Since(candidate, boundedUntil)
              = IF candidate >= boundedUntil THEN candidate - boundedUntil
                ELSE candidate - boundedUntil + Wheel
        BY <1>1, <1>5, SinceValue
      <3>. QED  BY <1>1, <1>2, <1>4, <1>5, <2>2, <3>1, Spans DEF Instants
    <2>4. Due(candidate, boundedUntil) <=> length >= windowLeft
      BY <1>1, <1>2, <2>3, Spans DEF Due
    <2>5. candidate = boundedUntil <=> length = windowLeft
      BY <1>1, <1>2, <1>4, <2>2, Spans DEF Instants
    <2>6. boundedUntil' = IF length > windowLeft THEN candidate ELSE boundedUntil
      BY <1>1, <1>2, <1>3, <2>1, <2>4, <2>5 DEF LaterEnd
    <2>7. boundedUntil' = Later(now, windowLeft') /\ windowLeft' > 0
      BY <1>1, <1>2, <1>3, <1>8, <2>6 DEF IInv, WindowInv, candidate
    <2>8. WindowInv'
      BY <1>1, <1>2, <1>3, <2>7 DEF WindowInv
    <2>. QED  BY <1>1, <1>2, <1>3, <1>5, <2>6, <2>8
  <1>. QED  BY <1>1, <1>7, <1>8, Spans

(* expire_bounded_() drops the windows that are over, and no other.        *)
LEMMA ExpireInv ==
    ASSUME IInv, Expire, UNCHANGED <<now, windowLeft>>
    PROVE  /\ boundedActive' \in BOOLEAN /\ boundedUntil' \in Instants
           /\ WindowInv'
  <1>1. boundedUntil \in Instants /\ 0 \in Instants /\ windowLeft \in 0 .. MaxSniff * Second
    BY Spans DEF IInv, TypeOK, Instants
  <1>2. BoundedActive <=> windowLeft > 0
    BY WindowIsExact DEF WindowExact
  <1>3. CASE windowLeft > 0
    <2>1. UNCHANGED <<boundedActive, boundedUntil>>
      BY <1>2, <1>3 DEF Expire
    <2>. QED  BY <1>3, <2>1 DEF WindowInv, IInv, TypeOK
  <1>4. CASE windowLeft = 0
    <2>1. ~ boundedActive'
      BY <1>2, <1>4 DEF Expire, BoundedActive
    <2>2. boundedActive' \in BOOLEAN /\ boundedUntil' \in Instants
      BY <1>1 DEF Expire, IInv, TypeOK
    <2>3. windowLeft' = 0
      BY <1>4
    <2>. QED  BY <2>1, <2>2, <2>3 DEF WindowInv
  <1>. QED  BY <1>1, <1>3, <1>4, Spans

(* Time passes for the clock and for the window alike.                     *)
LEMMA ElapseInv ==
    ASSUME IInv, Elapse
    PROVE  IInv'
  <1>. PICK delay \in 1 .. MaxStall :
        /\ ticked \/ updating
        /\ updating => updateFor + delay <= MaxUpdate
        /\ ticked' = FALSE
        /\ now' = Later(now, delay)
        /\ windowLeft' = Shorter(windowLeft, delay)
        /\ updateFor' = IF updating THEN updateFor + delay ELSE 0
        /\ deafFor' = IF mode = "standard" /\ radioSniffing /\ receiving = "none" /\ ~ updating
                      THEN deafFor + delay ELSE 0
        /\ sinceAccepted' = IF sinceAccepted + delay < RateLimit THEN sinceAccepted + delay
                            ELSE RateLimit
        /\ did' = "nothing"
        /\ UNCHANGED <<rxVars, worldVars>>
    BY DEF Elapse
  <1>1. now \in Instants /\ boundedUntil \in Instants /\ windowLeft \in 0 .. MaxSniff * Second
    BY DEF IInv, TypeOK
  <1>2. delay \in 0 .. Wheel - 1 /\ delay <= MaxStall /\ delay \in Nat
    BY Spans
  <1>3. now' = IF now + delay < Wheel THEN now + delay ELSE now + delay - Wheel
    BY <1>1, <1>2, LaterValue
  <1>4. now' \in Instants
    BY <1>1, <1>2, <1>3, Spans DEF Instants
  <1>5. windowLeft' \in 0 .. MaxSniff * Second
    BY <1>1, <1>2, Spans DEF Shorter
  <1>6. updateFor \in 0 .. MaxUpdate /\ deafFor \in Nat /\ updating \in BOOLEAN
    BY DEF IInv, TypeOK
  <1>7. TypeOK'
    <2>1. deafFor' \in Nat /\ updateFor' \in 0 .. MaxUpdate
      BY <1>2, <1>6, Spans
    <2>2. boundedUntil' \in Instants /\ lastPositive' \in Instants /\ lastArm' \in Instants
      BY DEF IInv, TypeOK, rxVars
    <2>3. /\ boundedActive' \in BOOLEAN /\ positiveSeen' \in BOOLEAN /\ radioSniffing' \in BOOLEAN
          /\ queued' \in BOOLEAN /\ onAir' \in BOOLEAN /\ updating' \in BOOLEAN /\ ticked' \in BOOLEAN
          /\ mode' \in Modes /\ receiving' \in {"none", "reply", "capture"}
      BY DEF IInv, TypeOK, rxVars, worldVars
    <2>4. sinceAccepted' \in 0 .. RateLimit
      BY <1>2, ReceiverAssumption DEF IInv, TypeOK
    <2>. QED  BY <1>4, <1>5, <2>1, <2>2, <2>3, <2>4 DEF TypeOK, Deeds
  <1>8. Lag' = IF updating THEN updateFor + delay ELSE MaxStall + MaxUpdate
    BY <1>6 DEF Lag, worldVars
  <1>9. WindowInv'
    <2>1. CASE windowLeft > delay
      <3>1. windowLeft' = windowLeft - delay /\ windowLeft' > 0
        BY <1>1, <1>2, <2>1, Spans DEF Shorter
      <3>2. boundedActive /\ boundedUntil = Later(now, windowLeft)
        BY <1>1, <1>2, <2>1, Spans DEF IInv, WindowInv
      <3>3. boundedUntil = IF now + windowLeft < Wheel THEN now + windowLeft ELSE now + windowLeft - Wheel
        BY <1>1, <3>2, Spans, LaterValue
      <3>4. Later(now', windowLeft') = IF now' + windowLeft' < Wheel THEN now' + windowLeft'
                                       ELSE now' + windowLeft' - Wheel
        BY <1>4, <1>5, Spans, LaterValue
      <3>5. boundedUntil = Later(now', windowLeft')
        BY <1>1, <1>2, <1>3, <2>1, <3>1, <3>3, <3>4, Spans DEF Instants
      <3>. QED  BY <3>1, <3>2, <3>5 DEF WindowInv, rxVars
    <2>2. CASE 0 < windowLeft /\ windowLeft <= delay
      <3>1. windowLeft' = 0
        BY <1>1, <1>2, <2>2, Spans DEF Shorter
      <3>2. boundedUntil = IF now + windowLeft < Wheel THEN now + windowLeft ELSE now + windowLeft - Wheel
        BY <1>1, <2>2, Spans, LaterValue DEF IInv, WindowInv
      <3>3. Since(now', boundedUntil) = delay - windowLeft
        <4>1. Since(now', boundedUntil) = IF now' >= boundedUntil THEN now' - boundedUntil
                                          ELSE now' - boundedUntil + Wheel
          BY <1>1, <1>4, SinceValue
        <4>. QED  BY <1>1, <1>2, <1>3, <2>2, <3>2, <4>1, Spans DEF Instants
      <3>4. Since(now', boundedUntil) <= Lag'
        BY <1>1, <1>2, <1>6, <1>8, <2>2, <3>3, Spans
      <3>. QED  BY <3>1, <3>4 DEF WindowInv, rxVars
    <2>3. CASE windowLeft = 0
      <3>1. windowLeft' = 0
        BY <1>2, <2>3 DEF Shorter
      <3>2. SUFFICES ASSUME boundedActive PROVE Since(now', boundedUntil) <= Lag'
        BY <3>1 DEF WindowInv, rxVars
      <3>3. Since(now, boundedUntil) <= IF updating THEN updateFor ELSE 0
        BY <2>3, <3>2 DEF IInv, WindowInv, Lag
      <3>4. Since(now, boundedUntil) = IF now >= boundedUntil THEN now - boundedUntil
                                       ELSE now - boundedUntil + Wheel
        BY <1>1, SinceValue
      <3>5. Since(now', boundedUntil) = IF now' >= boundedUntil THEN now' - boundedUntil
                                        ELSE now' - boundedUntil + Wheel
        BY <1>1, <1>4, SinceValue
      <3>6. Since(now', boundedUntil) = Since(now, boundedUntil) + delay
        BY <1>1, <1>2, <1>3, <1>6, <3>3, <3>4, <3>5, Spans DEF Instants
      <3>7. Since(now, boundedUntil) \in Nat
        BY <1>1, <3>4, Spans DEF Instants
      <3>. QED  BY <1>2, <1>6, <1>8, <3>3, <3>6, <3>7, Spans
    <2>. QED  BY <1>1, <1>2, <2>1, <2>2, <2>3, Spans
  <1>. QED  BY <1>7, <1>9 DEF IInv, ModeInv, rxVars, worldVars
-----------------------------------------------------------------------------
(* The tick, the commands and the rest of the world.                       *)

(* Reconciling turns bucket sniffing on and off together with the belief.  *)
LEMMA TickInv ==
    ASSUME IInv, Tick
    PROVE  IInv'
  <1>1. /\ boundedActive' \in BOOLEAN /\ boundedUntil' \in Instants
        /\ WindowInv'
    BY ExpireInv DEF Tick
  <1>2. /\ mode' \in Modes
        /\ receiving' \in {"none", "reply", "capture"}
        /\ radioSniffing' \in BOOLEAN
        /\ lastArm' \in Instants
        /\ ModeInv'
    <2>1. mode \in Modes /\ receiving \in {"none", "reply", "capture"} /\ radioSniffing \in BOOLEAN
          /\ lastArm \in Instants /\ now \in Instants
          /\ (mode = "bucket" => radioSniffing)
      BY DEF IInv, TypeOK, ModeInv
    <2>2. Reconcile
      BY DEF Tick
    <2>. QED  BY <2>1, <2>2 DEF Reconcile, ModeInv, Modes
  <1>3. queued' \in BOOLEAN /\ onAir' \in BOOLEAN /\ did' \in Deeds /\ deafFor' \in Nat
    BY DEF Tick, HandOver, Deeds, IInv, TypeOK
  <1>4. /\ lastPositive' \in Instants /\ now' \in Instants /\ positiveSeen' \in BOOLEAN
        /\ updating' \in BOOLEAN /\ ticked' \in BOOLEAN
        /\ windowLeft' \in 0 .. MaxSniff * Second
        /\ updateFor' \in 0 .. MaxUpdate
        /\ sinceAccepted' \in 0 .. RateLimit
    BY DEF Tick, IInv, TypeOK
  <1>5. TypeOK'
    BY <1>1, <1>2, <1>3, <1>4 DEF TypeOK
  <1>. QED  BY <1>1, <1>2, <1>5 DEF IInv

LEMMA SniffInv ==
    ASSUME IInv, NEW seconds \in SniffSeconds, Sniff(seconds)
    PROVE  IInv'
  <1>1. CASE WithinLimit
    <2>1. UNCHANGED <<rxVars, timeVars, worldVars>> /\ did' = "nothing"
      BY <1>1 DEF Sniff
    <2>. QED
      <3>1. TypeOK'
        BY <2>1 DEF IInv, TypeOK, rxVars, timeVars, worldVars, Deeds
      <3>2. WindowInv' /\ ModeInv'
        BY <2>1 DEF IInv, WindowInv, Lag, ModeInv, rxVars, timeVars, worldVars
      <3>. QED  BY <3>1, <3>2 DEF IInv
  <1>2. CASE ~ WithinLimit
    <2>1. /\ Start(seconds)
          /\ positiveSeen' = TRUE /\ lastPositive' = now /\ did' = "accepted"
          /\ UNCHANGED <<radioSniffing, lastArm, listenEnabled, now, ticked, deafFor, updateFor>>
          /\ UNCHANGED worldVars
          /\ sinceAccepted' \in 0 .. RateLimit
      BY <1>2, ReceiverAssumption DEF Sniff
    <2>2. /\ boundedActive' \in BOOLEAN /\ boundedUntil' \in Instants
          /\ windowLeft' \in 0 .. MaxSniff * Second
          /\ WindowInv'
      BY <2>1, StartInv DEF worldVars
    <2>3. TypeOK'
      BY <2>1, <2>2 DEF IInv, TypeOK, worldVars, Deeds
    <2>. QED  BY <2>1, <2>2, <2>3 DEF IInv, ModeInv, worldVars
  <1>. QED  BY <1>1, <1>2

(* The window and the clock start anew.                                    *)
LEMMA FreshInv ==
    ASSUME IInv, Cancel \/ Reboot
    PROVE  IInv'
  <1>1. /\ 0 \in Instants /\ 0 \in 0 .. MaxSniff * Second /\ 0 \in 0 .. MaxUpdate
        /\ RateLimit \in 0 .. RateLimit
    BY Spans, ReceiverAssumption DEF Instants
  <1>2. boundedActive' = FALSE /\ boundedUntil' = 0 /\ windowLeft' = 0
    BY DEF Cancel, Reboot
  <1>3. WindowInv'
    BY <1>2 DEF WindowInv
  <1>4. TypeOK'
    <2>1. CASE Cancel
      BY <1>1, <2>1 DEF Cancel, IInv, TypeOK, worldVars, Deeds
    <2>2. CASE Reboot
      BY <1>1, <2>2 DEF Reboot, BootMode, IInv, TypeOK, Modes, Deeds
    <2>. QED  BY <2>1, <2>2
  <1>5. ModeInv'
    BY DEF Cancel, Reboot, BootMode, IInv, ModeInv, worldVars
  <1>. QED  BY <1>3, <1>4, <1>5 DEF IInv

(* A window that is over may be noticed late by the length of an update.   *)
LEMMA UpdateInv ==
    ASSUME IInv, UpdateBegins \/ UpdateSends \/ UpdateFails
    PROVE  IInv'
  <1>1. UNCHANGED <<boundedActive, boundedUntil, now, windowLeft, mode, radioSniffing>>
    BY DEF UpdateBegins, UpdateSends, UpdateFails, rxVars, timeVars
  <1>2. Lag <= Lag' /\ Lag \in Nat /\ Lag' \in Nat
    BY Spans DEF UpdateBegins, UpdateSends, UpdateFails, Lag, IInv, TypeOK, timeVars
  <1>3. WindowInv'
    <2>1. now \in Instants /\ boundedUntil \in Instants
      BY DEF IInv, TypeOK
    <2>2. Since(now, boundedUntil) \in Nat
      BY <2>1, SinceNat
    <2>3. boundedActive /\ windowLeft = 0 => Since(now, boundedUntil) <= Lag'
      BY <1>2, <2>2 DEF IInv, WindowInv
    <2>. QED  BY <1>1, <2>3 DEF IInv, WindowInv
  <1>4. 0 \in 0 .. MaxUpdate
    BY Spans
  <1>5. TypeOK'
    <2>1. CASE UpdateBegins
      BY <2>1 DEF UpdateBegins, IInv, TypeOK, rxVars, Deeds
    <2>2. CASE UpdateSends
      BY <2>2 DEF UpdateSends, HandOver, IInv, TypeOK, rxVars, timeVars, Deeds
    <2>3. CASE UpdateFails
      BY <1>4, <2>3 DEF UpdateFails, IInv, TypeOK, rxVars, Deeds
    <2>. QED  BY <2>1, <2>2, <2>3
  <1>. QED  BY <1>1, <1>3, <1>5 DEF IInv, ModeInv

LEMMA WorldInv ==
    ASSUME IInv, Refuse \/ WorkChanges \/ AirClears \/ FallBack \/ BytesArrive \/ FrameEnds
    PROVE  IInv'
  <1>1. UNCHANGED <<boundedActive, boundedUntil, now, windowLeft, ticked, updating, updateFor, radioSniffing>>
    BY DEF Refuse, WorkChanges, AirClears, FallBack, BytesArrive, FrameEnds, rxVars, worldVars, timeVars
  <1>2. WindowInv'
    BY <1>1 DEF IInv, WindowInv, Lag
  <1>3. ModeInv'
    BY DEF Refuse, WorkChanges, AirClears, FallBack, BytesArrive, FrameEnds, rxVars, worldVars, IInv, ModeInv
  <1>4. TypeOK'
    <2>1. CASE Refuse \/ WorkChanges \/ AirClears
      BY <2>1 DEF Refuse, WorkChanges, AirClears, IInv, TypeOK, rxVars, worldVars, timeVars, Deeds
    <2>2. CASE FallBack \/ BytesArrive
      BY <2>2 DEF FallBack, BytesArrive, IInv, TypeOK, rxVars, timeVars, Deeds, Modes
    <2>3. CASE FrameEnds
      BY <2>3 DEF FrameEnds, IInv, TypeOK, rxVars, timeVars, Deeds
    <2>. QED  BY <2>1, <2>2, <2>3
  <1>. QED  BY <1>2, <1>3, <1>4 DEF IInv

LEMMA InitInv == Init => IInv
  <1>. SUFFICES ASSUME Init PROVE IInv
    OBVIOUS
  <1>1. /\ 0 \in Instants /\ 0 \in 0 .. MaxSniff * Second /\ 0 \in 0 .. MaxUpdate
        /\ RateLimit \in 0 .. RateLimit
    BY Spans, ReceiverAssumption DEF Instants
  <1>2. TypeOK
    BY <1>1 DEF Init, TypeOK, Modes, Deeds
  <1>. QED  BY <1>2 DEF Init, IInv, WindowInv, ModeInv

LEMMA NextInv == IInv /\ [Next]_vars => IInv'
  <1>. SUFFICES ASSUME IInv, [Next]_vars PROVE IInv'
    OBVIOUS
  <1>1. CASE \E seconds \in SniffSeconds : Sniff(seconds)
    BY <1>1, SniffInv
  <1>2. CASE Cancel \/ Reboot
    BY <1>2, FreshInv
  <1>3. CASE Tick
    BY <1>3, TickInv
  <1>4. CASE UpdateBegins \/ UpdateSends \/ UpdateFails
    BY <1>4, UpdateInv
  <1>5. CASE Refuse \/ WorkChanges \/ AirClears \/ FallBack \/ BytesArrive \/ FrameEnds
    BY <1>5, WorldInv
  <1>6. CASE Elapse
    BY <1>6, ElapseInv
  <1>7. CASE UNCHANGED vars
    <2>1. TypeOK'
      BY <1>7 DEF IInv, TypeOK, vars
    <2>2. WindowInv' /\ ModeInv'
      BY <1>7 DEF IInv, WindowInv, Lag, ModeInv, vars
    <2>. QED  BY <2>1, <2>2 DEF IInv
  <1>. QED  BY <1>1, <1>2, <1>3, <1>4, <1>5, <1>6, <1>7 DEF Next

LEMMA AlwaysIInv == Spec => []IInv
  BY InitInv, NextInv, PTL DEF Spec
-----------------------------------------------------------------------------
(* Type correctness of the receive side.                                   *)
THEOREM ReceiverTypes == Spec => []TypeOK
  <1>1. IInv => TypeOK
    BY DEF IInv
  <1>. QED  BY <1>1, AlwaysIInv, PTL

(* A bounded sniff ends exactly when the longest window asked for does,    *)
(* on every lap of the clock and over updates and stalls (start_sniff,     *)
(* bounded_active_, expire_bounded_).                                      *)
THEOREM WindowsAreExact == Spec => []WindowExact
  BY WindowIsExact, AlwaysIInv, PTL

(* No tick leaves the coprocessor listening to what nobody asked for, over *)
(* restarts and silent changes of its mode (reconcile, setup()).           *)
THEOREM ListeningIsAskedFor == Spec => ListensOnlyWhenAsked
  <1>1. IInv /\ [Next]_vars
          => [~ ticked /\ ticked' /\ mode' = "bucket" => listenEnabled \/ windowLeft > 0]_vars
    <2>. SUFFICES ASSUME IInv, Next, ~ ticked, ticked', mode' = "bucket"
                  PROVE  listenEnabled \/ windowLeft > 0
      OBVIOUS
    <2>1. Tick
      BY DEF Next, Sniff, Start, Refuse, Cancel, WorkChanges, AirClears, FallBack, BytesArrive, FrameEnds,
             UpdateBegins, UpdateSends, UpdateFails, Reboot, Elapse, timeVars
    <2>2. Desired
      BY <2>1 DEF Tick, Reconcile, Arm, Rearm, Yield, IInv, ModeInv
    <2>3. BoundedActive => windowLeft > 0
      BY WindowIsExact DEF WindowExact
    <2>. QED  BY <2>2, <2>3 DEF Desired, WantsSniff
  <1>. QED  BY <1>1, AlwaysIInv, PTL DEF Spec, ListensOnlyWhenAsked

-----------------------------------------------------------------------------
(* The rate limiter.  While less than a rate limit has passed since a      *)
(* command was accepted, no more has passed as the clock tells it.         *)
Limitage == Since(now, lastPositive)

RateInv == sinceAccepted < RateLimit => positiveSeen /\ Limitage <= sinceAccepted

RInv == IInv /\ RateInv

(* As the clock tells it, no more time passes than really does.            *)
LEMMA LimitageGrows ==
    ASSUME IInv, IInv', NEW delay \in 1 .. MaxStall, now' = Later(now, delay), UNCHANGED lastPositive
    PROVE  Limitage \in Nat /\ Limitage' \in Nat /\ Limitage' <= Limitage + delay
  <1>1. now \in Instants /\ lastPositive \in Instants /\ now' \in Instants
    BY DEF IInv, TypeOK
  <1>2. delay \in 0 .. Wheel - 1 /\ delay \in Nat
    BY Spans
  <1>3. now' = IF now + delay < Wheel THEN now + delay ELSE now + delay - Wheel
    BY <1>1, <1>2, LaterValue
  <1>4. Limitage = IF now >= lastPositive THEN now - lastPositive ELSE now - lastPositive + Wheel
    BY <1>1, SinceValue DEF Limitage
  <1>5. Limitage' = IF now' >= lastPositive THEN now' - lastPositive ELSE now' - lastPositive + Wheel
    BY <1>1, SinceValue DEF Limitage, Since
  <1>. QED  BY <1>1, <1>2, <1>3, <1>4, <1>5, Spans DEF Instants

LEMMA ElapseRate ==
    ASSUME RInv, IInv', Elapse
    PROVE  RateInv'
  <1>1. PICK delay \in 1 .. MaxStall :
           /\ now' = Later(now, delay)
           /\ sinceAccepted' = IF sinceAccepted + delay < RateLimit THEN sinceAccepted + delay
                               ELSE RateLimit
           /\ UNCHANGED <<lastPositive, positiveSeen>>
    BY DEF Elapse, rxVars
  <1>2. sinceAccepted \in Nat /\ RateLimit \in Nat /\ delay \in Nat
    BY ReceiverAssumption DEF RInv, IInv, TypeOK
  <1>3. Limitage \in Nat /\ Limitage' \in Nat /\ Limitage' <= Limitage + delay
    BY <1>1, LimitageGrows DEF RInv
  <1>4. CASE sinceAccepted + delay < RateLimit
    <2>1. sinceAccepted < RateLimit /\ sinceAccepted' = sinceAccepted + delay
      BY <1>1, <1>2, <1>4
    <2>2. positiveSeen /\ Limitage <= sinceAccepted
      BY <2>1 DEF RInv, RateInv
    <2>. QED  BY <1>1, <1>2, <1>3, <2>1, <2>2 DEF RateInv
  <1>5. CASE ~ (sinceAccepted + delay < RateLimit)
    <2>1. ~ (sinceAccepted' < RateLimit)
      BY <1>1, <1>2, <1>5
    <2>. QED  BY <2>1 DEF RateInv
  <1>. QED  BY <1>4, <1>5

LEMMA NextRate == RInv /\ [Next]_vars => RInv'
  <1>. SUFFICES ASSUME RInv, [Next]_vars PROVE RInv'
    OBVIOUS
  <1>1. IInv'
    BY NextInv DEF RInv
  <1>2. CASE Elapse
    BY <1>1, <1>2, ElapseRate DEF RInv
  <1>3. CASE \E seconds \in SniffSeconds : Sniff(seconds)
    <2>1. CASE UNCHANGED <<sinceAccepted, positiveSeen, lastPositive, now>>
      BY <1>1, <2>1 DEF RInv, RateInv, Limitage, Since
    <2>2. CASE sinceAccepted' = 0 /\ positiveSeen' /\ lastPositive' = now /\ now' = now
      <3>1. now \in Instants
        BY DEF RInv, IInv, TypeOK
      <3>2. Limitage' = 0
        BY <2>2, <3>1, SinceValue DEF Limitage, Since, Instants
      <3>. QED  BY <1>1, <2>2, <3>2 DEF RInv, RateInv
    <2>. QED  BY <1>3, <2>1, <2>2 DEF Sniff, rxVars, timeVars
  <1>4. CASE Reboot
    <2>1. ~ (sinceAccepted' < RateLimit)
      BY <1>4, ReceiverAssumption DEF Reboot
    <2>. QED  BY <1>1, <2>1 DEF RInv, RateInv
  <1>5. CASE \/ Refuse \/ Cancel \/ Tick \/ WorkChanges \/ AirClears \/ FallBack \/ BytesArrive
             \/ FrameEnds \/ UpdateBegins \/ UpdateSends \/ UpdateFails \/ UNCHANGED vars
    <2>1. UNCHANGED <<sinceAccepted, positiveSeen, lastPositive, now>>
      BY <1>5 DEF Refuse, Cancel, Tick, WorkChanges, AirClears, FallBack, BytesArrive, FrameEnds,
                  UpdateBegins, UpdateSends, UpdateFails, vars, rxVars, timeVars
    <2>. QED  BY <1>1, <2>1 DEF RInv, RateInv, Limitage, Since
  <1>. QED  BY <1>2, <1>3, <1>4, <1>5 DEF Next

LEMMA InitRate == Init => RInv
  <1>. SUFFICES ASSUME Init PROVE RInv
    OBVIOUS
  <1>1. ~ (sinceAccepted < RateLimit)
    BY ReceiverAssumption DEF Init
  <1>. QED  BY <1>1, InitInv DEF RInv, RateInv

(* Commands that start or extend a window are a full rate limit apart, for *)
(* every limit, stall, update and width of the clock (command_allowed).    *)
THEOREM RateIsKept == Spec => RateKept
  <1>1. RInv /\ [Next]_vars => [did' = "accepted" => sinceAccepted = RateLimit]_vars
    <2>. SUFFICES ASSUME RInv, Next, did' = "accepted"
                  PROVE  sinceAccepted = RateLimit
      OBVIOUS
    <2>1. PICK seconds \in SniffSeconds : Sniff(seconds)
      BY DEF Next, Refuse, Cancel, Tick, HandOver, WorkChanges, AirClears, FallBack, BytesArrive,
             FrameEnds, UpdateBegins, UpdateSends, UpdateFails, Reboot, Elapse
    <2>2. ~ WithinLimit
      BY <2>1 DEF Sniff
    <2>3. sinceAccepted \in 0 .. RateLimit /\ RateLimit \in Nat /\ Limitage \in Nat
      <3>1. now \in Instants /\ lastPositive \in Instants /\ sinceAccepted \in 0 .. RateLimit
        BY DEF RInv, IInv, TypeOK
      <3>. QED  BY <3>1, SinceNat, ReceiverAssumption DEF Limitage
    <2>4. CASE sinceAccepted < RateLimit
      <3>1. positiveSeen /\ Limitage <= sinceAccepted
        BY <2>4 DEF RInv, RateInv
      <3>2. ~ (Limitage < RateLimit)
        BY <2>2, <3>1 DEF WithinLimit, Limitage
      <3>. QED  BY <2>3, <2>4, <3>1, <3>2
    <2>. QED  BY <2>3, <2>4
  <1>. QED  BY InitRate, NextRate, <1>1, PTL DEF Spec, RateKept
-----------------------------------------------------------------------------
(* The keepalive.  Deafness is never longer than the time since the last   *)
(* arming as the clock tells it, by more than one pause; and after a tick  *)
(* that found no keepalive due, that time is short of one period.          *)
Armage == Since(now, lastArm)

DeafInv ==
    deafFor > 0 =>
        /\ mode = "standard" /\ radioSniffing /\ receiving = "none" /\ ~ updating
        /\ deafFor <= Armage + MaxStall
        /\ ticked => Armage < Keepalive
        /\ deafFor < Keepalive + 2 * MaxStall

KInv == IInv /\ DeafInv

LEMMA Spares ==
    /\ Wheel \in Nat /\ Wheel > 1 /\ Keepalive \in Nat /\ MaxStall \in Nat \ {0}
    /\ Keepalive + MaxStall < Wheel
  BY WheelAssumption, ReceiverAssumption

LEMMA ClockTypes ==
    ASSUME IInv
    PROVE  now \in Instants /\ lastArm \in Instants /\ deafFor \in Nat /\ Armage \in Nat
  <1>1. now \in Instants /\ lastArm \in Instants /\ deafFor \in Nat
    BY DEF IInv, TypeOK
  <1>. QED  BY <1>1, SinceNat DEF Armage

(* The time since the last arming, one pause later.                        *)
LEMMA ArmageGrows ==
    ASSUME IInv, Armage < Keepalive, NEW delay \in 1 .. MaxStall,
           now' = Later(now, delay), UNCHANGED lastArm
    PROVE  Armage' = Armage + delay
  <1>1. now \in Instants /\ lastArm \in Instants /\ now' \in Instants
    <2>1. delay \in 0 .. Wheel - 1
      BY Spares
    <2>2. now \in Instants /\ lastArm \in Instants
      BY ClockTypes
    <2>. QED  BY <2>1, <2>2, LaterValue, Spares DEF Instants
  <1>2. Later(now, delay) = IF now + delay < Wheel THEN now + delay ELSE now + delay - Wheel
    <2>1. delay \in 0 .. Wheel - 1
      BY Spares
    <2>. QED  BY <1>1, <2>1, LaterValue
  <1>3. Armage = IF now >= lastArm THEN now - lastArm ELSE now - lastArm + Wheel
    BY <1>1, SinceValue DEF Armage
  <1>4. Armage' = IF now' >= lastArm THEN now' - lastArm ELSE now' - lastArm + Wheel
    BY <1>1, SinceValue DEF Armage, Since
  <1>. QED  BY <1>1, <1>2, <1>3, <1>4, Spares DEF Instants

LEMMA ElapseDeaf ==
    ASSUME KInv, IInv', Elapse
    PROVE  DeafInv'
  <1>. SUFFICES ASSUME deafFor' > 0
                PROVE  /\ mode = "standard" /\ radioSniffing /\ receiving = "none" /\ ~ updating
                       /\ deafFor' <= Armage' + MaxStall
                       /\ deafFor' < Keepalive + 2 * MaxStall
    BY DEF DeafInv, Elapse, rxVars, worldVars
  <1>1. PICK delay \in 1 .. MaxStall :
           /\ ticked \/ updating
           /\ now' = Later(now, delay)
           /\ deafFor' = IF mode = "standard" /\ radioSniffing /\ receiving = "none" /\ ~ updating
                         THEN deafFor + delay ELSE 0
           /\ UNCHANGED lastArm
    BY DEF Elapse, rxVars
  <1>2. /\ mode = "standard" /\ radioSniffing /\ receiving = "none" /\ ~ updating
        /\ deafFor' = deafFor + delay /\ ticked
    BY <1>1
  <1>3. deafFor \in Nat /\ Armage \in Nat
    BY ClockTypes DEF KInv
  <1>4. Armage' \in Nat
    <2>1. now' \in Instants /\ lastArm' \in Instants
      BY DEF IInv, TypeOK
    <2>. QED  BY <2>1, SinceNat DEF Armage, Since
  <1>5. CASE deafFor = 0
    <2>1. PICK a : a = Armage'
      OBVIOUS
    <2>2. a \in Nat /\ deafFor' = delay
      BY <1>2, <1>4, <1>5, <2>1
    <2>3. delay <= a + MaxStall /\ delay < Keepalive + 2 * MaxStall
      BY <2>2, Spares
    <2>. QED  BY <1>2, <2>1, <2>2, <2>3
  <1>6. CASE deafFor > 0
    <2>1. Armage < Keepalive /\ deafFor <= Armage + MaxStall
      BY <1>2, <1>6 DEF KInv, DeafInv
    <2>2. Armage' = Armage + delay
      BY <1>1, <2>1, ArmageGrows DEF KInv
    <2>. QED  BY <1>2, <1>3, <2>1, <2>2, Spares
  <1>. QED  BY <1>2, <1>3, <1>5, <1>6

(* A tick that leaves the coprocessor fallen back found no keepalive due.  *)
LEMMA TickDeaf ==
    ASSUME KInv, Tick
    PROVE  DeafInv'
  <1>. SUFFICES ASSUME deafFor' > 0 PROVE DeafInv'
    BY DEF DeafInv
  <1>1. mode' = "standard" /\ radioSniffing' /\ deafFor' = deafFor
    BY DEF Tick
  <1>2. /\ mode = "standard" /\ receiving = "none" /\ ~ updating /\ radioSniffing
        /\ deafFor <= Armage + MaxStall /\ deafFor < Keepalive + 2 * MaxStall
    BY <1>1 DEF KInv, DeafInv
  <1>3. ~ Arm /\ ~ Rearm /\ ~ Yield /\ UNCHANGED <<mode, receiving, radioSniffing, lastArm>>
    BY <1>1 DEF Tick, Reconcile
  <1>4. ~ KeepaliveDue
    BY <1>2, <1>3 DEF Rearm, Yield
  <1>5. Armage < Keepalive
    <2>1. ~ (Armage >= Keepalive)
      BY <1>2, <1>4 DEF KeepaliveDue, Armage
    <2>2. Armage \in Nat
      BY ClockTypes DEF KInv
    <2>. QED  BY <2>1, <2>2, Spares
  <1>6. UNCHANGED <<now, lastArm, updating>> /\ Armage' = Armage
    BY <1>3 DEF Tick, Armage, Since
  <1>. QED  BY <1>1, <1>2, <1>3, <1>5, <1>6 DEF DeafInv

LEMMA NextDeaf == KInv /\ [Next]_vars => KInv'
  <1>. SUFFICES ASSUME KInv, [Next]_vars PROVE KInv'
    OBVIOUS
  <1>1. IInv'
    BY NextInv DEF KInv
  <1>2. CASE Elapse
    BY <1>1, <1>2, ElapseDeaf DEF KInv
  <1>3. CASE Tick
    BY <1>1, <1>3, TickDeaf DEF KInv
  <1>4. CASE BytesArrive \/ UpdateBegins \/ Reboot
    <2>1. deafFor' = 0
      BY <1>4 DEF BytesArrive, UpdateBegins, Reboot
    <2>. QED  BY <1>1, <2>1 DEF KInv, DeafInv
  <1>5. CASE UpdateFails
    <2>1. updating /\ deafFor' = deafFor
      BY <1>5 DEF UpdateFails
    <2>2. ~ (deafFor' > 0)
      BY <2>1 DEF KInv, DeafInv
    <2>. QED  BY <1>1, <2>2 DEF KInv, DeafInv
  <1>6. CASE FallBack \/ FrameEnds
    <2>1. ~ (deafFor > 0)
      BY <1>6 DEF KInv, DeafInv, FallBack, FrameEnds
    <2>2. deafFor' = deafFor
      BY <1>6 DEF FallBack, FrameEnds, timeVars
    <2>. QED  BY <1>1, <2>1, <2>2 DEF KInv, DeafInv
  <1>7. CASE \/ \E seconds \in SniffSeconds : Sniff(seconds)
             \/ Refuse \/ Cancel \/ WorkChanges \/ AirClears \/ UpdateSends \/ UNCHANGED vars
    <2>1. UNCHANGED <<mode, radioSniffing, receiving, updating, ticked, deafFor, now, lastArm>>
      BY <1>7 DEF Sniff, Refuse, Cancel, WorkChanges, AirClears, UpdateSends, vars, rxVars,
                  timeVars, worldVars
    <2>2. DeafInv'
      BY <2>1 DEF KInv, DeafInv, Armage, Since
    <2>. QED  BY <1>1, <2>2 DEF KInv
  <1>. QED  BY <1>2, <1>3, <1>4, <1>5, <1>6, <1>7 DEF Next

LEMMA InitDeaf == Init => KInv
  BY InitInv DEF Init, KInv, DeafInv

(* With the UART quiet and the loop running, a coprocessor that fell back  *)
(* is deaf for no longer than one keepalive period and two pauses of the   *)
(* loop, wherever the clock wraps (keepalive_due, reconcile).              *)
THEOREM DeafnessIsBounded == Spec => []DeafnessBounded
  <1>1. KInv => DeafnessBounded
    <2>. SUFFICES ASSUME KInv PROVE deafFor < Keepalive + 2 * MaxStall
      BY DEF DeafnessBounded
    <2>1. deafFor \in Nat
      BY ClockTypes DEF KInv
    <2>2. CASE deafFor > 0
      BY <2>2 DEF KInv, DeafInv
    <2>3. CASE deafFor = 0
      BY <2>3, Spares
    <2>. QED  BY <2>1, <2>2, <2>3
  <1>. QED  BY InitDeaf, NextDeaf, <1>1, PTL DEF Spec
=============================================================================
