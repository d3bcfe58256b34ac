------------------------------- MODULE Millis -------------------------------
(***************************************************************************)
(* The clock arithmetic of the firmware.  millis() is an unsigned 32-bit   *)
(* counter; every instant the firmware stores is a value of it, and every  *)
(* comparison is made on a difference.  The width is the constant Wheel    *)
(* (2^32 in the firmware, a small even number under TLC), so the whole     *)
(* wheel, roll-over included, is reachable.                                *)
(***************************************************************************)
EXTENDS Integers

CONSTANT Wheel      \* number of distinct values of millis()

ASSUME WheelAssumption == /\ Wheel \in Nat
                          /\ Wheel > 1
                          /\ Wheel % 2 = 0

Instants == 0 .. Wheel - 1

(* now_ms + delay, computed in uint32_t.                                   *)
Later(instant, delay) == (instant + delay) % Wheel

(* later - earlier, computed in uint32_t: the forward distance.            *)
Since(later, earlier) == (later - earlier) % Wheel

(* static_cast<int32_t>(now - deadline) >= 0: the serial comparison that   *)
(* calls a deadline passed for half the wheel and pending for the other.   *)
Due(instant, deadline) == Since(instant, deadline) < Wheel \div 2
=============================================================================
