------------------------------- MODULE B1Frame -------------------------------
(***************************************************************************)
(* Received bucket captures (rf_bridge_protocol.h): start, action and      *)
(* number of buckets, two bytes per bucket, pulses of one nibble each (the *)
(* level, and the bucket of the duration), stop.  A capture has no length  *)
(* byte and its stop byte may also be a pulse byte; what ends one is told  *)
(* by the shape of an A-OK transmission: a pair of sync pulses, a fixed    *)
(* number of bits of a low and a high pulse each, a trailer of one or two  *)
(* bits, and up to two pulses of padding at either end.  The number of     *)
(* bits is a parameter; the limits on the size follow it.                  *)
(***************************************************************************)
EXTENDS Integers, Sequences

CONSTANT PayloadBits    \* AOK_PAYLOAD_BITS

ASSUME B1Assumption == PayloadBits \in Nat \ {0}

Start == 170            \* RF_CODE_START
Stop == 85              \* RF_CODE_STOP
BucketAction == 177     \* RF_CODE_RFIN_BUCKET

MinBuckets == 3
MaxBuckets == 8
MinPulseBytes == PayloadBits + 2
MaxPulseBytes == PayloadBits + 5
SyncMin == 1000
BitMax == 1000
ShortMax == 450
Padding == 2
MaxDuration == 32767

(* Size of what comes before the pulses.                                   *)
HeaderSize(raw) == 3 + 2 * raw[3]

(* The duration of a bucket, numbered from 0.                              *)
BucketOf(raw, b) == 256 * raw[4 + 2 * b] + raw[5 + 2 * b]

PulseBytes(raw) == Len(raw) - HeaderSize(raw) - 1
PulseCount(raw) == 2 * PulseBytes(raw)

(* Pulses are numbered from 1.                                             *)
Pulse(raw, i) ==
    LET packed == raw[HeaderSize(raw) + (i + 1) \div 2] IN
    IF i % 2 = 1 THEN packed \div 16 ELSE packed % 16
High(raw, i) == Pulse(raw, i) >= 8
Defined(raw, i) == Pulse(raw, i) % 8 < raw[3]
Duration(raw, i) == BucketOf(raw, Pulse(raw, i) % 8)
Long(raw, i) == Duration(raw, i) >= SyncMin

(* A pair of sync pulses starts at pulse s, and the first such pair.       *)
SyncPair(raw, s) ==
    /\ ~ High(raw, s) /\ High(raw, s + 1)
    /\ Long(raw, s) /\ Long(raw, s + 1)
FirstSync(raw, s) ==
    SyncPair(raw, s) /\ \A r \in 1 .. s - 1 : ~ SyncPair(raw, r)

(* After the sync pair at s come the payload and a trailer of so many      *)
(* bits, then padding only.  The low pulse of a bit is short iff the bit   *)
(* before it was 0; its high pulse is short iff it is 1.  The trailer      *)
(* reads 1, 0, or 0 alone.                                                 *)
Encodes(raw, s, trailer) ==
    LET bits == PayloadBits + trailer
        end == s + 1 + 2 * bits
        low(k) == s + 2 * k
        high(k) == s + 2 * k + 1
        bit(k) == IF k = 0 \/ Duration(raw, high(k)) < ShortMax THEN 1 ELSE 0
    IN  /\ PulseCount(raw) - end \in 0 .. Padding
        /\ \A i \in end + 1 .. PulseCount(raw) : Long(raw, i)
        /\ \A k \in 1 .. bits :
              /\ ~ High(raw, low(k)) /\ High(raw, high(k))
              /\ Duration(raw, low(k)) < BitMax /\ Duration(raw, high(k)) < BitMax
              /\ Duration(raw, low(k)) < ShortMax <=> bit(k - 1) = 0
        /\ bit(PayloadBits + 1) = trailer - 1
        /\ trailer = 2 => bit(PayloadBits + 2) = 0

(* A capture whose declared buckets stand and end with a sync duration.    *)
TableStands(raw) ==
    /\ \A b \in 0 .. raw[3] - 1 : BucketOf(raw, b) <= MaxDuration
    /\ BucketOf(raw, raw[3] - 1) >= SyncMin

(* is_aok_bucket_frame, of a buffer that starts as a capture.              *)
IsAokBucketFrame(raw) ==
    /\ raw[Len(raw)] = Stop
    /\ raw[3] \in MinBuckets .. MaxBuckets
    /\ Len(raw) > HeaderSize(raw)
    /\ PulseBytes(raw) \in MinPulseBytes .. MaxPulseBytes
    /\ TableStands(raw)
    /\ \A i \in 1 .. PulseCount(raw) : Defined(raw, i)
    /\ \E s \in 1 .. 1 + Padding :
          /\ FirstSync(raw, s)
          /\ \A i \in 1 .. s - 1 : Long(raw, i)
          /\ \E trailer \in {1, 2} : Encodes(raw, s, trailer)

(* b1_frame_status of a buffer that starts with the start byte and the     *)
(* action of a capture and has more.                                       *)
B1FrameStatus(raw) ==
    IF raw[3] \notin MinBuckets .. MaxBuckets THEN "INVALID"
    ELSE IF Len(raw) < HeaderSize(raw) THEN "INCOMPLETE"
    ELSE IF ~ TableStands(raw) \/ PulseBytes(raw) > MaxPulseBytes THEN "INVALID"
    ELSE IF PulseBytes(raw) < MinPulseBytes THEN "INCOMPLETE"
    ELSE IF PulseBytes(raw) = MaxPulseBytes
         THEN IF IsAokBucketFrame(raw) THEN "COMPLETE" ELSE "INVALID"
    ELSE IF IsAokBucketFrame(raw) THEN "CANDIDATE" ELSE "INCOMPLETE"
=============================================================================
