------------------------------- MODULE B0Frame -------------------------------
(***************************************************************************)
(* Outbound bucket frames: admission by normalize_b0_with_airtime          *)
(* (rf433_scheduler.h), and what the transmitter of rf_bridge_protocol.h   *)
(* and rf_bridge.cpp makes of any frame it is given.                       *)
(*                                                                         *)
(* A frame is a sequence of characters: a nibble 0 .. 15 written as a      *)
(* digit or in capitals, a nibble plus 16 written as a small letter, a     *)
(* Blank, or Junk, which is anything else.  Positions count from 1: AAB0,  *)
(* length of the body (5, 6), number of buckets (7, 8), repeat (9, 10),    *)
(* four characters per bucket, data nibbles whose low three bits name a    *)
(* bucket, and 55.                                                         *)
(***************************************************************************)
EXTENDS Integers, Sequences, FiniteSets, Functions

CONSTANTS
    MinBucket,      \* B0_MIN_BUCKET_US
    MaxInputChars,  \* MAX_B0_INPUT_CHARS
    MaxFrameBytes,  \* MAX_B0_FRAME_BYTES
    MaxAirtime      \* MAX_FRAME_AIRTIME_US

ASSUME B0Assumption ==
    /\ MinBucket \in Nat \ {0} /\ MinBucket < 65536
    /\ {MaxInputChars, MaxFrameBytes, MaxAirtime} \subseteq Nat

Blank == 32
Junk == 33
Small == 26 .. 31
Chars == 0 .. 15 \cup Small \cup {Blank, Junk}

(* hex_nibble, and serialized_nibble: "the nibble a character actually     *)
(* becomes ON THE WIRE".                                                   *)
IsHex(c) == c \in 0 .. 15 \cup Small
HexNibble(c) == c % 16
SerializedNibble(c) == IF IsHex(c) THEN HexNibble(c) ELSE 0

(* write_byte_str_: the nibbles the coprocessor receives, an odd last one  *)
(* left out.                                                               *)
OnWire(frame) ==
    [i \in 1 .. 2 * (Len(frame) \div 2) |-> SerializedNibble(frame[i])]

TableStart == 10
ByteAt(frame, i) == 16 * HexNibble(frame[i]) + HexNibble(frame[i + 1])
BodyLength(frame) == ByteAt(frame, 5)
BucketCount(frame) == ByteAt(frame, 7)
EmbeddedRepeat(frame) == ByteAt(frame, 9)
BodyEnd(frame) == 6 + 2 * BodyLength(frame)
DataChars(frame) == TableStart + 4 * BucketCount(frame) + 1 .. BodyEnd(frame)

(* b0_bucket; buckets are numbered from 0.                                 *)
Bucket(frame, b) ==
    LET i == TableStart + 4 * b + 1 IN 256 * ByteAt(frame, i) + ByteAt(frame, i + 2)

(* The bucket a data nibble names, defined or not.                         *)
Named(frame, i) == HexNibble(frame[i]) % 8
Referenced(frame) == {Named(frame, i) : i \in DataChars(frame)} \cap 0 .. BucketCount(frame) - 1

-----------------------------------------------------------------------------
(* Transmission.                                                           *)

(* Faulty variant: characters are judged.                                  *)
HasMagicWritten(frame) == Len(frame) >= 4 /\ SubSeq(frame, 1, 4) = <<10, 10, 11, 0>>

HasMagic(frame) ==
    /\ Len(frame) >= 4
    /\ [i \in 1 .. 4 |-> SerializedNibble(frame[i])] = <<10, 10, 11, 0>>

(* b0_frame_status.                                                        *)
B0FrameStatus(frame) ==
    IF ~ HasMagic(frame) THEN "PASSTHROUGH"
    ELSE IF \/ Len(frame) < TableStart \/ Len(frame) % 2 # 0
            \/ \E i \in DOMAIN frame : ~ IsHex(frame[i])
         THEN "MALFORMED"
    ELSE IF \/ Len(frame) # 8 + 2 * BodyLength(frame)
            \/ TableStart + 4 * BucketCount(frame) > BodyEnd(frame)
         THEN "PASSTHROUGH"
    ELSE "COMPENSABLE"

(* b0_set_bucket: the digits of a duration, and the frame with those of    *)
(* every bucket of durations, a function from buckets to microseconds.     *)
Nibbles(duration) ==
    <<(duration \div 4096) % 16, (duration \div 256) % 16, (duration \div 16) % 16, duration % 16>>

WithBuckets(frame, durations) ==
    [i \in DOMAIN frame |->
        LET b == (i - TableStart - 1) \div 4
            digit == (i - TableStart - 1) % 4
        IN  IF i > TableStart /\ b \in DOMAIN durations
            THEN Nibbles(durations[b])[digit + 1]
            ELSE frame[i]]

(* Faulty variant: the floor itself is moved by the offset.                *)
CompensatedRaised(duration, offset) ==
    IF duration >= offset + MinBucket THEN duration - offset ELSE MinBucket + offset

Compensated(duration, offset) ==
    IF duration >= offset + MinBucket THEN duration - offset ELSE MinBucket

(* b0_with_bucket_offset: the whole table.                                 *)
WithBucketOffset(frame, offset) ==
    WithBuckets(frame,
        [b \in 0 .. BucketCount(frame) - 1 |-> Compensated(Bucket(frame, b), offset)])

(* b0_floor_referenced_buckets: what data nibbles name, and no more.       *)
BelowFloor(frame) == {b \in Referenced(frame) : Bucket(frame, b) < MinBucket}
WithFlooredBuckets(frame) ==
    WithBuckets(frame, [b \in BelowFloor(frame) |-> MinBucket])

(* Where the characters of a frame are that are not blanks.                *)
Solid(input) == {i \in DOMAIN input : input[i] # Blank}

(* The frame of a caller without the blanks around it.                     *)
Trimmed(frame) ==
    IF Solid(frame) = {} THEN << >>
    ELSE SubSeq(frame, CHOOSE i \in Solid(frame) : \A j \in Solid(frame) : i <= j,
                       CHOOSE i \in Solid(frame) : \A j \in Solid(frame) : i >= j)

(* send_raw of a trimmed frame: what it serializes, or nothing.            *)
Outgoing(frame, offset) ==
    CASE B0FrameStatus(frame) = "MALFORMED" -> << >>
      [] B0FrameStatus(frame) = "PASSTHROUGH" -> frame
      [] B0FrameStatus(frame) = "COMPENSABLE" ->
            IF offset = 0 THEN WithFlooredBuckets(frame) ELSE WithBucketOffset(frame, offset)

-----------------------------------------------------------------------------
(* Admission.                                                              *)

(* The k-th character that is not a blank.                                 *)
SolidAt(input, k) ==
    input[CHOOSE i \in Solid(input) : Cardinality({j \in Solid(input) : j <= i}) = k]

(* Blanks go, small letters become capitals.                               *)
Normalized(input) ==
    [k \in 1 .. Cardinality(Solid(input)) |->
        LET c == SolidAt(input, k) IN IF IsHex(c) THEN HexNibble(c) ELSE c]

AirtimeOf(frame) ==
    EmbeddedRepeat(frame) *
        SumFunction([i \in DataChars(frame) |-> Bucket(frame, Named(frame, i))])

(* The checks on a normalized frame, in the order of the code: a later one *)
(* is only made once the earlier ones have passed.                         *)
WellFormed(frame) ==
    /\ \A i \in DOMAIN frame : IsHex(frame[i])
    /\ Len(frame) % 2 = 0
    /\ Len(frame) \div 2 <= MaxFrameBytes
    /\ Len(frame) >= TableStart
    /\ SubSeq(frame, 1, 4) = <<10, 10, 11, 0>>
    /\ SubSeq(frame, Len(frame) - 1, Len(frame)) = <<5, 5>>
    /\ BodyLength(frame) >= 2
    /\ Len(frame) = 8 + 2 * BodyLength(frame)
    /\ BucketCount(frame) \in 1 .. 8
    /\ EmbeddedRepeat(frame) \in 1 .. 16
    /\ DataChars(frame) # {}
    /\ \A i \in DataChars(frame) :
          /\ Named(frame, i) < BucketCount(frame)
          /\ Bucket(frame, Named(frame, i)) >= MinBucket
    /\ AirtimeOf(frame) <= MaxAirtime

Admissible(input) == Len(input) <= MaxInputChars /\ WellFormed(Normalized(input))

-----------------------------------------------------------------------------
(* The air the scheduler reserves.                                         *)
B0Shaped(frame) ==
    /\ Len(frame) >= TableStart
    /\ \A i \in 1 .. 3 : IsHex(frame[i])
    /\ [i \in 1 .. 3 |-> HexNibble(frame[i])] = <<10, 10, 11>>
    /\ frame[4] = 0

(* frame_airtime_ms_: milliseconds, rounded up; the ceiling for a frame    *)
(* that admission would refuse.                                            *)
FrameAirtimeMs(frame) ==
    LET airtime == IF Admissible(frame) THEN AirtimeOf(Normalized(frame)) ELSE MaxAirtime
    IN  IF B0Shaped(frame) THEN (airtime + 999) \div 1000 ELSE 0
=============================================================================
