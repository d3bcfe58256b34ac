------------------------------ MODULE MCRfBridge ------------------------------
(***************************************************************************)
(* Bytes and frames for the checks of RfBridge.  A transmission has one    *)
(* bit of payload.                                                         *)
(***************************************************************************)
EXTENDS RfBridge

(* Buckets of 426 us (01AA, which holds a start byte), 600 us and 5000 us. *)
Table3 == <<1, 170, 2, 88, 19, 136>>
Table6 == <<1, 170, 2, 88, 1, 170, 2, 88, 2, 88, 19, 136>>
Capture(count, table, pulses) == <<Start, BucketAction, count>> \o table \o pulses \o <<Stop>>

(* Pulse bytes: a sync pair, bits by the length of their two pulses, and   *)
(* padding.                                                                *)
Sync3 == 42         \* 2 A
LongLong == 25      \* 1 9: a 0 after a 1
ShortShort == 8     \* 0 8: a 1 after a 0
ShortLong == 9      \* 0 9: a 0 after a 0
Pad3 == 34          \* 2 2
Sync6 == 93         \* 5 D
Pad6 == Stop        \* 5 5: two pulses of padding that read as the stop byte

(* Payload 0, and a trailer of a single 0.                                 *)
ShortCapture == Capture(3, Table3, <<Sync3, LongLong, ShortLong>>)

(* The same in six buckets, with padding that looks like the stop byte.    *)
PaddedCapture == Capture(6, Table6, <<Sync6, LongLong, ShortLong, Pad6>>)

(* Padding at both ends, payload 0 and a full trailer: the longest size.   *)
LongestCapture ==
    Capture(3, Table3, <<Pad3, Sync3, LongLong, ShortShort, LongLong, Pad3>>)

AckReply == <<Start, Ack, Stop>>
CodeReply == <<Start, RfIn, Stop, 1, Stop>>

SomeReplies == {ShortCapture, PaddedCapture, LongestCapture, AckReply, CodeReply}

(* A capture of something else, one whose last bytes never come, two that  *)
(* break off in their bucket table, the second short of its last byte      *)
(* only, and the head of a long reply.                                     *)
SomeFragments ==
    {Capture(3, Table3, <<Sync3, LongLong>>),
     SubSeq(LongestCapture, 1, 13),
     <<Start, BucketAction, 3, 1>>,
     SubSeq(ShortCapture, 1, 8),
     <<Start, AdvancedRfIn, 25>>}

(* Outbound frames: one or two buckets, in digits and capitals unless      *)
(* written otherwise.                                                      *)
Hex2(b) == <<b \div 16, b % 16>>
Hex4(d) == Hex2(d \div 256) \o Hex2(d % 256)
FrameOf(length, count, table, data) ==
    <<10, 10, 11, 0>> \o Hex2(length) \o Hex2(count) \o Hex2(2) \o table \o data \o <<5, 5>>
OneBucket(us, data) == FrameOf(5, 1, Hex4(us), data)
TwoBuckets(us, other, data) == FrameOf(7, 2, Hex4(us) \o Hex4(other), data)

SomeFrames ==
    {OneBucket(280, <<0, 8>>),
     OneBucket(120, <<0, 8>>),
     OneBucket(100, <<0, 8>>),
     OneBucket(99, <<0, 8>>),
     OneBucket(0, <<0, 8>>),
     OneBucket(0, <<1, 9>>),
     TwoBuckets(0, 280, <<1, 9>>),
     TwoBuckets(172, 173, <<0, 9>>),
     FrameOf(6, 1, Hex4(125), <<0, 8, 0, 8>>),
     FrameOf(6, 1, Hex4(0), <<0, 8>>),
     FrameOf(5, 2, Hex4(280), <<0, 8>>),
     FrameOf(5, 1, <<Junk, Junk, Junk, Junk>>, <<0, 8>>),
     <<26, 26, 11, Junk>> \o SubSeq(OneBucket(280, <<0, 8>>), 5, 18),
     <<10, 10, 11, Junk>> \o
        SubSeq(FrameOf(5, 1, <<Junk, Junk, Junk, Junk>>, <<0, 8>>), 5, 18),
     <<Blank>> \o OneBucket(280, <<0, 8>>) \o <<Blank>>,
     SubSeq(OneBucket(280, <<0, 8>>), 1, 17),
     <<10, 10, 11, 0, Junk>>,
     <<10, 10, 10, 7, 5, 5>>}

(* A code of more than 24 bits, and one that is a bucket frame.            *)
SomeCodes == {[sync |-> 9000, low |-> 300, high |-> 65535, code |-> 16777217]}
SomeAdvancedCodes ==
    {[length |-> 8, protocol |-> 176, code |-> OneBucket(0, <<0, 8>>)],
     [length |-> 1, protocol |-> 127, code |-> <<Junk, 1, 2>>]}
=============================================================================
