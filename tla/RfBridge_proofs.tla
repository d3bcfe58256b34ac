--------------------------- MODULE RfBridge_proofs ---------------------------
(***************************************************************************)
(* Proofs about RfBridge and B0Frame, for every set of replies, fragments, *)
(* frames and offsets, every size of the buffer and every set of limits.   *)
(***************************************************************************)
EXTENDS RfBridge, Counting_proofs

(* What is on the line, and what the coprocessor still has to send.        *)
LineType == line \in Seq(0 .. 255)
Sends(s) ==
    /\ s.bytes \in Replies \cup Fragments
    /\ s.out \in Nat /\ s.out < Len(s.bytes)
SendingType ==
    /\ sending = [bytes |-> sending.bytes, out |-> sending.out, spoiled |-> sending.spoiled]
    /\ sending = Silence \/ Sends(sending)
    /\ sending = Silence => sending.out = 0

IInv == TypeOK /\ LineType /\ SendingType

(* The parts of TypeOK.                                                    *)
BufferType(buffer) == buffer \in Seq(0 .. 255) /\ Len(buffer) <= MaxRxBuffer + 1
Buffered == BufferType(rxBuffer)
Flags ==
    /\ candidate \in BOOLEAN /\ fed \in BOOLEAN
    /\ reading \in BOOLEAN /\ clean \in BOOLEAN
Counts == quiet \in 0 .. CaptureTimeout + 1 /\ sent \in 0 .. MaxSent
Captured == candidate => IsCapture(rxBuffer) /\ IsAokBucketFrame(rxBuffer)

LEMMA TypeSplit == TypeOK <=> Buffered /\ Flags /\ Counts /\ Captured
<1>1. {candidate, fed, reading, clean} \subseteq BOOLEAN <=> Flags
  BY Zenon DEF Flags
<1>. QED  BY <1>1 DEF TypeOK, Buffered, BufferType, Counts, Captured

LEMMA TypeSplitThen == TypeOK' <=> Buffered' /\ Flags' /\ Counts' /\ Captured'
BY TypeSplit, PTL

LEMMA EmptyBuffer == BufferType(<< >>)
<1>1. << >> \in Seq(0 .. 255) /\ Len(<< >>) = 0  OBVIOUS
<1>2. MaxRxBuffer \in Nat  BY BridgeAssumption
<1>. QED  BY <1>1, <1>2 DEF BufferType

LEMMA InitIInv == Init => IInv
<1>. SUFFICES ASSUME Init PROVE IInv  OBVIOUS
<1>1. TypeOK
  <2>1. Buffered  BY EmptyBuffer DEF Init, Buffered
  <2>2. Flags /\ Captured  BY DEF Init, Flags, Captured
  <2>3. Counts  BY BridgeAssumption DEF Init, Counts
  <2>. QED  BY <2>1, <2>2, <2>3, TypeSplit
<1>2. LineType  BY DEF Init, LineType
<1>3. SendingType  BY DEF Init, SendingType, Silence
<1>. QED  BY <1>1, <1>2, <1>3 DEF IInv

LEMMA NthInSeq ==
    ASSUME NEW S, NEW s \in Seq(S), NEW k \in Nat, k < Len(s)
    PROVE  s[k + 1] \in S
<1>1. k + 1 \in 1 .. Len(s)  OBVIOUS
<1>. QED  BY <1>1

LEMMA HeadTail ==
    ASSUME NEW S, NEW s \in Seq(S), s # << >>
    PROVE  Head(s) \in S /\ Tail(s) \in Seq(S)
<1>1. Len(s) \in Nat /\ Len(s) > 0  OBVIOUS
<1>2. Head(s) = s[1]  OBVIOUS
<1>. QED  BY <1>1, <1>2

(* A status is one of four, and a candidate is a capture that is complete. *)
LEMMA StatusShape ==
    ASSUME NEW buffer \in Seq(0 .. 255), Len(buffer) > 0, Status(buffer) = "CANDIDATE"
    PROVE  IsCapture(buffer) /\ IsAokBucketFrame(buffer)
<1>1. Len(buffer) \in Nat  OBVIOUS
<1>2. Len(buffer) > 2 /\ IsCapture(buffer) /\ B1FrameStatus(buffer) = "CANDIDATE"
  <2>1. CASE Len(buffer) = 1  BY <2>1 DEF Status
  <2>2. CASE Len(buffer) = 2  BY <2>2 DEF Status
  <2>3. CASE Len(buffer) > 2
    <3>1. Status(buffer) = (IF IsCapture(buffer) THEN B1FrameStatus(buffer) ELSE ReplyStatus(buffer))
      BY <2>3 DEF Status
    <3>2. ReplyStatus(buffer) # "CANDIDATE"  BY DEF ReplyStatus
    <3>. QED  BY <2>3, <3>1, <3>2
  <2>4. Len(buffer) = 1 \/ Len(buffer) = 2 \/ Len(buffer) > 2
    <3>1. PICK n : n = Len(buffer)  OBVIOUS
    <3>2. n \in Nat /\ n > 0  BY <1>1, <3>1
    <3>3. n = 1 \/ n = 2 \/ n > 2  BY <3>2
    <3>. QED  BY <3>1, <3>3
  <2>. QED  BY Zenon, <2>1, <2>2, <2>3, <2>4
<1>3. IsAokBucketFrame(buffer)  BY <1>2 DEF B1FrameStatus
<1>. QED  BY <1>2, <1>3

LEMMA ParseType ==
    ASSUME TypeOK, NEW byte \in 0 .. 255, Parse(byte)
    PROVE  Buffered' /\ candidate' \in BOOLEAN /\ Captured'
           /\ quiet' \in 0 .. CaptureTimeout + 1
<1>1. PICK kept : kept = (IF Splits(byte) \/ Overrun THEN << >> ELSE rxBuffer)  OBVIOUS
<1>2. PICK buffer : buffer = Append(kept, byte)  OBVIOUS
<1>3. rxBuffer \in Seq(0 .. 255) /\ MaxRxBuffer \in Nat /\ CaptureTimeout \in Nat
  BY BridgeAssumption DEF TypeOK
<1>4. kept \in Seq(0 .. 255) /\ Len(kept) \in Nat /\ Len(kept) <= MaxRxBuffer
  BY <1>1, <1>3 DEF Overrun
<1>5. buffer \in Seq(0 .. 255) /\ Len(buffer) = Len(kept) + 1  BY <1>2, <1>4
<1>6. BufferType(buffer)  BY <1>3, <1>4, <1>5 DEF BufferType
<1>7. candidate' = (Status(buffer) = "CANDIDATE")  BY <1>1, <1>2 DEF Parse
<1>8. \/ /\ Status(buffer) \in {"INCOMPLETE", "CANDIDATE"}
         /\ rxBuffer' = buffer /\ quiet' = 0
      \/ /\ Status(buffer) \in {"COMPLETE", "INVALID"}
         /\ rxBuffer' = << >> /\ quiet' = quiet
  BY <1>1, <1>2 DEF Parse
<1>9. Buffered'  BY <1>6, <1>8, EmptyBuffer DEF Buffered
<1>10. quiet' \in 0 .. CaptureTimeout + 1  BY <1>3, <1>8 DEF TypeOK
<1>11. candidate' \in BOOLEAN  BY <1>7
<1>12. ASSUME candidate' PROVE IsCapture(rxBuffer') /\ IsAokBucketFrame(rxBuffer')
  <2>1. Status(buffer) = "CANDIDATE"  BY <1>7, <1>12
  <2>2. rxBuffer' = buffer  BY <1>8, <2>1
  <2>3. Len(buffer) > 0  BY <1>4, <1>5
  <2>4. IsCapture(buffer) /\ IsAokBucketFrame(buffer)  BY <1>5, <2>1, <2>3, StatusShape
  <2>. QED  BY <2>2, <2>4
<1>13. Captured'  BY <1>12 DEF Captured
<1>. QED  BY <1>9, <1>10, <1>11, <1>13

LEMMA NextIInv == IInv /\ [Next]_vars => IInv'
<1>. SUFFICES ASSUME IInv, [Next]_vars PROVE IInv'  OBVIOUS
<1>. USE DEF IInv
<1>0. /\ MaxRxBuffer \in Nat /\ MaxSent \in Nat /\ CaptureTimeout \in Nat
      /\ Replies \cup Fragments \subseteq Seq(0 .. 255) /\ << >> \notin Replies \cup Fragments
  BY BridgeAssumption
<1>a. Buffered /\ Flags /\ Counts /\ Captured  BY TypeSplit
<1>1. CASE TimesOut
  <2>1. Buffered'  BY <1>1, EmptyBuffer DEF Buffered, TimesOut
  <2>2. Flags'  BY <1>a, <1>1 DEF Flags, TimesOut
  <2>3. Counts'  BY <1>0, <1>a, <1>1 DEF Counts, TimesOut
  <2>4. Captured'  BY <1>1 DEF Captured, TimesOut
  <2>5. LineType' /\ SendingType'  BY <1>1 DEF LineType, SendingType, TimesOut
  <2>. QED  BY <2>1, <2>2, <2>3, <2>4, <2>5, TypeSplitThen
<1>2. CASE ReadsByte
  <2>1. Parse(Head(line)) /\ line # << >> /\ line \in Seq(0 .. 255)
    BY <1>2 DEF ReadsByte, LineType
  <2>2. Head(line) \in 0 .. 255  BY <2>1, HeadTail
  <2>3. Tail(line) \in Seq(0 .. 255)  BY <2>1, HeadTail
  <2>4. /\ Buffered' /\ candidate' \in BOOLEAN /\ Captured'
        /\ quiet' \in 0 .. CaptureTimeout + 1
    BY <2>1, <2>2, ParseType
  <2>5. Flags'  BY <1>a, <1>2, <2>4 DEF Flags, ReadsByte
  <2>6. Counts'  BY <1>a, <1>2, <2>4 DEF Counts, ReadsByte
  <2>7. LineType'  BY <1>2, <2>3 DEF LineType, ReadsByte
  <2>8. SendingType'  BY <1>2 DEF SendingType, ReadsByte
  <2>. QED  BY <2>4, <2>5, <2>6, <2>7, <2>8, TypeSplitThen
<1>3. CASE StopSniffing
  <2>1. Buffered'  BY <1>3, EmptyBuffer DEF Buffered, StopSniffing
  <2>2. Flags'
    <3>1. (clean /\ sending.out = 0) \in BOOLEAN  OBVIOUS
    <3>. QED  BY <1>a, <1>3, <3>1 DEF Flags, StopSniffing
  <2>3. Counts'  BY <1>0, <1>a, <1>3 DEF Counts, StopSniffing
  <2>4. Captured'  BY <1>3 DEF Captured, StopSniffing
  <2>5. LineType'  BY <1>3 DEF LineType, StopSniffing, Discarded
  <2>6. SendingType'
    <3>1. CASE sending.out > 0
      <4>1. sending # Silence  BY <3>1 DEF Silence
      <4>2. Sends(sending) /\ sending' = [sending EXCEPT !.spoiled = TRUE]
        BY <1>3, <3>1, <4>1 DEF SendingType, StopSniffing
      <4>. QED  BY <3>1, <4>2 DEF SendingType, Sends, Silence
    <3>2. CASE ~ (sending.out > 0)  BY <1>3, <3>2 DEF SendingType, StopSniffing
    <3>. QED  BY <3>1, <3>2
  <2>. QED  BY <2>1, <2>2, <2>3, <2>4, <2>5, <2>6, TypeSplitThen
<1>4. CASE SendRaw \/ SendCommand
  <2>1. UNCHANGED <<rxVars, lineVars, reading>>  BY <1>4 DEF SendRaw, SendCommand
  <2>2. Buffered' /\ Flags' /\ Counts' /\ Captured'
    BY <1>a, <2>1 DEF Buffered, Flags, Counts, Captured, rxVars, lineVars
  <2>3. LineType' /\ SendingType'  BY <2>1 DEF LineType, SendingType, lineVars
  <2>. QED  BY <2>2, <2>3, TypeSplitThen
<1>5. CASE BeginsToSend
  <2>1. Buffered' /\ Captured'  BY <1>a, <1>5 DEF Buffered, Captured, BeginsToSend, rxVars
  <2>2. Flags'
    <3>1. \A f : (clean /\ f \in Replies) \in BOOLEAN  OBVIOUS
    <3>. QED  BY <1>a, <1>5, <3>1 DEF Flags, BeginsToSend, rxVars
  <2>3. Counts'  BY <1>0, <1>a, <1>5 DEF Counts, BeginsToSend, rxVars
  <2>4. LineType'  BY <1>5 DEF LineType, BeginsToSend
  <2>5. SendingType'
    <3>1. PICK f \in Replies \cup Fragments : sending' = [bytes |-> f, out |-> 0, spoiled |-> FALSE]
      BY <1>5 DEF BeginsToSend
    <3>2. f \in Seq(0 .. 255) /\ f # << >>  BY <1>0
    <3>3. Len(f) \in Nat /\ Len(f) > 0  BY <3>2
    <3>4. /\ sending'.bytes = f /\ sending'.out = 0 /\ sending'.spoiled = FALSE
          /\ sending' = [bytes |-> sending'.bytes, out |-> sending'.out, spoiled |-> sending'.spoiled]
      BY <3>1
    <3>5. Sends(sending)'  BY <3>3, <3>4 DEF Sends
    <3>. QED  BY <3>4, <3>5 DEF SendingType
  <2>. QED  BY <2>1, <2>2, <2>3, <2>4, <2>5, TypeSplitThen
<1>6. CASE SendsByte
  <2>1. Buffered' /\ Captured' /\ Counts'
    BY <1>a, <1>6 DEF Buffered, Captured, Counts, SendsByte, rxVars
  <2>2. Flags'  BY <1>a, <1>6 DEF Flags, SendsByte, rxVars
  <2>3. Sends(sending)  BY <1>6 DEF SendsByte, SendingType
  <2>4. sending.bytes \in Seq(0 .. 255)  BY <1>0, <2>3 DEF Sends
  <2>5. sending.bytes[sending.out + 1] \in 0 .. 255
    <3>1. PICK f, k : f = sending.bytes /\ k = sending.out  OBVIOUS
    <3>2. f \in Seq(0 .. 255) /\ k \in Nat /\ k < Len(f)  BY <2>3, <2>4, <3>1 DEF Sends
    <3>3. f[k + 1] \in 0 .. 255  BY <3>2, NthInSeq
    <3>. QED  BY <3>1, <3>3
  <2>6. LineType'  BY <1>6, <2>5 DEF LineType, SendsByte
  <2>7. SendingType'
    <3>1. CASE sending' = Silence  BY <3>1 DEF SendingType, Silence
    <3>2. CASE /\ sending.out + 1 < Len(sending.bytes)
               /\ sending' = [sending EXCEPT !.out = @ + 1]
      BY <2>3, <3>2 DEF SendingType, Sends, Silence
    <3>. QED  BY <1>6, <3>1, <3>2 DEF SendsByte
  <2>. QED  BY <2>1, <2>2, <2>6, <2>7, TypeSplitThen
<1>7. CASE Elapse
  <2>1. Buffered' /\ Captured'  BY <1>a, <1>7 DEF Buffered, Captured, Elapse
  <2>2. Flags'  BY <1>a, <1>7 DEF Flags, Elapse
  <2>3. Counts'  BY <1>0, <1>a, <1>7 DEF Counts, Elapse
  <2>4. LineType' /\ SendingType'  BY <1>7 DEF LineType, SendingType, Elapse
  <2>. QED  BY <2>1, <2>2, <2>3, <2>4, TypeSplitThen
<1>8. CASE UNCHANGED vars
  BY <1>8 DEF vars, TypeOK, LineType, SendingType
<1>. QED  BY <1>1, <1>2, <1>3, <1>4, <1>5, <1>6, <1>7, <1>8 DEF Next, Loop

(* The buffer stays within its size, and a candidate is a complete A-OK    *)
(* capture, whatever bytes arrive (parse_bridge_byte_).                    *)
THEOREM TypeCorrect == Spec => []TypeOK
<1>1. IInv => TypeOK  BY DEF IInv
<1>. QED  BY <1>1, InitIInv, NextIInv, PTL DEF Spec
-----------------------------------------------------------------------------
(* Characters and their nibbles.                                           *)

LEMMA HexDigit ==
    /\ \A c : IsHex(c) => HexNibble(c) \in 0 .. 15 /\ SerializedNibble(c) = HexNibble(c)
    /\ \A c \in 0 .. 15 : IsHex(c) /\ HexNibble(c) = c
BY DEF IsHex, HexNibble, SerializedNibble, Small

LEMMA WireDigit == \A c : SerializedNibble(c) \in 0 .. 15
<1>. SUFFICES ASSUME NEW c PROVE SerializedNibble(c) \in 0 .. 15  OBVIOUS
<1>1. CASE IsHex(c)  BY <1>1, HexDigit
<1>2. CASE ~ IsHex(c)  BY <1>2 DEF SerializedNibble
<1>. QED  BY <1>1, <1>2

(* The digits of a duration read back as the duration.                     *)
LEMMA DigitsRead ==
    ASSUME NEW d \in Nat, d < 65536
    PROVE  /\ \A k \in 1 .. 4 : Nibbles(d)[k] \in 0 .. 15
           /\ 256 * (16 * Nibbles(d)[1] + Nibbles(d)[2]) + (16 * Nibbles(d)[3] + Nibbles(d)[4]) = d
<1>1. PICK n1, n2, n3, n4 :
          /\ n1 = (d \div 4096) % 16 /\ n2 = (d \div 256) % 16
          /\ n3 = (d \div 16) % 16 /\ n4 = d % 16
  OBVIOUS
<1>2. n1 \in 0 .. 15 /\ n2 \in 0 .. 15 /\ n3 \in 0 .. 15 /\ n4 \in 0 .. 15
  BY <1>1, SMT
<1>3. 256 * (16 * n1 + n2) + (16 * n3 + n4) = d  BY <1>1, SMT
<1>4. /\ Nibbles(d)[1] = n1 /\ Nibbles(d)[2] = n2
      /\ Nibbles(d)[3] = n3 /\ Nibbles(d)[4] = n4
  BY <1>1, SMT DEF Nibbles
<1>5. \A k \in 1 .. 4 : k = 1 \/ k = 2 \/ k = 3 \/ k = 4  BY SMT
<1>6. \A k \in 1 .. 4 : Nibbles(d)[k] \in 0 .. 15  BY <1>2, <1>4, <1>5, SMT
<1>7. 256 * (16 * Nibbles(d)[1] + Nibbles(d)[2]) + (16 * Nibbles(d)[3] + Nibbles(d)[4]) = d
  BY <1>3, <1>4, SMT
<1>. QED  BY <1>6, <1>7

-----------------------------------------------------------------------------
(* A frame that is long enough, even and all hex, and so is read as bytes. *)
Framed(f) ==
    /\ DOMAIN f = 1 .. Len(f) /\ Len(f) \in Nat
    /\ Len(f) >= TableStart /\ Len(f) % 2 = 0
    /\ \A i \in 1 .. Len(f) : IsHex(f[i])

LEMMA ByteType ==
    ASSUME NEW f, Framed(f), NEW i \in 1 .. Len(f), i + 1 <= Len(f)
    PROVE  ByteAt(f, i) \in Nat /\ ByteAt(f, i) < 256
<1>1. i \in 1 .. Len(f) /\ i + 1 \in 1 .. Len(f)  BY DEF Framed
<1>2. HexNibble(f[i]) \in 0 .. 15 /\ HexNibble(f[i + 1]) \in 0 .. 15
  BY <1>1, HexDigit DEF Framed
<1>3. PICK a, b : a = HexNibble(f[i]) /\ b = HexNibble(f[i + 1])  OBVIOUS
<1>4. a \in 0 .. 15 /\ b \in 0 .. 15 /\ ByteAt(f, i) = 16 * a + b
  BY <1>2, <1>3 DEF ByteAt
<1>5. 16 * a + b \in Nat /\ 16 * a + b < 256  BY <1>4, SMT
<1>. QED  BY <1>4, <1>5

LEMMA HeaderType ==
    ASSUME NEW f, Framed(f)
    PROVE  /\ BodyLength(f) \in Nat /\ BucketCount(f) \in Nat
           /\ EmbeddedRepeat(f) \in Nat /\ BodyEnd(f) \in Nat
<1>1. /\ 5 \in 1 .. Len(f) /\ 7 \in 1 .. Len(f) /\ 9 \in 1 .. Len(f)
      /\ 5 + 1 <= Len(f) /\ 7 + 1 <= Len(f) /\ 9 + 1 <= Len(f)
  BY DEF Framed, TableStart
<1>2. BodyLength(f) \in Nat /\ BucketCount(f) \in Nat /\ EmbeddedRepeat(f) \in Nat
  BY <1>1, ByteType DEF BodyLength, BucketCount, EmbeddedRepeat
<1>. QED  BY <1>2 DEF BodyEnd

(* Two frames that read alike outside a part that the header leaves alone. *)
SameHeader(f, g) ==
    /\ Framed(f) /\ Framed(g) /\ Len(f) = Len(g)
    /\ \A i \in 1 .. TableStart : HexNibble(f[i]) = HexNibble(g[i])

LEMMA HeaderRead ==
    ASSUME NEW f, NEW g, SameHeader(f, g)
    PROVE  /\ BodyLength(f) = BodyLength(g) /\ BucketCount(f) = BucketCount(g)
           /\ EmbeddedRepeat(f) = EmbeddedRepeat(g) /\ BodyEnd(f) = BodyEnd(g)
           /\ DataChars(f) = DataChars(g)
           /\ HasMagic(f) = HasMagic(g)
           /\ B0FrameStatus(f) = B0FrameStatus(g)
<1>1. \A i \in 1 .. 10 : HexNibble(f[i]) = HexNibble(g[i])  BY DEF SameHeader, TableStart
<1>2. /\ BodyLength(f) = BodyLength(g) /\ BucketCount(f) = BucketCount(g)
      /\ EmbeddedRepeat(f) = EmbeddedRepeat(g)
  BY <1>1 DEF BodyLength, BucketCount, EmbeddedRepeat, ByteAt
<1>3. BodyEnd(f) = BodyEnd(g)  BY <1>2 DEF BodyEnd
<1>4. DataChars(f) = DataChars(g)  BY <1>2, <1>3 DEF DataChars
<1>5. \A i \in 1 .. 4 : SerializedNibble(f[i]) = SerializedNibble(g[i])
  <2>. SUFFICES ASSUME NEW i \in 1 .. 4 PROVE SerializedNibble(f[i]) = SerializedNibble(g[i])
    OBVIOUS
  <2>1. i \in 1 .. Len(f) /\ i \in 1 .. Len(g)  BY DEF SameHeader, Framed, TableStart
  <2>2. IsHex(f[i]) /\ IsHex(g[i])  BY <2>1 DEF SameHeader, Framed
  <2>. QED  BY <1>1, <2>2, HexDigit
<1>6. [i \in 1 .. 4 |-> SerializedNibble(f[i])] = [i \in 1 .. 4 |-> SerializedNibble(g[i])]
  BY <1>5
<1>7. HasMagic(f) = HasMagic(g)  BY <1>6 DEF HasMagic, SameHeader
<1>8. (\E i \in DOMAIN f : ~ IsHex(f[i])) = FALSE /\ (\E i \in DOMAIN g : ~ IsHex(g[i])) = FALSE
  BY DEF SameHeader, Framed
<1>9. B0FrameStatus(f) = B0FrameStatus(g)
  BY <1>2, <1>3, <1>7, <1>8 DEF B0FrameStatus, SameHeader
<1>. QED  BY <1>2, <1>3, <1>4, <1>7, <1>9

(* What is on the wire, and a frame that reads as bytes goes out unchanged.*)
LEMMA WireShape ==
    ASSUME NEW f, Len(f) \in Nat
    PROVE  /\ DOMAIN OnWire(f) = 1 .. 2 * (Len(f) \div 2)
           /\ Len(OnWire(f)) = 2 * (Len(f) \div 2)
           /\ 2 * (Len(f) \div 2) \in Nat
           /\ \A i \in 1 .. 2 * (Len(f) \div 2) : OnWire(f)[i] = SerializedNibble(f[i])
<1>1. PICK n : n = 2 * (Len(f) \div 2)  OBVIOUS
<1>2. n \in Nat  BY <1>1
<1>3. PICK w : w = [i \in 1 .. n |-> SerializedNibble(f[i])]  OBVIOUS
<1>4. w \in Seq(0 .. 15)
  <2>1. w \in [1 .. n -> 0 .. 15]  BY <1>3, WireDigit
  <2>. QED  BY <1>2, <2>1
<1>5. Len(w) = n  BY <1>2, <1>3, <1>4
<1>6. OnWire(f) = w  BY <1>1, <1>3 DEF OnWire
<1>. QED  BY <1>1, <1>2, <1>3, <1>5, <1>6

LEMMA WireReads ==
    ASSUME NEW f, Framed(f)
    PROVE  /\ SameHeader(f, OnWire(f))
           /\ \A i \in 1 .. Len(f) : OnWire(f)[i] = HexNibble(f[i])
           /\ \A i \in 1 .. Len(f) : HexNibble(OnWire(f)[i]) = HexNibble(f[i])
<1>1. PICK n : n = Len(f)  OBVIOUS
<1>2. n \in Nat /\ 2 * (n \div 2) = n /\ n >= 10
  <2>1. n \in Nat /\ n % 2 = 0 /\ n >= 10  BY <1>1 DEF Framed, TableStart
  <2>2. 2 * (n \div 2) = n  BY <2>1, SMT
  <2>. QED  BY <2>1, <2>2
<1>3. /\ DOMAIN OnWire(f) = 1 .. n /\ Len(OnWire(f)) = n
      /\ \A i \in 1 .. n : OnWire(f)[i] = SerializedNibble(f[i])
  BY <1>1, <1>2, WireShape
<1>4. \A i \in 1 .. n : IsHex(f[i])  BY <1>1 DEF Framed
<1>5. \A i \in 1 .. n : OnWire(f)[i] = HexNibble(f[i])  BY <1>3, <1>4, HexDigit
<1>6. \A i \in 1 .. n : OnWire(f)[i] \in 0 .. 15  BY <1>4, <1>5, HexDigit
<1>7. \A i \in 1 .. n : IsHex(OnWire(f)[i]) /\ HexNibble(OnWire(f)[i]) = OnWire(f)[i]
  BY <1>6, HexDigit
<1>8. Framed(OnWire(f))  BY <1>1, <1>2, <1>3, <1>7 DEF Framed
<1>9. \A i \in 1 .. TableStart : HexNibble(f[i]) = HexNibble(OnWire(f)[i])
  BY <1>2, <1>5, <1>7 DEF TableStart
<1>. QED  BY <1>1, <1>3, <1>5, <1>7, <1>8, <1>9 DEF SameHeader

-----------------------------------------------------------------------------
(* A frame whose bucket table and body fit it: what is compensated.        *)
Laid(f) ==
    /\ Framed(f)
    /\ Len(f) = 8 + 2 * BodyLength(f)
    /\ TableStart + 4 * BucketCount(f) <= BodyEnd(f)

LEMMA CompensableShape ==
    ASSUME NEW f \in Seq(Chars), B0FrameStatus(f) = "COMPENSABLE"
    PROVE  Laid(f)
<1>1. /\ ~ (\/ Len(f) < TableStart \/ Len(f) % 2 # 0
            \/ \E i \in DOMAIN f : ~ IsHex(f[i]))
      /\ ~ (\/ Len(f) # 8 + 2 * BodyLength(f)
            \/ TableStart + 4 * BucketCount(f) > BodyEnd(f))
  BY DEF B0FrameStatus
<1>2. DOMAIN f = 1 .. Len(f) /\ Len(f) \in Nat  OBVIOUS
<1>3. Framed(f)  BY <1>1, <1>2 DEF Framed, TableStart
<1>. QED  BY <1>1, <1>3, HeaderType DEF Laid, TableStart

(* Where the four digits of a bucket are.                                  *)
At(b, k) == TableStart + 4 * b + k
InTable(f, i) == \E b \in Nat, k \in 1 .. 4 : b < BucketCount(f) /\ i = At(b, k)

LEMMA TablePlace ==
    ASSUME NEW f, Laid(f), NEW b \in Nat, b < BucketCount(f), NEW k \in 1 .. 4
    PROVE  /\ At(b, k) \in 1 .. Len(f) /\ At(b, k) > TableStart
           /\ At(b, k) <= TableStart + 4 * BucketCount(f)
           /\ (At(b, k) - TableStart - 1) \div 4 = b
           /\ ((At(b, k) - TableStart - 1) % 4) + 1 = k
<1>1. PICK n, m, l : n = BucketCount(f) /\ m = BodyEnd(f) /\ l = Len(f)  OBVIOUS
<1>2. n \in Nat /\ m \in Nat /\ l \in Nat /\ 10 + 4 * n <= m /\ l = m + 2
  <2>1. PICK body : body = BodyLength(f)  OBVIOUS
  <2>2. body \in Nat /\ n \in Nat /\ m \in Nat /\ l \in Nat  BY <1>1, <2>1, HeaderType DEF Laid, Framed
  <2>3. l = 8 + 2 * body /\ m = 6 + 2 * body /\ 10 + 4 * n <= m
    BY <1>1, <2>1 DEF Laid, BodyEnd, TableStart
  <2>. QED  BY <2>2, <2>3
<1>3. b < n /\ b \in Nat /\ k \in 1 .. 4  BY <1>1
<1>4. PICK i : i = 10 + 4 * b + k  OBVIOUS
<1>5. i \in 1 .. l /\ i > 10 /\ i <= 10 + 4 * n  BY <1>2, <1>3, <1>4, SMT
<1>6. (i - 10 - 1) \div 4 = b /\ ((i - 10 - 1) % 4) + 1 = k  BY <1>3, <1>4, SMT
<1>. QED  BY <1>1, <1>4, <1>5, <1>6 DEF At, TableStart

(* A bucket read from its digits.                                          *)
LEMMA BucketRead ==
    ASSUME NEW f, NEW b \in Nat
    PROVE  Bucket(f, b) =
              256 * (16 * HexNibble(f[At(b, 1)]) + HexNibble(f[At(b, 2)]))
                  + (16 * HexNibble(f[At(b, 3)]) + HexNibble(f[At(b, 4)]))
<1>1. /\ TableStart + 4 * b + 1 = At(b, 1) /\ TableStart + 4 * b + 1 + 1 = At(b, 2)
      /\ TableStart + 4 * b + 1 + 2 = At(b, 3) /\ TableStart + 4 * b + 1 + 2 + 1 = At(b, 4)
  BY DEF At, TableStart
<1>. QED  BY <1>1 DEF Bucket, ByteAt

LEMMA BucketType ==
    ASSUME NEW f, Laid(f), NEW b \in Nat, b < BucketCount(f)
    PROVE  Bucket(f, b) \in Nat /\ Bucket(f, b) < 65536
<1>1. \A k \in 1 .. 4 : HexNibble(f[At(b, k)]) \in 0 .. 15
  <2>. SUFFICES ASSUME NEW k \in 1 .. 4 PROVE HexNibble(f[At(b, k)]) \in 0 .. 15  OBVIOUS
  <2>1. At(b, k) \in 1 .. Len(f)  BY TablePlace
  <2>2. IsHex(f[At(b, k)])  BY <2>1 DEF Laid, Framed
  <2>. QED  BY <2>2, HexDigit
<1>2. PICK n1, n2, n3, n4 :
          /\ n1 = HexNibble(f[At(b, 1)]) /\ n2 = HexNibble(f[At(b, 2)])
          /\ n3 = HexNibble(f[At(b, 3)]) /\ n4 = HexNibble(f[At(b, 4)])
  OBVIOUS
<1>3. n1 \in 0 .. 15 /\ n2 \in 0 .. 15 /\ n3 \in 0 .. 15 /\ n4 \in 0 .. 15
  BY <1>1, <1>2
<1>4. Bucket(f, b) = 256 * (16 * n1 + n2) + (16 * n3 + n4)  BY <1>2, BucketRead
<1>. QED  BY <1>3, <1>4, SMT

(* Durations for buckets of a table.                                       *)
Retimes(f, durations) ==
    /\ \A b \in DOMAIN durations : b \in Nat /\ b < BucketCount(f)
    /\ \A b \in DOMAIN durations : durations[b] \in Nat /\ durations[b] < 65536

(* The frame on the wire once its table is rewritten: the same header and  *)
(* data, and every bucket reads as it was set.                             *)
LEMMA Rewritten ==
    ASSUME NEW f, Laid(f), NEW durations, Retimes(f, durations)
    PROVE  LET w == OnWire(WithBuckets(f, durations)) IN
           /\ SameHeader(f, w)
           /\ \A i \in 1 .. Len(f) : i > TableStart + 4 * BucketCount(f) =>
                 HexNibble(w[i]) = HexNibble(f[i])
           /\ \A b \in Nat : b < BucketCount(f) =>
                 Bucket(w, b) = IF b \in DOMAIN durations THEN durations[b] ELSE Bucket(f, b)
<1>1. PICK g : g = WithBuckets(f, durations)  OBVIOUS
<1>2. PICK w : w = OnWire(g)  OBVIOUS
<1>3. PICK n, l : n = BucketCount(f) /\ l = Len(f)  OBVIOUS
<1>4. n \in Nat /\ l \in Nat /\ DOMAIN f = 1 .. l
  BY <1>3, HeaderType DEF Laid, Framed
<1>5. DOMAIN g = 1 .. l  BY <1>1, <1>4 DEF WithBuckets
<1>6. \A b \in Nat, k \in 1 .. 4 : b < n => /\ At(b, k) \in 1 .. l /\ At(b, k) > TableStart
                                       /\ (At(b, k) - TableStart - 1) \div 4 = b
                                       /\ ((At(b, k) - TableStart - 1) % 4) + 1 = k
  BY <1>3, TablePlace
<1>7. \A b \in Nat, k \in 1 .. 4 : b < n =>
          g[At(b, k)] = IF b \in DOMAIN durations THEN Nibbles(durations[b])[k] ELSE f[At(b, k)]
  <2>. SUFFICES ASSUME NEW b \in Nat, NEW k \in 1 .. 4, b < n
                PROVE  g[At(b, k)] = IF b \in DOMAIN durations
                                     THEN Nibbles(durations[b])[k] ELSE f[At(b, k)]
    OBVIOUS
  <2>1. PICK i : i = At(b, k)  OBVIOUS
  <2>2. /\ i \in DOMAIN f /\ i > TableStart /\ (i - TableStart - 1) \div 4 = b
        /\ ((i - TableStart - 1) % 4) + 1 = k
    BY <1>4, <1>6, <2>1
  <2>3. g[i] = IF i > TableStart /\ (i - TableStart - 1) \div 4 \in DOMAIN durations
               THEN Nibbles(durations[(i - TableStart - 1) \div 4])[((i - TableStart - 1) % 4) + 1]
               ELSE f[i]
    BY <1>1, <2>2 DEF WithBuckets
  <2>. QED  BY <2>1, <2>2, <2>3
<1>8. \A i \in 1 .. l : (i <= TableStart \/ i > TableStart + 4 * n) => g[i] = f[i]
  <2>. SUFFICES ASSUME NEW i \in 1 .. l, i <= TableStart \/ i > TableStart + 4 * n
                PROVE  g[i] = f[i]
    OBVIOUS
  <2>1. ~ (i > TableStart /\ (i - TableStart - 1) \div 4 \in DOMAIN durations)
    <3>. SUFFICES ASSUME i > 10, (i - 10 - 1) \div 4 \in DOMAIN durations PROVE FALSE
      BY DEF TableStart
    <3>1. PICK b : b = (i - 10 - 1) \div 4  OBVIOUS
    <3>2. b \in Nat /\ b < n  BY <1>3, <3>1 DEF Retimes
    <3>3. i <= 10 + 4 * n  BY <1>4, <3>1, <3>2, SMT
    <3>. QED  BY <1>4, <3>3 DEF TableStart
  <2>. QED  BY <1>1, <1>4, <2>1 DEF WithBuckets
<1>9. \A i \in 1 .. l : IsHex(f[i])  BY <1>3 DEF Laid, Framed
<1>10. \A b \in Nat, k \in 1 .. 4 : b < n /\ b \in DOMAIN durations =>
          Nibbles(durations[b])[k] \in 0 .. 15
  BY DigitsRead DEF Retimes
<1>11. \A i \in 1 .. l : IsHex(g[i])
  <2>. SUFFICES ASSUME NEW i \in 1 .. l PROVE IsHex(g[i])  OBVIOUS
  <2>1. CASE i <= TableStart \/ i > TableStart + 4 * n  BY <1>8, <1>9, <2>1
  <2>2. CASE i > TableStart /\ i <= TableStart + 4 * n
    <3>1. PICK b, k : b = (i - 11) \div 4 /\ k = ((i - 11) % 4) + 1  OBVIOUS
    <3>2. b \in Nat /\ k \in 1 .. 4 /\ b < n /\ i = 10 + 4 * b + k
      BY <1>4, <2>2, <3>1, SMT DEF TableStart
    <3>3. i = At(b, k)  BY <3>2 DEF At, TableStart
    <3>4. g[i] = IF b \in DOMAIN durations THEN Nibbles(durations[b])[k] ELSE f[i]
      BY <1>7, <3>2, <3>3
    <3>5. CASE b \in DOMAIN durations  BY <1>10, <3>2, <3>4, <3>5, HexDigit
    <3>6. CASE b \notin DOMAIN durations  BY <1>9, <3>4, <3>6
    <3>. QED  BY <3>5, <3>6
  <2>. QED  BY <1>4, <2>1, <2>2 DEF TableStart
<1>12. Len(g) = l
  <2>1. \E m \in Nat : DOMAIN g = 1 .. m  BY <1>4, <1>5
  <2>. QED  BY <1>4, <1>5, <2>1
<1>13. Framed(g)  BY <1>3, <1>4, <1>5, <1>11, <1>12 DEF Framed, Laid
<1>14. /\ SameHeader(g, w)
       /\ \A i \in 1 .. l : HexNibble(w[i]) = HexNibble(g[i])
  BY <1>2, <1>12, <1>13, WireReads
<1>15. SameHeader(f, w)
  <2>1. \A i \in 1 .. TableStart : i \in 1 .. l /\ i <= TableStart
    BY <1>3, <1>4 DEF Laid, Framed, TableStart
  <2>2. \A i \in 1 .. TableStart : HexNibble(f[i]) = HexNibble(w[i])
    BY <1>8, <1>14, <2>1
  <2>. QED  BY <1>3, <1>12, <1>14, <2>2 DEF SameHeader, Laid
<1>16. \A i \in 1 .. l : i > TableStart + 4 * n => HexNibble(w[i]) = HexNibble(f[i])
  BY <1>8, <1>14
<1>17. ASSUME NEW b \in Nat, b < n
       PROVE  Bucket(w, b) = IF b \in DOMAIN durations THEN durations[b] ELSE Bucket(f, b)
  <2>1. \A k \in 1 .. 4 : HexNibble(w[At(b, k)]) = HexNibble(g[At(b, k)])
    BY <1>6, <1>14, <1>17
  <2>2. CASE b \in DOMAIN durations
    <3>1. PICK d : d = durations[b]  OBVIOUS
    <3>2. d \in Nat /\ d < 65536  BY <2>2, <3>1 DEF Retimes
    <3>3. \A k \in 1 .. 4 : Nibbles(d)[k] \in 0 .. 15  BY <3>2, DigitsRead
    <3>4. \A k \in 1 .. 4 : g[At(b, k)] = Nibbles(d)[k]  BY <1>7, <1>17, <2>2, <3>1
    <3>5. \A k \in 1 .. 4 : HexNibble(w[At(b, k)]) = Nibbles(d)[k]
      BY <2>1, <3>3, <3>4, HexDigit
    <3>6. 256 * (16 * Nibbles(d)[1] + Nibbles(d)[2]) + (16 * Nibbles(d)[3] + Nibbles(d)[4]) = d
      BY <3>2, DigitsRead
    <3>7. 1 \in 1 .. 4 /\ 2 \in 1 .. 4 /\ 3 \in 1 .. 4 /\ 4 \in 1 .. 4  OBVIOUS
    <3>8. Bucket(w, b) = d  BY <3>5, <3>6, <3>7, BucketRead
    <3>. QED  BY <2>2, <3>1, <3>8
  <2>3. CASE b \notin DOMAIN durations
    <3>1. \A k \in 1 .. 4 : HexNibble(w[At(b, k)]) = HexNibble(f[At(b, k)])
      BY <1>7, <1>17, <2>1, <2>3
    <3>2. 1 \in 1 .. 4 /\ 2 \in 1 .. 4 /\ 3 \in 1 .. 4 /\ 4 \in 1 .. 4  OBVIOUS
    <3>3. Bucket(w, b) = Bucket(f, b)  BY <3>1, <3>2, BucketRead
    <3>. QED  BY <2>3, <3>3
  <2>. QED  BY <2>2, <2>3
<1>. QED  BY <1>1, <1>2, <1>3, <1>15, <1>16, <1>17

-----------------------------------------------------------------------------
(* The frame without the blanks around it is a frame.                      *)

LEMMA TrimmedType ==
    ASSUME NEW f \in Seq(Chars)
    PROVE  Trimmed(f) \in Seq(Chars)
<1>1. CASE Solid(f) = {}  BY <1>1 DEF Trimmed
<1>2. CASE Solid(f) # {}
  <2>1. PICK n : n = Len(f)  OBVIOUS
  <2>2. n \in Nat /\ Solid(f) \subseteq 1 .. n  BY <2>1 DEF Solid
  <2>3. PICK a : a = CHOOSE i \in Solid(f) : \A j \in Solid(f) : i <= j  OBVIOUS
  <2>4. PICK b : b = CHOOSE i \in Solid(f) : \A j \in Solid(f) : i >= j  OBVIOUS
  <2>5. a \in Solid(f)
    <3>1. Solid(f) \subseteq Nat  BY <2>2
    <3>. QED  BY <1>2, <2>3, <3>1, LeastNat
  <2>6. b \in Solid(f)  BY <1>2, <2>2, <2>4, GreatestNat
  <2>7. Trimmed(f) = SubSeq(f, a, b)  BY <1>2, <2>3, <2>4 DEF Trimmed
  <2>8. a \in 1 .. Len(f) /\ b \in 1 .. Len(f)  BY <2>1, <2>2, <2>5, <2>6
  <2>. QED  BY <2>7, <2>8
<1>. QED  BY <1>1, <1>2

-----------------------------------------------------------------------------
(* What send_raw makes of a frame.                                         *)

LEMMA FloorType == MinBucket \in Nat /\ MinBucket < 65536 /\ MinBucket > 0
BY B0Assumption

LEMMA CompensatedType ==
    ASSUME NEW d \in Nat, d < 65536, NEW offset \in Nat
    PROVE  Compensated(d, offset) \in {c \in Nat : c < 65536}
BY FloorType, SMT DEF Compensated

LEMMA CompensatedAll ==
    \A d, offset \in Nat : d < 65536 =>
        Compensated(d, offset) \in Nat /\ Compensated(d, offset) < 65536
BY CompensatedType, SMT

LEMMA CompensatedRange ==
    ASSUME NEW d \in Nat, d < 65536, NEW offset \in Nat
    PROVE  /\ Compensated(d, offset) >= MinBucket
           /\ d >= MinBucket => Compensated(d, offset) <= d
BY FloorType, SMT DEF Compensated

(* The durations send_raw writes into a frame it compensates.              *)
Durations(f, offset) ==
    IF offset = 0 THEN [b \in BelowFloor(f) |-> MinBucket]
    ELSE [b \in 0 .. BucketCount(f) - 1 |-> Compensated(Bucket(f, b), offset)]

LEMMA DurationsType ==
    ASSUME NEW f, Laid(f), NEW offset \in Nat
    PROVE  Retimes(f, Durations(f, offset))
<1>1. PICK n : n = BucketCount(f)  OBVIOUS
<1>2. n \in Nat  BY <1>1, HeaderType DEF Laid
<1>3. CASE offset = 0
  <2>1. BelowFloor(f) \subseteq 0 .. n - 1  BY <1>1 DEF BelowFloor, Referenced
  <2>2. Durations(f, offset) = [b \in BelowFloor(f) |-> MinBucket]  BY <1>3 DEF Durations
  <2>. QED  BY <1>1, <1>2, <2>1, <2>2, FloorType DEF Retimes
<1>4. CASE offset # 0
  <2>1. Durations(f, offset) = [b \in 0 .. n - 1 |-> Compensated(Bucket(f, b), offset)]
    BY <1>1, <1>4 DEF Durations
  <2>2. \A b \in 0 .. n - 1 : Bucket(f, b) \in Nat /\ Bucket(f, b) < 65536
    BY <1>1, <1>2, BucketType
  <2>3. \A b \in 0 .. n - 1 : /\ Compensated(Bucket(f, b), offset) \in Nat
                              /\ Compensated(Bucket(f, b), offset) < 65536
    BY <1>2, <2>2, CompensatedAll
  <2>. QED  BY <1>1, <1>2, <2>1, <2>3 DEF Retimes
<1>. QED  BY <1>3, <1>4

(* The frame on the wire against the frame that was given.                 *)
LEMMA SentShape ==
    ASSUME NEW f \in Seq(Chars), B0FrameStatus(f) = "COMPENSABLE", NEW offset \in Nat
    PROVE  LET w == OnWire(Outgoing(f, offset)) IN
           /\ Laid(f) /\ SameHeader(f, w)
           /\ \A i \in DataChars(f) : Named(w, i) = Named(f, i)
           /\ Referenced(w) = Referenced(f)
           /\ \A b \in Referenced(f) :
                 /\ Bucket(w, b) >= MinBucket
                 /\ Bucket(f, b) >= MinBucket => Bucket(w, b) <= Bucket(f, b)
<1>1. PICK w : w = OnWire(Outgoing(f, offset))  OBVIOUS
<1>2. PICK durations : durations = Durations(f, offset)  OBVIOUS
<1>3. PICK n : n = BucketCount(f)  OBVIOUS
<1>4. Laid(f)  BY CompensableShape
<1>5. n \in Nat  BY <1>3, <1>4, HeaderType DEF Laid
<1>6. Retimes(f, durations)  BY <1>2, <1>4, DurationsType
<1>7. Outgoing(f, offset) = WithBuckets(f, durations)
  BY <1>2 DEF Outgoing, Durations, WithFlooredBuckets, WithBucketOffset
<1>8. /\ SameHeader(f, w)
      /\ \A i \in 1 .. Len(f) : i > TableStart + 4 * n => HexNibble(w[i]) = HexNibble(f[i])
      /\ \A b \in Nat : b < n =>
            Bucket(w, b) = IF b \in DOMAIN durations THEN durations[b] ELSE Bucket(f, b)
  BY <1>1, <1>3, <1>4, <1>6, <1>7, Rewritten
<1>9. \A i \in DataChars(f) : i \in 1 .. Len(f) /\ i > TableStart + 4 * n
  <2>1. PICK body : body = BodyLength(f)  OBVIOUS
  <2>2. body \in Nat /\ Len(f) = 8 + 2 * body  BY <1>4, <2>1, HeaderType DEF Laid
  <2>3. DataChars(f) = 10 + 4 * n + 1 .. 6 + 2 * body
    BY <1>3, <2>1 DEF DataChars, BodyEnd, TableStart
  <2>. QED  BY <1>5, <2>2, <2>3 DEF TableStart
<1>10. \A i \in DataChars(f) : Named(w, i) = Named(f, i)  BY <1>8, <1>9 DEF Named
<1>11. DataChars(w) = DataChars(f) /\ BucketCount(w) = n  BY <1>3, <1>8, HeaderRead
<1>12. Referenced(w) = Referenced(f)  BY <1>3, <1>10, <1>11 DEF Referenced
<1>13. ASSUME NEW b \in Referenced(f)
       PROVE  /\ Bucket(w, b) >= MinBucket
              /\ Bucket(f, b) >= MinBucket => Bucket(w, b) <= Bucket(f, b)
  <2>1. b \in Nat /\ b < n  BY <1>3, <1>5 DEF Referenced
  <2>2. PICK d : d = Bucket(f, b)  OBVIOUS
  <2>3. d \in Nat /\ d < 65536  BY <1>3, <1>4, <2>1, <2>2, BucketType
  <2>4. CASE offset = 0
    <3>1. durations = [c \in BelowFloor(f) |-> MinBucket]  BY <1>2, <2>4 DEF Durations
    <3>2. CASE d < MinBucket
      <4>1. b \in BelowFloor(f)  BY <1>13, <2>2, <3>2 DEF BelowFloor
      <4>2. Bucket(w, b) = MinBucket  BY <1>8, <2>1, <3>1, <4>1
      <4>. QED  BY <2>2, <2>3, <3>2, <4>2, FloorType
    <3>3. CASE d >= MinBucket
      <4>1. b \notin BelowFloor(f)
        <5>1. ~ (d < MinBucket)  BY <2>3, <3>3, FloorType
        <5>. QED  BY <2>2, <5>1 DEF BelowFloor
      <4>2. Bucket(w, b) = d  BY <1>8, <2>1, <2>2, <3>1, <4>1
      <4>. QED  BY <2>2, <2>3, <3>3, <4>2, FloorType
    <3>. QED  BY <2>3, <3>2, <3>3, FloorType
  <2>5. CASE offset # 0
    <3>1. durations = [c \in 0 .. n - 1 |-> Compensated(Bucket(f, c), offset)]
      BY <1>2, <1>3, <2>5 DEF Durations
    <3>2. b \in 0 .. n - 1  BY <1>5, <2>1
    <3>3. Bucket(w, b) = Compensated(d, offset)  BY <1>8, <2>1, <2>2, <3>1, <3>2
    <3>. QED  BY <2>2, <2>3, <3>3, CompensatedRange
  <2>. QED  BY <2>4, <2>5
<1>. QED  BY <1>1, <1>4, <1>8, <1>10, <1>12, <1>13

LEMMA EmptyStatus == B0FrameStatus(OnWire(<< >>)) = "PASSTHROUGH"
<1>1. PICK e : e = << >>  OBVIOUS
<1>2. Len(e) = 0  BY <1>1
<1>3. Len(OnWire(e)) = 0  BY <1>2, WireShape
<1>4. ~ HasMagic(OnWire(e))  BY <1>3 DEF HasMagic
<1>. QED  BY <1>1, <1>4 DEF B0FrameStatus

(* A frame passed through is not one the coprocessor takes for a bucket    *)
(* frame with a shape that adds up.                                        *)
LEMMA PassedStatus ==
    ASSUME NEW f \in Seq(Chars), B0FrameStatus(f) = "PASSTHROUGH"
    PROVE  B0FrameStatus(OnWire(f)) # "COMPENSABLE"
<1>1. PICK n : n = Len(f)  OBVIOUS
<1>2. n \in Nat /\ DOMAIN f = 1 .. n  BY <1>1
<1>3. CASE HasMagic(f)
  <2>1. ~ (\/ Len(f) < TableStart \/ Len(f) % 2 # 0
           \/ \E i \in DOMAIN f : ~ IsHex(f[i]))
    BY <1>3 DEF B0FrameStatus
  <2>2. Framed(f)  BY <1>1, <1>2, <2>1 DEF Framed, TableStart
  <2>3. SameHeader(f, OnWire(f))  BY <2>2, WireReads
  <2>4. B0FrameStatus(OnWire(f)) = "PASSTHROUGH"  BY <2>3, HeaderRead
  <2>. QED  BY <2>4
<1>4. CASE ~ HasMagic(f)
  <2>1. PICK w : w = OnWire(f)  OBVIOUS
  <2>2. /\ Len(w) = 2 * (n \div 2)
        /\ \A i \in 1 .. 2 * (n \div 2) : w[i] = SerializedNibble(f[i])
    BY <1>1, <1>2, <2>1, WireShape
  <2>3. \A c : SerializedNibble(SerializedNibble(c)) = SerializedNibble(c)
    BY WireDigit, HexDigit
  <2>4. ASSUME HasMagic(w) PROVE FALSE
    <3>1. Len(w) >= 4  BY <2>4 DEF HasMagic
    <3>2. n >= 4 /\ \A i \in 1 .. 4 : i \in 1 .. 2 * (n \div 2)  BY <1>2, <2>2, <3>1
    <3>3. \A i \in 1 .. 4 : SerializedNibble(w[i]) = SerializedNibble(f[i])
      BY <2>2, <2>3, <3>2
    <3>4. [i \in 1 .. 4 |-> SerializedNibble(w[i])] = [i \in 1 .. 4 |-> SerializedNibble(f[i])]
      BY <3>3
    <3>5. HasMagic(f)  BY <1>1, <2>4, <3>2, <3>4 DEF HasMagic
    <3>. QED  BY <1>4, <3>5
  <2>. QED  BY <2>1, <2>4 DEF B0FrameStatus
<1>. QED  BY <1>3, <1>4

(* No bucket that data names in a sent frame is below the floor.           *)
LEMMA SentFloored ==
    ASSUME NEW f \in Seq(Chars), NEW offset \in Nat,
           B0FrameStatus(OnWire(Outgoing(f, offset))) = "COMPENSABLE"
    PROVE  \A b \in Referenced(OnWire(Outgoing(f, offset))) :
              Bucket(OnWire(Outgoing(f, offset)), b) >= MinBucket
<1>1. B0FrameStatus(f) \in {"MALFORMED", "PASSTHROUGH", "COMPENSABLE"}
  BY DEF B0FrameStatus
<1>2. CASE B0FrameStatus(f) = "MALFORMED"
  <2>1. Outgoing(f, offset) = << >>  BY <1>2 DEF Outgoing
  <2>. QED  BY <2>1, EmptyStatus
<1>3. CASE B0FrameStatus(f) = "PASSTHROUGH"
  <2>1. Outgoing(f, offset) = f  BY <1>3 DEF Outgoing
  <2>. QED  BY <1>3, <2>1, PassedStatus
<1>4. CASE B0FrameStatus(f) = "COMPENSABLE"  BY <1>4, SentShape
<1>. QED  BY <1>1, <1>2, <1>3, <1>4

-----------------------------------------------------------------------------
(* A frame that admission accepts.                                         *)

LEMMA BlanksCounted ==
    ASSUME NEW f \in Seq(Chars)
    PROVE  Cardinality(Solid(f)) \in Nat
<1>1. IsFiniteSet(1 .. Len(f)) /\ Solid(f) \subseteq 1 .. Len(f)
  BY IntervalCount DEF Solid
<1>. QED  BY <1>1, FS_Subset, FS_CardinalityType

(* A frame of digits is its own normal form.                               *)
LEMMA NormalAlready ==
    ASSUME NEW f, NEW n \in Nat, DOMAIN f = 1 .. n, \A i \in 1 .. n : f[i] \in 0 .. 15
    PROVE  Normalized(f) = [i \in 1 .. n |-> f[i]]
<1>1. Solid(f) = 1 .. n  BY DEF Solid, Blank
<1>2. Cardinality(Solid(f)) = n  BY <1>1, IntervalCount
<1>3. \A i \in 1 .. n : Cardinality({j \in Solid(f) : j <= i}) = i
  <2>. SUFFICES ASSUME NEW i \in 1 .. n PROVE Cardinality({j \in Solid(f) : j <= i}) = i  OBVIOUS
  <2>1. {j \in Solid(f) : j <= i} = 1 .. i  BY <1>1
  <2>2. i \in Nat  OBVIOUS
  <2>. QED  BY <2>1, <2>2, IntervalCount
<1>4. \A k \in 1 .. n : SolidAt(f, k) = f[k]
  <2>. SUFFICES ASSUME NEW k \in 1 .. n PROVE SolidAt(f, k) = f[k]  OBVIOUS
  <2>1. PICK c : c = CHOOSE i \in Solid(f) : Cardinality({j \in Solid(f) : j <= i}) = k  OBVIOUS
  <2>2. c \in Solid(f) /\ Cardinality({j \in Solid(f) : j <= c}) = k
    <3>1. k \in Solid(f) /\ Cardinality({j \in Solid(f) : j <= k}) = k  BY <1>1, <1>3
    <3>. QED  BY <2>1, <3>1
  <2>3. c = k  BY <1>1, <1>3, <2>2
  <2>. QED  BY <2>1, <2>3 DEF SolidAt
<1>5. \A k \in 1 .. n : IsHex(SolidAt(f, k)) /\ HexNibble(SolidAt(f, k)) = f[k]
  BY <1>4, HexDigit
<1>. QED  BY <1>2, <1>5 DEF Normalized

LEMMA AdmittedShape ==
    ASSUME NEW f \in Seq(Chars), WellFormed(Normalized(f))
    PROVE  LET N == Normalized(f) IN
           /\ N \in Seq(Chars) /\ Normalized(N) = N
           /\ B0FrameStatus(N) = "COMPENSABLE"
           /\ B0Shaped(N)
<1>1. PICK n : n = Cardinality(Solid(f))  OBVIOUS
<1>2. n \in Nat  BY <1>1, BlanksCounted
<1>3. PICK N : N = Normalized(f)  OBVIOUS
<1>4. /\ DOMAIN N = 1 .. n
      /\ \A k \in 1 .. n : N[k] = IF IsHex(SolidAt(f, k)) THEN HexNibble(SolidAt(f, k))
                                  ELSE SolidAt(f, k)
      /\ N = [k \in 1 .. n |-> N[k]]
  BY <1>1, <1>3 DEF Normalized
<1>5. \A k \in 1 .. n : IsHex(N[k])  BY <1>3, <1>4 DEF WellFormed
<1>6. \A k \in 1 .. n : N[k] \in 0 .. 15
  <2>. SUFFICES ASSUME NEW k \in 1 .. n PROVE N[k] \in 0 .. 15  OBVIOUS
  <2>1. IsHex(SolidAt(f, k))  BY <1>4, <1>5
  <2>. QED  BY <1>4, <2>1, HexDigit
<1>7. N \in Seq(0 .. 15)
  <2>1. N \in [1 .. n -> 0 .. 15]  BY <1>4, <1>6
  <2>. QED  BY <1>2, <2>1
<1>8. N \in Seq(Chars)
  <2>1. \A c \in 0 .. 15 : c \in Chars  BY DEF Chars
  <2>2. \A k \in 1 .. n : N[k] \in Chars  BY <1>6, <2>1
  <2>3. N \in [1 .. n -> Chars]  BY <1>4, <2>2
  <2>. QED  BY <1>2, <2>3
<1>9. Normalized(N) = N  BY <1>2, <1>4, <1>6, NormalAlready
<1>10. Len(N) = n  BY <1>2, <1>4, <1>7
<1>11. /\ Len(N) % 2 = 0 /\ Len(N) >= TableStart
       /\ SubSeq(N, 1, 4) = <<10, 10, 11, 0>>
       /\ Len(N) = 8 + 2 * BodyLength(N)
       /\ DataChars(N) # {}
  BY <1>3 DEF WellFormed
<1>12. n >= 10  BY <1>10, <1>11 DEF TableStart
<1>13. N[1] = 10 /\ N[2] = 10 /\ N[3] = 11 /\ N[4] = 0
  <2>1. PICK s : s = SubSeq(N, 1, 4)  OBVIOUS
  <2>2. s[1] = N[1] /\ s[2] = N[2] /\ s[3] = N[3] /\ s[4] = N[4]
    BY <1>7, <1>10, <1>12, <2>1
  <2>3. s = <<10, 10, 11, 0>>  BY <1>11, <2>1
  <2>4. s[1] = 10 /\ s[2] = 10 /\ s[3] = 11 /\ s[4] = 0  BY <2>3
  <2>. QED  BY <2>2, <2>4
<1>14. HasMagic(N)
  <2>1. /\ SerializedNibble(10) = 10 /\ SerializedNibble(11) = 11 /\ SerializedNibble(0) = 0
    BY HexDigit
  <2>2. \A i \in 1 .. 4 : i = 1 \/ i = 2 \/ i = 3 \/ i = 4  OBVIOUS
  <2>3. [i \in 1 .. 4 |-> SerializedNibble(N[i])] = <<10, 10, 11, 0>>
    BY <1>13, <2>1, <2>2
  <2>. QED  BY <1>10, <1>12, <2>3 DEF HasMagic
<1>15. Framed(N)  BY <1>2, <1>4, <1>5, <1>10, <1>11 DEF Framed
<1>16. TableStart + 4 * BucketCount(N) <= BodyEnd(N)
  <2>1. PICK b, c : b = BodyEnd(N) /\ c = BucketCount(N)  OBVIOUS
  <2>2. b \in Nat /\ c \in Nat  BY <1>15, <2>1, HeaderType
  <2>3. 10 + 4 * c + 1 .. b # {}  BY <1>11, <2>1 DEF DataChars, TableStart
  <2>4. 10 + 4 * c <= b  BY <2>2, <2>3
  <2>. QED  BY <2>1, <2>4 DEF TableStart
<1>17. B0FrameStatus(N) = "COMPENSABLE"
  <2>1. BodyEnd(N) \in Nat /\ BucketCount(N) \in Nat  BY <1>15, HeaderType
  <2>2. ~ (TableStart + 4 * BucketCount(N) > BodyEnd(N))  BY <1>16, <2>1 DEF TableStart
  <2>3. ~ (Len(N) < TableStart)  BY <1>2, <1>10, <1>12 DEF TableStart
  <2>. QED  BY <1>4, <1>5, <1>11, <1>14, <2>2, <2>3 DEF B0FrameStatus
<1>18. B0Shaped(N)
  <2>1. \A i \in 1 .. 3 : i \in 1 .. n  BY <1>2, <1>12
  <2>2. HexNibble(10) = 10 /\ HexNibble(11) = 11  BY HexDigit
  <2>3. \A i \in 1 .. 3 : i = 1 \/ i = 2 \/ i = 3  OBVIOUS
  <2>4. [i \in 1 .. 3 |-> HexNibble(N[i])] = <<10, 10, 11>>  BY <1>13, <2>2, <2>3
  <2>. QED  BY <1>5, <1>11, <1>13, <2>1, <2>4 DEF B0Shaped
<1>. QED  BY <1>3, <1>8, <1>9, <1>17, <1>18

-----------------------------------------------------------------------------
(* The air a sent frame takes.                                             *)
Terms(f) == [i \in DataChars(f) |-> Bucket(f, Named(f, i))]

LEMMA TimesMonotone ==
    ASSUME NEW r \in Nat, NEW x \in Nat, NEW y \in Nat, x <= y
    PROVE  r * x <= r * y /\ r * x \in Nat /\ r * y \in Nat
<1>1. PICK d \in Nat : y = x + d
  <2>1. y - x \in Nat /\ y = x + (y - x)  OBVIOUS
  <2>. QED  BY <2>1
<1>2. r * y = r * x + r * d  BY <1>1
<1>3. r * d \in Nat /\ r * x \in Nat  OBVIOUS
<1>. QED  BY <1>2, <1>3

LEMMA RoundedUp ==
    ASSUME NEW x \in Nat, NEW y \in Nat, x <= y
    PROVE  x <= 1000 * ((y + 999) \div 1000)
BY SMT

(* Compensation never lengthens a frame that is admitted.                  *)
LEMMA SentShorter ==
    ASSUME NEW f \in Seq(Chars), B0FrameStatus(f) = "COMPENSABLE", WellFormed(f),
           NEW offset \in Nat
    PROVE  /\ AirtimeOf(f) \in Nat
           /\ AirtimeOf(OnWire(Outgoing(f, offset))) \in Nat
           /\ AirtimeOf(OnWire(Outgoing(f, offset))) <= AirtimeOf(f)
<1>1. PICK w : w = OnWire(Outgoing(f, offset))  OBVIOUS
<1>2. /\ Laid(f) /\ SameHeader(f, w)
      /\ \A i \in DataChars(f) : Named(w, i) = Named(f, i)
      /\ \A b \in Referenced(f) :
            /\ Bucket(w, b) >= MinBucket
            /\ Bucket(f, b) >= MinBucket => Bucket(w, b) <= Bucket(f, b)
  BY <1>1, SentShape
<1>3. DataChars(w) = DataChars(f) /\ EmbeddedRepeat(w) = EmbeddedRepeat(f)
      /\ BucketCount(w) = BucketCount(f)
  BY <1>2, HeaderRead
<1>4. PICK r, n : r = EmbeddedRepeat(f) /\ n = BucketCount(f)  OBVIOUS
<1>5. r \in Nat /\ n \in Nat /\ BodyEnd(f) \in Nat  BY <1>2, <1>4, HeaderType DEF Laid
<1>6. \A i \in DataChars(f) : i \in 1 .. Len(f)
  <2>1. PICK l, b, e : l = Len(f) /\ b = BodyLength(f) /\ e = BodyEnd(f)  OBVIOUS
  <2>2. b \in Nat /\ l = 8 + 2 * b /\ e = 6 + 2 * b
    BY <1>2, <2>1, HeaderType DEF Laid, BodyEnd
  <2>3. DataChars(f) = 10 + 4 * n + 1 .. e  BY <1>4, <2>1 DEF DataChars, TableStart
  <2>4. \A i \in 10 + 4 * n + 1 .. e : i \in 1 .. l  BY <1>5, <2>2
  <2>. QED  BY <2>1, <2>3, <2>4
<1>7. \A i \in DataChars(f) : /\ Named(f, i) \in Referenced(f)
                              /\ Named(f, i) \in Nat /\ Named(f, i) < n
  <2>. SUFFICES ASSUME NEW i \in DataChars(f)
                PROVE  /\ Named(f, i) \in Referenced(f)
                       /\ Named(f, i) \in Nat /\ Named(f, i) < n
    OBVIOUS
  <2>1. IsHex(f[i])  BY <1>2, <1>6 DEF Laid, Framed
  <2>2. Named(f, i) \in Nat
    <3>1. PICK c : c = HexNibble(f[i])  OBVIOUS
    <3>2. c \in 0 .. 15  BY <2>1, <3>1, HexDigit
    <3>3. c % 8 \in Nat  BY <3>2
    <3>. QED  BY <3>1, <3>3 DEF Named
  <2>3. Named(f, i) < n  BY <1>4 DEF WellFormed
  <2>4. Named(f, i) \in 0 .. n - 1  BY <1>5, <2>2, <2>3
  <2>. QED  BY <1>4, <2>2, <2>3, <2>4 DEF Referenced
<1>8. Laid(w)
  <2>1. BodyLength(w) = BodyLength(f) /\ BodyEnd(w) = BodyEnd(f)  BY <1>2, HeaderRead
  <2>. QED  BY <1>2, <1>3, <2>1 DEF Laid, SameHeader
<1>9. \A i \in DataChars(f) :
         /\ Bucket(f, Named(f, i)) \in Nat /\ Bucket(w, Named(f, i)) \in Nat
         /\ Bucket(w, Named(f, i)) <= Bucket(f, Named(f, i))
  <2>. SUFFICES ASSUME NEW i \in DataChars(f)
                PROVE  /\ Bucket(f, Named(f, i)) \in Nat /\ Bucket(w, Named(f, i)) \in Nat
                       /\ Bucket(w, Named(f, i)) <= Bucket(f, Named(f, i))
    OBVIOUS
  <2>1. PICK b : b = Named(f, i)  OBVIOUS
  <2>2. b \in Referenced(f) /\ b \in Nat /\ b < n  BY <1>7, <2>1
  <2>3. Bucket(f, b) >= MinBucket  BY <2>1 DEF WellFormed
  <2>4. Bucket(w, b) <= Bucket(f, b)  BY <1>2, <2>2, <2>3
  <2>5. Bucket(f, b) \in Nat /\ Bucket(w, b) \in Nat
    BY <1>2, <1>3, <1>4, <1>8, <2>2, BucketType
  <2>. QED  BY <2>1, <2>4, <2>5
<1>10. Terms(f) = [i \in DataChars(f) |-> Bucket(f, Named(f, i))]  BY DEF Terms
<1>11. Terms(w) = [i \in DataChars(f) |-> Bucket(w, Named(f, i))]  BY <1>2, <1>3 DEF Terms
<1>12. IsFiniteSet(DataChars(f))
  <2>1. DataChars(f) \subseteq 1 .. Len(f) /\ Len(f) \in Nat  BY <1>6
  <2>. QED  BY <2>1, IntervalCount, FS_Subset
<1>13. Weights(Terms(f)) /\ Weights(Terms(w))
  <2>1. DOMAIN Terms(f) = DataChars(f) /\ DOMAIN Terms(w) = DataChars(f)  BY <1>10, <1>11
  <2>2. /\ \A i \in DataChars(f) : Terms(f)[i] \in Nat
        /\ \A i \in DataChars(f) : Terms(w)[i] \in Nat
    BY <1>9, <1>10, <1>11
  <2>. QED  BY <1>12, <2>1, <2>2 DEF Weights
<1>14. SumFunction(Terms(w)) <= SumFunction(Terms(f))
  <2>1. DOMAIN Terms(f) = DataChars(f) /\ DOMAIN Terms(w) = DataChars(f)  BY <1>10, <1>11
  <2>2. \A i \in DataChars(f) : Terms(w)[i] <= Terms(f)[i]  BY <1>9, <1>10, <1>11
  <2>. QED  BY <1>13, <2>1, <2>2, SumGrows
<1>15. SumFunction(Terms(w)) \in Nat /\ SumFunction(Terms(f)) \in Nat  BY <1>13, SumType
<1>16. /\ AirtimeOf(f) = r * SumFunction(Terms(f))
       /\ AirtimeOf(w) = r * SumFunction(Terms(w))
  BY <1>3, <1>4 DEF AirtimeOf, Terms
<1>. QED  BY <1>1, <1>5, <1>14, <1>15, <1>16, TimesMonotone

LEMMA SentReserved ==
    ASSUME NEW f \in Seq(Chars), NEW offset \in Nat, Admissible(f)
    PROVE  AirtimeOf(OnWire(Outgoing(Normalized(f), offset)))
              <= 1000 * FrameAirtimeMs(Normalized(f))
<1>1. PICK N : N = Normalized(f)  OBVIOUS
<1>2. WellFormed(N)  BY <1>1 DEF Admissible
<1>3. /\ N \in Seq(Chars) /\ Normalized(N) = N
      /\ B0FrameStatus(N) = "COMPENSABLE" /\ B0Shaped(N)
  BY <1>1, <1>2, AdmittedShape
<1>4. PICK x : x = AirtimeOf(OnWire(Outgoing(N, offset)))  OBVIOUS
<1>5. x \in Nat /\ AirtimeOf(N) \in Nat /\ x <= AirtimeOf(N)
  BY <1>2, <1>3, <1>4, SentShorter
<1>6. PICK y : y = IF Admissible(N) THEN AirtimeOf(N) ELSE MaxAirtime  OBVIOUS
<1>7. MaxAirtime \in Nat /\ AirtimeOf(N) <= MaxAirtime
  BY <1>2, B0Assumption DEF WellFormed
<1>8. y \in Nat /\ x <= y  BY <1>5, <1>6, <1>7
<1>9. FrameAirtimeMs(N) = (y + 999) \div 1000  BY <1>3, <1>6 DEF FrameAirtimeMs
<1>10. x <= 1000 * ((y + 999) \div 1000)  BY <1>5, <1>8, RoundedUp
<1>. QED  BY <1>1, <1>4, <1>9, <1>10

-----------------------------------------------------------------------------
LEMMA Joined ==
    ASSUME NEW S
    PROVE  \A s \in Seq(S), t \in Seq(S) : s \o t \in Seq(S)
OBVIOUS

LEMMA CommandGivens ==
    /\ \A d \in Codes : d.sync \in Nat /\ d.low \in Nat /\ d.high \in Nat /\ d.code \in Nat
    /\ \A d \in AdvancedCodes : d.length \in Nat /\ d.protocol \in Nat /\ d.code \in Seq(Chars)
    /\ \A ms \in BeepTimes : ms \in Nat
BY Zenon, CommandAssumption

(* A command is no bucket frame, whatever follows its action.              *)
LEMMA CommandPasses ==
    ASSUME NEW out \in Commands
    PROVE  B0FrameStatus(out) = "PASSTHROUGH"
<1>1. PICK action \in {LearnCommand, RfOut, SniffingOn, RfOutNew, BeepCommand, BucketAction},
           data \in Seq(0 .. 15) : out = Command(action, data)
  <2>1. << >> \in Seq(0 .. 15)  OBVIOUS
  <2>2. \A d \in Nat : Nibbles(d) \in Seq(0 .. 15)
    <3>. SUFFICES ASSUME NEW d \in Nat PROVE Nibbles(d) \in Seq(0 .. 15)  OBVIOUS
    <3>1. PICK n1, n2, n3, n4 :
              /\ n1 = (d \div 4096) % 16 /\ n2 = (d \div 256) % 16
              /\ n3 = (d \div 16) % 16 /\ n4 = d % 16
      OBVIOUS
    <3>2. n1 \in 0 .. 15 /\ n2 \in 0 .. 15 /\ n3 \in 0 .. 15 /\ n4 \in 0 .. 15
      BY <3>1, SMT
    <3>3. <<n1, n2, n3, n4>> \in Seq(0 .. 15)  BY <3>2
    <3>. QED  BY <3>1, <3>3 DEF Nibbles
  <2>3. \A n \in Nat : Byte(n) \in Seq(0 .. 15)
    <3>. SUFFICES ASSUME NEW n \in Nat PROVE Byte(n) \in Seq(0 .. 15)  OBVIOUS
    <3>1. PICK h, l : h = (n \div 16) % 16 /\ l = n % 16  OBVIOUS
    <3>2. h \in 0 .. 15 /\ l \in 0 .. 15  BY <3>1, SMT
    <3>3. <<h, l>> \in Seq(0 .. 15)  BY <3>2
    <3>. QED  BY <3>1, <3>3 DEF Byte
  <2>4. CASE out \in {Learn, StartAdvancedSniffing, StartBucketSniffing}
    BY <2>1, <2>4 DEF Learn, StartAdvancedSniffing, StartBucketSniffing
  <2>5. CASE \E ms \in BeepTimes : out = Beep(ms)
    <3>1. PICK ms \in BeepTimes : out = Beep(ms)  BY <2>5
    <3>2. ms \in Nat  BY Zenon, CommandGivens
    <3>. QED  BY <2>2, <3>1, <3>2 DEF Beep
  <2>6. CASE \E d \in Codes : out = SendCode(d)
    <3>1. PICK d \in Codes : out = SendCode(d)  BY <2>6
    <3>2. /\ d.sync \in Nat /\ d.low \in Nat /\ d.high \in Nat /\ d.code \in Nat
      BY Zenon, CommandGivens
    <3>3. HighWord(d.code) \in Nat
      <4>1. PICK c : c = d.code  OBVIOUS
      <4>2. c \in Nat  BY <3>2, <4>1
      <4>3. c \div 65536 \in Nat  BY <4>2, SMT
      <4>. QED  BY <4>1, <4>3 DEF HighWord
    <3>4. /\ Nibbles(d.sync) \in Seq(0 .. 15) /\ Nibbles(d.low) \in Seq(0 .. 15)
          /\ Nibbles(d.high) \in Seq(0 .. 15) /\ Nibbles(d.code) \in Seq(0 .. 15)
          /\ Byte(HighWord(d.code)) \in Seq(0 .. 15)
      BY Zenon, <2>2, <2>3, <3>2, <3>3
    <3>5. Nibbles(d.sync) \o Nibbles(d.low) \o Nibbles(d.high)
             \o Byte(HighWord(d.code)) \o Nibbles(d.code) \in Seq(0 .. 15)
      BY Zenon, <3>4, Joined
    <3>. QED  BY Zenon, <3>1, <3>5 DEF SendCode
  <2>7. CASE \E d \in AdvancedCodes : out = SendAdvancedCode(d)
    <3>1. PICK d \in AdvancedCodes : out = SendAdvancedCode(d)  BY <2>7
    <3>2. d.length \in Nat /\ d.protocol \in Nat /\ d.code \in Seq(Chars)
      BY Zenon, CommandGivens
    <3>3. Byte(d.length) \in Seq(0 .. 15) /\ Byte(d.protocol) \in Seq(0 .. 15)
      BY <2>3, <3>2
    <3>4. OnWire(d.code) \in Seq(0 .. 15)
      <4>1. PICK n : n = 2 * (Len(d.code) \div 2)  OBVIOUS
      <4>2. n \in Nat
        <5>1. PICK m : m = Len(d.code)  OBVIOUS
        <5>2. m \in Nat /\ n = 2 * (m \div 2)  BY <3>2, <4>1, <5>1
        <5>. QED  BY <5>2, SMT
      <4>3. OnWire(d.code) = [i \in 1 .. n |-> SerializedNibble(d.code[i])]
        BY <4>1 DEF OnWire
      <4>4. OnWire(d.code) \in [1 .. n -> 0 .. 15]  BY <4>3, WireDigit
      <4>. QED  BY <4>2, <4>4
    <3>5. Byte(d.length) \o Byte(d.protocol) \o OnWire(d.code) \in Seq(0 .. 15)
      BY <3>3, <3>4, Zenon, Joined
    <3>. QED  BY Zenon, <3>1, <3>5 DEF SendAdvancedCode
  <2>. QED  BY <2>4, <2>5, <2>6, <2>7 DEF Commands
<1>2. PICK high, low : high = action \div 16 /\ low = action % 16  OBVIOUS
<1>3. high \in 0 .. 15 /\ low \in 0 .. 15 /\ ~ (high = 11 /\ low = 0)
  BY <1>2, SMT DEF LearnCommand, RfOut, SniffingOn, RfOutNew, BeepCommand, BucketAction
<1>4. out = <<10, 10, high, low>> \o data \o <<5, 5>>  BY <1>1, <1>2 DEF Command
<1>5. out[3] = high /\ out[4] = low  BY <1>3, <1>4
<1>6. SerializedNibble(out[3]) = high /\ SerializedNibble(out[4]) = low
  BY <1>3, <1>5, HexDigit DEF HexNibble
<1>7. ~ HasMagic(out)
  <2>. SUFFICES ASSUME HasMagic(out) PROVE FALSE  OBVIOUS
  <2>1. PICK m : m = [i \in 1 .. 4 |-> SerializedNibble(out[i])]  OBVIOUS
  <2>2. m = <<10, 10, 11, 0>>  BY <2>1 DEF HasMagic
  <2>3. m[3] = 11 /\ m[4] = 0  BY <2>2
  <2>4. m[3] = high /\ m[4] = low  BY <1>6, <2>1
  <2>. QED  BY <1>3, <2>3, <2>4
<1>. QED  BY <1>7 DEF B0FrameStatus

(* What was written last is a command, or what send_raw makes of some      *)
(* frame.                                                                  *)
Sent(f, offset) ==
    [frame |-> f, offset |-> offset, out |-> OnWire(Outgoing(Trimmed(f), offset))]
WInv ==
    \/ written = NoFrame
    \/ \E out \in Commands : written = [frame |-> << >>, offset |-> 0, out |-> out]
    \/ \E f \in Seq(Chars), offset \in Nat : written = Sent(f, offset)

LEMMA NextWritten == WInv /\ [Next]_vars => WInv'
<1>. SUFFICES ASSUME WInv, [Next]_vars PROVE WInv'  OBVIOUS
<1>1. CASE SendRaw
  <2>1. PICK f \in Frames, offset \in Offsets : written' = Sent(f, offset)
    BY <1>1 DEF SendRaw, Sent
  <2>2. f \in Seq(Chars) /\ offset \in Nat  BY BridgeAssumption
  <2>. QED  BY <2>1, <2>2 DEF WInv
<1>2. CASE BeginsToSend
  BY <1>2 DEF BeginsToSend, WInv
<1>3. CASE SendCommand
  BY <1>3 DEF SendCommand, NoFrame, WInv
<1>4. CASE UNCHANGED written
  BY <1>4 DEF WInv
<1>5. ASSUME ~ SendRaw, ~ SendCommand, ~ BeginsToSend PROVE UNCHANGED written
  BY <1>5 DEF Next, vars, Loop, TimesOut, ReadsByte, StopSniffing, SendsByte, Elapse
<1>. QED  BY <1>1, <1>2, <1>3, <1>4, <1>5

LEMMA WrittenSafe == WInv => CarrierNeverStuck /\ AirReserved
<1>. SUFFICES ASSUME WInv PROVE CarrierNeverStuck /\ AirReserved  OBVIOUS
<1>a. Admissible(<< >>) =>
        AirtimeOf(OnWire(Outgoing(Normalized(<< >>), 0))) <= 1000 * FrameAirtimeMs(Normalized(<< >>))
  <2>1. << >> \in Seq(Chars) /\ 0 \in Nat  OBVIOUS
  <2>2. PICK f \in Seq(Chars), offset \in Nat : f = << >> /\ offset = 0  BY <2>1
  <2>3. Admissible(f) =>
          AirtimeOf(OnWire(Outgoing(Normalized(f), offset))) <= 1000 * FrameAirtimeMs(Normalized(f))
    BY SentReserved
  <2>. QED  BY <2>2, <2>3
<1>1. CASE written = NoFrame
  <2>1. written.out = << >> /\ written.frame = << >> /\ written.offset = 0
    BY <1>1 DEF NoFrame
  <2>2. OnWire(<< >>) = << >>
    <3>1. PICK e : e = << >>  OBVIOUS
    <3>2. Len(e) = 0  BY <3>1
    <3>3. DOMAIN OnWire(e) = {} /\ OnWire(e) = [i \in 1 .. 0 |-> SerializedNibble(e[i])]
      BY <3>2 DEF OnWire
    <3>. QED  BY <3>1, <3>3
  <2>3. CarrierNeverStuck  BY <2>1, <2>2, EmptyStatus DEF CarrierNeverStuck
  <2>4. AirReserved  BY <1>a, <2>1 DEF AirReserved
  <2>. QED  BY <2>3, <2>4
<1>3. CASE \E out \in Commands : written = [frame |-> << >>, offset |-> 0, out |-> out]
  <2>1. PICK out \in Commands : written = [frame |-> << >>, offset |-> 0, out |-> out]  BY <1>3
  <2>2. written.out = out /\ written.frame = << >> /\ written.offset = 0  BY <2>1
  <2>3. CarrierNeverStuck  BY <2>2, CommandPasses DEF CarrierNeverStuck
  <2>4. AirReserved  BY <1>a, <2>2 DEF AirReserved
  <2>. QED  BY <2>3, <2>4
<1>2. CASE \E f \in Seq(Chars), offset \in Nat : written = Sent(f, offset)
  <2>1. PICK f \in Seq(Chars), offset \in Nat : written = Sent(f, offset)  BY <1>2
  <2>2. /\ written.frame = f /\ written.offset = offset
        /\ written.out = OnWire(Outgoing(Trimmed(f), offset))
    BY <2>1 DEF Sent
  <2>3. Trimmed(f) \in Seq(Chars)  BY TrimmedType
  <2>4. CarrierNeverStuck  BY <2>2, <2>3, SentFloored DEF CarrierNeverStuck
  <2>5. AirReserved  BY <2>2, SentReserved DEF AirReserved
  <2>. QED  BY <2>4, <2>5
<1>. QED  BY <1>1, <1>2, <1>3 DEF WInv

LEMMA WrittenAlways == Spec => []WInv
<1>1. Init => WInv  BY DEF Init, WInv
<1>. QED  BY <1>1, NextWritten, PTL DEF Spec

(* No frame of any caller, at any offset, leaves send_raw with a bucket    *)
(* below the floor that its data names, unless the coprocessor does not    *)
(* take it for a bucket frame that adds up.                                *)
THEOREM CarrierIsNeverStuck == Spec => []CarrierNeverStuck
BY WrittenAlways, WrittenSafe, PTL

(* What frame_airtime_ms_ reserves covers every frame admission accepts,   *)
(* as it is sent, at every offset.                                         *)
THEOREM AirIsReserved == Spec => []AirReserved
BY WrittenAlways, WrittenSafe, PTL

-----------------------------------------------------------------------------
(***************************************************************************)
(* Only whole captures are published.  The state does not tell what the    *)
(* bytes in the buffer and on the line once were, so the invariant says    *)
(* that they can be described: there is a tag for the byte read last and   *)
(* for each byte on the line, in the order they were sent (Describes), the *)
(* buffer is what reading the tagged bytes leads to (Shape), and the       *)
(* captures published lead to captures sent before those still on the line *)
(* or in the buffer (Leading, AllAhead).  A buffer that is an A-OK capture *)
(* is then the head of a whole one (AokShape), a start byte or the timeout *)
(* finds it at its end, and it is the next to be published.                *)
(***************************************************************************)

(* Which byte of what the coprocessor sent this is: the place in it, and   *)
(* for a capture sent whole the place it has, or will have, in due.        *)
Pieces == Replies \cup Fragments
Whole(p) == p \in Replies /\ IsCapture(p)
Tag(t) ==
    /\ \/ t.piece = << >> /\ t.pos = 0
       \/ t.piece \in Pieces /\ t.pos \in 1 .. Len(t.piece)
    /\ t.index \in Nat
AtEnd(t) == t.pos = Len(t.piece)
Follows(t, u) ==
    \/ /\ ~ AtEnd(t)
       /\ u.piece = t.piece /\ u.pos = t.pos + 1 /\ u.index = t.index
    \/ /\ AtEnd(t)
       /\ u.piece \in Pieces /\ u.pos = 1 /\ (Whole(u.piece) => u.index # 0)

(* The place in due of a capture, of which this much has been sent.        *)
Placed(t) ==
    t.index # 0 =>
        /\ Whole(t.piece)
        /\ \/ t.index \in 1 .. Len(due) /\ due[t.index] = t.piece
           \/ /\ t.index = Len(due) + 1 /\ sending # Silence /\ ~ sending.spoiled
              /\ t.piece = sending.bytes /\ t.pos <= sending.out

Before(t, u) ==
    t.index # 0 /\ u.index # 0 =>
        t.index < u.index \/ (t.index = u.index /\ t.piece = u.piece /\ t.pos < u.pos)

(* The byte the coprocessor has sent last.                                 *)
SentLast(t) ==
    IF sending = Silence \/ sending.out = 0 THEN AtEnd(t)
    ELSE /\ t.piece = sending.bytes /\ t.pos = sending.out
         /\ t.index = IF Whole(t.piece) /\ ~ sending.spoiled THEN Len(due) + 1 ELSE 0

(* T describes the byte read last, and then those on the line.             *)
Describes(T) ==
    /\ DOMAIN T = 1 .. Len(line) + 1
    /\ \A i \in DOMAIN T : Tag(T[i]) /\ Placed(T[i])
    /\ \A i \in 1 .. Len(line) :
          line[i] = T[i + 1].piece[T[i + 1].pos] /\ Follows(T[i], T[i + 1])
    /\ \A i, j \in DOMAIN T : i < j => Before(T[i], T[j])
    /\ SentLast(T[Len(line) + 1])

(* The buffer holds one piece, so far.                                     *)
Aligned(b, t) ==
    /\ t.piece \in Pieces /\ t.pos = Len(b)
    /\ \A k \in 1 .. Len(b) : b[k] = t.piece[k]
    /\ Whole(t.piece) => t.index # 0

(* It starts within a piece, and is no capture.                            *)
Stray(b, t) ==
    /\ Len(b) = 1
    /\ t.piece \in Pieces /\ t.pos > 1 /\ t.piece[t.pos] = Start

(* It starts as a capture, and another piece has started in it at i.       *)
CutShort(b, i) ==
    \E f \in Fragments : Len(f) = i - 1 /\ \A k \in 1 .. i - 1 : b[k] = f[k]
Joining(b, t, i) ==
    /\ Len(b) \in {i, i + 1} => CutShort(b, i)
    /\ Len(b) = i + 1 =>
          /\ t.piece \in Pieces
          /\ \/ t.pos = 1 /\ b[i + 1] = Start
             \/ t.pos = 2 /\ b[i + 1] = t.piece[2]
    /\ Len(b) \notin {i, i + 1} => ~ Leads(b)
Crosses(b, t, i) ==
    /\ b[i] = Start
    /\ IF i = Len(b) THEN t.piece \in Pieces /\ t.pos = 1 ELSE b[i + 1] \in Ack .. BucketAction
    /\ i = HeaderSize(b) => Joining(b, t, i)

Shape(b, t) ==
    \/ Aligned(b, t)
    \/ Stray(b, t)
    \/ Len(b) > 1 /\ ~ IsCapture(b)
    \/ IsCapture(b) /\ \E i \in 3 .. Len(b) : Crosses(b, t, i)

(* What the buffer holds, given the byte read last.                        *)
Holds(t) ==
    rxBuffer # << >> =>
        /\ Status(rxBuffer) \in {"INCOMPLETE", "CANDIDATE"}
        /\ candidate = (Status(rxBuffer) = "CANDIDATE")
        /\ Shape(rxBuffer, t)

(* f leads from each published capture to the one sent, and those on the   *)
(* line or in the buffer come after.                                       *)
Leading(f, list, all) ==
    /\ f \in [Captures(list) -> Captures(all)]
    /\ \A i \in Captures(list) : list[i] = all[f[i]]
    /\ \A i, j \in Captures(list) : i < j => f[i] < f[j]
Ahead(f, t) == t.index # 0 => \A i \in DOMAIN f : f[i] < t.index
AllAhead(f, T) ==
    /\ \A j \in 2 .. Len(line) + 1 : Ahead(f, T[j])
    /\ rxBuffer # << >> /\ Aligned(rxBuffer, T[1]) => Ahead(f, T[1])

(* While a piece is being sent the line is never quiet for long.           *)
Quiet ==
    sending # Silence /\ sending.out > 0 /\ line = << >> /\ rxBuffer # << >> =>
        quiet <= 1 /\ (fed => quiet = 0)
Spoils ==
    /\ sending.spoiled \in BOOLEAN
    /\ sending.spoiled => sending.out > 0

(* The lists hold sequences of bytes.                                      *)
ListType == due \in Seq(Seq(0 .. 255)) /\ reported \in Seq(Seq(0 .. 255))

(* There is such a description, and such an f.                             *)
InPlace == \E T, f :
    /\ Describes(T) /\ Holds(T[1])
    /\ Leading(f, reported, due) /\ AllAhead(f, T)
-----------------------------------------------------------------------------
(* What the shape of an A-OK frame says of its bytes.                      *)

LEMMA Element ==
    ASSUME NEW S, NEW s \in Seq(S)
    PROVE  Len(s) \in Nat /\ \A k \in 1 .. Len(s) : s[k] \in S
OBVIOUS

LEMMA PulsesOf ==
    ASSUME NEW raw \in Seq(0 .. 255), NEW m \in Nat, m > 0,
           HeaderSize(raw) \in Nat, HeaderSize(raw) + m <= Len(raw)
    PROVE  /\ raw[HeaderSize(raw) + m] \in 0 .. 255
           /\ Pulse(raw, 2 * m - 1) = raw[HeaderSize(raw) + m] \div 16
           /\ Pulse(raw, 2 * m) = raw[HeaderSize(raw) + m] % 16
<1>1. PICK h : h = HeaderSize(raw)  OBVIOUS
<1>2. h \in Nat /\ h + m \in 1 .. Len(raw)  BY <1>1
<1>3. raw[h + m] \in 0 .. 255  BY <1>2, Element
<1>4. /\ ((2 * m - 1) + 1) \div 2 = m /\ (2 * m + 1) \div 2 = m
      /\ (2 * m - 1) % 2 = 1 /\ (2 * m) % 2 = 0
  BY SMT
<1>5. Pulse(raw, 2 * m - 1) = raw[h + m] \div 16  BY <1>1, <1>4 DEF Pulse
<1>6. Pulse(raw, 2 * m) = raw[h + m] % 16  BY <1>1, <1>4 DEF Pulse
<1>. QED  BY <1>1, <1>3, <1>5, <1>6

(* A byte that is a start byte, or an action, is a high pulse first.       *)
LEMMA ActionIsHigh ==
    \A x \in Ack .. BucketAction : x \div 16 >= 8 /\ x \div 16 \in Nat /\ x > 127 /\ x # Stop
<1>. SUFFICES ASSUME NEW x \in Ack .. BucketAction
              PROVE  x \div 16 >= 8 /\ x \div 16 \in Nat /\ x > 127 /\ x # Stop
  OBVIOUS
<1>. QED  BY SMT DEF Ack, BucketAction, Stop

(* The pulses of an A-OK frame.                                            *)
Pulsed(raw, s, bits) ==
    LET end == s + 1 + 2 * bits IN
    /\ s \in 1 .. 3 /\ bits \in Nat /\ bits > 0
    /\ PulseCount(raw) - end \in 0 .. 2
    /\ SyncPair(raw, s)
    /\ \A i \in 1 .. PulseCount(raw) : Defined(raw, i)
    /\ \A i \in end + 1 .. PulseCount(raw) : Long(raw, i)
    /\ \A k \in 1 .. bits :
          /\ ~ High(raw, s + 2 * k) /\ High(raw, s + 2 * k + 1)
          /\ Duration(raw, s + 2 * k + 1) < BitMax

LEMMA AokPulses ==
    ASSUME NEW raw, IsAokBucketFrame(raw)
    PROVE  \E s, bits : Pulsed(raw, s, bits)
<1>1. PICK s \in 1 .. 1 + Padding, trailer \in {1, 2} :
          FirstSync(raw, s) /\ Encodes(raw, s, trailer)
  BY DEF IsAokBucketFrame
<1>2. PICK bits : bits = PayloadBits + trailer  OBVIOUS
<1>3. bits \in Nat /\ bits > 0  BY <1>2, B1Assumption
<1>4. s \in 1 .. 3  BY <1>1 DEF Padding
<1>5. PulseCount(raw) - (s + 1 + 2 * bits) \in 0 .. 2
  BY <1>1, <1>2 DEF Encodes, Padding
<1>6. \A i \in s + 1 + 2 * bits + 1 .. PulseCount(raw) : Long(raw, i)
  BY <1>1, <1>2 DEF Encodes
<1>7. \A k \in 1 .. bits :
          /\ ~ High(raw, s + 2 * k) /\ High(raw, s + 2 * k + 1)
          /\ Duration(raw, s + 2 * k + 1) < BitMax
  BY <1>1, <1>2 DEF Encodes
<1>8. SyncPair(raw, s)  BY <1>1 DEF FirstSync
<1>9. \A i \in 1 .. PulseCount(raw) : Defined(raw, i)  BY DEF IsAokBucketFrame
<1>10. Pulsed(raw, s, bits)  BY <1>3, <1>4, <1>5, <1>6, <1>7, <1>8, <1>9 DEF Pulsed
<1>. QED  BY <1>10

LEMMA AokSize ==
    ASSUME NEW raw \in Seq(0 .. 255), IsAokBucketFrame(raw)
    PROVE  /\ raw[3] \in 3 .. 8 /\ HeaderSize(raw) = 3 + 2 * raw[3]
           /\ HeaderSize(raw) \in Nat /\ PulseBytes(raw) \in Nat /\ PulseBytes(raw) >= 3
           /\ Len(raw) = HeaderSize(raw) + PulseBytes(raw) + 1
           /\ PulseCount(raw) = 2 * PulseBytes(raw)
           /\ raw[Len(raw)] = Stop
           /\ \A b \in 0 .. raw[3] - 1 : BucketOf(raw, b) <= MaxDuration
<1>1. raw[3] \in 3 .. 8  BY DEF IsAokBucketFrame, MinBuckets, MaxBuckets
<1>2. PulseBytes(raw) \in MinPulseBytes .. MaxPulseBytes  BY DEF IsAokBucketFrame
<1>3. PulseBytes(raw) \in Int /\ PulseBytes(raw) >= 3
  BY <1>2, B1Assumption DEF MinPulseBytes, MaxPulseBytes
<1>4. HeaderSize(raw) \in Nat /\ Len(raw) \in Nat  BY <1>1 DEF HeaderSize
<1>5. Len(raw) = HeaderSize(raw) + PulseBytes(raw) + 1  BY <1>4 DEF PulseBytes
<1>. QED  BY <1>1, <1>3, <1>4, <1>5 DEF HeaderSize, PulseCount, IsAokBucketFrame, TableStands

(* What an A-OK frame has behind its table.                                *)
LEMMA AokLeads ==
    ASSUME NEW raw \in Seq(0 .. 255), IsAokBucketFrame(raw)
    PROVE  Leads(raw)
<1>1. PICK s, bits : Pulsed(raw, s, bits)  BY AokPulses
<1>2. PICK c : c = PulseCount(raw)  OBVIOUS
<1>3. c \in Nat /\ c >= 6  BY <1>2, AokSize
<1>4. s \in 1 .. 3 /\ bits \in Nat /\ bits > 0  BY <1>1 DEF Pulsed
<1>5. \A i \in s .. s + 1 : Defined(raw, i)
  <2>1. \A i \in 1 .. c : Defined(raw, i)  BY <1>1, <1>2 DEF Pulsed
  <2>2. \A i \in s .. s + 1 : i \in 1 .. c  BY <1>3, <1>4
  <2>. QED  BY <2>1, <2>2
<1>6. ~ High(raw, s + 2)
  <2>1. 1 \in 1 .. bits /\ 2 * 1 = 2  BY <1>4
  <2>. QED  BY <1>1, <2>1 DEF Pulsed
<1>7. SyncPair(raw, s)  BY <1>1 DEF Pulsed
<1>. QED  BY <1>4, <1>5, <1>6, <1>7 DEF Leads, Padding

(* In an A-OK frame a start byte with an action behind it can only be the  *)
(* low byte of the last bucket.                                            *)
LEMMA NoStartWithin ==
    ASSUME NEW raw \in Seq(0 .. 255), IsAokBucketFrame(raw),
           NEW i \in 3 .. Len(raw) - 1, raw[i] = Start, raw[i + 1] \in Ack .. BucketAction
    PROVE  i = HeaderSize(raw)
<1>1. PICK n, h, c, l : n = raw[3] /\ h = HeaderSize(raw) /\ c = PulseBytes(raw) /\ l = Len(raw)
  OBVIOUS
<1>2. /\ n \in 3 .. 8 /\ h = 3 + 2 * n /\ c \in Nat /\ l = h + c + 1
      /\ PulseCount(raw) = 2 * c /\ raw[l] = Stop
      /\ \A b \in 0 .. n - 1 : BucketOf(raw, b) <= MaxDuration
  BY <1>1, AokSize
<1>3. i \in Nat /\ i >= 3 /\ i <= l - 1  BY <1>1, <1>2
<1>4. \A k \in 1 .. l : raw[k] \in 0 .. 255  BY <1>1, Element
<1>5. raw[i + 1] >= Ack /\ raw[i + 1] # Stop  BY ActionIsHigh DEF Ack
<1>6. ASSUME NEW b \in 0 .. n - 1, raw[4 + 2 * b] > 127 PROVE FALSE
  <2>1. PICK x, y : x = raw[4 + 2 * b] /\ y = raw[5 + 2 * b]  OBVIOUS
  <2>2. x \in 0 .. 255 /\ y \in 0 .. 255  BY <1>2, <1>4, <2>1
  <2>3. BucketOf(raw, b) = 256 * x + y  BY <2>1 DEF BucketOf
  <2>4. x > 127  BY <1>6, <2>1
  <2>5. 256 * x + y > 32767  BY <2>2, <2>4
  <2>6. PICK d : d = BucketOf(raw, b)  OBVIOUS
  <2>7. d <= 32767  BY <1>2, <2>6 DEF MaxDuration
  <2>8. d > 32767  BY <2>3, <2>5, <2>6
  <2>9. d \in Nat  BY <2>2, <2>3, <2>6
  <2>. QED  BY <2>7, <2>8, <2>9
<1>7. CASE i = 3
  <2>1. n = 170  BY <1>1, <1>7 DEF Start
  <2>. QED  BY <1>2, <2>1
<1>8. CASE i > 3 /\ i < h
  <2>1. PICK b \in 0 .. n - 1 : i = 4 + 2 * b \/ (i = 5 + 2 * b /\ b + 1 < n)
    <3>1. PICK b : b = (i - 4) \div 2  OBVIOUS
    <3>2. b \in 0 .. n - 1 /\ (i = 4 + 2 * b \/ (i = 5 + 2 * b /\ b + 1 < n))
      BY <1>2, <1>3, <1>8, <3>1, SMT
    <3>. QED  BY <3>2
  <2>2. CASE i = 4 + 2 * b
    BY <1>6, <2>2 DEF Start
  <2>3. CASE i = 5 + 2 * b /\ b + 1 < n
    <3>1. b + 1 \in 0 .. n - 1 /\ i + 1 = 4 + 2 * (b + 1)  BY <1>2, <2>3
    <3>2. raw[4 + 2 * (b + 1)] > 127  BY <3>1, ActionIsHigh
    <3>. QED  BY <1>6, <3>1, <3>2
  <2>. QED  BY <2>1, <2>2, <2>3
<1>9. CASE i > h
  <2>1. PICK m : m = i - h  OBVIOUS
  <2>2. m \in Nat /\ m > 0 /\ m <= c /\ i = h + m  BY <1>2, <1>3, <1>9, <2>1
  <2>3. PICK s, bits : Pulsed(raw, s, bits)  BY AokPulses
  <2>4. PICK end : end = s + 1 + 2 * bits  OBVIOUS
  <2>a. end \in Nat  BY <2>3, <2>4 DEF Pulsed
  <2>5. /\ s \in 1 .. 3 /\ bits \in Nat /\ bits > 0
        /\ 2 * c - end \in 0 .. 2
        /\ SyncPair(raw, s)
        /\ \A k \in 1 .. bits :
              /\ ~ High(raw, s + 2 * k) /\ High(raw, s + 2 * k + 1)
              /\ Duration(raw, s + 2 * k + 1) < BitMax
        /\ \A k \in end + 1 .. 2 * c : Long(raw, k)
    BY <1>2, <2>3, <2>4 DEF Pulsed
  <2>6. Pulse(raw, 2 * m - 1) = 10 /\ Pulse(raw, 2 * m) = 10
    <3>1. /\ Pulse(raw, 2 * m - 1) = raw[h + m] \div 16
          /\ Pulse(raw, 2 * m) = raw[h + m] % 16
      <4>1. h \in Nat /\ h + m <= l  BY <1>2, <2>2
      <4>2. h + m <= Len(raw)  BY <1>1, <4>1
      <4>. QED  BY <1>1, <2>2, <4>1, <4>2, PulsesOf
    <3>2. raw[h + m] = 170  BY <2>2 DEF Start
    <3>3. 170 \div 16 = 10 /\ 170 % 16 = 10  BY SMT
    <3>. QED  BY <3>1, <3>2, <3>3
  <2>7. High(raw, 2 * m - 1) /\ High(raw, 2 * m)  BY <2>6 DEF High
  <2>8. ~ High(raw, s)  BY <2>5 DEF SyncPair
  <2>9. ASSUME NEW k \in 0 .. bits, 2 * m - 1 = s + 2 * k \/ 2 * m = s + 2 * k PROVE FALSE
    <3>1. CASE k = 0  BY <2>5, <2>7, <2>8, <2>9, <3>1
    <3>2. CASE k # 0
      <4>1. k \in 1 .. bits  BY <2>5, <3>2
      <4>. QED  BY <2>5, <2>7, <2>9, <4>1
    <3>. QED  BY <3>1, <3>2
  <2>10. CASE 2 * m < s
    <3>1. m = 1 /\ s = 3  BY <2>2, <2>5, <2>10
    <3>2. raw[h + 2] \in Ack .. BucketAction  BY <1>2, <2>2, <3>1
    <3>3. 2 <= c  BY <1>2, <2>4, <2>5, <3>1
    <3>4. Pulse(raw, 3) = raw[h + 2] \div 16
      <4>1. PICK k \in Nat : k = 2  OBVIOUS
      <4>2. k > 0 /\ h \in Nat /\ h + k <= l /\ 2 * k - 1 = 3
        BY <1>2, <3>3, <4>1
      <4>a. h + k <= Len(raw)  BY <1>1, <4>2
      <4>3. Pulse(raw, 2 * k - 1) = raw[h + k] \div 16  BY <1>1, <4>2, <4>a, PulsesOf
      <4>. QED  BY <4>1, <4>2, <4>3
    <3>5. High(raw, 3)  BY <3>2, <3>4, ActionIsHigh DEF High
    <3>. QED  BY <2>8, <3>1, <3>5
  <2>11. CASE 2 * m = s
    <3>1. 0 \in 0 .. bits /\ 2 * m = s + 2 * 0  BY <2>5, <2>11
    <3>. QED  BY <2>9, <3>1
  <2>12. CASE 2 * m > s /\ 2 * m - 1 < end
    <3>1. PICK k : k = (2 * m - s) \div 2  OBVIOUS
    <3>2. k \in 0 .. bits /\ (2 * m - 1 = s + 2 * k \/ 2 * m = s + 2 * k)
      BY <2>2, <2>4, <2>5, <2>12, <3>1, SMT
    <3>. QED  BY <2>9, <3>2
  <2>13. CASE 2 * m - 1 = end
    <3>1. bits \in 1 .. bits /\ end = s + 2 * bits + 1  BY <2>4, <2>5
    <3>2. Duration(raw, end) < BitMax  BY <2>5, <3>1
    <3>3. 2 * m \in end + 1 .. 2 * c
      <4>1. 2 * m \in Nat /\ 2 * m = end + 1 /\ 2 * m <= 2 * c  BY <1>2, <2>2, <2>a, <2>13
      <4>. QED  BY <1>2, <2>a, <4>1
    <3>4. Long(raw, 2 * m)  BY <2>5, <3>3
    <3>5. Duration(raw, 2 * m) = Duration(raw, end)  BY <2>6, <2>13 DEF Duration
    <3>6. Duration(raw, end) >= SyncMin  BY <3>4, <3>5 DEF Long
    <3>7. Duration(raw, end) \in Int
      <4>1. Duration(raw, end) = BucketOf(raw, 2)  BY <2>6, <2>13 DEF Duration
      <4>2. BucketOf(raw, 2) = 256 * raw[8] + raw[9]  BY DEF BucketOf
      <4>3. raw[8] \in 0 .. 255 /\ raw[9] \in 0 .. 255  BY <1>2, <1>4
      <4>4. \A x, y \in 0 .. 255 : 256 * x + y \in Int  OBVIOUS
      <4>5. 256 * raw[8] + raw[9] \in Int  BY <4>3, <4>4
      <4>. QED  BY <4>1, <4>2, <4>5
    <3>. QED  BY <3>2, <3>6, <3>7 DEF SyncMin, BitMax
  <2>14. CASE 2 * m - 1 > end
    <3>1. m = c
      <4>1. 2 * c <= end + 2  BY <1>2, <2>5, <2>a
      <4>. QED  BY <1>2, <2>2, <2>a, <2>14, <4>1
    <3>2. i + 1 = l  BY <1>2, <2>2, <3>1
    <3>. QED  BY <1>2, <1>5, <3>2
  <2>. QED  BY <2>2, <2>4, <2>5, <2>10, <2>11, <2>12, <2>13, <2>14
<1>. QED  BY <1>1, <1>2, <1>3, <1>7, <1>8, <1>9

LEMMA HeaderNat == \A x \in 0 .. 255 : 3 + 2 * x \in Nat
OBVIOUS

(* Whether there is a pair of sync pulses is settled by the first two      *)
(* bytes of pulses.                                                        *)
LEMMA LeadsEarly ==
    ASSUME NEW a \in Seq(0 .. 255), NEW b \in Seq(0 .. 255), Leads(a),
           Len(b) > 2, HeaderSize(b) + 2 <= Len(b), HeaderSize(b) + 2 <= Len(a),
           \A k \in 1 .. HeaderSize(b) + 2 : a[k] = b[k]
    PROVE  Leads(b)
<1>1. PICK h, n : h = HeaderSize(b) /\ n = b[3]  OBVIOUS
<1>2. n \in 0 .. 255
  <2>1. 3 \in 1 .. Len(b)  BY Element
  <2>. QED  BY <1>1, <2>1, Element
<1>3. h = 3 + 2 * n /\ h \in Nat
  <2>1. h = 3 + 2 * n  BY <1>1 DEF HeaderSize
  <2>3. 3 + 2 * n \in Nat  BY <1>2, HeaderNat
  <2>. QED  BY <2>1, <2>3
<1>4. a[3] = n /\ HeaderSize(a) = h
  <2>1. 3 \in 1 .. h + 2  BY <1>2, <1>3
  <2>. QED  BY <1>1, <1>3, <2>1 DEF HeaderSize
<1>5. \A k \in 1 .. h + 2 : a[k] = b[k] /\ a[k] \in 0 .. 255
  <2>. SUFFICES ASSUME NEW k \in 1 .. h + 2 PROVE a[k] = b[k] /\ a[k] \in 0 .. 255  OBVIOUS
  <2>1. a[k] = b[k]  BY <1>1
  <2>2. h + 2 <= Len(a) /\ Len(a) \in Nat  BY <1>1, Element
  <2>3. k \in 1 .. Len(a)  BY <1>3, <2>2
  <2>. QED  BY <2>1, <2>3, Element
<1>6. \A i \in 1 .. 4 : Pulse(a, i) = Pulse(b, i) /\ Pulse(b, i) \in Nat
  <2>1. ASSUME NEW m \in 1 .. 2
        PROVE  /\ Pulse(a, 2 * m - 1) = a[h + m] \div 16 /\ Pulse(a, 2 * m) = a[h + m] % 16
               /\ Pulse(b, 2 * m - 1) = b[h + m] \div 16 /\ Pulse(b, 2 * m) = b[h + m] % 16
    <3>1. m \in Nat /\ m > 0 /\ h + m <= Len(a) /\ h + m <= Len(b)  BY <1>1, <1>3
    <3>2. Pulse(a, 2 * m - 1) = a[h + m] \div 16 /\ Pulse(a, 2 * m) = a[h + m] % 16
      BY <1>3, <1>4, <3>1, PulsesOf
    <3>3. Pulse(b, 2 * m - 1) = b[h + m] \div 16 /\ Pulse(b, 2 * m) = b[h + m] % 16
      BY <1>1, <1>3, <3>1, PulsesOf
    <3>. QED  BY <3>2, <3>3
  <2>a. /\ 1 \in 1 .. 2 /\ 2 \in 1 .. 2
        /\ 2 * 1 - 1 = 1 /\ 2 * 1 = 2 /\ 2 * 2 - 1 = 3 /\ 2 * 2 = 4
    OBVIOUS
  <2>2. /\ Pulse(a, 1) = a[h + 1] \div 16 /\ Pulse(a, 2) = a[h + 1] % 16
        /\ Pulse(b, 1) = b[h + 1] \div 16 /\ Pulse(b, 2) = b[h + 1] % 16
    BY <2>1, <2>a
  <2>3. /\ Pulse(a, 3) = a[h + 2] \div 16 /\ Pulse(a, 4) = a[h + 2] % 16
        /\ Pulse(b, 3) = b[h + 2] \div 16 /\ Pulse(b, 4) = b[h + 2] % 16
    BY <2>1, <2>a
  <2>4. h + 1 \in 1 .. h + 2 /\ h + 2 \in 1 .. h + 2  BY <1>3
  <2>5. a[h + 1] = b[h + 1] /\ a[h + 2] = b[h + 2] /\ a[h + 1] \in 0 .. 255 /\ a[h + 2] \in 0 .. 255
    BY <1>5, <2>4
  <2>6. \A x \in 0 .. 255 : x \div 16 \in Nat /\ x % 16 \in Nat  BY SMT
  <2>7. \A i \in 1 .. 4 : i = 1 \/ i = 2 \/ i = 3 \/ i = 4  OBVIOUS
  <2>8. /\ Pulse(a, 1) = Pulse(b, 1) /\ Pulse(b, 1) \in Nat
        /\ Pulse(a, 2) = Pulse(b, 2) /\ Pulse(b, 2) \in Nat
    BY <2>2, <2>5, <2>6, Zenon
  <2>9. /\ Pulse(a, 3) = Pulse(b, 3) /\ Pulse(b, 3) \in Nat
        /\ Pulse(a, 4) = Pulse(b, 4) /\ Pulse(b, 4) \in Nat
    BY <2>3, <2>5, <2>6, Zenon
  <2>. QED  BY <2>7, <2>8, <2>9, Zenon
<1>7. \A i \in 1 .. 4 : (Defined(a, i) <=> Defined(b, i)) /\ (High(a, i) <=> High(b, i))
  BY <1>1, <1>4, <1>6 DEF Defined, High
<1>8. ASSUME NEW i \in 1 .. 4, Defined(b, i) PROVE Long(a, i) <=> Long(b, i)
  <2>1. PICK p : p = Pulse(b, i) % 8  OBVIOUS
  <2>2. p \in Nat /\ p < n
    <3>1. Pulse(b, i) \in Nat  BY <1>6
    <3>2. Pulse(b, i) % 8 \in Nat  BY <3>1, SMT
    <3>. QED  BY <1>1, <1>8, <2>1, <3>2 DEF Defined
  <2>3. 4 + 2 * p \in 1 .. h + 2 /\ 5 + 2 * p \in 1 .. h + 2
    BY <1>2, <1>3, <2>2
  <2>4. BucketOf(a, p) = BucketOf(b, p)
    BY <1>5, <2>3 DEF BucketOf
  <2>5. Duration(a, i) = Duration(b, i)  BY <1>6, <2>1, <2>4 DEF Duration
  <2>. QED  BY <2>5 DEF Long
<1>9. PICK s \in 1 .. 3 :
          /\ \A i \in s .. s + 1 : Defined(a, i)
          /\ SyncPair(a, s)
          /\ s = 2 => ~ High(a, s + 2)
  BY DEF Leads, Padding
<1>10. s \in 1 .. 4 /\ s + 1 \in 1 .. 4 /\ s \in s .. s + 1 /\ s + 1 \in s .. s + 1
       /\ (s = 2 => s + 2 \in 1 .. 4) /\ \A i \in s .. s + 1 : i \in 1 .. 4
  OBVIOUS
<1>11. \A i \in s .. s + 1 : Defined(b, i)  BY <1>7, <1>9, <1>10
<1>12. SyncPair(b, s)  BY <1>7, <1>8, <1>9, <1>10, <1>11 DEF SyncPair
<1>13. s = 2 => ~ High(b, s + 2)  BY <1>7, <1>9, <1>10
<1>. QED  BY <1>11, <1>12, <1>13 DEF Leads, Padding

-----------------------------------------------------------------------------
(* What the coprocessor sends.                                             *)

LEMMA PieceBytes ==
    ASSUME NEW p \in Pieces
    PROVE  /\ p \in Seq(0 .. 255) /\ Len(p) \in Nat /\ Len(p) > 0
           /\ \A k \in 1 .. Len(p) : p[k] \in 0 .. 255
           /\ p[1] = Start
           /\ Len(p) > 1 => p[2] \in Ack .. BucketAction
           /\ \A k \in 2 .. Len(p) - 1 : p[k] = Start => p[k + 1] # BucketAction
<1>1. p \in Seq(0 .. 255) /\ p # << >>  BY BridgeAssumption DEF Pieces
<1>2. Len(p) \in Nat /\ Len(p) > 0  BY <1>1
<1>3. \A k \in 1 .. Len(p) : p[k] \in 0 .. 255  BY <1>1, Element
<1>4. /\ p[1] = Start
      /\ Len(p) > 1 => p[2] \in 160 .. BucketAction
      /\ \A i \in 2 .. Len(p) - 1 : ~ (p[i] = Start /\ p[i + 1] = BucketAction)
  BY Zenon, CoprocessorAssumption DEF Pieces
<1>5. Len(p) > 1 => p[2] \in Ack .. BucketAction  BY <1>4 DEF Ack
<1>. QED  BY <1>1, <1>2, <1>3, <1>4, <1>5

LEMMA WholePiece ==
    ASSUME NEW p, Whole(p)
    PROVE  /\ p \in Pieces /\ Len(p) > 2 /\ IsAokBucketFrame(p)
           /\ \A k \in 3 .. Len(p) - 1 : IsAokBucketFrame(SubSeq(p, 1, k)) => p[k + 1] # Start
BY Zenon, CoprocessorAssumption DEF Whole, Pieces

LEMMA CutPiece ==
    ASSUME NEW p \in Fragments, IsCapture(p)
    PROVE  /\ \A k \in 3 .. Len(p) : ~ IsAokBucketFrame(SubSeq(p, 1, k))
           /\ Len(p) > 2 /\ Len(p) + 1 = HeaderSize(p) =>
                 \A q \in Pieces : Len(q) > 2 => ~ Leads(p \o SubSeq(q, 1, 3))
BY Zenon, CoprocessorAssumption DEF Pieces

LEMMA TagPiece ==
    ASSUME NEW t, NEW u, Tag(t), Tag(u), Follows(t, u)
    PROVE  /\ u.piece \in Pieces /\ u.pos \in 1 .. Len(u.piece) /\ Len(u.piece) \in Nat
           /\ u.piece[u.pos] \in 0 .. 255
           /\ \/ /\ t.piece \in Pieces /\ t.pos \in 1 .. Len(t.piece) /\ t.pos < Len(t.piece)
                 /\ u.piece = t.piece /\ u.pos = t.pos + 1 /\ u.index = t.index
              \/ /\ AtEnd(t) /\ u.pos = 1 /\ u.piece[u.pos] = Start
                 /\ Whole(u.piece) => u.index # 0
<1>1. CASE AtEnd(t) /\ u.piece \in Pieces /\ u.pos = 1 /\ (Whole(u.piece) => u.index # 0)
  BY <1>1, PieceBytes
<1>2. CASE ~ AtEnd(t) /\ u.piece = t.piece /\ u.pos = t.pos + 1 /\ u.index = t.index
  <2>1. t.piece \in Pieces /\ t.pos \in 1 .. Len(t.piece)
    <3>1. t.piece = << >> /\ t.pos = 0 => AtEnd(t)  BY DEF AtEnd
    <3>. QED  BY <1>2, <3>1 DEF Tag
  <2>2. PICK l, k : l = Len(t.piece) /\ k = t.pos  OBVIOUS
  <2>3. l \in Nat /\ k \in 1 .. l /\ k # l  BY <1>2, <2>1, <2>2, PieceBytes DEF AtEnd
  <2>4. k < l /\ k + 1 \in 1 .. l  BY <2>3
  <2>5. t.piece[k + 1] \in 0 .. 255  BY <2>1, <2>2, <2>4, PieceBytes
  <2>. QED  BY <1>2, <2>1, <2>2, <2>3, <2>4, <2>5
<1>. QED  BY <1>1, <1>2 DEF Follows

(* Two actions in a row, one of them a start byte, are no pair of sync     *)
(* pulses with a low pulse next.                                           *)
LEMMA NoLead ==
    ASSUME NEW raw \in Seq(0 .. 255), HeaderSize(raw) \in Nat, HeaderSize(raw) + 2 <= Len(raw),
           raw[HeaderSize(raw) + 1] \in Ack .. BucketAction,
           raw[HeaderSize(raw) + 2] \in Ack .. BucketAction,
           raw[HeaderSize(raw) + 1] = Start \/ raw[HeaderSize(raw) + 2] = Start
    PROVE  ~ Leads(raw)
<1>1. PICK h, x, y : h = HeaderSize(raw) /\ x = raw[h + 1] /\ y = raw[h + 2]  OBVIOUS
<1>2. ASSUME NEW m \in 1 .. 2
      PROVE  Pulse(raw, 2 * m - 1) = raw[h + m] \div 16 /\ Pulse(raw, 2 * m) = raw[h + m] % 16
  <2>1. m \in Nat /\ m > 0  OBVIOUS
  <2>2. h \in Nat /\ h + 2 <= Len(raw) /\ Len(raw) \in Nat  BY <1>1, Element
  <2>3. h + m <= Len(raw)  BY <2>1, <2>2
  <2>. QED  BY <1>1, <2>1, <2>2, <2>3, PulsesOf
<1>3. /\ 1 \in 1 .. 2 /\ 2 \in 1 .. 2
      /\ 2 * 1 - 1 = 1 /\ 2 * 1 = 2 /\ 2 * 2 - 1 = 3 /\ 2 * 2 = 4
  OBVIOUS
<1>4. /\ Pulse(raw, 1) = x \div 16 /\ Pulse(raw, 2) = x % 16
      /\ Pulse(raw, 3) = y \div 16 /\ Pulse(raw, 4) = y % 16
  BY <1>1, <1>2, <1>3
<1>5. High(raw, 1) /\ High(raw, 3)
  <2>1. x \in Ack .. BucketAction /\ y \in Ack .. BucketAction  BY <1>1
  <2>2. x \div 16 >= 8 /\ y \div 16 >= 8  BY <2>1, ActionIsHigh
  <2>. QED  BY <1>4, <2>2 DEF High
<1>6. High(raw, 2) \/ High(raw, 4)
  <2>1. x = 170 \/ y = 170  BY <1>1 DEF Start
  <2>2. 170 % 16 >= 8  BY SMT
  <2>. QED  BY <1>4, <2>1, <2>2 DEF High
<1>7. ASSUME NEW s \in 1 .. 3, SyncPair(raw, s), s = 2 => ~ High(raw, s + 2)
      PROVE  FALSE
  <2>1. ~ High(raw, s)  BY <1>7 DEF SyncPair
  <2>2. s = 1 \/ s = 2 \/ s = 3  OBVIOUS
  <2>3. s = 2  BY <1>5, <2>1, <2>2
  <2>4. ~ High(raw, 2) /\ ~ High(raw, 4)  BY <1>7, <2>1, <2>3
  <2>. QED  BY <1>6, <2>4
<1>. QED  BY <1>7 DEF Leads, Padding

-----------------------------------------------------------------------------
(* A byte more in the buffer.                                              *)

Longer(c, b, byte) ==
    /\ b \in Seq(0 .. 255) /\ byte \in 0 .. 255 /\ c \in Seq(0 .. 255)
    /\ Len(b) \in Nat /\ Len(c) = Len(b) + 1
    /\ \A k \in 1 .. Len(b) : c[k] = b[k]
    /\ c[Len(b) + 1] = byte

LEMMA AppendLonger ==
    ASSUME NEW b \in Seq(0 .. 255), NEW byte \in 0 .. 255
    PROVE  Longer(Append(b, byte), b, byte)
<1>1. PICK S : S = 0 .. 255  OBVIOUS
<1>2. b \in Seq(S) /\ byte \in S  BY <1>1
<1>3. PICK c : c = Append(b, byte)  OBVIOUS
<1>4. /\ c \in Seq(S) /\ Len(c) = Len(b) + 1 /\ Len(b) \in Nat
      /\ \A k \in 1 .. Len(b) : c[k] = b[k]
      /\ c[Len(b) + 1] = byte
  BY <1>2, <1>3
<1>. QED  BY <1>1, <1>3, <1>4 DEF Longer

LEMMA EmptySeqLen == ASSUME NEW S, NEW s \in Seq(S), Len(s) = 0 PROVE s = << >>
OBVIOUS

LEMMA Starts ==
    ASSUME NEW t, NEW u, Tag(t), Tag(u), Follows(t, u), u.piece[u.pos] = Start
    PROVE  Shape(<<Start>>, u)
<1>1. PICK c : c = <<Start>>  OBVIOUS
<1>2. Len(c) = 1 /\ c[1] = Start  BY <1>1
<1>3. u.piece \in Pieces /\ u.pos \in 1 .. Len(u.piece) /\ Len(u.piece) \in Nat  BY TagPiece
<1>4. CASE u.pos = 1
  <2>1. Whole(u.piece) => u.index # 0
    <3>1. ~ (t.piece \in Pieces /\ t.pos \in 1 .. Len(t.piece) /\ u.pos = t.pos + 1)
      <4>. SUFFICES ASSUME t.piece \in Pieces, t.pos \in 1 .. Len(t.piece), u.pos = t.pos + 1
                    PROVE  FALSE
        OBVIOUS
      <4>1. Len(t.piece) \in Nat  BY PieceBytes
      <4>. QED  BY <1>4, <4>1
    <3>2. \/ t.piece \in Pieces /\ t.pos \in 1 .. Len(t.piece) /\ u.pos = t.pos + 1
          \/ Whole(u.piece) => u.index # 0
      BY TagPiece
    <3>. QED  BY <3>1, <3>2
  <2>2. \A k \in 1 .. Len(c) : c[k] = u.piece[k]
    <3>1. u.piece[1] = Start  BY <1>4
    <3>. QED  BY <1>2, <3>1
  <2>3. Aligned(c, u)  BY <1>2, <1>3, <1>4, <2>1, <2>2 DEF Aligned
  <2>. QED  BY <1>1, <2>3 DEF Shape
<1>5. CASE u.pos # 1
  <2>1. PICK k, l : k = u.pos /\ l = Len(u.piece)  OBVIOUS
  <2>2. k > 1  BY <1>3, <1>5, <2>1
  <2>3. Stray(c, u)  BY <1>2, <1>3, <2>1, <2>2 DEF Stray
  <2>. QED  BY <1>1, <2>3 DEF Shape
<1>. QED  BY <1>4, <1>5

LEMMA AokStatus ==
    ASSUME NEW b \in Seq(0 .. 255), Len(b) > 2, IsCapture(b)
    PROVE  /\ IsAokBucketFrame(b) => Status(b) \in {"CANDIDATE", "COMPLETE"}
           /\ Status(b) \in {"CANDIDATE", "COMPLETE"} => IsAokBucketFrame(b)
           /\ Status(b) = "COMPLETE" => PulseBytes(b) = MaxPulseBytes
<1>1. Len(b) \in Nat  BY Element
<1>2. Status(b) = B1FrameStatus(b)
  <2>1. PICK n : n = Len(b)  OBVIOUS
  <2>2. n \in Nat /\ n > 2  BY <1>1, <2>1
  <2>3. n # 1 /\ n # 2  BY <2>2
  <2>4. Len(b) # 1 /\ Len(b) # 2  BY <2>1, <2>3
  <2>. QED  BY <2>4 DEF Status
<1>3. ASSUME IsAokBucketFrame(b) PROVE B1FrameStatus(b) \in {"CANDIDATE", "COMPLETE"}
  <2>1. PICK n, p : n = HeaderSize(b) /\ p = PulseBytes(b)  OBVIOUS
  <2>2. n \in Nat /\ p \in Nat /\ Len(b) = n + p + 1  BY <1>3, <2>1, AokSize
  <2>3. ~ (Len(b) < n)  BY <2>2
  <2>4. MinPulseBytes \in Nat /\ MaxPulseBytes \in Nat
    BY B1Assumption DEF MinPulseBytes, MaxPulseBytes
  <2>5. p \in MinPulseBytes .. MaxPulseBytes  BY <1>3, <2>1 DEF IsAokBucketFrame
  <2>6. ~ (p > MaxPulseBytes) /\ ~ (p < MinPulseBytes)  BY <2>2, <2>4, <2>5
  <2>7. b[3] \in MinBuckets .. MaxBuckets /\ TableStands(b)  BY <1>3 DEF IsAokBucketFrame
  <2>. QED  BY <1>3, <2>1, <2>3, <2>6, <2>7 DEF B1FrameStatus
<1>4. B1FrameStatus(b) \in {"CANDIDATE", "COMPLETE"} => IsAokBucketFrame(b)
  BY DEF B1FrameStatus
<1>5. B1FrameStatus(b) = "COMPLETE" => PulseBytes(b) = MaxPulseBytes
  BY DEF B1FrameStatus
<1>. QED  BY <1>2, <1>3, <1>4, <1>5

LEMMA HeadOf ==
    ASSUME NEW S, NEW s \in Seq(S), NEW n \in 1 .. Len(s)
    PROVE  /\ SubSeq(s, 1, n) \in Seq(S) /\ Len(SubSeq(s, 1, n)) = n
           /\ \A k \in 1 .. n : SubSeq(s, 1, n)[k] = s[k]
OBVIOUS

LEMMA ConcatAt ==
    ASSUME NEW S, NEW f \in Seq(S), NEW r \in Seq(S)
    PROVE  \A k \in 1 .. Len(f) + Len(r) :
              (f \o r)[k] = IF k <= Len(f) THEN f[k] ELSE r[k - Len(f)]
OBVIOUS

LEMMA JoinedBytes ==
    ASSUME NEW S, NEW i \in Nat, i > 0, NEW f \in Seq(S), Len(f) = i - 1,
           NEW r \in Seq(S), Len(r) = 3
    PROVE  /\ f \o r \in Seq(S) /\ Len(f \o r) = i + 2
           /\ \A k \in 1 .. i - 1 : (f \o r)[k] = f[k]
           /\ (f \o r)[i] = r[1] /\ (f \o r)[i + 1] = r[2] /\ (f \o r)[i + 2] = r[3]
<1>1. f \o r \in Seq(S)  OBVIOUS
<1>a. Len(f \o r) = Len(f) + Len(r)  BY ConcatLength
<1>b. \A k \in 1 .. Len(f) + Len(r) :
         (f \o r)[k] = IF k <= Len(f) THEN f[k] ELSE r[k - Len(f)]
  BY ConcatAt
<1>2. Len(f \o r) = (i - 1) + 3  BY <1>a
<1>3. \A k \in 1 .. (i - 1) + 3 :
         (f \o r)[k] = IF k <= i - 1 THEN f[k] ELSE r[k - (i - 1)]
  BY <1>b
<1>4. \A k \in 1 .. i - 1 : (f \o r)[k] = f[k]  BY <1>3
<1>5. /\ i \in 1 .. (i - 1) + 3 /\ ~ (i <= i - 1) /\ i - (i - 1) = 1
      /\ i + 1 \in 1 .. (i - 1) + 3 /\ ~ (i + 1 <= i - 1) /\ (i + 1) - (i - 1) = 2
      /\ i + 2 \in 1 .. (i - 1) + 3 /\ ~ (i + 2 <= i - 1) /\ (i + 2) - (i - 1) = 3
  OBVIOUS
<1>6. (f \o r)[i] = r[1] /\ (f \o r)[i + 1] = r[2] /\ (f \o r)[i + 2] = r[3]
  BY <1>3, <1>5
<1>7. (i - 1) + 3 = i + 2  OBVIOUS
<1>. QED  BY <1>1, <1>2, <1>4, <1>6, <1>7

(* A piece that is in the buffer whole.                                    *)
LEMMA AllOfIt ==
    ASSUME NEW b \in Seq(0 .. 255), NEW t, Aligned(b, t), AtEnd(t)
    PROVE  b = t.piece
<1>1. t.piece \in Seq(0 .. 255)  BY PieceBytes DEF Aligned
<1>2. PICK p : p = t.piece  OBVIOUS
<1>3. p \in Seq(0 .. 255) /\ Len(p) = Len(b) /\ \A k \in 1 .. Len(b) : b[k] = p[k]
  BY <1>1, <1>2 DEF Aligned, AtEnd
<1>4. b = p  BY <1>3
<1>. QED  BY <1>2, <1>4

(* ... or in part.                                                         *)
LEMMA PartOfIt ==
    ASSUME NEW b \in Seq(0 .. 255), NEW t, Tag(t), Aligned(b, t), b # << >>
    PROVE  /\ t.piece \in Pieces /\ Len(b) \in 1 .. Len(t.piece)
           /\ b = SubSeq(t.piece, 1, Len(b))
<1>1. PICK p, n : p = t.piece /\ n = Len(b)  OBVIOUS
<1>2. p \in Seq(0 .. 255) /\ p \in Pieces /\ t.pos = n /\ \A k \in 1 .. n : b[k] = p[k]
  BY <1>1, PieceBytes DEF Aligned
<1>3. n \in Nat /\ n > 0  BY <1>1
<1>4. n \in 1 .. Len(p)  BY <1>1, <1>2, <1>3 DEF Tag
<1>5. Len(p) \in Nat  BY <1>2, Element
<1>6. SubSeq(p, 1, n) \in Seq(0 .. 255) /\ Len(SubSeq(p, 1, n)) = n
      /\ \A k \in 1 .. n : SubSeq(p, 1, n)[k] = p[k]
  BY <1>2, <1>3, <1>4, <1>5, HeadOf
<1>7. b = SubSeq(p, 1, n)  BY <1>1, <1>2, <1>6
<1>. QED  BY <1>1, <1>2, <1>4, <1>7

(* The head of a cut capture, with the start of what comes next for the    *)
(* last byte of its table.                                                 *)
LEMMA NoLeadBehind ==
    ASSUME NEW c \in Seq(0 .. 255), NEW i \in Nat, Len(c) = i + 2, IsCapture(c),
           i > 3, i = HeaderSize(c), CutShort(c, i), c[i] = Start,
           NEW q \in Pieces, Len(q) > 2, c[i + 1] = q[2], c[i + 2] = q[3]
    PROVE  ~ Leads(c)
<1>1. PICK f \in Fragments : Len(f) = i - 1 /\ \A k \in 1 .. i - 1 : c[k] = f[k]
  BY DEF CutShort
<1>2. f \in Pieces /\ f \in Seq(0 .. 255)  BY <1>1, PieceBytes DEF Pieces
<1>3. q \in Seq(0 .. 255) /\ q[1] = Start /\ Len(q) \in Nat  BY PieceBytes
<1>4. PICK r : r = SubSeq(q, 1, 3)  OBVIOUS
<1>5. r \in Seq(0 .. 255) /\ Len(r) = 3 /\ \A k \in 1 .. 3 : r[k] = q[k]
  <2>1. PICK n \in 1 .. Len(q) : n = 3  BY <1>3
  <2>. QED  BY <1>3, <1>4, <2>1, HeadOf
<1>6. PICK d : d = f \o r  OBVIOUS
<1>7. /\ d \in Seq(0 .. 255) /\ Len(d) = i + 2
      /\ \A k \in 1 .. i - 1 : d[k] = f[k]
      /\ d[i] = r[1] /\ d[i + 1] = r[2] /\ d[i + 2] = r[3]
  <2>1. PICK S : S = 0 .. 255  OBVIOUS
  <2>2. f \in Seq(S) /\ r \in Seq(S)  BY <1>2, <1>5, <2>1, Zenon
  <2>3. i > 0  OBVIOUS
  <2>4. Len(f) = i - 1 /\ Len(r) = 3  BY <1>1, <1>5
  <2>5. /\ f \o r \in Seq(S) /\ Len(f \o r) = i + 2
        /\ \A k \in 1 .. i - 1 : (f \o r)[k] = f[k]
        /\ (f \o r)[i] = r[1] /\ (f \o r)[i + 1] = r[2] /\ (f \o r)[i + 2] = r[3]
    BY <2>2, <2>3, <2>4, JoinedBytes
  <2>. QED  BY <1>6, <2>1, <2>5
<1>8. c[i] = d[i] /\ c[i + 1] = d[i + 1] /\ c[i + 2] = d[i + 2]
  <2>1. 1 \in 1 .. 3 /\ 2 \in 1 .. 3 /\ 3 \in 1 .. 3  OBVIOUS
  <2>. QED  BY <1>3, <1>5, <1>7, <2>1
<1>9. \A k \in 1 .. i + 2 : c[k] = d[k]
  <2>. SUFFICES ASSUME NEW k \in 1 .. i + 2 PROVE c[k] = d[k]  OBVIOUS
  <2>1. k \in 1 .. i - 1 \/ k = i \/ k = i + 1 \/ k = i + 2  OBVIOUS
  <2>. QED  BY <1>1, <1>7, <1>8, <2>1
<1>10. 2 \in 1 .. i - 1 /\ 3 \in 1 .. i - 1  OBVIOUS
<1>11. f[2] = c[2] /\ f[3] = c[3] /\ d[3] = c[3]  BY <1>1, <1>7, <1>10
<1>12. IsCapture(f)
  <2>1. i - 1 >= 2  OBVIOUS
  <2>. QED  BY <1>1, <1>11, <2>1 DEF IsCapture
<1>13. HeaderSize(f) = i /\ HeaderSize(d) = i  BY <1>11 DEF HeaderSize
<1>14. Len(f) > 2 /\ Len(f) + 1 = HeaderSize(f)
  <2>1. i - 1 > 2 /\ (i - 1) + 1 = i  OBVIOUS
  <2>. QED  BY <1>1, <1>13, <2>1
<1>15. ~ Leads(d)  BY <1>4, <1>6, <1>12, <1>14, CutPiece
<1>16. Leads(c) => Leads(d)
  <2>1. i + 2 > 2 /\ i + 2 <= i + 2  OBVIOUS
  <2>2. /\ Len(d) > 2 /\ HeaderSize(d) + 2 <= Len(d) /\ HeaderSize(d) + 2 <= Len(c)
        /\ \A k \in 1 .. HeaderSize(d) + 2 : c[k] = d[k]
    BY <1>7, <1>9, <1>13, <2>1
  <2>. QED  BY <1>7, <2>2, LeadsEarly
<1>. QED  BY <1>15, <1>16

LEMMA JoiningGrows ==
    ASSUME NEW b, NEW byte, NEW c, Longer(c, b, byte),
           NEW t, NEW u, Tag(t), Tag(u), Follows(t, u), byte = u.piece[u.pos],
           IsCapture(b), NEW i \in 3 .. Len(b), Crosses(b, t, i), i = HeaderSize(c)
    PROVE  Joining(c, u, i)
<1>1. PICK n : n = Len(b)  OBVIOUS
<1>2. /\ b \in Seq(0 .. 255) /\ byte \in 0 .. 255
      /\ n \in Nat /\ i \in Nat /\ i >= 3 /\ i <= n /\ Len(c) = n + 1 /\ c \in Seq(0 .. 255)
      /\ \A k \in 1 .. n : c[k] = b[k]
      /\ c[n + 1] = byte
  <2>1. /\ b \in Seq(0 .. 255) /\ byte \in 0 .. 255
        /\ Len(b) \in Nat /\ Len(c) = Len(b) + 1 /\ c \in Seq(0 .. 255)
        /\ \A k \in 1 .. Len(b) : c[k] = b[k]
        /\ c[Len(b) + 1] = byte
    BY DEF Longer
  <2>. QED  BY <1>1, <2>1
<1>3. b[3] = c[3] /\ b[2] = c[2]
  <2>1. 3 \in 1 .. n /\ 2 \in 1 .. n  BY <1>2
  <2>. QED  BY <1>2, <2>1
<1>4. HeaderSize(b) = HeaderSize(c)  BY <1>3 DEF HeaderSize
<1>5. Joining(b, t, i)  BY <1>4 DEF Crosses
<1>6. b[i] = Start /\ c[i] = Start /\ i \in 1 .. n
  <2>1. i \in 1 .. n  BY <1>2
  <2>. QED  BY <1>2, <2>1 DEF Crosses
<1>7. i > 3
  <2>1. CASE i = 3
    <3>1. c[3] = 170  BY <1>6, <2>1 DEF Start
    <3>2. i = 3 + 2 * 170  BY <3>1 DEF HeaderSize
    <3>. QED  BY <2>1, <3>2
  <2>. QED  BY <1>2, <2>1
<1>8. CASE n = i
  <2>1. t.piece \in Pieces /\ t.pos = 1  BY <1>1, <1>8 DEF Crosses
  <2>2. CutShort(b, i)  BY <1>1, <1>5, <1>8 DEF Joining
  <2>3. CutShort(c, i)
    <3>1. \A k \in 1 .. i - 1 : k \in 1 .. n  BY <1>2
    <3>. QED  BY <1>2, <2>2, <3>1 DEF CutShort
  <2>4. Len(c) = i + 1  BY <1>2, <1>8
  <2>5. /\ u.piece \in Pieces
        /\ \/ u.pos = 1 /\ byte = Start
           \/ u.pos = 2 /\ byte = u.piece[2]
    <3>1. u.piece \in Pieces /\ ((u.pos = 1 /\ u.piece[u.pos] = Start) \/ u.pos = t.pos + 1)
      BY TagPiece
    <3>. QED  BY <2>1, <3>1
  <2>6. c[i + 1] = byte  BY <1>2, <1>8
  <2>. QED  BY <1>2, <2>3, <2>4, <2>5, <2>6 DEF Joining
<1>9. CASE n = i + 1
  <2>2. /\ CutShort(b, i) /\ t.piece \in Pieces
        /\ ((t.pos = 1 /\ b[i + 1] = Start) \/ (t.pos = 2 /\ b[i + 1] = t.piece[2]))
    <3>1. Len(b) = i + 1 /\ Len(b) \in {i, i + 1}  BY <1>1, <1>9
    <3>2. CutShort(b, i)  BY <1>5, <3>1 DEF Joining
    <3>3. /\ t.piece \in Pieces
          /\ ((t.pos = 1 /\ b[i + 1] = Start) \/ (t.pos = 2 /\ b[i + 1] = t.piece[2]))
      BY <1>5, <3>1 DEF Joining
    <3>. QED  BY <3>2, <3>3
  <2>3. CutShort(c, i)
    <3>1. \A k \in 1 .. i - 1 : k \in 1 .. n  BY <1>2
    <3>. QED  BY <1>2, <2>2, <3>1 DEF CutShort
  <2>4. c[i + 1] = b[i + 1] /\ c[i + 2] = byte /\ Len(c) = i + 2 /\ Len(c) \notin {i, i + 1}
    <3>1. i + 1 \in 1 .. n /\ n + 1 = i + 2 /\ i + 2 # i /\ i + 2 # i + 1  BY <1>2, <1>9
    <3>. QED  BY <1>2, <3>1
  <2>5. b[i + 1] \in Ack .. BucketAction
    <3>1. i # n  BY <1>2, <1>9
    <3>. QED  BY <1>1, <3>1 DEF Crosses
  <2>6. IsCapture(c)
    <3>1. n + 1 >= 2  BY <1>2
    <3>. QED  BY <1>2, <1>3, <3>1 DEF IsCapture
  <2>7. i + 2 <= i + 2  BY <1>2
  <2>8. HeaderSize(c) \in Nat /\ HeaderSize(c) + 2 <= Len(c)
        /\ c[HeaderSize(c) + 1] = b[i + 1] /\ c[HeaderSize(c) + 2] = byte
    BY <1>2, <2>4, <2>7
  <2>9. CASE u.pos = 1 /\ u.piece[u.pos] = Start
    <3>1. byte = Start /\ byte \in Ack .. BucketAction
      BY <2>9 DEF Start, Ack, BucketAction
    <3>2. ~ Leads(c)  BY <1>2, <2>5, <2>8, <3>1, NoLead
    <3>. QED  BY <2>4, <3>2 DEF Joining
  <2>10. CASE /\ t.piece \in Pieces /\ t.pos \in 1 .. Len(t.piece) /\ t.pos < Len(t.piece)
              /\ u.piece = t.piece /\ u.pos = t.pos + 1
    <3>1. Len(t.piece) \in Nat  BY PieceBytes
    <3>2. CASE t.pos = 1 /\ b[i + 1] = Start
      <4>1. byte \in Ack .. BucketAction
        <5>1. Len(t.piece) > 1 /\ byte = t.piece[2]  BY <2>10, <3>1, <3>2
        <5>. QED  BY <2>10, <5>1, PieceBytes
      <4>2. ~ Leads(c)  BY <1>2, <2>5, <2>8, <3>2, <4>1, NoLead
      <4>. QED  BY <2>4, <4>2 DEF Joining
    <3>3. CASE t.pos = 2 /\ b[i + 1] = t.piece[2]
      <4>1. Len(t.piece) > 2 /\ byte = t.piece[3]  BY <2>10, <3>1, <3>3
      <4>2. c[i + 1] = t.piece[2] /\ c[i + 2] = t.piece[3]  BY <2>4, <3>3, <4>1
      <4>3. ~ Leads(c)  BY <1>2, <1>6, <1>7, <2>3, <2>4, <2>6, <2>10, <4>1, <4>2, NoLeadBehind
      <4>. QED  BY <2>4, <4>3 DEF Joining
    <3>. QED  BY <2>2, <3>2, <3>3
  <2>. QED  BY <2>9, <2>10, TagPiece
<1>10. CASE n > i + 1
  <2>a. n # i /\ n # i + 1  BY <1>2, <1>10
  <2>1. ~ Leads(b)  BY <1>1, <1>5, <2>a DEF Joining
  <2>2. Leads(c) => Leads(b)
    <3>1. /\ n > 2 /\ i + 2 <= n /\ i + 2 <= n + 1 /\ \A k \in 1 .. i + 2 : k \in 1 .. n
      BY <1>2, <1>10
    <3>2. /\ Len(b) > 2 /\ HeaderSize(b) + 2 <= Len(b) /\ HeaderSize(b) + 2 <= Len(c)
          /\ \A k \in 1 .. HeaderSize(b) + 2 : c[k] = b[k]
      BY <1>1, <1>2, <1>4, <3>1
    <3>. QED  BY <1>2, <3>2, LeadsEarly
  <2>3. n + 1 # i /\ n + 1 # i + 1  BY <1>2, <1>10
  <2>. QED  BY <1>2, <2>1, <2>2, <2>3 DEF Joining
<1>. QED  BY <1>2, <1>8, <1>9, <1>10

(* Where the byte read fits, the buffer keeps its shape.                   *)
LEMMA ShapeGrows ==
    ASSUME NEW b, NEW byte, NEW c, Longer(c, b, byte), b # << >>,
           NEW t, NEW u, Tag(t), Tag(u), Follows(t, u), byte = u.piece[u.pos],
           Shape(b, t), Status(b) \in {"INCOMPLETE", "CANDIDATE"},
           ~ (Status(b) = "CANDIDATE" /\ byte = Start)
    PROVE  Shape(c, u)
<1>1. PICK n : n = Len(b)  OBVIOUS
<1>2. /\ b \in Seq(0 .. 255) /\ c \in Seq(0 .. 255) /\ byte \in 0 .. 255
      /\ n \in Nat /\ Len(c) = n + 1
      /\ \A k \in 1 .. n : c[k] = b[k]
      /\ c[n + 1] = byte
  BY <1>1 DEF Longer
<1>3. n > 0 /\ Len(c) > 1
  <2>1. n # 0  BY <1>1, <1>2, EmptySeqLen
  <2>. QED  BY <1>2, <2>1
<1>4. /\ u.piece \in Pieces /\ u.pos \in 1 .. Len(u.piece) /\ Len(u.piece) \in Nat
      /\ \/ /\ t.piece \in Pieces /\ t.pos \in 1 .. Len(t.piece) /\ t.pos < Len(t.piece)
            /\ u.piece = t.piece /\ u.pos = t.pos + 1 /\ u.index = t.index
         \/ /\ AtEnd(t) /\ u.pos = 1 /\ byte = Start
            /\ Whole(u.piece) => u.index # 0
  BY TagPiece
<1>5. n > 1 => (IsCapture(c) <=> IsCapture(b)) /\ b[2] = c[2]
  <2>1. n > 1 => n >= 2 /\ n + 1 >= 2 /\ 2 \in 1 .. n  BY <1>2
  <2>. QED  BY <1>1, <1>2, <2>1 DEF IsCapture
<1>6. n = 1 => (IsCapture(c) <=> byte = BucketAction)
  <2>1. n = 1 => n + 1 >= 2 /\ n + 1 = 2  OBVIOUS
  <2>. QED  BY <1>2, <2>1 DEF IsCapture
<1>7. CASE Aligned(b, t)
  <2>1. CASE /\ t.piece \in Pieces /\ t.pos < Len(t.piece)
             /\ u.piece = t.piece /\ u.pos = t.pos + 1 /\ u.index = t.index
    <3>1. t.pos = n  BY <1>1, <1>7 DEF Aligned
    <3>2. byte = u.piece[n + 1]  BY <2>1, <3>1
    <3>3. \A k \in 1 .. n + 1 : c[k] = u.piece[k]
      <4>. SUFFICES ASSUME NEW k \in 1 .. n + 1 PROVE c[k] = u.piece[k]  OBVIOUS
      <4>1. k \in 1 .. n \/ k = n + 1  BY <1>2
      <4>. QED  BY <1>1, <1>2, <1>7, <2>1, <3>2, <4>1 DEF Aligned
    <3>4. Aligned(c, u)  BY <1>2, <1>7, <2>1, <3>1, <3>3 DEF Aligned
    <3>. QED  BY <3>4 DEF Shape
  <2>2. CASE AtEnd(t) /\ u.pos = 1 /\ byte = Start
    <3>1. CASE ~ IsCapture(c)  BY <1>3, <3>1 DEF Shape
    <3>2. CASE IsCapture(c)
      <4>1. n > 1
        <5>1. n # 1  BY <1>6, <2>2, <3>2 DEF Start, BucketAction
        <5>. QED  BY <1>2, <1>3, <5>1
      <4>2. IsCapture(b)  BY <1>5, <3>2, <4>1
      <4>3. b = t.piece /\ t.piece \in Pieces  BY <1>2, <1>7, <2>2, AllOfIt DEF Aligned
      <4>4. CASE t.piece \in Replies
        <5>1. Whole(b)  BY <4>2, <4>3, <4>4 DEF Whole
        <5>2. Len(b) > 2 /\ IsAokBucketFrame(b)  BY <5>1, WholePiece
        <5>3. Status(b) \in {"CANDIDATE", "COMPLETE"}  BY <1>2, <4>2, <5>2, AokStatus
        <5>. QED  BY <2>2, <5>3
      <4>5. CASE t.piece \in Fragments
        <5>1. n + 1 \in 3 .. n + 1 /\ (n + 1) - 1 = n  BY <1>2, <4>1
        <5>2. CutShort(c, n + 1)
          <6>1. b \in Fragments /\ Len(b) = (n + 1) - 1 /\ \A k \in 1 .. (n + 1) - 1 : c[k] = b[k]
            BY <1>1, <1>2, <4>3, <4>5, <5>1
          <6>. QED  BY <6>1 DEF CutShort
        <5>3. Joining(c, u, n + 1)
          <6>1. n + 1 # (n + 1) + 1  BY <1>2
          <6>2. Len(c) # (n + 1) + 1 /\ Len(c) \in {n + 1, (n + 1) + 1}  BY <1>2, <6>1
          <6>. QED  BY <5>2, <6>2 DEF Joining
        <5>4. Crosses(c, u, n + 1)  BY <1>2, <1>4, <2>2, <5>3 DEF Crosses
        <5>. QED  BY <1>2, <3>2, <5>1, <5>4 DEF Shape
      <4>. QED  BY <4>3, <4>4, <4>5 DEF Pieces
    <3>. QED  BY <3>1, <3>2
  <2>. QED  BY <1>4, <2>1, <2>2
<1>8. CASE Stray(b, t)
  <2>1. n = 1 /\ t.piece \in Pieces /\ t.piece[t.pos] = Start /\ t.pos > 1
    BY <1>1, <1>8 DEF Stray
  <2>2. byte # BucketAction
    <3>1. CASE byte = Start  BY <3>1 DEF Start, BucketAction
    <3>2. CASE /\ t.pos \in 1 .. Len(t.piece) /\ t.pos < Len(t.piece)
               /\ u.piece = t.piece /\ u.pos = t.pos + 1
      <4>1. Len(t.piece) \in Nat  BY <2>1, PieceBytes
      <4>2. t.pos \in 2 .. Len(t.piece) - 1  BY <2>1, <3>2, <4>1
      <4>. QED  BY <2>1, <3>2, <4>2, PieceBytes
    <3>. QED  BY <1>4, <3>1, <3>2
  <2>3. ~ IsCapture(c)  BY <1>6, <2>1, <2>2
  <2>. QED  BY <1>3, <2>3 DEF Shape
<1>9. CASE Len(b) > 1 /\ ~ IsCapture(b)
  BY <1>1, <1>3, <1>5, <1>9 DEF Shape
<1>10. CASE IsCapture(b) /\ \E i \in 3 .. Len(b) : Crosses(b, t, i)
  <2>1. PICK i \in 3 .. Len(b) : Crosses(b, t, i)  BY <1>10
  <2>2. i \in 1 .. n /\ i \in 3 .. Len(c) /\ n > 1 /\ n + 1 # i
    <3>1. i \in 1 .. n /\ i \in 3 .. n + 1 /\ n > 1 /\ n + 1 # i  BY <1>1, <1>2
    <3>. QED  BY <1>2, <3>1
  <2>3. IsCapture(c)  BY <1>5, <1>10, <2>2
  <2>4. c[i] = Start  BY <1>2, <2>1, <2>2 DEF Crosses
  <2>5. c[i + 1] \in Ack .. BucketAction
    <3>1. CASE i = n
      <4>1. t.piece \in Pieces /\ t.pos = 1  BY <1>1, <2>1, <3>1 DEF Crosses
      <4>2. byte \in Ack .. BucketAction
        <5>1. CASE byte = Start  BY <5>1 DEF Start, Ack, BucketAction
        <5>2. CASE t.pos < Len(t.piece) /\ u.piece = t.piece /\ u.pos = t.pos + 1
          <6>1. Len(t.piece) > 1 /\ byte = t.piece[2]  BY <4>1, <5>2
          <6>. QED  BY <4>1, <6>1, PieceBytes
        <5>. QED  BY <1>4, <5>1, <5>2
      <4>. QED  BY <1>2, <3>1, <4>2
    <3>2. CASE i # n
      <4>1. i + 1 \in 1 .. n  BY <1>2, <2>2, <3>2
      <4>2. b[i + 1] \in Ack .. BucketAction  BY <1>1, <2>1, <3>2 DEF Crosses
      <4>. QED  BY <1>2, <4>1, <4>2
    <3>. QED  BY <3>1, <3>2
  <2>6. i = HeaderSize(c) => Joining(c, u, i)  BY <1>10, <2>1, JoiningGrows
  <2>7. Crosses(c, u, i)  BY <1>2, <2>2, <2>4, <2>5, <2>6 DEF Crosses
  <2>. QED  BY <2>2, <2>3, <2>7 DEF Shape
<1>. QED  BY <1>7, <1>8, <1>9, <1>10 DEF Shape

(* An A-OK capture in the buffer is the head of a complete capture.        *)
LEMMA AokShape ==
    ASSUME NEW b \in Seq(0 .. 255), NEW t, Tag(t), Shape(b, t),
           IsCapture(b), Len(b) > 2, IsAokBucketFrame(b)
    PROVE  /\ Aligned(b, t) /\ Whole(t.piece)
           /\ Len(b) \in 3 .. Len(t.piece) /\ b = SubSeq(t.piece, 1, Len(b))
<1>1. PICK n : n = Len(b)  OBVIOUS
<1>2. n \in Nat /\ n > 2  BY <1>1, Element
<1>3. Aligned(b, t)
  <2>1. CASE Stray(b, t)
    BY <1>1, <1>2, <2>1 DEF Stray
  <2>2. CASE \E i \in 3 .. Len(b) : Crosses(b, t, i)
    <3>1. PICK i \in 3 .. Len(b) : Crosses(b, t, i)  BY <2>2
    <3>2. b[i] = Start /\ b[n] = Stop  BY <1>1, <3>1, AokSize DEF Crosses
    <3>3. i # n  BY <3>2 DEF Start, Stop
    <3>4. b[i + 1] \in Ack .. BucketAction  BY <1>1, <3>1, <3>3 DEF Crosses
    <3>5. i \in 3 .. Len(b) - 1
      <4>1. i \in 3 .. n /\ i # n  BY <1>1, <3>3
      <4>2. i \in 3 .. n - 1  BY <1>2, <4>1
      <4>. QED  BY <1>1, <4>2
    <3>6. i = HeaderSize(b)  BY <3>2, <3>4, <3>5, NoStartWithin
    <3>7. n # i /\ n # i + 1
      <4>1. PICK p : p = PulseBytes(b)  OBVIOUS
      <4>2. p \in Nat /\ p >= 3 /\ n = i + p + 1 /\ i \in Nat
        BY <1>1, <3>6, <4>1, AokSize
      <4>. QED  BY <4>2
    <3>8. ~ Leads(b)  BY <1>1, <3>1, <3>6, <3>7 DEF Crosses, Joining
    <3>. QED  BY <3>8, AokLeads
  <2>. QED  BY <2>1, <2>2 DEF Shape
<1>4. b # << >>
  <2>1. Len(<< >>) = 0  OBVIOUS
  <2>. QED  BY <1>1, <1>2, <2>1
<1>5. t.piece \in Pieces /\ n \in 1 .. Len(t.piece) /\ b = SubSeq(t.piece, 1, n)
  BY <1>1, <1>3, <1>4, PartOfIt
<1>6. Len(t.piece) \in Nat  BY <1>5, PieceBytes
<1>7. n \in 3 .. Len(t.piece) /\ Len(t.piece) >= 2  BY <1>2, <1>5, <1>6
<1>8. IsCapture(t.piece)
  <2>1. 2 \in 1 .. n  BY <1>2
  <2>2. b[2] = t.piece[2]  BY <1>1, <1>3, <2>1 DEF Aligned
  <2>. QED  BY <1>7, <2>2 DEF IsCapture
<1>9. t.piece \notin Fragments
  <2>1. IsAokBucketFrame(SubSeq(t.piece, 1, n))  BY <1>5
  <2>. QED  BY <1>7, <1>8, <2>1, CutPiece
<1>10. Whole(t.piece)  BY <1>5, <1>8, <1>9 DEF Whole, Pieces
<1>. QED  BY <1>1, <1>3, <1>5, <1>7, <1>10

-----------------------------------------------------------------------------
(* The lists of captures sent and published.                               *)

LEMMA Appended ==
    ASSUME NEW S, NEW s \in Seq(S), NEW x \in S
    PROVE  /\ Append(s, x) \in Seq(S) /\ Len(Append(s, x)) = Len(s) + 1 /\ Len(s) \in Nat
           /\ \A k \in 1 .. Len(s) : Append(s, x)[k] = s[k]
           /\ Append(s, x)[Len(s) + 1] = x
           /\ DOMAIN s = 1 .. Len(s) /\ DOMAIN Append(s, x) = 1 .. Len(s) + 1
OBVIOUS

LEMMA CapturesAppended ==
    ASSUME NEW S, NEW s \in Seq(S), NEW x \in S
    PROVE  /\ Captures(s) \subseteq Captures(Append(s, x))
           /\ ~ IsCapture(x) => Captures(Append(s, x)) = Captures(s)
           /\ IsCapture(x) => Captures(Append(s, x)) = Captures(s) \cup {Len(s) + 1}
           /\ Captures(s) \subseteq 1 .. Len(s)
<1>1. PICK n, r : n = Len(s) /\ r = Append(s, x)  OBVIOUS
<1>2. /\ n \in Nat /\ DOMAIN s = 1 .. n /\ DOMAIN r = 1 .. n + 1
      /\ \A k \in 1 .. n : r[k] = s[k]
      /\ r[n + 1] = x
  BY <1>1, Appended
<1>3. \A k \in 1 .. n + 1 : k \in 1 .. n \/ k = n + 1  BY <1>2
<1>4. \A k \in 1 .. n : k \in 1 .. n + 1  BY <1>2
<1>5. n + 1 \in 1 .. n + 1  BY <1>2
<1>6. Captures(s) = {k \in 1 .. n : IsCapture(s[k])}  BY <1>2 DEF Captures
<1>7. Captures(r) = {k \in 1 .. n + 1 : IsCapture(r[k])}  BY <1>2 DEF Captures
<1>8. Captures(s) \subseteq Captures(r)  BY <1>2, <1>4, <1>6, <1>7
<1>9. ASSUME ~ IsCapture(x) PROVE Captures(r) \subseteq Captures(s)
  BY <1>2, <1>3, <1>6, <1>7, <1>9
<1>10. ASSUME IsCapture(x) PROVE Captures(r) = Captures(s) \cup {n + 1}
  BY <1>2, <1>3, <1>5, <1>6, <1>7, <1>8, <1>10
<1>11. Captures(s) \subseteq 1 .. n  BY <1>6
<1>. QED  BY <1>1, <1>8, <1>9, <1>10, <1>11

LEMMA LeadingSent ==
    ASSUME NEW S, NEW list, NEW all \in Seq(S), NEW x \in S, NEW f, Leading(f, list, all)
    PROVE  Leading(f, list, Append(all, x))
<1>1. PICK more : more = Append(all, x)  OBVIOUS
<1>2. Captures(all) \subseteq Captures(more) /\ Captures(all) \subseteq 1 .. Len(all)
  BY <1>1, CapturesAppended
<1>3. \A k \in 1 .. Len(all) : more[k] = all[k]  BY <1>1, Appended
<1>4. f \in [Captures(list) -> Captures(more)]  BY <1>2 DEF Leading
<1>5. ASSUME NEW i \in Captures(list) PROVE list[i] = more[f[i]]
  <2>1. f[i] \in Captures(all) /\ list[i] = all[f[i]]  BY DEF Leading
  <2>. QED  BY <1>2, <1>3, <2>1
<1>. QED  BY <1>1, <1>4, <1>5 DEF Leading

LEMMA LeadingOther ==
    ASSUME NEW S, NEW list \in Seq(S), NEW all, NEW x \in S, ~ IsCapture(x),
           NEW f, Leading(f, list, all)
    PROVE  Leading(f, Append(list, x), all)
<1>1. PICK more : more = Append(list, x)  OBVIOUS
<1>2. Captures(more) = Captures(list) /\ Captures(list) \subseteq 1 .. Len(list)
  BY <1>1, CapturesAppended
<1>3. \A k \in 1 .. Len(list) : more[k] = list[k]  BY <1>1, Appended
<1>4. \A i \in Captures(list) : more[i] = list[i]  BY <1>2, <1>3
<1>. QED  BY <1>1, <1>2, <1>4 DEF Leading

LEMMA LeadingCapture ==
    ASSUME NEW S, NEW list \in Seq(S), NEW all \in Seq(S), NEW x \in S, IsCapture(x),
           NEW f, Leading(f, list, all),
           NEW d \in 1 .. Len(all), all[d] = x, \A i \in DOMAIN f : f[i] < d
    PROVE  \E g : Leading(g, Append(list, x), all) /\ \A i \in DOMAIN g : g[i] \in Nat /\ g[i] <= d
<1>1. PICK more, n : more = Append(list, x) /\ n = Len(list)  OBVIOUS
<1>2. /\ Captures(more) = Captures(list) \cup {n + 1}
      /\ Captures(list) \subseteq 1 .. n
      /\ Captures(all) \subseteq 1 .. Len(all)
  BY <1>1, CapturesAppended
<1>3. n \in Nat /\ Len(all) \in Nat /\ d \in Nat  BY <1>1, Appended
<1>4. \A k \in 1 .. n : more[k] = list[k]  BY <1>1, Appended
<1>5. more[n + 1] = x  BY <1>1, Appended
<1>6. DOMAIN f = Captures(list) /\ \A i \in Captures(list) : f[i] \in Captures(all)
  BY DEF Leading
<1>7. d \in Captures(all)
  <2>1. DOMAIN all = 1 .. Len(all)  BY Appended
  <2>. QED  BY <2>1 DEF Captures
<1>8. PICK g : g = [i \in Captures(more) |-> IF i = n + 1 THEN d ELSE f[i]]  OBVIOUS
<1>9. \A i \in Captures(list) : i # n + 1 /\ i < n + 1 /\ i \in Nat
  <2>1. \A i \in 1 .. n : i # n + 1 /\ i < n + 1 /\ i \in Nat  BY <1>3
  <2>. QED  BY <1>2, <2>1
<1>10. g[n + 1] = d /\ \A i \in Captures(list) : g[i] = f[i]
  BY <1>2, <1>8, <1>9
<1>11. g \in [Captures(more) -> Captures(all)]
  <2>1. \A i \in Captures(more) : g[i] \in Captures(all)  BY <1>2, <1>6, <1>7, <1>10
  <2>. QED  BY <1>8, <2>1
<1>12. ASSUME NEW i \in Captures(more) PROVE more[i] = all[g[i]]
  <2>1. CASE i = n + 1  BY <1>5, <1>10, <2>1
  <2>2. CASE i \in Captures(list)
    <3>1. more[i] = list[i]  BY <1>2, <1>4, <2>2
    <3>2. list[i] = all[f[i]]  BY <2>2 DEF Leading
    <3>. QED  BY <1>10, <2>2, <3>1, <3>2
  <2>. QED  BY <1>2, <2>1, <2>2
<1>13. ASSUME NEW i \in Captures(more), NEW j \in Captures(more), i < j PROVE g[i] < g[j]
  <2>1. CASE i \in Captures(list) /\ j \in Captures(list)
    <3>1. f[i] < f[j]  BY <1>13, <2>1 DEF Leading
    <3>. QED  BY <1>10, <2>1, <3>1
  <2>2. CASE i \in Captures(list) /\ j = n + 1
    <3>1. f[i] < d  BY <1>6, <2>2
    <3>. QED  BY <1>10, <2>2, <3>1
  <2>3. CASE i = n + 1
    <3>1. j = n + 1 \/ j < n + 1  BY <1>2, <1>9
    <3>2. j \in Nat  BY <1>2, <1>3, <1>9
    <3>3. ~ (i < j)  BY <1>3, <2>3, <3>1, <3>2
    <3>. QED  BY <1>13, <3>3
  <2>. QED  BY <1>2, <2>1, <2>2, <2>3
<1>14. ASSUME NEW i \in DOMAIN g PROVE g[i] \in Nat /\ g[i] <= d
  <2>1. DOMAIN g = Captures(more)  BY <1>8
  <2>2. CASE i = n + 1  BY <1>3, <1>10, <2>2
  <2>3. CASE i \in Captures(list)
    <3>1. g[i] = f[i] /\ f[i] < d /\ f[i] \in 1 .. Len(all)  BY <1>2, <1>6, <1>10, <2>3
    <3>2. PICK e : e = f[i]  OBVIOUS
    <3>3. e \in Nat /\ e < d  BY <1>3, <3>1, <3>2
    <3>4. e <= d  BY <1>3, <3>3
    <3>. QED  BY <3>1, <3>2, <3>3, <3>4
  <2>. QED  BY <1>2, <2>1, <2>2, <2>3
<1>15. Leading(g, more, all)  BY <1>11, <1>12, <1>13 DEF Leading
<1>. QED  BY <1>1, <1>14, <1>15

LEMMA LeadingSelf == \A list : Leading([i \in Captures(list) |-> i], list, list)
BY DEF Leading

LEMMA AheadAfter ==
    ASSUME NEW t, NEW w, Tag(t), Tag(w), AtEnd(t), t.index # 0, Before(t, w),
           NEW g, \A i \in DOMAIN g : g[i] \in Nat /\ g[i] <= t.index
    PROVE  Ahead(g, w)
<1>. SUFFICES ASSUME w.index # 0, NEW i \in DOMAIN g PROVE g[i] < w.index
  BY DEF Ahead
<1>1. PICK d, e, h : d = t.index /\ e = w.index /\ h = g[i]  OBVIOUS
<1>2. d \in Nat /\ e \in Nat /\ h \in Nat /\ h <= d  BY <1>1 DEF Tag
<1>3. d < e
  <2>1. CASE t.piece = w.piece /\ t.pos < w.pos
    <3>1. PICK l, k, m : l = Len(t.piece) /\ k = t.pos /\ m = w.pos  OBVIOUS
    <3>2. k = l /\ k < m /\ l = Len(w.piece)  BY <2>1, <3>1 DEF AtEnd
    <3>3. l \in Nat
      <4>1. Len(<< >>) \in Nat  OBVIOUS
      <4>. QED  BY <3>1, <4>1, PieceBytes DEF Tag
    <3>4. m \in Nat /\ m <= l
      <4>1. w.pos = 0 \/ w.pos \in 1 .. Len(w.piece)  BY DEF Tag
      <4>2. m = 0 \/ m \in 1 .. l  BY <3>1, <3>2, <4>1
      <4>. QED  BY <3>3, <4>2
    <3>. QED  BY <3>2, <3>3, <3>4
  <2>. QED  BY <1>1, <2>1 DEF Before
<1>4. h < e  BY <1>2, <1>3
<1>. QED  BY <1>1, <1>4

-----------------------------------------------------------------------------
(* What is on the line, described again after each step.                   *)

LEMMA LineSize ==
    ASSUME NEW s \in Seq(0 .. 255)
    PROVE  Len(s) \in Nat /\ (s = << >> <=> Len(s) = 0)
<1>1. PICK S : S = 0 .. 255  OBVIOUS
<1>2. s \in Seq(S)  BY <1>1
<1>. QED  BY <1>2

LEMMA DescribesRead ==
    ASSUME LineType, line # << >>, NEW T, Describes(T),
           UNCHANGED <<sending, due>>, line' = Tail(line),
           NEW U, U = [i \in 1 .. Len(line) |-> T[i + 1]]
    PROVE  Describes(U)'
<1>1. PICK n : n = Len(line)  OBVIOUS
<1>2. n \in Nat /\ n > 0
  <2>1. n \in Nat /\ n # 0  BY <1>1, LineSize DEF LineType
  <2>. QED  BY <2>1
<1>3. Len(line') + 1 = n /\ \A i \in 1 .. n - 1 : line'[i] = line[i + 1]
  <2>1. PICK S : S = 0 .. 255  OBVIOUS
  <2>2. line \in Seq(S)  BY <2>1 DEF LineType
  <2>3. Len(Tail(line)) = Len(line) - 1 /\ \A i \in 1 .. Len(line) - 1 : Tail(line)[i] = line[i + 1]
    BY <2>2
  <2>. QED  BY <1>1, <1>2, <2>3
<1>4. U = [i \in 1 .. n |-> T[i + 1]] /\ DOMAIN T = 1 .. n + 1
  BY <1>1 DEF Describes
<1>5. \A i \in 1 .. n : i + 1 \in 1 .. n + 1 /\ U[i] = T[i + 1]  BY <1>2, <1>4
<1>6. DOMAIN U = 1 .. Len(line') + 1  BY <1>3, <1>4
<1>7. ASSUME NEW i \in DOMAIN U PROVE Tag(U[i]) /\ Placed(U[i])'
  <2>1. i + 1 \in DOMAIN T /\ U[i] = T[i + 1]  BY <1>4, <1>5, <1>7
  <2>2. Tag(T[i + 1]) /\ Placed(T[i + 1])  BY <2>1 DEF Describes
  <2>3. Placed(T[i + 1])'  BY <2>2 DEF Placed
  <2>. QED  BY <2>1, <2>2, <2>3
<1>8. ASSUME NEW i \in 1 .. Len(line')
      PROVE  line'[i] = U[i + 1].piece[U[i + 1].pos] /\ Follows(U[i], U[i + 1])
  <2>1. /\ i \in 1 .. n - 1 /\ i + 1 \in 1 .. n /\ i \in 1 .. n
    <3>1. Len(line') = n - 1
      <4>1. Len(line') \in Nat
        <5>1. Tail(line) \in Seq(0 .. 255)  BY HeadTail DEF LineType
        <5>. QED  BY <5>1, LineSize
      <4>. QED  BY <1>2, <1>3, <4>1
    <3>. QED  BY <1>2, <3>1
  <2>2. U[i] = T[i + 1] /\ U[i + 1] = T[(i + 1) + 1]  BY <1>5, <2>1
  <2>3. /\ line[i + 1] = T[(i + 1) + 1].piece[T[(i + 1) + 1].pos]
        /\ Follows(T[i + 1], T[(i + 1) + 1])
    BY <1>1, <2>1 DEF Describes
  <2>4. line'[i] = line[i + 1]  BY <1>3, <2>1
  <2>. QED  BY <2>2, <2>3, <2>4
<1>9. ASSUME NEW i \in DOMAIN U, NEW j \in DOMAIN U, i < j PROVE Before(U[i], U[j])
  <2>1. i \in 1 .. n /\ j \in 1 .. n  BY <1>4
  <2>2. i + 1 \in DOMAIN T /\ j + 1 \in DOMAIN T  BY <1>4, <1>5, <2>1
  <2>3. i + 1 < j + 1  BY <1>9, <2>1
  <2>4. Before(T[i + 1], T[j + 1])  BY <2>2, <2>3 DEF Describes
  <2>. QED  BY <1>5, <2>1, <2>4
<1>10. SentLast(U[Len(line) + 1])'
  <2>1. n \in 1 .. n  BY <1>2
  <2>2. U[n] = T[n + 1]  BY <1>5, <2>1
  <2>3. SentLast(T[n + 1])  BY <1>1 DEF Describes
  <2>4. SentLast(T[n + 1])'  BY <2>3 DEF SentLast
  <2>. QED  BY <1>3, <2>2, <2>4
<1>. QED  BY <1>6, <1>7, <1>8, <1>9, <1>10 DEF Describes

LEMMA DescribesSame ==
    ASSUME NEW T, Describes(T), UNCHANGED <<line, sending, due>>
    PROVE  Describes(T)'
<1>1. \A i \in DOMAIN T : Placed(T[i])'
  <2>. SUFFICES ASSUME NEW i \in DOMAIN T PROVE Placed(T[i])'  OBVIOUS
  <2>1. Placed(T[i])  BY DEF Describes
  <2>. QED  BY <2>1 DEF Placed
<1>2. SentLast(T[Len(line) + 1])'
  <2>1. SentLast(T[Len(line) + 1])  BY DEF Describes
  <2>. QED  BY <2>1 DEF SentLast
<1>. QED  BY <1>1, <1>2 DEF Describes

LEMMA DescribesBegun ==
    ASSUME NEW T, Describes(T), BeginsToSend
    PROVE  Describes(T)'
<1>1. sending = Silence /\ UNCHANGED <<line, due>> /\ sending'.out = 0
  BY DEF BeginsToSend
<1>2. \A i \in DOMAIN T : Placed(T[i])'
  <2>. SUFFICES ASSUME NEW i \in DOMAIN T PROVE Placed(T[i])'  OBVIOUS
  <2>1. Placed(T[i])  BY DEF Describes
  <2>. QED  BY <1>1, <2>1 DEF Placed
<1>3. SentLast(T[Len(line) + 1])'
  <2>1. SentLast(T[Len(line) + 1])  BY DEF Describes
  <2>. QED  BY <1>1, <2>1 DEF SentLast
<1>. QED  BY <1>1, <1>2, <1>3 DEF Describes

LEMMA DescribesStopped ==
    ASSUME LineType, SendingType, Spoils, NEW T, Describes(T), StopSniffing,
           NEW U, U = <<[piece |-> T[Len(line) + 1].piece, pos |-> T[Len(line) + 1].pos, index |-> 0]>>
    PROVE  Describes(U)'
<1>1. PICK t : t = T[Len(line) + 1]  OBVIOUS
<1>2. line' = << >> /\ Len(line') + 1 = 1  BY DEF StopSniffing, Discarded
<1>3. Len(line) + 1 \in DOMAIN T
  <2>1. Len(line) \in Nat  BY LineSize DEF LineType
  <2>2. Len(line) + 1 \in 1 .. Len(line) + 1  BY <2>1
  <2>. QED  BY <2>2 DEF Describes
<1>4. Tag(t) /\ SentLast(t)  BY <1>1, <1>3 DEF Describes
<1>5. PICK u : u = [piece |-> t.piece, pos |-> t.pos, index |-> 0]  OBVIOUS
<1>6. u.piece = t.piece /\ u.pos = t.pos /\ u.index = 0  BY <1>5
<1>7. DOMAIN U = 1 .. 1 /\ U[1] = u  BY <1>1, <1>5
<1>8. Tag(u)  BY <1>4, <1>6 DEF Tag
<1>9. Placed(u)'  BY <1>6 DEF Placed
<1>10. SentLast(u)'
  <2>1. CASE sending.out > 0
    <3>1. sending # Silence /\ sending.out # 0  BY <2>1 DEF Silence
    <3>2. t.piece = sending.bytes /\ t.pos = sending.out  BY <1>4, <3>1 DEF SentLast
    <3>3. sending' = [sending EXCEPT !.spoiled = TRUE]  BY <2>1 DEF StopSniffing
    <3>4. /\ sending = [bytes |-> sending.bytes, out |-> sending.out, spoiled |-> sending.spoiled]
      BY DEF SendingType
    <3>5. /\ sending'.bytes = sending.bytes /\ sending'.out = sending.out
          /\ sending'.spoiled = TRUE
      BY <3>3, <3>4
    <3>6. sending' # Silence  BY <3>1, <3>5 DEF Silence
    <3>. QED  BY <1>6, <3>1, <3>2, <3>5, <3>6 DEF SentLast
  <2>2. CASE ~ (sending.out > 0)
    <3>1. sending' = sending  BY <2>2 DEF StopSniffing
    <3>2. sending = Silence \/ sending.out = 0
      <4>1. CASE Sends(sending)
        <5>1. sending.out \in Nat  BY <4>1 DEF Sends
        <5>. QED  BY <2>2, <5>1
      <4>. QED  BY <4>1 DEF SendingType
    <3>3. AtEnd(t)  BY <1>4, <3>2 DEF SentLast
    <3>4. AtEnd(u)  BY <1>6, <3>3 DEF AtEnd
    <3>. QED  BY <3>1, <3>2, <3>4 DEF SentLast
  <2>. QED  BY <2>1, <2>2
<1>11. \A i \in 1 .. Len(line') : FALSE  BY <1>2
<1>12. \A i \in DOMAIN U : i = 1  BY <1>7
<1>13. DOMAIN U = 1 .. Len(line') + 1 /\ U[Len(line') + 1] = u  BY <1>2, <1>7
<1>14. \A i \in DOMAIN U : Tag(U[i]) /\ Placed(U[i])'
  BY <1>7, <1>8, <1>9, <1>12
<1>15. \A i, j \in DOMAIN U : i < j => Before(U[i], U[j])  BY <1>12
<1>. QED  BY <1>10, <1>11, <1>13, <1>14, <1>15 DEF Describes

(* The byte being sent.                                                    *)
Sending ==
    [piece |-> sending.bytes, pos |-> sending.out + 1,
     index |-> IF Whole(sending.bytes) /\ ~ sending.spoiled THEN Len(due) + 1 ELSE 0]

LEMMA DescribesSent ==
    ASSUME IInv, ListType, Spoils, NEW T, Describes(T), SendsByte, NEW u, u = Sending,
           NEW U, U = [i \in 1 .. Len(line) + 2 |-> IF i = Len(line) + 2 THEN u ELSE T[i]]
    PROVE  Describes(U)'
<1>1. PICK n, m : n = Len(line) /\ m = Len(due)  OBVIOUS
<1>2. n \in Nat /\ m \in Nat
  BY <1>1, LineSize, Element DEF IInv, LineType, ListType
<1>3. Sends(sending) /\ sending # Silence  BY DEF SendsByte, IInv, SendingType
<1>4. PICK p, k : p = sending.bytes /\ k = sending.out  OBVIOUS
<1>5. p \in Pieces /\ k \in Nat /\ k < Len(p) /\ Len(p) \in Nat
  BY <1>3, <1>4, PieceBytes DEF Sends, Pieces
<1>6. u.piece = p /\ u.pos = k + 1 /\ u.index = IF Whole(p) /\ ~ sending.spoiled THEN m + 1 ELSE 0
  BY <1>1, <1>4 DEF Sending
<1>7. /\ sending = [bytes |-> p, out |-> k, spoiled |-> sending.spoiled]
  BY <1>4 DEF IInv, SendingType
<1>8. \/ /\ k + 1 < Len(p) /\ due' = due
         /\ sending'.bytes = p /\ sending'.out = k + 1 /\ sending'.spoiled = sending.spoiled
         /\ sending' # Silence
      \/ /\ ~ (k + 1 < Len(p)) /\ sending' = Silence
         /\ due' = IF IsReported(p) /\ ~ sending.spoiled THEN Append(due, p) ELSE due
  <2>1. CASE k + 1 < Len(p)
    <3>1. sending' = [sending EXCEPT !.out = @ + 1] /\ due' = due
      BY <1>4, <2>1 DEF SendsByte
    <3>2. sending'.bytes = p /\ sending'.out = k + 1 /\ sending'.spoiled = sending.spoiled
      BY <1>4, <1>7, <3>1
    <3>3. sending' # Silence
      <4>1. k + 1 # 0  BY <1>5
      <4>. QED  BY <3>2, <4>1 DEF Silence
    <3>. QED  BY <2>1, <3>1, <3>2, <3>3
  <2>2. CASE ~ (k + 1 < Len(p))
    BY <1>4, <2>2 DEF SendsByte
  <2>. QED  BY <2>1, <2>2
<1>9. due \in Seq(Seq(0 .. 255)) /\ p \in Seq(0 .. 255)  BY <1>5, PieceBytes DEF ListType
<1>10. /\ \A d \in 1 .. m : d \in 1 .. Len(due') /\ due'[d] = due[d]
       /\ ~ (k + 1 < Len(p)) /\ Whole(p) /\ ~ sending.spoiled =>
             m + 1 \in 1 .. Len(due') /\ due'[m + 1] = p
       /\ k + 1 < Len(p) => Len(due') = m
  <2>1. CASE due' = due /\ ~ (~ (k + 1 < Len(p)) /\ Whole(p) /\ ~ sending.spoiled)
    BY <1>1, <2>1
  <2>2. CASE due' = Append(due, p) /\ ~ (k + 1 < Len(p))
    <3>1. PICK S : S = Seq(0 .. 255)  OBVIOUS
    <3>2. due \in Seq(S) /\ p \in S  BY <1>9, <3>1
    <3>3. /\ Len(due') = m + 1 /\ due'[m + 1] = p
          /\ \A d \in 1 .. m : due'[d] = due[d]
      BY <1>1, <2>2, <3>2, Appended
    <3>4. m + 1 \in 1 .. m + 1 /\ \A d \in 1 .. m : d \in 1 .. m + 1  BY <1>2
    <3>. QED  BY <2>2, <3>3, <3>4
  <2>3. Whole(p) => IsReported(p)
    BY DEF Whole, IsReported, IsCapture, BucketAction, Ack
  <2>. QED  BY <1>8, <2>1, <2>2, <2>3
<1>11. DOMAIN T = 1 .. n + 1 /\ U = [i \in 1 .. n + 2 |-> IF i = n + 2 THEN u ELSE T[i]]
  BY <1>1 DEF Describes
<1>12. U[n + 2] = u /\ \A i \in 1 .. n + 1 : U[i] = T[i]
  <2>1. n + 2 \in 1 .. n + 2  BY <1>2
  <2>2. \A i \in 1 .. n + 1 : i \in 1 .. n + 2 /\ i # n + 2  BY <1>2
  <2>. QED  BY <1>11, <2>1, <2>2
<1>13. \A i \in 1 .. n + 2 : i \in 1 .. n + 1 \/ i = n + 2  BY <1>2
<1>14. Len(line') = n + 1 /\ (\A i \in 1 .. n : line'[i] = line[i]) /\ line'[n + 1] = p[k + 1]
  <2>1. PICK S : S = 0 .. 255  OBVIOUS
  <2>2. line \in Seq(S)  BY <2>1 DEF IInv, LineType
  <2>3. p[k + 1] \in S  BY <1>5, <1>9, <2>1, NthInSeq
  <2>4. line' = Append(line, p[k + 1])  BY <1>4 DEF SendsByte
  <2>. QED  BY <1>1, <2>2, <2>3, <2>4, Appended
<1>15. Tag(u)
  <2>1. k + 1 \in 1 .. Len(p)  BY <1>5
  <2>2. u.index \in Nat
    <3>1. m + 1 \in Nat /\ 0 \in Nat  BY <1>2
    <3>. QED  BY <1>6, <3>1
  <2>. QED  BY <1>5, <1>6, <2>1, <2>2 DEF Tag
<1>16. Placed(u)'
  <2>. SUFFICES ASSUME u.index # 0 PROVE Placed(u)'  BY DEF Placed
  <2>1. Whole(p) /\ ~ sending.spoiled /\ u.index = m + 1  BY <1>6
  <2>2. CASE k + 1 < Len(p)
    <3>1. k + 1 <= k + 1  BY <1>5
    <3>2. /\ Len(due') = m /\ sending'.bytes = p /\ sending'.out = k + 1
          /\ ~ sending'.spoiled /\ sending' # Silence
      BY <1>8, <1>10, <2>1, <2>2
    <3>. QED  BY <1>6, <2>1, <3>1, <3>2 DEF Placed
  <2>3. CASE ~ (k + 1 < Len(p))
    <3>1. m + 1 \in 1 .. Len(due') /\ due'[m + 1] = p  BY <1>10, <2>1, <2>3
    <3>. QED  BY <1>6, <2>1, <3>1 DEF Placed
  <2>. QED  BY <2>2, <2>3
<1>17. ASSUME NEW i \in 1 .. n + 1 PROVE Tag(T[i]) /\ Placed(T[i]) /\ Placed(T[i])'
  <2>1. Tag(T[i]) /\ Placed(T[i])  BY <1>11 DEF Describes
  <2>. SUFFICES ASSUME T[i].index # 0 PROVE Placed(T[i])'  BY <2>1 DEF Placed
  <2>2. Whole(T[i].piece)  BY <2>1 DEF Placed
  <2>3. CASE T[i].index \in 1 .. m /\ due[T[i].index] = T[i].piece
    <3>1. T[i].index \in 1 .. Len(due') /\ due'[T[i].index] = T[i].piece  BY <1>10, <2>3
    <3>. QED  BY <2>2, <3>1 DEF Placed
  <2>4. CASE /\ T[i].index = m + 1 /\ ~ sending.spoiled
             /\ T[i].piece = p /\ T[i].pos <= k
    <3>1. CASE k + 1 < Len(p)
      <4>1. T[i].pos <= k + 1
        <5>1. PICK x : x = T[i].pos  OBVIOUS
        <5>2. x \in Nat \/ x = 0
          <6>1. T[i].pos \in 1 .. Len(T[i].piece) \/ T[i].pos = 0  BY <2>1 DEF Tag
          <6>. QED  BY <1>5, <2>4, <5>1, <6>1
        <5>. QED  BY <1>5, <2>4, <5>1, <5>2
      <4>2. /\ Len(due') = m /\ sending'.bytes = p /\ sending'.out = k + 1
            /\ ~ sending'.spoiled /\ sending' # Silence
        BY <1>8, <1>10, <2>4, <3>1
      <4>. QED  BY <2>2, <2>4, <4>1, <4>2 DEF Placed
    <3>2. CASE ~ (k + 1 < Len(p))
      <4>1. m + 1 \in 1 .. Len(due') /\ due'[m + 1] = p  BY <1>10, <2>2, <2>4, <3>2
      <4>. QED  BY <2>2, <2>4, <4>1 DEF Placed
    <3>. QED  BY <3>1, <3>2
  <2>. QED  BY <1>1, <1>4, <2>1, <2>3, <2>4 DEF Placed
<1>18. ASSUME NEW i \in 1 .. n + 1 PROVE Before(T[i], u)
  <2>. SUFFICES ASSUME T[i].index # 0, u.index # 0
                PROVE  \/ T[i].index < u.index
                       \/ T[i].index = u.index /\ T[i].piece = u.piece /\ T[i].pos < u.pos
    BY DEF Before
  <2>1. u.index = m + 1  BY <1>6
  <2>2. Placed(T[i]) /\ Tag(T[i])  BY <1>17
  <2>3. CASE T[i].index \in 1 .. m
    <3>1. T[i].index < m + 1  BY <1>2, <2>3
    <3>. QED  BY <2>1, <3>1
  <2>4. CASE T[i].index = m + 1 /\ T[i].piece = p /\ T[i].pos <= k
    <3>1. PICK x : x = T[i].pos  OBVIOUS
    <3>2. x \in Nat
      <4>1. T[i].pos \in 1 .. Len(T[i].piece) \/ T[i].pos = 0  BY <2>2 DEF Tag
      <4>. QED  BY <1>5, <2>4, <3>1, <4>1
    <3>3. x < k + 1  BY <1>5, <2>4, <3>1, <3>2
    <3>. QED  BY <1>6, <2>1, <2>4, <3>1, <3>3
  <2>. QED  BY <1>1, <1>4, <2>2, <2>3, <2>4 DEF Placed
<1>19. Follows(T[n + 1], u)
  <2>1. SentLast(T[n + 1])  BY <1>1 DEF Describes
  <2>2. CASE k = 0
    <3>1. AtEnd(T[n + 1])  BY <1>4, <2>1, <2>2 DEF SentLast
    <3>2. k + 1 = 1 /\ m + 1 # 0  BY <1>2, <2>2
    <3>3. ~ sending.spoiled
      <4>1. ~ (k > 0)  BY <2>2
      <4>. QED  BY <1>4, <4>1 DEF Spoils
    <3>. QED  BY <1>5, <1>6, <3>1, <3>2, <3>3 DEF Follows
  <2>3. CASE k # 0
    <3>1. /\ T[n + 1].piece = p /\ T[n + 1].pos = k
          /\ T[n + 1].index = IF Whole(p) /\ ~ sending.spoiled THEN m + 1 ELSE 0
      BY <1>1, <1>3, <1>4, <2>1, <2>3 DEF SentLast
    <3>2. k # Len(p)  BY <1>5
    <3>. QED  BY <1>6, <3>1, <3>2 DEF Follows, AtEnd
  <2>. QED  BY <2>2, <2>3
<1>20. SentLast(u)'
  <2>1. CASE k + 1 < Len(p)
    <3>1. k + 1 # 0  BY <1>5
    <3>. QED  BY <1>6, <1>8, <1>10, <2>1, <3>1 DEF SentLast
  <2>2. CASE ~ (k + 1 < Len(p))
    <3>1. k + 1 = Len(p)  BY <1>5, <2>2
    <3>2. AtEnd(u)  BY <1>6, <3>1 DEF AtEnd
    <3>. QED  BY <1>8, <2>2, <3>2 DEF SentLast
  <2>. QED  BY <2>1, <2>2
<1>21. (n + 1) + 1 = n + 2 /\ n + 1 \in 1 .. n + 1 /\ \A i \in 1 .. n : i \in 1 .. n + 1 /\ i + 1 \in 1 .. n + 1
  BY <1>2
<1>22. DOMAIN U = 1 .. Len(line') + 1  BY <1>11, <1>14, <1>21
<1>23. ASSUME NEW i \in DOMAIN U PROVE Tag(U[i]) /\ Placed(U[i])'
  <2>1. CASE i = n + 2  BY <1>12, <1>15, <1>16, <2>1
  <2>2. CASE i \in 1 .. n + 1
    <3>1. U[i] = T[i] /\ Tag(T[i]) /\ Placed(T[i])'  BY <1>12, <1>17, <2>2
    <3>. QED  BY <3>1
  <2>. QED  BY <1>11, <1>13, <2>1, <2>2
<1>24. ASSUME NEW i \in 1 .. Len(line')
       PROVE  line'[i] = U[i + 1].piece[U[i + 1].pos] /\ Follows(U[i], U[i + 1])
  <2>1. CASE i = n + 1
    <3>1. U[i + 1] = u /\ U[i] = T[n + 1]  BY <1>12, <1>21, <2>1
    <3>. QED  BY <1>6, <1>14, <1>19, <2>1, <3>1
  <2>2. CASE i \in 1 .. n
    <3>1. U[i] = T[i] /\ U[i + 1] = T[i + 1]  BY <1>12, <1>21, <2>2
    <3>2. line[i] = T[i + 1].piece[T[i + 1].pos] /\ Follows(T[i], T[i + 1])
      BY <1>1, <2>2 DEF Describes
    <3>. QED  BY <1>14, <2>2, <3>1, <3>2
  <2>3. i = n + 1 \/ i \in 1 .. n
    <3>1. i \in 1 .. n + 1  BY <1>14
    <3>. QED  BY <1>2, <3>1
  <2>. QED  BY <2>1, <2>2, <2>3
<1>25. ASSUME NEW i \in DOMAIN U, NEW j \in DOMAIN U, i < j PROVE Before(U[i], U[j])
  <2>1. i \in 1 .. n + 1
    <3>1. i \in 1 .. n + 2 /\ j \in 1 .. n + 2  BY <1>11
    <3>. QED  BY <1>2, <1>25, <3>1
  <2>2. CASE j = n + 2
    <3>1. U[j] = u /\ U[i] = T[i]  BY <1>12, <2>1, <2>2
    <3>. QED  BY <1>18, <2>1, <3>1
  <2>3. CASE j \in 1 .. n + 1
    <3>1. U[j] = T[j] /\ U[i] = T[i]  BY <1>12, <2>1, <2>3
    <3>2. Before(T[i], T[j])  BY <1>11, <1>25, <2>1, <2>3 DEF Describes
    <3>. QED  BY <3>1, <3>2
  <2>. QED  BY <1>11, <1>13, <2>2, <2>3
<1>26. SentLast(U[Len(line) + 1])'
  <2>1. U[Len(line') + 1] = u  BY <1>12, <1>14, <1>21
  <2>. QED  BY <1>20, <2>1
<1>. QED  BY <1>22, <1>23, <1>24, <1>25, <1>26 DEF Describes

-----------------------------------------------------------------------------
(* What is published is what was sent.                                     *)

LEMMA WholeIsDue ==
    ASSUME SendingType, NEW b \in Seq(0 .. 255), NEW t,
           Aligned(b, t), AtEnd(t), Whole(t.piece), Placed(t)
    PROVE  /\ b = t.piece /\ t.index # 0
           /\ t.index \in 1 .. Len(due) /\ due[t.index] = b
<1>1. b = t.piece  BY AllOfIt
<1>2. t.index # 0  BY DEF Aligned
<1>3. ~ (sending # Silence /\ t.piece = sending.bytes /\ t.pos <= sending.out)
  <2>. SUFFICES ASSUME sending # Silence, t.piece = sending.bytes, t.pos <= sending.out
                PROVE  FALSE
    OBVIOUS
  <2>1. Sends(sending)  BY DEF SendingType
  <2>2. PICK l, k : l = Len(t.piece) /\ k = sending.out  OBVIOUS
  <2>3. k \in Nat /\ k < l /\ l <= k  BY <2>1, <2>2 DEF Sends, AtEnd
  <2>4. l \in Nat  BY <2>2, PieceBytes, WholePiece
  <2>. QED  BY <2>3, <2>4
<1>. QED  BY <1>1, <1>2, <1>3 DEF Placed

(* The descriptions of the byte read last and of the next.                 *)
LEMMA Ends ==
    ASSUME LineType, line # << >>, NEW T, Describes(T)
    PROVE  /\ Tag(T[1]) /\ Placed(T[1]) /\ Tag(T[2]) /\ Placed(T[2])
           /\ Follows(T[1], T[2])
           /\ Head(line) = T[2].piece[T[2].pos] /\ Head(line) \in 0 .. 255
<1>1. PICK n : n = Len(line)  OBVIOUS
<1>2. n \in Nat /\ n > 0
  <2>1. n \in Nat /\ n # 0  BY <1>1, LineSize DEF LineType
  <2>. QED  BY <2>1
<1>3. 1 \in 1 .. n + 1 /\ 2 \in 1 .. n + 1 /\ 1 \in 1 .. n /\ 1 + 1 = 2  BY <1>2
<1>4. 1 \in DOMAIN T /\ 2 \in DOMAIN T  BY <1>1, <1>3 DEF Describes
<1>5. line[1] = T[2].piece[T[2].pos] /\ Follows(T[1], T[2])
  BY <1>1, <1>3 DEF Describes
<1>6. Head(line) = line[1]
  <2>1. PICK S : S = 0 .. 255  OBVIOUS
  <2>2. line \in Seq(S)  BY <2>1 DEF LineType
  <2>. QED  BY <2>2
<1>7. Head(line) \in 0 .. 255  BY HeadTail DEF LineType
<1>. QED  BY <1>4, <1>5, <1>6, <1>7 DEF Describes

LEMMA SingleStatus ==
    \A byte : Status(<<byte>>) = IF byte = Start THEN "INCOMPLETE" ELSE "INVALID"
<1>. TAKE byte
<1>1. Len(<<byte>>) = 1 /\ Last(<<byte>>) = byte  BY DEF Last
<1>. QED  BY <1>1 DEF Status

(* A candidate is the head of a whole capture.                             *)
LEMMA CandidateHolds ==
    ASSUME TypeOK, candidate, NEW t, Tag(t), Holds(t)
    PROVE  /\ rxBuffer \in Seq(0 .. 255) /\ rxBuffer # << >>
           /\ IsCapture(rxBuffer) /\ IsAokBucketFrame(rxBuffer) /\ Last(rxBuffer) = Stop
           /\ Aligned(rxBuffer, t) /\ Whole(t.piece)
           /\ Len(rxBuffer) \in 3 .. Len(t.piece)
           /\ rxBuffer = SubSeq(t.piece, 1, Len(rxBuffer))
<1>1. PICK b : b = rxBuffer  OBVIOUS
<1>2. b \in Seq(0 .. 255) /\ IsCapture(b) /\ IsAokBucketFrame(b)  BY <1>1 DEF TypeOK
<1>3. Len(b) > 2
  <2>1. PICK p : p = PulseBytes(b)  OBVIOUS
  <2>2. p \in Nat /\ p >= 3 /\ HeaderSize(b) \in Nat /\ Len(b) = HeaderSize(b) + p + 1
    BY <1>2, <2>1, AokSize
  <2>. QED  BY <2>2
<1>4. b # << >>
  <2>1. Len(<< >>) = 0  OBVIOUS
  <2>. QED  BY <1>3, <2>1
<1>5. Shape(b, t)  BY <1>1, <1>4 DEF Holds
<1>6. Last(b) = Stop  BY <1>2, AokSize DEF Last
<1>. QED  BY <1>1, <1>2, <1>3, <1>4, <1>5, <1>6, AokShape

(* A start byte proves an end only behind a whole capture.                 *)
LEMMA SplitWhole ==
    ASSUME IInv, line # << >>, NEW T, Describes(T), Holds(T[1]), Splits(Head(line))
    PROVE  /\ Head(line) = Start
           /\ rxBuffer # << >> /\ IsCapture(rxBuffer) /\ Aligned(rxBuffer, T[1])
           /\ AtEnd(T[1]) /\ T[1].index # 0
           /\ T[1].index \in 1 .. Len(due) /\ due[T[1].index] = rxBuffer
<1>1. candidate /\ Head(line) = Start  BY DEF Splits
<1>2. PICK b, t, u : b = rxBuffer /\ t = T[1] /\ u = T[2]  OBVIOUS
<1>3. Tag(t) /\ Placed(t) /\ Tag(u) /\ Follows(t, u) /\ Head(line) = u.piece[u.pos]
  BY <1>2, Ends DEF IInv
<1>4. /\ b \in Seq(0 .. 255) /\ b # << >> /\ IsCapture(b) /\ IsAokBucketFrame(b)
      /\ Aligned(b, t) /\ Whole(t.piece)
      /\ Len(b) \in 3 .. Len(t.piece) /\ b = SubSeq(t.piece, 1, Len(b))
  BY <1>1, <1>2, <1>3, CandidateHolds DEF IInv
<1>5. AtEnd(t)
  <2>. SUFFICES ASSUME ~ AtEnd(t) PROVE FALSE  OBVIOUS
  <2>1. PICK l, n : l = Len(t.piece) /\ n = Len(b)  OBVIOUS
  <2>2. t.pos = n  BY <1>4, <2>1 DEF Aligned
  <2>3. u.piece = t.piece /\ u.pos = n + 1  BY <1>3, <2>2 DEF Follows
  <2>4. l \in Nat /\ n # l /\ n \in 3 .. l  BY <1>4, <2>1, <2>2, PieceBytes, WholePiece DEF AtEnd
  <2>5. n \in 3 .. l - 1  BY <2>4
  <2>6. t.piece[n + 1] # Start  BY <1>4, <2>1, <2>5, WholePiece
  <2>. QED  BY <1>1, <1>3, <2>3, <2>6
<1>6. b = t.piece /\ t.index # 0 /\ t.index \in 1 .. Len(due) /\ due[t.index] = b
  BY <1>3, <1>4, <1>5, WholeIsDue DEF IInv
<1>. QED  BY <1>1, <1>2, <1>4, <1>5, <1>6

(* A capture complete without a doubt is whole.                            *)
LEMMA CompleteWhole ==
    ASSUME SendingType, NEW b \in Seq(0 .. 255), NEW u, Tag(u), Placed(u), Shape(b, u),
           Status(b) = "COMPLETE", IsCapture(b)
    PROVE  /\ AtEnd(u) /\ u.index # 0
           /\ u.index \in 1 .. Len(due) /\ due[u.index] = b
<1>1. PICK n : n = Len(b)  OBVIOUS
<1>2. n \in Nat /\ n > 2
  <2>1. n \in Nat /\ n >= 2  BY <1>1, Element DEF IsCapture
  <2>2. n # 2
    <3>. SUFFICES ASSUME n = 2 PROVE FALSE  OBVIOUS
    <3>1. Len(b) = 2  BY <1>1
    <3>2. Status(b) = IF Last(b) \in Ack .. BucketAction THEN "INCOMPLETE" ELSE "INVALID"
      BY <3>1 DEF Status
    <3>. QED  BY <3>2
  <2>. QED  BY <2>1, <2>2
<1>3. IsAokBucketFrame(b) /\ PulseBytes(b) = MaxPulseBytes
  BY <1>1, <1>2, AokStatus
<1>4. /\ Aligned(b, u) /\ Whole(u.piece)
      /\ Len(b) \in 3 .. Len(u.piece) /\ b = SubSeq(u.piece, 1, Len(b))
  BY <1>1, <1>2, <1>3, AokShape
<1>5. AtEnd(u)
  <2>1. PICK p : p = u.piece  OBVIOUS
  <2>2. IsAokBucketFrame(p) /\ p \in Seq(0 .. 255) /\ Len(p) \in Nat
    BY <1>4, <2>1, WholePiece, PieceBytes
  <2>3. PICK h, l, m : h = HeaderSize(b) /\ l = Len(p) /\ m = MaxPulseBytes  OBVIOUS
  <2>4. p[3] = b[3]
    <3>1. 3 \in 1 .. n  BY <1>2
    <3>. QED  BY <1>1, <1>4, <2>1, <3>1 DEF Aligned
  <2>5. HeaderSize(p) = h  BY <2>3, <2>4 DEF HeaderSize
  <2>6. h \in Nat /\ n = h + m + 1  BY <1>1, <1>3, <2>3, AokSize
  <2>7. PICK q : q = PulseBytes(p)  OBVIOUS
  <2>8. q \in Nat /\ l = h + q + 1  BY <2>2, <2>3, <2>5, <2>7, AokSize
  <2>9. m \in Nat  BY <2>3, B1Assumption DEF MaxPulseBytes
  <2>10. q <= m
    <3>1. q \in MinPulseBytes .. m  BY <2>2, <2>3, <2>7 DEF IsAokBucketFrame
    <3>2. MinPulseBytes \in Nat  BY B1Assumption DEF MinPulseBytes
    <3>. QED  BY <2>9, <3>1, <3>2
  <2>11. n <= l  BY <1>1, <1>4, <2>1, <2>3
  <2>12. n = l  BY <1>2, <2>6, <2>8, <2>9, <2>10, <2>11
  <2>. QED  BY <1>1, <1>4, <2>1, <2>3, <2>12 DEF AtEnd, Aligned
<1>. QED  BY <1>4, <1>5, WholeIsDue

(* The buffer with the byte read.                                          *)
LEMMA BufferGrows ==
    ASSUME IInv, line # << >>, NEW T, Describes(T), Holds(T[1]),
           NEW b, b = Append(IF Splits(Head(line)) \/ Overrun THEN << >> ELSE rxBuffer, Head(line))
    PROVE  /\ b \in Seq(0 .. 255) /\ b # << >>
           /\ Shape(b, T[2]) \/ Status(b) = "INVALID"
           /\ Splits(Head(line)) => b = <<Start>> /\ Status(b) = "INCOMPLETE"
<1>1. PICK c, byte, t, u : c = rxBuffer /\ byte = Head(line) /\ t = T[1] /\ u = T[2]  OBVIOUS
<1>2. Tag(t) /\ Tag(u) /\ Follows(t, u) /\ byte = u.piece[u.pos] /\ byte \in 0 .. 255
  BY <1>1, Ends DEF IInv
<1>3. c \in Seq(0 .. 255)  BY <1>1 DEF IInv, TypeOK
<1>4. Append(<< >>, byte) = <<byte>> /\ <<byte>> \in Seq(0 .. 255) /\ <<byte>> # << >>
  <2>1. PICK S : S = 0 .. 255  OBVIOUS
  <2>2. byte \in S  BY <1>2, <2>1
  <2>3. Append(<< >>, byte) = <<byte>> /\ <<byte>> \in Seq(S) /\ <<byte>> # << >>  BY <2>2
  <2>. QED  BY <2>1, <2>3
<1>5. Shape(<<byte>>, u) \/ Status(<<byte>>) = "INVALID"
  <2>1. CASE byte = Start  BY <1>2, <2>1, Starts
  <2>2. CASE byte # Start  BY <2>2, SingleStatus
  <2>. QED  BY <2>1, <2>2
<1>6. CASE b = <<byte>>
  <2>1. Splits(byte) => byte = Start  BY DEF Splits
  <2>. QED  BY <1>1, <1>4, <1>5, <1>6, <2>1, SingleStatus
<1>7. CASE b = Append(c, byte) /\ ~ Splits(byte) /\ c # << >>
  <2>1. Longer(b, c, byte)  BY <1>2, <1>3, <1>7, AppendLonger
  <2>2. b \in Seq(0 .. 255) /\ b # << >>
    <3>1. b \in Seq(0 .. 255) /\ Len(b) = Len(c) + 1 /\ Len(c) \in Nat  BY <2>1 DEF Longer
    <3>2. Len(b) # 0 /\ Len(<< >>) = 0  BY <3>1
    <3>. QED  BY <3>1, <3>2
  <2>3. Shape(c, t) /\ Status(c) \in {"INCOMPLETE", "CANDIDATE"} /\ candidate = (Status(c) = "CANDIDATE")
    BY <1>1, <1>7 DEF Holds
  <2>4. ~ (Status(c) = "CANDIDATE" /\ byte = Start)  BY <1>7, <2>3 DEF Splits
  <2>5. Shape(b, u)  BY <1>2, <1>7, <2>1, <2>3, <2>4, ShapeGrows
  <2>. QED  BY <1>1, <1>7, <2>2, <2>5
<1>. QED  BY <1>1, <1>4, <1>6, <1>7

LEMMA Shifted ==
    ASSUME LineType, line # << >>, line' = Tail(line), NEW T, Describes(T),
           NEW U, U = [i \in 1 .. Len(line) |-> T[i + 1]]
    PROVE  /\ U[1] = T[2] /\ 1 \in 1 .. Len(line') + 1
           /\ \A j \in 1 .. Len(line') + 1 :
                 /\ Tag(U[j]) /\ Before(T[1], U[j])
                 /\ \A g : AllAhead(g, T) => Ahead(g, U[j])
           /\ \A j \in 2 .. Len(line') + 1 : j \in 1 .. Len(line') + 1 /\ Before(T[2], U[j])
<1>1. PICK n : n = Len(line)  OBVIOUS
<1>2. n \in Nat /\ n > 0
  <2>1. n \in Nat /\ n # 0  BY <1>1, LineSize DEF LineType
  <2>. QED  BY <2>1
<1>3. Len(line') + 1 = n
  <2>1. PICK S : S = 0 .. 255  OBVIOUS
  <2>2. line \in Seq(S)  BY <2>1 DEF LineType
  <2>3. Len(Tail(line)) = Len(line) - 1  BY <2>2
  <2>. QED  BY <1>1, <1>2, <2>3
<1>4. \A j \in 1 .. n : /\ j + 1 \in 1 .. n + 1 /\ j + 1 \in 2 .. n + 1 /\ 1 < j + 1
                        /\ 2 \in 1 .. n + 1 /\ 1 \in 1 .. n + 1 /\ 1 + 1 = 2
  BY <1>2
<1>5. \A j \in 2 .. n : 2 < j + 1 /\ j \in 1 .. n  BY <1>2
<1>6. 1 \in 1 .. n  BY <1>2
<1>7. \A j \in 1 .. n : U[j] = T[j + 1]  BY <1>1
<1>8. DOMAIN T = 1 .. n + 1  BY <1>1 DEF Describes
<1>9. ASSUME NEW j \in 1 .. n
      PROVE  /\ Tag(U[j]) /\ Before(T[1], U[j])
             /\ \A g : AllAhead(g, T) => Ahead(g, U[j])
  <2>1. PICK k : k = j + 1  OBVIOUS
  <2>2. k \in DOMAIN T /\ 1 \in DOMAIN T /\ 1 < k /\ k \in 2 .. n + 1 /\ U[j] = T[k]
    BY <1>4, <1>7, <1>8, <2>1
  <2>3. Tag(T[k]) /\ Before(T[1], T[k])  BY <2>2 DEF Describes
  <2>4. \A g : AllAhead(g, T) => Ahead(g, T[k])  BY <1>1, <2>2 DEF AllAhead
  <2>. QED  BY <2>2, <2>3, <2>4
<1>10. ASSUME NEW j \in 2 .. n PROVE Before(T[2], U[j])
  <2>1. PICK k : k = j + 1  OBVIOUS
  <2>2. k \in DOMAIN T /\ 2 \in DOMAIN T /\ 2 < k /\ U[j] = T[k]
    BY <1>4, <1>5, <1>7, <1>8, <2>1
  <2>. QED  BY <2>2 DEF Describes
<1>. QED  BY <1>3, <1>4, <1>5, <1>6, <1>7, <1>9, <1>10

LEMMA InPlaceThen ==
    ASSUME NEW T, NEW f, Describes(T)', Holds(T[1])', Leading(f, reported, due)', AllAhead(f, T)'
    PROVE  InPlace'
BY DEF InPlace

LEMMA ReadInPlace ==
    ASSUME IInv, ListType, InPlace, ReadsByte
    PROVE  InPlace' /\ reported' \in Seq(Seq(0 .. 255))
<1>1. PICK T, f : /\ Describes(T) /\ Holds(T[1])
                  /\ Leading(f, reported, due) /\ AllAhead(f, T)
  BY DEF InPlace
<1>2. PICK byte, u : byte = Head(line) /\ u = T[2]  OBVIOUS
<1>3. PICK b : b = Append(IF Splits(byte) \/ Overrun THEN << >> ELSE rxBuffer, byte)
  OBVIOUS
<1>4. /\ line # << >> /\ line' = Tail(line) /\ due' = due
      /\ UNCHANGED <<sending, due>> /\ LineType /\ SendingType
  BY DEF ReadsByte, IInv
<1>5. Parse(byte)  BY <1>2 DEF ReadsByte
<1>6. PICK list : list = Published(reported, rxBuffer, Splits(byte))  OBVIOUS
<1>7. /\ candidate' = (Status(b) = "CANDIDATE")
      /\ reported' = Published(list, b, Status(b) = "COMPLETE")
      /\ \/ Status(b) \in {"INCOMPLETE", "CANDIDATE"} /\ rxBuffer' = b
         \/ Status(b) \in {"COMPLETE", "INVALID"} /\ rxBuffer' = << >>
  BY <1>3, <1>5, <1>6 DEF Parse
<1>8. /\ b \in Seq(0 .. 255) /\ b # << >>
      /\ Shape(b, u) \/ Status(b) = "INVALID"
      /\ Splits(byte) => b = <<Start>> /\ Status(b) = "INCOMPLETE"
  BY <1>1, <1>2, <1>3, <1>4, BufferGrows
<1>9. PICK U : U = [i \in 1 .. Len(line) |-> T[i + 1]]  OBVIOUS
<1>10. Describes(U)'  BY <1>1, <1>4, <1>9, DescribesRead
<1>11. /\ U[1] = u /\ 1 \in 1 .. Len(line') + 1
       /\ \A j \in 1 .. Len(line') + 1 :
             /\ Tag(U[j]) /\ Before(T[1], U[j])
             /\ Ahead(f, U[j])
       /\ \A j \in 2 .. Len(line') + 1 : j \in 1 .. Len(line') + 1 /\ Before(u, U[j])
  BY <1>1, <1>2, <1>4, <1>9, Shifted
<1>12. Holds(U[1])'
  <2>1. CASE rxBuffer' = << >>  BY <2>1 DEF Holds
  <2>2. CASE Status(b) \in {"INCOMPLETE", "CANDIDATE"} /\ rxBuffer' = b
    <3>1. Shape(b, u)  BY <1>8, <2>2
    <3>. QED  BY <1>7, <1>11, <2>2, <3>1 DEF Holds
  <2>. QED  BY <1>7, <2>1, <2>2
<1>13. Tag(T[1]) /\ Tag(u) /\ Placed(u)  BY <1>1, <1>2, <1>4, Ends
<1>14. PICK S : S = Seq(0 .. 255)  OBVIOUS
<1>15. reported \in Seq(S) /\ due \in Seq(S) /\ b \in S /\ rxBuffer \in S
  BY <1>8, <1>14 DEF ListType, IInv, TypeOK
<1>16. CASE Splits(byte)
  <2>1. Status(b) = "INCOMPLETE" /\ reported' = list /\ list = Append(reported, rxBuffer)
    <3>1. Status(b) # "COMPLETE"  BY <1>8, <1>16
    <3>. QED  BY <1>6, <1>7, <1>8, <1>16, <3>1 DEF Published
  <2>2. /\ IsCapture(rxBuffer) /\ rxBuffer # << >> /\ Aligned(rxBuffer, T[1])
        /\ AtEnd(T[1]) /\ T[1].index # 0
        /\ T[1].index \in 1 .. Len(due) /\ due[T[1].index] = rxBuffer
    BY <1>1, <1>2, <1>4, <1>16, SplitWhole
  <2>3. \A i \in DOMAIN f : f[i] < T[1].index
    BY <1>1, <2>2 DEF AllAhead, Ahead
  <2>4. PICK g : /\ Leading(g, Append(reported, rxBuffer), due)
                 /\ \A i \in DOMAIN g : g[i] \in Nat /\ g[i] <= T[1].index
    BY <1>1, <1>15, <2>2, <2>3, LeadingCapture
  <2>5. \A j \in 1 .. Len(line') + 1 : Ahead(g, U[j])
    BY <1>11, <1>13, <2>2, <2>4, AheadAfter
  <2>6. AllAhead(g, U)'  BY <1>11, <2>5 DEF AllAhead
  <2>7. Leading(g, reported, due)'  BY <1>4, <2>1, <2>4
  <2>8. reported' \in Seq(S)  BY <1>15, <2>1, Appended
  <2>. QED  BY <1>10, <1>12, <1>14, <2>6, <2>7, <2>8, InPlaceThen
<1>17. CASE ~ Splits(byte) /\ Status(b) # "COMPLETE"
  <2>1. reported' = reported  BY <1>6, <1>7, <1>17 DEF Published
  <2>2. Leading(f, reported, due)'  BY <1>1, <1>4, <2>1
  <2>3. AllAhead(f, U)'  BY <1>11 DEF AllAhead
  <2>. QED  BY <1>10, <1>12, <1>14, <1>15, <2>1, <2>2, <2>3, InPlaceThen
<1>18. CASE ~ Splits(byte) /\ Status(b) = "COMPLETE"
  <2>1. reported' = Append(reported, b) /\ rxBuffer' = << >>
    BY <1>6, <1>7, <1>18 DEF Published
  <2>2. reported' \in Seq(S)  BY <1>15, <2>1, Appended
  <2>3. CASE ~ IsCapture(b)
    <3>1. Leading(f, Append(reported, b), due)  BY <1>1, <1>15, <2>3, LeadingOther
    <3>2. Leading(f, reported, due)'  BY <1>4, <2>1, <3>1
    <3>3. AllAhead(f, U)'  BY <1>11 DEF AllAhead
    <3>. QED  BY <1>10, <1>12, <1>14, <2>2, <3>2, <3>3, InPlaceThen
  <2>4. CASE IsCapture(b)
    <3>1. Shape(b, u)  BY <1>8, <1>18
    <3>2. /\ AtEnd(u) /\ u.index # 0
          /\ u.index \in 1 .. Len(due) /\ due[u.index] = b
      BY <1>4, <1>8, <1>13, <1>18, <2>4, <3>1, CompleteWhole
    <3>3. \A i \in DOMAIN f : f[i] < u.index  BY <1>11, <3>2 DEF Ahead
    <3>4. PICK g : /\ Leading(g, Append(reported, b), due)
                   /\ \A i \in DOMAIN g : g[i] \in Nat /\ g[i] <= u.index
      BY <1>1, <1>15, <2>4, <3>2, <3>3, LeadingCapture
    <3>5. \A j \in 2 .. Len(line') + 1 : Ahead(g, U[j])
      BY <1>11, <1>13, <3>2, <3>4, AheadAfter
    <3>6. AllAhead(g, U)'  BY <2>1, <3>5 DEF AllAhead
    <3>7. Leading(g, reported, due)'  BY <1>4, <2>1, <3>4
    <3>. QED  BY <1>10, <1>12, <1>14, <2>2, <3>6, <3>7, InPlaceThen
  <2>. QED  BY <2>3, <2>4
<1>. QED  BY <1>16, <1>17, <1>18

(* The timeout finds the line quiet behind a whole capture only.           *)
LEMMA TimeoutWhole ==
    ASSUME IInv, Quiet, NEW T, Describes(T), Holds(T[1]), TimesOut, candidate
    PROVE  /\ rxBuffer \in Seq(0 .. 255) /\ rxBuffer # << >>
           /\ IsCapture(rxBuffer) /\ Aligned(rxBuffer, T[1])
           /\ T[1].index \in 1 .. Len(due) /\ due[T[1].index] = rxBuffer
<1>1. PICK t : t = T[1]  OBVIOUS
<1>2. Len(line) + 1 = 1 /\ line = << >>  BY DEF TimesOut
<1>3. Tag(t) /\ Placed(t) /\ SentLast(t)
  <2>1. 1 \in DOMAIN T  BY <1>2 DEF Describes
  <2>. QED  BY <1>1, <1>2, <2>1 DEF Describes
<1>4. /\ rxBuffer \in Seq(0 .. 255) /\ rxBuffer # << >>
      /\ IsCapture(rxBuffer) /\ Last(rxBuffer) = Stop
      /\ Aligned(rxBuffer, t) /\ Whole(t.piece)
  BY <1>1, <1>3, CandidateHolds DEF IInv
<1>5. sending = Silence \/ sending.out = 0
  <2>. SUFFICES ASSUME sending # Silence, sending.out # 0 PROVE FALSE  OBVIOUS
  <2>1. sending.out > 0
    <3>1. sending.out \in Nat  BY DEF IInv, SendingType, Sends
    <3>. QED  BY <3>1
  <2>2. quiet <= 1  BY <1>2, <1>4, <2>1 DEF Quiet
  <2>3. quiet > CandidateQuiet  BY <1>4 DEF TimesOut, Timeout
  <2>4. CandidateQuiet \in Nat \ {0}  BY BridgeAssumption
  <2>5. quiet \in Nat
    <3>1. CaptureTimeout \in Nat  BY BridgeAssumption
    <3>. QED  BY <3>1 DEF IInv, TypeOK
  <2>. QED  BY <2>2, <2>3, <2>4, <2>5
<1>6. AtEnd(t)  BY <1>3, <1>5 DEF SentLast
<1>. QED  BY <1>1, <1>3, <1>4, <1>6, WholeIsDue DEF IInv

LEMMA TimeoutInPlace ==
    ASSUME IInv, ListType, Quiet, InPlace, TimesOut
    PROVE  InPlace' /\ reported' \in Seq(Seq(0 .. 255))
<1>1. PICK T, f : /\ Describes(T) /\ Holds(T[1])
                  /\ Leading(f, reported, due) /\ AllAhead(f, T)
  BY DEF InPlace
<1>2. /\ rxBuffer' = << >> /\ UNCHANGED <<line, sending, due>>
      /\ due' = due /\ Len(line') + 1 = 1
      /\ reported' = Published(reported, rxBuffer, candidate)
  BY DEF TimesOut
<1>3. Describes(T)'  BY <1>1, <1>2, DescribesSame
<1>4. Holds(T[1])'  BY <1>2 DEF Holds
<1>5. \A g : AllAhead(g, T)'  BY <1>2 DEF AllAhead
<1>6. CASE ~ candidate
  <2>1. reported' = reported  BY <1>2, <1>6 DEF Published
  <2>2. Leading(f, reported, due)'  BY <1>1, <1>2, <2>1
  <2>. QED  BY <1>3, <1>4, <1>5, <2>1, <2>2, InPlaceThen DEF ListType
<1>7. CASE candidate
  <2>1. /\ rxBuffer \in Seq(0 .. 255) /\ rxBuffer # << >>
        /\ IsCapture(rxBuffer) /\ Aligned(rxBuffer, T[1])
        /\ T[1].index \in 1 .. Len(due) /\ due[T[1].index] = rxBuffer
    BY <1>1, <1>7, TimeoutWhole
  <2>2. \A i \in DOMAIN f : f[i] < T[1].index
    <3>1. T[1].index # 0
      <4>1. \A n : 0 \notin 1 .. n  OBVIOUS
      <4>. QED  BY <2>1, <4>1
    <3>. QED  BY <1>1, <2>1, <3>1 DEF AllAhead, Ahead
  <2>3. PICK S : S = Seq(0 .. 255)  OBVIOUS
  <2>4. reported \in Seq(S) /\ due \in Seq(S) /\ rxBuffer \in S
    BY <2>1, <2>3 DEF ListType
  <2>5. PICK g : Leading(g, Append(reported, rxBuffer), due)
    BY <1>1, <2>1, <2>2, <2>4, LeadingCapture
  <2>6. reported' = Append(reported, rxBuffer)  BY <1>2, <1>7 DEF Published
  <2>7. Leading(g, reported, due)'  BY <1>2, <2>5, <2>6
  <2>8. reported' \in Seq(S)  BY <2>4, <2>6, Appended
  <2>. QED  BY <1>3, <1>4, <1>5, <2>3, <2>7, <2>8, InPlaceThen
<1>. QED  BY <1>6, <1>7

LEMMA StopInPlace ==
    ASSUME IInv, Spoils, InPlace, StopSniffing
    PROVE  InPlace'
<1>1. PICK T : Describes(T)  BY DEF InPlace
<1>2. PICK U : U = <<[piece |-> T[Len(line) + 1].piece, pos |-> T[Len(line) + 1].pos, index |-> 0]>>
  OBVIOUS
<1>3. Describes(U)'  BY <1>1, <1>2, DescribesStopped DEF IInv
<1>4. rxBuffer' = << >> /\ Len(line') + 1 = 1 /\ due' = reported /\ reported' = reported
  BY DEF StopSniffing, Discarded
<1>5. Holds(U[1])'  BY <1>4 DEF Holds
<1>6. PICK g : Leading(g, reported, reported)  BY LeadingSelf
<1>7. Leading(g, reported, due)'  BY <1>4, <1>6
<1>8. AllAhead(g, U)'  BY <1>4 DEF AllAhead
<1>. QED  BY <1>3, <1>5, <1>7, <1>8, InPlaceThen

LEMMA SameInPlace ==
    ASSUME InPlace, UNCHANGED <<rxBuffer, candidate, line, due, reported>>,
           UNCHANGED sending \/ BeginsToSend
    PROVE  InPlace'
<1>1. PICK T, f : /\ Describes(T) /\ Holds(T[1])
                  /\ Leading(f, reported, due) /\ AllAhead(f, T)
  BY DEF InPlace
<1>2. Describes(T)'
  <2>1. CASE UNCHANGED sending  BY <1>1, <2>1, DescribesSame
  <2>2. CASE BeginsToSend  BY <1>1, <2>2, DescribesBegun
  <2>. QED  BY <2>1, <2>2
<1>3. Holds(T[1])'  BY <1>1 DEF Holds
<1>4. Leading(f, reported, due)'  BY <1>1
<1>5. AllAhead(f, T)'  BY <1>1 DEF AllAhead
<1>. QED  BY <1>2, <1>3, <1>4, <1>5, InPlaceThen

LEMMA SentInPlace ==
    ASSUME IInv, ListType, Spoils, InPlace, SendsByte
    PROVE  InPlace' /\ due' \in Seq(Seq(0 .. 255))
<1>1. PICK T, f : /\ Describes(T) /\ Holds(T[1])
                  /\ Leading(f, reported, due) /\ AllAhead(f, T)
  BY DEF InPlace
<1>2. PICK u : u = Sending  OBVIOUS
<1>3. PICK n, m : n = Len(line) /\ m = Len(due)  OBVIOUS
<1>4. n \in Nat /\ m \in Nat
  BY <1>3, LineSize, Element DEF IInv, LineType, ListType
<1>5. PICK U : U = [i \in 1 .. Len(line) + 2 |-> IF i = Len(line) + 2 THEN u ELSE T[i]]
  OBVIOUS
<1>6. Describes(U)'  BY <1>1, <1>2, <1>5, DescribesSent
<1>7. U[n + 2] = u /\ \A i \in 1 .. n + 1 : U[i] = T[i]
  <2>1. n + 2 \in 1 .. n + 2 /\ \A i \in 1 .. n + 1 : i \in 1 .. n + 2 /\ i # n + 2  BY <1>4
  <2>. QED  BY <1>3, <1>5, <2>1
<1>8. U[1] = T[1]
  <2>1. 1 \in 1 .. n + 1  BY <1>4
  <2>. QED  BY <1>7, <2>1
<1>9. UNCHANGED <<rxBuffer, candidate, reported>>  BY DEF SendsByte, rxVars
<1>10. Holds(U[1])'  BY <1>1, <1>8, <1>9 DEF Holds
<1>11. PICK S : S = Seq(0 .. 255)  OBVIOUS
<1>12. sending.bytes \in S
  <2>1. sending.bytes \in Pieces  BY DEF IInv, SendingType, SendsByte, Sends, Pieces
  <2>. QED  BY <1>11, <2>1, PieceBytes
<1>13. due \in Seq(S) /\ (due' = due \/ due' = Append(due, sending.bytes))
  BY <1>11 DEF ListType, SendsByte
<1>14. due' \in Seq(S)  BY <1>12, <1>13, Appended
<1>15. Leading(f, reported, due)'
  <2>1. Leading(f, reported, Append(due, sending.bytes))
    BY <1>1, <1>12, <1>13, LeadingSent
  <2>. QED  BY <1>1, <1>9, <1>13, <2>1
<1>16. Ahead(f, u)
  <2>. SUFFICES ASSUME u.index # 0, NEW i \in DOMAIN f PROVE f[i] < u.index  BY DEF Ahead
  <2>1. u.index = m + 1  BY <1>2, <1>3 DEF Sending
  <2>2. f[i] \in Captures(due) /\ DOMAIN due = 1 .. m
    BY <1>1, <1>3, <1>12, <1>13, Appended DEF Leading
  <2>3. PICK x : x = f[i]  OBVIOUS
  <2>4. x \in 1 .. m  BY <2>2, <2>3 DEF Captures
  <2>5. x < m + 1  BY <1>4, <2>4
  <2>. QED  BY <2>1, <2>3, <2>5
<1>17. Len(line') + 1 = n + 2
  <2>1. PICK R : R = 0 .. 255  OBVIOUS
  <2>2. line \in Seq(R)  BY <2>1 DEF IInv, LineType
  <2>3. sending.bytes[sending.out + 1] \in R
    <3>1. /\ sending.bytes \in Seq(0 .. 255) /\ sending.out \in Nat
          /\ sending.out < Len(sending.bytes)
      BY <1>11, <1>12 DEF IInv, SendingType, SendsByte, Sends
    <3>. QED  BY <2>1, <3>1, NthInSeq
  <2>4. Len(line') = n + 1  BY <1>3, <2>2, <2>3, Appended DEF SendsByte
  <2>. QED  BY <1>4, <2>4
<1>18. AllAhead(f, U)'
  <2>1. ASSUME NEW j \in 2 .. n + 2 PROVE Ahead(f, U[j])
    <3>1. CASE j = n + 2  BY <1>7, <1>16, <3>1
    <3>2. CASE j # n + 2
      <4>1. j \in 2 .. n + 1 /\ j \in 1 .. n + 1  BY <1>4, <3>2
      <4>. QED  BY <1>1, <1>3, <1>7, <4>1 DEF AllAhead
    <3>. QED  BY <3>1, <3>2
  <2>2. \A j \in 2 .. Len(line') + 1 : Ahead(f, U[j])  BY <1>17, <2>1
  <2>3. rxBuffer' # << >> /\ Aligned(rxBuffer', U[1]) => Ahead(f, U[1])
    BY <1>1, <1>8, <1>9 DEF AllAhead
  <2>. QED  BY <2>2, <2>3 DEF AllAhead
<1>. QED  BY <1>6, <1>10, <1>11, <1>14, <1>15, <1>18, InPlaceThen

LEMMA QuietThen ==
    ASSUME IInv, Quiet, [Next]_vars
    PROVE  Quiet'
<1>1. CASE rxBuffer' = << >>  BY <1>1 DEF Quiet
<1>2. CASE UNCHANGED <<rxBuffer, quiet, line, sending, fed>>  BY <1>2 DEF Quiet
<1>3. CASE ReadsByte
  <2>1. quiet' = 0 \/ rxBuffer' = << >>  BY <1>3 DEF ReadsByte, Parse
  <2>. QED  BY <1>1, <2>1 DEF Quiet
<1>4. CASE BeginsToSend
  <2>1. sending'.out = 0  BY <1>4 DEF BeginsToSend
  <2>2. ~ (sending'.out > 0)  BY <2>1
  <2>. QED  BY <2>2 DEF Quiet
<1>5. CASE SendsByte
  <2>1. PICK S : S = 0 .. 255  OBVIOUS
  <2>2. line \in Seq(S)  BY <2>1 DEF IInv, LineType
  <2>3. sending.bytes[sending.out + 1] \in S
    <3>1. sending.bytes \in Pieces
      BY <1>5 DEF IInv, SendingType, SendsByte, Sends, Pieces
    <3>2. sending.bytes \in Seq(0 .. 255)  BY <3>1, PieceBytes
    <3>3. sending.out \in Nat /\ sending.out < Len(sending.bytes)
      BY <1>5 DEF IInv, SendingType, SendsByte, Sends
    <3>. QED  BY <2>1, <3>2, <3>3, NthInSeq
  <2>4. PICK x : x = sending.bytes[sending.out + 1]  OBVIOUS
  <2>5. line' = Append(line, x) /\ x \in S  BY <1>5, <2>3, <2>4 DEF SendsByte
  <2>6. line' # << >>
    <3>1. Len(line') = Len(line) + 1 /\ Len(line) \in Nat  BY <2>2, <2>5, Appended
    <3>2. Len(line') # 0 /\ Len(<< >>) = 0  BY <3>1
    <3>. QED  BY <3>2
  <2>. QED  BY <2>6 DEF Quiet
<1>6. CASE Elapse
  <2>. SUFFICES ASSUME sending # Silence, sending.out > 0, line = << >>, rxBuffer # << >>
                PROVE  quiet' <= 1 /\ ~ fed'
    BY <1>6 DEF Quiet, Elapse
  <2>1. fed  BY <1>6 DEF Elapse
  <2>2. quiet = 0  BY <2>1 DEF Quiet
  <2>3. quiet' = quiet + 1 \/ quiet' = quiet  BY <1>6 DEF Elapse
  <2>4. ~ fed'  BY <1>6 DEF Elapse
  <2>. QED  BY <2>2, <2>3, <2>4
<1>. QED
  BY <1>1, <1>2, <1>3, <1>4, <1>5, <1>6
  DEF Next, Loop, TimesOut, StopSniffing, SendRaw, SendCommand, rxVars, lineVars, vars

LEMMA SpoilsThen ==
    ASSUME IInv, Spoils, [Next]_vars
    PROVE  Spoils'
<1>1. CASE UNCHANGED sending  BY <1>1 DEF Spoils
<1>2. CASE BeginsToSend
  <2>1. sending'.spoiled = FALSE  BY <1>2 DEF BeginsToSend
  <2>. QED  BY <2>1 DEF Spoils
<1>3. PICK p, k, s : sending = [bytes |-> p, out |-> k, spoiled |-> s]
  BY DEF IInv, SendingType
<1>4. CASE SendsByte
  <2>1. CASE sending' = Silence  BY <2>1 DEF Spoils, Silence
  <2>2. CASE sending' = [sending EXCEPT !.out = @ + 1]
    <3>1. k \in Nat  BY <1>3, <1>4 DEF IInv, SendingType, SendsByte, Sends
    <3>2. sending'.out = k + 1 /\ sending'.spoiled = s  BY <1>3, <2>2
    <3>3. s \in BOOLEAN  BY <1>3 DEF Spoils
    <3>4. k + 1 > 0  BY <3>1
    <3>. QED  BY <3>2, <3>3, <3>4 DEF Spoils
  <2>. QED  BY <1>4, <2>1, <2>2 DEF SendsByte
<1>5. CASE StopSniffing
  <2>1. CASE sending.out > 0
    <3>1. sending' = [sending EXCEPT !.spoiled = TRUE]  BY <1>5, <2>1 DEF StopSniffing
    <3>2. sending'.out = sending.out /\ sending'.spoiled = TRUE  BY <1>3, <3>1
    <3>. QED  BY <2>1, <3>2 DEF Spoils
  <2>2. CASE ~ (sending.out > 0)
    <3>1. UNCHANGED sending  BY <1>5, <2>2 DEF StopSniffing
    <3>. QED  BY <1>1, <3>1
  <2>. QED  BY <2>1, <2>2
<1>. QED
  BY <1>1, <1>2, <1>4, <1>5
  DEF Next, Loop, TimesOut, ReadsByte, SendRaw, SendCommand, Elapse, lineVars, vars

(* The invariant of the receive side.                                      *)
RxInv == IInv /\ ListType /\ Quiet /\ Spoils /\ InPlace

LEMMA InitRx == Init => RxInv
<1>. SUFFICES ASSUME Init PROVE RxInv  OBVIOUS
<1>1. /\ line = << >> /\ sending = Silence /\ due = << >> /\ reported = << >>
      /\ rxBuffer = << >> /\ Len(line) + 1 = 1
  BY DEF Init
<1>2. sending.out = 0 /\ sending.spoiled = FALSE  BY <1>1 DEF Silence
<1>3. ListType  BY <1>1 DEF ListType
<1>4. Quiet  BY <1>1 DEF Quiet
<1>5. Spoils  BY <1>2 DEF Spoils
<1>6. PICK t : t = [piece |-> << >>, pos |-> 0, index |-> 0]  OBVIOUS
<1>7. t.piece = << >> /\ t.pos = 0 /\ t.index = 0  BY <1>6
<1>8. PICK T : T = <<t>>  OBVIOUS
<1>9. DOMAIN T = 1 .. 1 /\ T[1] = t /\ \A i \in 1 .. 1 : i = 1  BY <1>8
<1>10. Describes(T)
  <2>1. Tag(t) /\ Placed(t)  BY <1>7 DEF Tag, Placed
  <2>2. SentLast(t)
    <3>1. AtEnd(t)  BY <1>7 DEF AtEnd
    <3>. QED  BY <1>1, <3>1 DEF SentLast
  <2>3. \A i \in 1 .. Len(line) : FALSE  BY <1>1
  <2>4. \A i, j \in DOMAIN T : ~ (i < j)  BY <1>9
  <2>5. \A i \in DOMAIN T : T[i] = t  BY <1>9
  <2>. QED  BY <1>1, <1>9, <2>1, <2>2, <2>3, <2>4, <2>5 DEF Describes
<1>11. Holds(T[1])  BY <1>1 DEF Holds
<1>12. PICK f : Leading(f, reported, reported)  BY LeadingSelf
<1>13. Leading(f, reported, due)  BY <1>1, <1>12
<1>14. AllAhead(f, T)  BY <1>1 DEF AllAhead
<1>15. InPlace  BY <1>10, <1>11, <1>13, <1>14 DEF InPlace
<1>. QED  BY <1>3, <1>4, <1>5, <1>15, InitIInv DEF RxInv

LEMMA NextRx == RxInv /\ [Next]_vars => RxInv'
<1>. SUFFICES ASSUME RxInv, [Next]_vars PROVE RxInv'  OBVIOUS
<1>1. IInv /\ ListType /\ Quiet /\ Spoils /\ InPlace  BY DEF RxInv
<1>2. IInv' /\ Quiet' /\ Spoils'  BY <1>1, NextIInv, QuietThen, SpoilsThen
<1>3. ListType' /\ InPlace'
  <2>1. CASE TimesOut
    BY <1>1, <2>1, TimeoutInPlace DEF TimesOut, ListType
  <2>2. CASE ReadsByte
    BY <1>1, <2>2, ReadInPlace DEF ReadsByte, ListType
  <2>3. CASE StopSniffing
    BY <1>1, <2>3, StopInPlace DEF StopSniffing, ListType
  <2>4. CASE BeginsToSend
    BY <1>1, <2>4, SameInPlace DEF BeginsToSend, rxVars, ListType
  <2>5. CASE SendsByte
    BY <1>1, <2>5, SentInPlace DEF SendsByte, ListType
  <2>6. CASE UNCHANGED <<rxBuffer, candidate, line, sending, due, reported>>
    BY <1>1, <2>6, SameInPlace DEF ListType
  <2>. QED
    BY <2>1, <2>2, <2>3, <2>4, <2>5, <2>6
    DEF Next, Loop, SendRaw, SendCommand, Elapse, rxVars, lineVars, vars
<1>. QED  BY <1>2, <1>3 DEF RxInv

(* Every published capture is one the coprocessor sent, whole, each once   *)
(* and in the order they were sent, whatever precedes it on the line,      *)
(* however long the loop stalls and wherever the radio was stopped         *)
(* (parse_bridge_byte_, b1_frame_status, loop).                            *)
THEOREM WholeCapturesOnly == Spec => []OnlyWholeCaptures
<1>1. RxInv => OnlyWholeCaptures
  BY DEF RxInv, InPlace, Leading, OnlyWholeCaptures
<1>. QED  BY <1>1, InitRx, NextRx, PTL DEF Spec
=============================================================================
