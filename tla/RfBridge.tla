------------------------------- MODULE RfBridge -------------------------------
(***************************************************************************)
(* RFBridgeComponent (components/rf_bridge/rf_bridge.cpp): the serial line *)
(* to the radio coprocessor.  Bytes received are parsed one by one in      *)
(* loop(), which runs now and then; send_raw writes frames.                *)
(*                                                                         *)
(* The coprocessor sends replies and captures.  It sends the bytes of one  *)
(* without a pause of a tick or more; between two there may be none at     *)
(* all.  A reset of it may cut one short.  The line loses nothing.         *)
(***************************************************************************)
EXTENDS B1Frame, B0Frame, SequencesExt

CONSTANTS
    Replies,            \* replies and captures the coprocessor sends, complete
    Fragments,          \* what else it sends: captures that are none, or cut short
    Frames,             \* frames passed to send_raw
    Offsets,            \* values tx_bucket_offset_us is built with
    Codes,              \* RFBridgeData passed to send_code
    AdvancedCodes,      \* RFBridgeAdvancedData passed to send_advanced_code
    BeepTimes,          \* milliseconds passed to beep
    MessageSize,        \* RF_MESSAGE_SIZE
    MaxRxBuffer,        \* MAX_RX_BUFFER_SIZE
    CandidateQuiet,     \* B1_CANDIDATE_QUIET_MS, in ticks of the model
    ReplyTimeout,       \* 50 ms, for a frame that is not a capture
    CaptureTimeout,     \* 250 ms, for a capture
    MaxSent             \* bound of the model: replies and captures sent

ASSUME BridgeAssumption ==
    /\ Replies \cup Fragments \subseteq Seq(0 .. 255) /\ << >> \notin Replies \cup Fragments
    /\ Frames \subseteq Seq(Chars)
    /\ Offsets \subseteq Nat
    /\ {MessageSize, MaxRxBuffer, MaxSent} \subseteq Nat
    /\ CandidateQuiet \in Nat \ {0} /\ {ReplyTimeout, CaptureTimeout} \subseteq Nat
    /\ CandidateQuiet <= ReplyTimeout /\ ReplyTimeout <= CaptureTimeout

ASSUME CommandAssumption ==
    /\ \A d \in Codes : {d.sync, d.low, d.high, d.code} \subseteq Nat
    /\ \A d \in AdvancedCodes : {d.length, d.protocol} \subseteq Nat /\ d.code \in Seq(Chars)
    /\ BeepTimes \subseteq Nat

(* In eight pulses or so behind a bucket table, what a capture has there:  *)
(* a pair of sync pulses, with a low pulse next.                           *)
Leads(raw) ==
    \E s \in 1 .. 1 + Padding :
        /\ \A i \in s .. s + 1 : Defined(raw, i)
        /\ SyncPair(raw, s)
        /\ s = 2 => ~ High(raw, s + 2)

IsCapture(buffer) == Len(buffer) >= 2 /\ buffer[2] = BucketAction

(* The coprocessor's side of the protocol.  What it sends starts with the  *)
(* start byte and an action.  A complete capture is an A-OK frame, and its *)
(* stop byte is not followed by a start byte where it is a pulse; what is  *)
(* cut short has not got to anything that could be one.                    *)
(* Two coincidences are left, and no parser without a length or a checksum *)
(* could tell them from a capture: the head of one within other data, and  *)
(* a table cut short by exactly its last byte, for which the start byte of *)
(* the next thing sent is taken, if that also reads as a sync pair.        *)
ASSUME CoprocessorAssumption ==
    /\ \A p \in Replies \cup Fragments :
          /\ p[1] = Start
          /\ Len(p) > 1 => p[2] \in 160 .. BucketAction
          /\ \A i \in 2 .. Len(p) - 1 : ~ (p[i] = Start /\ p[i + 1] = BucketAction)
    /\ \A p \in Replies :
          IsCapture(p) =>
            /\ Len(p) > 2 /\ IsAokBucketFrame(p)
            /\ \A k \in 3 .. Len(p) - 1 : IsAokBucketFrame(SubSeq(p, 1, k)) => p[k + 1] # Start
    /\ \A p \in Fragments :
          IsCapture(p) =>
            /\ \A k \in 3 .. Len(p) : ~ IsAokBucketFrame(SubSeq(p, 1, k))
            /\ Len(p) > 2 /\ Len(p) + 1 = HeaderSize(p) =>
                  \A q \in Replies \cup Fragments : Len(q) > 2 => ~ Leads(p \o SubSeq(q, 1, 3))

VARIABLES
    rxBuffer,       \* rx_buffer_
    candidate,      \* bucket_candidate_
    quiet           \* ticks since last_bridge_byte_, capped

VARIABLES
    line,           \* bytes received and not yet read: the UART's buffer
    sending,        \* what the coprocessor is sending, and how much of it is out
    fed,            \* a byte has come in this tick
    sent,           \* number of replies and captures begun
    due,            \* those sent whole, since the last of all is intact
    reported,       \* those handed to a callback
    reading,        \* a pass of loop() has bytes left to take
    clean,          \* nothing was cut short or discarded half way
    written         \* what was written last: [frame, offset, out], frame empty for a command

rxVars == <<rxBuffer, candidate, quiet>>
lineVars == <<line, sending, fed, sent, due, clean>>
vars == <<rxBuffer, candidate, quiet, line, sending, fed, sent, due, reported, reading, clean, written>>

Silence == [bytes |-> << >>, out |-> 0, spoiled |-> FALSE]
NoFrame == [frame |-> << >>, offset |-> 0, out |-> << >>]

(* Actions of commands, and of the coprocessor's replies.                  *)
LearnCommand == 161
RfOut == 165
SniffingOn == 166
RfOutNew == 168
BeepCommand == 192
Ack == 160
LearnOk == 163
RfIn == 164
AdvancedRfIn == 166
LearnOkNew == 171

Init ==
    /\ rxBuffer = << >>
    /\ candidate = FALSE
    /\ quiet = 0
    /\ line = << >>
    /\ sending = Silence
    /\ fed = FALSE
    /\ sent = 0
    /\ due = << >>
    /\ reported = << >>
    /\ reading = FALSE
    /\ clean = TRUE
    /\ written = NoFrame

-----------------------------------------------------------------------------
(* The parser.                                                             *)

(* What a reply amounts to with its last byte: more is to come, it is      *)
(* complete, or it is dropped.                                             *)
ReplyStatus(buffer) ==
    LET size == Len(buffer)
        byte == Last(buffer)
    IN  CASE buffer[2] \in {LearnOk, RfIn} ->
                IF byte = Stop /\ size >= MessageSize + 3 THEN "COMPLETE" ELSE "INCOMPLETE"
          [] buffer[2] \in {LearnOkNew, AdvancedRfIn} ->
                IF size < buffer[3] + 4 THEN "INCOMPLETE"
                ELSE IF byte = Stop /\ buffer[3] > 0 /\ size >= 5 THEN "COMPLETE"
                ELSE "INVALID"
          [] OTHER -> "INVALID"

Status(buffer) ==
    CASE Len(buffer) = 1 -> IF Last(buffer) = Start THEN "INCOMPLETE" ELSE "INVALID"
      [] Len(buffer) = 2 -> IF Last(buffer) \in Ack .. BucketAction THEN "INCOMPLETE" ELSE "INVALID"
      [] Len(buffer) > 2 -> IF IsCapture(buffer) THEN B1FrameStatus(buffer) ELSE ReplyStatus(buffer)

(* finish_bucket_capture_ of a buffer, and the callback of another reply.  *)
Published(list, buffer, publish) == IF publish THEN Append(list, buffer) ELSE list

(* Faulty variant: a start byte is a byte like any other.                  *)
SplitsNever(byte) == FALSE

(* A start byte after a possible end proves that it was the end.           *)
Splits(byte) == candidate /\ byte = Start

(* Faulty variant: the buffer may grow while a frame lasts.                *)
OverrunNever == FALSE

Overrun == Len(rxBuffer) > MaxRxBuffer

(* parse_bridge_byte_, after the guard of loop() on the size of the        *)
(* buffer, with what loop() does when a frame ends.                        *)
Parse(byte) ==
    LET published == Published(reported, rxBuffer, Splits(byte))
        buffer == Append(IF Splits(byte) \/ Overrun THEN << >> ELSE rxBuffer, byte)
        status == Status(buffer)
    IN  /\ candidate' = (status = "CANDIDATE")
        /\ reported' = Published(published, buffer, status = "COMPLETE")
        /\ \/ /\ status \in {"INCOMPLETE", "CANDIDATE"}
              /\ rxBuffer' = buffer
              /\ quiet' = 0
           \/ /\ status \in {"COMPLETE", "INVALID"}
              /\ rxBuffer' = << >>
              /\ UNCHANGED quiet

-----------------------------------------------------------------------------
(* loop().                                                                 *)

Timeout ==
    IF ~ IsCapture(rxBuffer) THEN ReplyTimeout
    ELSE IF Last(rxBuffer) = Stop THEN CandidateQuiet
    ELSE CaptureTimeout

TimesOut ==
    /\ line = << >> /\ quiet > Timeout
    /\ rxBuffer' = << >>
    /\ candidate' = FALSE
    /\ reported' = Published(reported, rxBuffer, candidate)
    /\ quiet' = 0
    /\ UNCHANGED <<line, reading, sending, fed, sent, due, clean, written>>

(* A pass takes all bytes there are; one that comes meanwhile waits, as if *)
(* it had come after the pass, and the pass has one time of its own.       *)
ReadsByte ==
    /\ line # << >>
    /\ Parse(Head(line))
    /\ line' = Tail(line)
    /\ reading' = (Len(line) > 1)
    /\ UNCHANGED <<sending, fed, sent, due, clean, written>>

Loop == TimesOut \/ ReadsByte

(* Faulty variant: what the UART has already received is kept.             *)
DiscardedNot == line

Discarded == << >>

(* stop_advanced_sniffing with reset_receive_state_: from the tick, to     *)
(* take the radio out of sniffing, and from setup() of the next boot.      *)
StopSniffing ==
    /\ ~ reading
    /\ rxBuffer' = << >>
    /\ candidate' = FALSE
    /\ line' = Discarded
    /\ quiet' = 0
    /\ sending' = IF sending.out > 0 THEN [sending EXCEPT !.spoiled = TRUE] ELSE sending
    /\ clean' = (clean /\ sending.out = 0)
    /\ due' = reported
    /\ UNCHANGED <<fed, sent, reported, reading, written>>

(* send_raw, of any frame: it is a public action.  It has nothing to do    *)
(* with the receive side, so it is enough to take it in one of its states. *)
SendRaw ==
    /\ sent = 0 /\ quiet = 0
    /\ \E frame \in Frames, offset \in Offsets :
          written' = [frame |-> frame, offset |-> offset, out |-> OnWire(Outgoing(Trimmed(frame), offset))]
    /\ UNCHANGED <<rxVars, lineVars, reported, reading>>

(* The other commands, as nibbles; a word has four.  No value is checked:  *)
(* the low bits are sent, 24 of a code.                                    *)
Command(action, data) == <<10, 10, action \div 16, action % 16>> \o data \o <<5, 5>>
Byte(n) == <<(n \div 16) % 16, n % 16>>
HighWord(n) == n \div 65536

SendCode(d) ==
    Command(RfOut, Nibbles(d.sync) \o Nibbles(d.low) \o Nibbles(d.high)
                       \o Byte(HighWord(d.code)) \o Nibbles(d.code))
SendAdvancedCode(d) ==
    Command(RfOutNew, Byte(d.length) \o Byte(d.protocol) \o OnWire(d.code))
Beep(ms) == Command(BeepCommand, Nibbles(ms))
Learn == Command(LearnCommand, << >>)
StartAdvancedSniffing == Command(SniffingOn, << >>)
StartBucketSniffing == Command(BucketAction, << >>)

Commands ==
    {Learn, StartAdvancedSniffing, StartBucketSniffing} \cup {Beep(ms) : ms \in BeepTimes}
        \cup {SendCode(d) : d \in Codes} \cup {SendAdvancedCode(d) : d \in AdvancedCodes}

SendCommand ==
    /\ sent = 0 /\ quiet = 0
    /\ \E out \in Commands : written' = [NoFrame EXCEPT !.out = out]
    /\ UNCHANGED <<rxVars, lineVars, reported, reading>>

-----------------------------------------------------------------------------
(* The coprocessor and the time.                                           *)

BeginsToSend ==
    /\ ~ reading
    /\ sending = Silence
    /\ sent < MaxSent
    /\ \E f \in Replies \cup Fragments :
          /\ sending' = [bytes |-> f, out |-> 0, spoiled |-> FALSE]
          /\ clean' = (clean /\ f \in Replies)
    /\ sent' = sent + 1
    /\ written' = NoFrame
    /\ UNCHANGED <<rxVars, line, fed, due, reported, reading>>

IsReported(f) == f \in Replies /\ f[2] # Ack

SendsByte ==
    /\ ~ reading
    /\ sending # Silence
    /\ line' = Append(line, sending.bytes[sending.out + 1])
    /\ fed' = TRUE
    /\ IF sending.out + 1 < Len(sending.bytes)
       THEN sending' = [sending EXCEPT !.out = @ + 1] /\ UNCHANGED due
       ELSE /\ sending' = Silence
            /\ due' = IF IsReported(sending.bytes) /\ ~ sending.spoiled
                      THEN Append(due, sending.bytes) ELSE due
    /\ UNCHANGED <<rxVars, sent, reported, reading, clean, written>>

Elapse ==
    /\ ~ reading
    /\ sending = Silence \/ fed
    /\ quiet' = IF quiet <= CaptureTimeout THEN quiet + 1 ELSE quiet
    /\ fed' = FALSE
    /\ UNCHANGED <<rxBuffer, candidate, line, sending, sent, due, reported, reading, clean, written>>

Next ==
    \/ Loop \/ StopSniffing \/ SendRaw \/ SendCommand
    \/ BeginsToSend \/ SendsByte \/ Elapse

Fairness == WF_vars(Loop) /\ WF_vars(Elapse) /\ WF_vars(SendsByte)

Spec == Init /\ [][Next]_vars /\ Fairness
-----------------------------------------------------------------------------
(* Properties.                                                             *)

(* The buffer is bounded whatever arrives.                                 *)
TypeOK ==
    /\ rxBuffer \in Seq(0 .. 255) /\ Len(rxBuffer) <= MaxRxBuffer + 1
    /\ {candidate, fed, reading, clean} \subseteq BOOLEAN
    /\ quiet \in 0 .. CaptureTimeout + 1
    /\ candidate => IsCapture(rxBuffer) /\ IsAokBucketFrame(rxBuffer)
    /\ sent \in 0 .. MaxSent

Captures(list) == {i \in DOMAIN list : IsCapture(list[i])}

(* A published capture is one the coprocessor sent, whole: whatever        *)
(* precedes it on the line, however long the loop stalls, wherever the     *)
(* radio was stopped, captures are never joined, cut at a pulse that looks *)
(* like the stop byte, or published twice or out of order                  *)
(* (parse_bridge_byte_, b1_frame_status, loop).  f leads from each         *)
(* published one to the one that was sent.                                 *)
OnlyWholeCaptures ==
    \E f \in [Captures(reported) -> Captures(due)] :
        /\ \A i \in Captures(reported) : reported[i] = due[f[i]]
        /\ \A i, j \in Captures(reported) : i < j => f[i] < f[j]

(* The parser comes to rest on a silent line, whatever it was in: the      *)
(* keepalive waits for it (receive_idle).  If the coprocessor has sent     *)
(* complete replies and captures only and none was discarded half way,     *)
(* each has then been reported once, back to back or not (loop).           *)
ComesToRest ==
    <>[](sending = Silence) =>
        []<>(rxBuffer = << >> /\ line = << >> /\ (clean => reported = due))

(* What reaches the coprocessor as a bucket frame with a shape that adds   *)
(* up names no bucket shorter than the floor, "at every offset, including  *)
(* the default 0", whoever called send_raw with whatever characters, or    *)
(* send_advanced_code with a code of that shape: one that reaches zero     *)
(* holds the carrier for 659 ms (B0_MIN_BUCKET_US).                        *)
CarrierNeverStuck ==
    B0FrameStatus(written.out) = "COMPENSABLE" =>
        \A b \in Referenced(written.out) : Bucket(written.out, b) >= MinBucket

(* A frame the scheduler admits takes no more air than the milliseconds    *)
(* frame_airtime_ms_ reserved for it from the uncompensated durations:     *)
(* "Over-reserving air is safe; under-reserving is not"                    *)
(* (b0_with_bucket_offset).                                                *)
AirReserved ==
    Admissible(written.frame) =>
        AirtimeOf(OnWire(Outgoing(Normalized(written.frame), written.offset)))
            <= 1000 * FrameAirtimeMs(Normalized(written.frame))
=============================================================================
