---------------------------- MODULE AmpTelemetry ----------------------------
(***************************************************************************)
(* An amplifier's telemetry on its way to the bridge that blocks the       *)
(* radio's PTT on a fault (server/amplifier_bridge.py): frames on a byte   *)
(* stream that loses and garbles bytes, found again by the parser of       *)
(* common/acom_protocol.py, or readings of the eBox over HTTP              *)
(* (server/ebox_transport.py).                                             *)
(*                                                                         *)
(* A byte is a number below Base and a frame has one byte of status and    *)
(* one error code between its two marks and its checksum.                  *)
(***************************************************************************)
EXTENDS Naturals, Sequences

CONSTANTS
    Statuses,  \* what the amplifier may report: a status
    Errors,    \* and an error code
    MaxUpsets  \* bounds what disturbs the line and happens to the amplifier

Base == 4     \* 256
Mark == 1     \* 0x55
Mark2 == 2    \* 0x2F
NoError == 0  \* 0xFF, at the error code
Bytes == 0..Base - 1
FrameLength == 5  \* MSG_LEN

ASSUME TelemetryAssumption == Statuses \cup Errors \subseteq Bytes /\ MaxUpsets \in Nat

Readings == Statuses \X Errors

-----------------------------------------------------------------------------
(* Frames *)

ByteSum(bytes) ==
    LET total[n \in 0..Len(bytes)] == IF n = 0 THEN 0 ELSE (total[n - 1] + bytes[n]) % Base
    IN  total[Len(bytes)]
Faulty(r) == r[2] # NoError

\* Marks, status, error code, and what makes the sum zero.
Frame(r) == <<Mark, Mark2, r[1], r[2], (Base - ByteSum(<<Mark, Mark2, r[1], r[2]>>)) % Base>>

\* No frame could be taken to start anywhere but at its start: there are no two
\* marks in its middle, and no mark at its end, which would take the next
\* frame's first byte along.
Unmistakable(r) ==
    /\ Frame(r)[FrameLength] # Mark
    /\ \A i \in 2..FrameLength - 1 : Frame(r)[i] # Mark \/ Frame(r)[i + 1] # Mark2

-----------------------------------------------------------------------------

VARIABLES
    medium,    \* "stream": serial or TCP; "http": the eBox
    linkUp,    \* the stream has not broken; the eBox takes us for logged in
    enabled,   \* the amplifier sends telemetry
    reading,   \* what it would report now
    sending,   \* the frame under way
    sent,      \* how much of it has been sent
    buffer,    \* parser._buf, empty when it is not parsing
    previous,  \* the frame before the one under way
    lastFrame, \* status and error code in bridge.latest
    fault,     \* bridge.fault
    clean,     \* every byte arrived, of frames that could not be mistaken
    upsets     \* the disturbances so far

telemetryVars == <<medium, linkUp, enabled, reading, sending, sent, buffer, previous,
                   lastFrame, fault, clean, upsets>>

Nothing == <<>>

TelemetryTypeOK ==
    /\ medium \in {"stream", "http"}
    /\ {linkUp, enabled, fault} \subseteq BOOLEAN
    /\ {reading, sending, previous} \subseteq Readings
    /\ sent \in 0..FrameLength - 1
    /\ buffer \in Seq(Bytes) /\ Len(buffer) < FrameLength
    /\ lastFrame \in {Nothing} \cup (Bytes \X Bytes)
    /\ clean \in BOOLEAN
    /\ upsets \in 0..MaxUpsets

\* The bridge has connected, in the middle of whatever was sent.
TelemetryInit ==
    /\ medium \in {"stream", "http"}
    /\ linkUp = TRUE
    /\ enabled \in BOOLEAN
    /\ reading \in Readings
    /\ sending = reading /\ previous = reading
    /\ sent \in 0..FrameLength - 1
    /\ buffer = <<>>
    /\ lastFrame = Nothing
    /\ fault = FALSE
    /\ clean = Unmistakable(reading)
    /\ upsets = 0

-----------------------------------------------------------------------------
(* The parser *)

\* Mutant: a frame starts with any first mark.
Feed_OneMark(b) ==
    IF buffer = <<>> THEN IF b = Mark THEN <<b>> ELSE <<>>
    ELSE IF Len(buffer) = FrameLength - 1 THEN <<>>
    ELSE Append(buffer, b)

\* TelemetryParser.feed for a byte: what is in the buffer afterwards.  A mark
\* that turns out to start no frame takes the byte after it along.
Feed(b) ==
    IF buffer = <<>> THEN IF b = Mark THEN <<b>> ELSE <<>>
    ELSE IF (Len(buffer) = 1 /\ b # Mark2) \/ Len(buffer) = FrameLength - 1 THEN <<>>
    ELSE Append(buffer, b)

\* The byte completes a frame with a valid checksum.
Completes(b) == Len(buffer) = FrameLength - 1 /\ ByteSum(Append(buffer, b)) = 0

\* Mutants: the fault is kept until the bridge is restarted; the frame is stored.
Received_Sticky(b) ==
    /\ buffer' = Feed(b)
    /\ IF Completes(b)
       THEN lastFrame' = SubSeq(buffer, 3, 4) /\ fault' = (fault \/ Faulty(lastFrame'))
       ELSE UNCHANGED <<lastFrame, fault>>
Received_Frame(b) ==
    /\ buffer' = Feed(b)
    /\ IF Completes(b) THEN lastFrame' = buffer /\ fault' = Faulty(SubSeq(buffer, 3, 4))
                       ELSE UNCHANGED <<lastFrame, fault>>

\* _on_data: every frame replaces what was known.
Received(b) ==
    /\ buffer' = Feed(b)
    /\ IF Completes(b) THEN lastFrame' = SubSeq(buffer, 3, 4) /\ fault' = Faulty(lastFrame')
                       ELSE UNCHANGED <<lastFrame, fault>>

-----------------------------------------------------------------------------
(* The amplifier and the line *)

\* The next byte is sent.  A frame that was begun is sent to its end.
SendByte ==
    /\ medium = "stream" /\ linkUp
    /\ enabled \/ sent # 0
    /\ IF sent = FrameLength - 1 THEN sent' = 0 /\ sending' = reading /\ previous' = sending
                                 ELSE sent' = sent + 1 /\ UNCHANGED <<sending, previous>>
    /\ UNCHANGED <<medium, linkUp, enabled, reading>>

ByteArrives ==
    /\ SendByte
    /\ Received(Frame(sending)[sent + 1])
    /\ UNCHANGED <<clean, upsets>>

\* The byte is lost, or arrives as another one.
ByteSpoilt ==
    /\ upsets < MaxUpsets
    /\ upsets' = upsets + 1
    /\ SendByte
    /\ clean' = FALSE
    /\ UNCHANGED <<buffer, lastFrame, fault>> \/ \E b \in Bytes : Received(b)

\* _reenable_loop: the amplifier does not confirm, so it is asked every 5 s.
Reenable ==
    /\ linkUp /\ ~enabled
    /\ enabled' = TRUE
    /\ UNCHANGED <<medium, linkUp, reading, sending, sent, buffer, lastFrame, previous, fault,
                   clean, upsets>>

\* _poll_loop of the eBox: once a second, whatever the last poll came to.  Of
\* what it answers neither status nor error code is decoded, only whether there
\* is a fault.  An answer without the fields, as it is given when the eBox does
\* not take us for logged in, reads as no fault.
PollEbox ==
    /\ medium = "http"
    /\ fault' = (linkUp /\ Faulty(reading))
    /\ UNCHANGED <<medium, linkUp, enabled, reading, sending, sent, buffer, previous,
                   lastFrame, clean, upsets>>

\* The amplifier's state changes, it is switched off and on, or the stream ends
\* (nothing connects again), or the eBox's session goes to somebody else.
AmpEvent ==
    /\ upsets < MaxUpsets
    /\ upsets' = upsets + 1
    /\ \/ reading' \in Readings \ {reading} /\ UNCHANGED <<linkUp, enabled>>
       \/ enabled /\ enabled' = FALSE /\ UNCHANGED <<linkUp, reading>>
       \/ linkUp /\ linkUp' = FALSE /\ UNCHANGED <<enabled, reading>>
    /\ clean' = (clean /\ Unmistakable(reading'))
    /\ UNCHANGED <<medium, sending, sent, buffer, lastFrame, previous, fault>>

TelemetryNext == ByteArrives \/ ByteSpoilt \/ Reenable \/ PollEbox \/ AmpEvent

TelemetryFairness ==
    WF_telemetryVars(ByteArrives) /\ WF_telemetryVars(Reenable) /\ WF_telemetryVars(PollEbox)
TelemetrySpec == TelemetryInit /\ [][TelemetryNext]_telemetryVars /\ TelemetryFairness

-----------------------------------------------------------------------------
(* Properties *)

\* The bridge comes to know the amplifier's state and to block PTT, or not, as
\* it should, whatever bytes were lost or garbled and however often the
\* amplifier was switched off - as long as the link lasts.  A frame that can be
\* mistaken may never be found: a frame read from a false start in a steady
\* stream even has a valid checksum, being made of the same bytes.
FaultSettles ==
    <>[](linkUp /\ (medium = "stream" => Unmistakable(reading))
            => fault = Faulty(reading) /\ (medium = "stream" => lastFrame = reading))

\* Nothing is read that was not sent: what is known is the frame under way or
\* the one before, wherever in a frame the bridge began to listen - until a byte
\* is lost or garbled; an eight-bit sum lets some of that pass.
NothingInvented ==
    medium = "stream" /\ clean => lastFrame \in {Nothing, sending, previous}
=============================================================================
