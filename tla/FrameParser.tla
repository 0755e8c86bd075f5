----------------------------- MODULE FrameParser -----------------------------
(***************************************************************************)
(* core/protocol/frame_parser.py: FrameParser, which finds the frames of   *)
(* all streams in the bytes a link delivers, in chunks of any size.        *)
(*                                                                         *)
(* A frame is [MAGIC0][MAGIC1][TYPE][LEN][H_CRC] payload [P_CRC].  Each    *)
(* pass of the loop in frames() is a step; nothing is fed before the loop  *)
(* has ended, as feed() does it.                                           *)
(***************************************************************************)
EXTENDS Integers, Sequences

CONSTANTS
    MaxByte,          \* the largest byte, so also the longest payload
    Magic0, Magic1,
    Crc(_),           \* calculate_crc8
    MaxStream,        \* bound: bytes received in a session
    MaxChunk          \* bound: bytes received at once

Bytes == 0..MaxByte
HeaderLen == 5
MinFrameLen == HeaderLen + 1
MaxFrameLen == HeaderLen + MaxByte + 1

ASSUME ParserAssumption ==
    /\ MaxByte \in Nat /\ Magic0 \in Bytes /\ Magic1 \in Bytes /\ Magic0 # Magic1
    /\ MaxStream \in Nat /\ MaxChunk \in Nat
    /\ \A s \in {<<Magic0, Magic1, type, len>> : type \in Bytes, len \in Bytes} : Crc(s) \in Bytes

VARIABLES
    pc,        \* "idle", or "frames" in the loop
    buf,       \* rx_buffer
    bytesRx, discarded, headerErrors, payloadErrors,    \* of LinkStats
    frames,    \* the frames found: where in the stream they begin, type, payload
    bad,       \* the same for those whose payload's CRC was wrong
    stream     \* every byte received since the reset

stats == <<bytesRx, discarded, headerErrors, payloadErrors>>
vars == <<pc, buf, stats, frames, bad, stream>>

Init ==
    /\ pc = "idle" /\ buf = <<>>
    /\ bytesRx = 0 /\ discarded = 0 /\ headerErrors = 0 /\ payloadErrors = 0
    /\ frames = <<>> /\ bad = <<>> /\ stream = <<>>

----------------------------------------------------------------------------
(* What the bytes `s` hold at a place. *)

MagicAt(s, i) == i + 1 <= Len(s) /\ s[i] = Magic0 /\ s[i + 1] = Magic1

\* A header is only looked at once the smallest frame could be there.
HeaderAt(s, i) == MagicAt(s, i) /\ i + HeaderLen <= Len(s)
HeaderIsValid(s, i) == Crc(SubSeq(s, i, i + 3)) = s[i + 4]

FrameLen(s, i) == HeaderLen + s[i + 3] + 1
Payload(s, i) == SubSeq(s, i + HeaderLen, i + FrameLen(s, i) - 2)
PayloadIsValid(s, i) == Crc(Payload(s, i)) = s[i + FrameLen(s, i) - 1]

FrameAt(s, i, place) == [at |-> place, type |-> s[i + 2], payload |-> Payload(s, i)]

\* Where in the stream the buffer begins.
Place == Len(stream) - Len(buf) + 1

Drop(n) == buf' = SubSeq(buf, n + 1, Len(buf))

----------------------------------------------------------------------------

\* add_data
AddData(chunk) ==
    /\ pc = "idle" /\ pc' = "frames"
    /\ buf' = buf \o chunk /\ stream' = stream \o chunk
    /\ bytesRx' = bytesRx + Len(chunk)
    /\ UNCHANGED <<discarded, headerErrors, payloadErrors, frames, bad>>

InLoop == pc = "frames" /\ UNCHANGED stream
Rest == pc' = "idle"
Again == UNCHANGED pc

TooShort ==
    /\ InLoop /\ Len(buf) < MinFrameLen
    /\ Rest /\ UNCHANGED <<buf, stats, frames, bad>>

Discard(n) ==
    /\ Drop(n) /\ discarded' = discarded + n
    /\ UNCHANGED <<bytesRx, payloadErrors, frames, bad>>

\* Jump to the next magic pair.
Synchronize ==
    /\ InLoop /\ Len(buf) >= MinFrameLen /\ ~MagicAt(buf, 1)
    /\ \E i \in 2..Len(buf) :
           /\ MagicAt(buf, i) /\ \A j \in 1..(i - 1) : ~MagicAt(buf, j)
           /\ Discard(i - 1)
    /\ Again /\ UNCHANGED headerErrors

\* There is none; the last byte may be the first of a pair split across reads.
SkippedWithoutMagic == IF buf[Len(buf)] = Magic0 THEN Len(buf) - 1 ELSE Len(buf)

NoMagic ==
    /\ InLoop /\ Len(buf) >= MinFrameLen /\ \A i \in 1..Len(buf) : ~MagicAt(buf, i)
    /\ Discard(SkippedWithoutMagic)
    /\ Rest /\ UNCHANGED headerErrors

AtHeader == InLoop /\ Len(buf) >= MinFrameLen /\ MagicAt(buf, 1)

\* A wrong header CRC: synchronize again from the next byte.
DiscardOnBadHeaderUncounted == Drop(1) /\ UNCHANGED <<bytesRx, discarded, payloadErrors, frames, bad>>  \* mutant
DiscardOnBadHeader == Discard(1)

BadHeader ==
    /\ AtHeader /\ ~HeaderIsValid(buf, 1)
    /\ DiscardOnBadHeader /\ headerErrors' = headerErrors + 1
    /\ Again

\* A valid header, its payload still in flight: wait for it.
Wait == pc' = "idle"

InFlight ==
    /\ AtHeader /\ HeaderIsValid(buf, 1) /\ Len(buf) < FrameLen(buf, 1)
    /\ Wait /\ UNCHANGED <<buf, stats, frames, bad>>

\* The frame is consumed before it is validated, "so a bad frame can't stall the parser".
ConsumeWithoutCrc == Drop(FrameLen(buf, 1) - 1)  \* mutant: P_CRC is read again
Consume == Drop(FrameLen(buf, 1))

Frame ==
    /\ AtHeader /\ HeaderIsValid(buf, 1) /\ Len(buf) >= FrameLen(buf, 1)
    /\ Consume
    /\ IF PayloadIsValid(buf, 1)
         THEN /\ frames' = Append(frames, FrameAt(buf, 1, Place))
              /\ UNCHANGED <<stats, bad>>
         ELSE /\ payloadErrors' = payloadErrors + 1
              /\ bad' = Append(bad, FrameAt(buf, 1, Place))
              /\ UNCHANGED <<bytesRx, discarded, headerErrors, frames>>
    /\ Again

\* reset(): a new connection.
Reset ==
    /\ pc = "idle" /\ UNCHANGED pc
    /\ buf' = <<>> /\ frames' = <<>> /\ bad' = <<>> /\ stream' = <<>>
    /\ bytesRx' = 0 /\ discarded' = 0 /\ headerErrors' = 0 /\ payloadErrors' = 0

Loop == TooShort \/ Synchronize \/ NoMagic \/ BadHeader \/ InFlight \/ Frame

Next ==
    \/ Loop \/ Reset
    \/ \E n \in 1..MaxChunk :
           /\ Len(stream) + n <= MaxStream
           /\ \E chunk \in [1..n -> Bytes] : AddData(chunk)

Spec == Init /\ [][Next]_vars

----------------------------------------------------------------------------
(* Properties. *)

FrameRecords == [at : Nat, type : Bytes, payload : Seq(Bytes)]

\* Every variable has its type, and no counter exceeds the bytes received.
TypeOK ==
    /\ pc \in {"idle", "frames"} /\ buf \in Seq(Bytes) /\ stream \in Seq(Bytes)
    /\ discarded \in Nat /\ headerErrors \in Nat /\ payloadErrors \in Nat
    /\ frames \in Seq(FrameRecords) /\ bad \in Seq(FrameRecords)
    /\ bytesRx = Len(stream) /\ discarded <= bytesRx
    /\ headerErrors <= discarded /\ payloadErrors <= bytesRx

\* frame_parser.py, "Buffer invariant": after frames() the buffer holds at most one
\* incomplete frame, however large the chunks are.
BufferIsBounded == pc = "idle" => Len(buf) < MaxFrameLen

\* FrameParser.frames: what it yields is in the stream, in order, no byte in two frames.
FoundFramesAreThere ==
    \A k \in DOMAIN frames :
        LET i == frames[k].at IN
        /\ HeaderAt(stream, i) /\ HeaderIsValid(stream, i)
        /\ i + FrameLen(stream, i) - 1 <= Len(stream) /\ PayloadIsValid(stream, i)
        /\ frames[k] = FrameAt(stream, i, i)
        /\ k # Len(frames) => i + FrameLen(stream, i) <= frames[k + 1].at

\* A whole valid frame that no earlier valid header reaches into.
CleanFrameAt(i) ==
    /\ HeaderAt(stream, i) /\ HeaderIsValid(stream, i)
    /\ i + FrameLen(stream, i) - 1 <= Len(stream) /\ PayloadIsValid(stream, i)
    /\ \A j \in 1..(i - 1) : HeaderAt(stream, j) /\ HeaderIsValid(stream, j)
                              => j + FrameLen(stream, j) <= i

\* FrameParser.frames, "re-sync from the next byte": neither garbage nor a broken frame
\* costs a frame that is not itself damaged, wherever the reads split them.
CleanFramesAreFound ==
    pc = "idle" => \A i \in 1..Len(stream) : CleanFrameAt(i) => \E k \in DOMAIN frames : frames[k].at = i

\* The two together: what is found is there, and what is there undamaged is found.
FramesAreThoseSent == FoundFramesAreThere /\ CleanFramesAreFound

\* FrameParser.frames, "so a bad frame can't stall the parser": each turn of the loop takes
\* bytes from the buffer or is the last, so no chunk keeps the reader thread in it.
LoopMakesProgress == [][pc = "frames" => Len(buf') < Len(buf) \/ pc' = "idle"]_vars
=============================================================================
