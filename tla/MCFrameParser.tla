--------------------------- MODULE MCFrameParser ---------------------------
(***************************************************************************)
(* FrameParser over three bytes: payloads of up to two, and a check sum in *)
(* place of the CRC.  The reference parser reads the whole stream at once. *)
(***************************************************************************)
EXTENDS FrameParser

Sum(s) == LET f[i \in 0..Len(s)] == IF i = 0 THEN 0 ELSE f[i - 1] + s[i] IN f[Len(s)]
MCCrc(s) == (Sum(s) + Len(s)) % (MaxByte + 1)

\* The frames and the wrong payloads from place i of the stream on: <<frames, bad,
\* wrong headers>>.
RECURSIVE Parse(_)
Parse(i) ==
    IF ~HeaderAt(stream, i)
      THEN IF i + HeaderLen > Len(stream) THEN <<<<>>, <<>>, 0>> ELSE Parse(i + 1)
      ELSE IF ~HeaderIsValid(stream, i)
             THEN LET rest == Parse(i + 1) IN <<rest[1], rest[2], rest[3] + 1>>
             ELSE IF i + FrameLen(stream, i) - 1 > Len(stream) THEN <<<<>>, <<>>, 0>>
                  ELSE LET rest == Parse(i + FrameLen(stream, i))
                           this == <<FrameAt(stream, i, i)>>
                       IN  IF PayloadIsValid(stream, i)
                             THEN <<this \o rest[1], rest[2], rest[3]>>
                             ELSE <<rest[1], this \o rest[2], rest[3]>>

\* FrameParser.feed; frame_parser.py, "Nothing is dropped without being counted in
\* `stats`": what is found in the stream, and what is counted as an error, do not depend
\* on how the link split it into chunks; and a byte is in a frame, in one counted as an
\* error, counted as discarded, or still in the buffer, which is less than a frame when
\* all is read.
ParserIsTheReference ==
    LET p == Parse(1)
        BytesOf(fs) == Sum([k \in DOMAIN fs |-> HeaderLen + Len(fs[k].payload) + 1])
    IN  /\ pc = "idle" => /\ frames = p[1] /\ bad = p[2]
                          /\ payloadErrors = Len(p[2]) /\ headerErrors = p[3]
        /\ bytesRx = discarded + BytesOf(frames) + BytesOf(bad) + Len(buf)
        /\ BufferIsBounded
=============================================================================
