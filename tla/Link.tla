-------------------------------- MODULE Link --------------------------------
(***************************************************************************)
(* core/protocol: what becomes of the bytes of a connection.  The text     *)
(* decoder (text_line.py) splits and matches lines, the router (router.py) *)
(* sends the frames its parser found to the streams; both count what they  *)
(* drop (stats.py), and the engine's statistics tick turns the counts and  *)
(* the ring of unmatched lines into reports.                               *)
(*                                                                         *)
(* The engine calls the decoder under its _data_lock, so a feed is not     *)
(* interrupted: `feeding` holds between its lines.                         *)
(***************************************************************************)
EXTENDS TextLine

CONSTANTS
    NL,             \* the newline
    Lines,          \* what a board prints
    Frames,         \* or sends, [id, size, counter]
    Texts, Binaries,    \* stream configurations, in config order
    MaxLine,        \* MAX_LINE_BYTES
    Kept,           \* REPLIES_KEPT
    PerReport,      \* MAX_REPLIES_PER_REPORT
    LineMod,        \* _line is a u32
    MaxSent, MaxConfigures    \* bounds

ASSUME LinkAssumption ==
    /\ NL \in Int \ (Digits \cup {SP, DOT})
    /\ Lines \subseteq Seq(Int) /\ \A l \in Lines : \A i \in 1..Len(l) : l[i] # NL
    /\ MaxLine \in Nat \ {0} /\ Kept \in Nat /\ PerReport \in Nat /\ LineMod \in Nat \ {0}
    /\ MaxSent \in Nat /\ MaxConfigures \in Nat

ASSUME FramesAssumption ==
    \A f \in Frames : {"id", "size", "counter"} \subseteq DOMAIN f /\ f.counter \in Nat

VARIABLES
    format,     \* "text" or "binary"
    streams,    \* as configured
    lineBuf, discarding, feeding,
    line,       \* per stream: its matched lines, _TextStream.lines
    last,       \* per counter tracked: its last value
    linkStats,
    replies,    \* the ring; a reply is known by its number
    prev,       \* the engine's _stats_prev: unmatched lines
    terminal,   \* the replies shown, and how many were not
    wire,       \* sent and not yet read
    sent,       \* lines, or frames, sent since the reset
    taken,      \* lines matched against the patterns
    tracked,    \* per counter: its values since the reset, with the breaks in its tracking
    configures

decoderVars == <<lineBuf, discarding, feeding, line, last, linkStats, replies, tracked>>
reportVars == <<prev, terminal>>
linkVars == <<wire, sent, taken>>
lvars == <<format, streams, decoderVars, reportVars, linkVars, configures>>

None == -1
Counters == {"lines", "unmatched", "overlong", "bad", "decoded", "unknown", "mismatched",
             "gaps", "missing", "resets"}
NoStats == [c \in Counters |-> 0]
Count(s, cs) == [c \in Counters |-> IF c \in cs THEN s[c] + 1 ELSE s[c]]

TextStreams == UNION {Range(c) : c \in Texts}
FrameStreams == UNION {Range(c) : c \in Binaries}

ASSUME StreamsAssumption ==
    /\ Texts \subseteq Seq(TextStreams) /\ Binaries \subseteq Seq(FrameStreams)
    /\ \A s \in TextStreams : s.time \in {0} \cup DOMAIN s.types /\ s.step \in Nat \ {0}

\* frame_dtype: the fields' names and types, in a byte order if they are of more than a byte.
WidthOf(type) == CASE type \in {"u8", "i8"} -> 1 [] type \in {"u16", "i16"} -> 2 [] OTHER -> 4
SizeOf(s) == FoldLeft(LAMBDA n, f : n + WidthOf(f.type), 0, s.fields)
DtypeOf(s) == [i \in 1..Len(s.fields) |->
    [field |-> s.fields[i], order |-> IF WidthOf(s.fields[i].type) = 1 THEN "any" ELSE s.order]]

\* The counters there may be: one per text stream, one per layout of an ID.
Tracks == {<<s.key>> : s \in TextStreams}
    \cup {<<s.id, SizeOf(s)>> : s \in FrameStreams}

ASSUME TracksAssumption == IsFiniteSet(Tracks)

----------------------------------------------------------------------------
(* Counters. *)

\* A counter's values are <<value, step>>, the step that of its stream then; None is where
\* its tracking breaks off.
Follows(values, i) == values[i - 1][1] # None /\ values[i][1] # None
Distance(values, i) == values[i][1] - values[i - 1][1]
\* round(x / step) - 1, to the even one of two as near.
Skipped(distance, step) ==
    LET down == distance \div step
        rest == 2 * (distance % step)
        near == IF rest > step \/ (rest = step /\ down % 2 = 1) THEN down + 1 ELSE down
    IN  near - 1

\* _track_counter: where values were skipped, how many, and where it restarted.
Jumps(values) ==
    {i \in 2..Len(values) : Follows(values, i) /\ IsGap(Distance(values, i), 2 * values[i][2])}
Restarts(values) == {i \in 2..Len(values) : Follows(values, i) /\ Distance(values, i) <= 0}
Missing(values) ==
    SumFunction([i \in Jumps(values) |-> Skipped(Distance(values, i), values[i][2])])

\* The stats once each track of `runs` has had the values after the first, its last before.
TrackCounter(s, runs) ==
    [s EXCEPT !["gaps"] = @ + SumFunction([t \in DOMAIN runs |-> Cardinality(Jumps(runs[t]))]),
              !["missing"] = @ + SumFunction([t \in DOMAIN runs |-> Missing(runs[t])]),
              !["resets"] = @ + SumFunction([t \in DOMAIN runs |-> Cardinality(Restarts(runs[t]))])]

----------------------------------------------------------------------------
(* Lines. *)

\* What each pattern reads of each line there can be.
Read == [s \in TextStreams |->
    [l \in {Strip(end) : end \in UNION {Suffixes(l) : l \in Lines}} |-> Readings(s.pieces, l)]]

Matches(s, l) == Read[s][l] # {}
Slots(s, l) == CHOOSE slots \in Read[s][l] : TRUE
ValueError(s, l) == \E i \in DOMAIN s.types : ~Converts(s.types[i], Slots(s, l)[i])

\* counter_index: the time field, if it is an integer slot, is tracked.
CounterOf(s, l) == IF s.time = 0 \/ s.types[s.time] = "f32" THEN None ELSE Slots(s, l)[s.time][1]

----------------------------------------------------------------------------

Configs == IF format = "text" THEN Texts ELSE Binaries

LInit ==
    /\ format \in {"text", "binary"} /\ streams \in Configs
    /\ lineBuf = <<>> /\ discarding = FALSE /\ feeding = FALSE
    /\ line = [t \in Tracks |-> 0] /\ last = [t \in Tracks |-> None]
    /\ linkStats = NoStats /\ replies = <<>> /\ prev = 0
    /\ terminal = [shown |-> <<>>, dropped |-> 0]
    /\ wire = <<>> /\ sent = <<>> /\ taken = <<>> /\ tracked = [t \in Tracks |-> <<>>]
    /\ configures = 0

\* The board prints a line.
PrintLine ==
    /\ format = "text" /\ Len(sent) < MaxSent
    /\ \E l \in Lines : sent' = Append(sent, l) /\ wire' = wire \o Append(l, NL)
    /\ UNCHANGED <<format, streams, decoderVars, reportVars, taken, configures>>

\* TextLineDecoder.feed: a read may end anywhere.
Feed ==
    /\ format = "text" /\ ~feeding
    /\ \E n \in 1..Len(wire) :
        /\ lineBuf' = lineBuf \o SubSeq(wire, 1, n)
        /\ wire' = SubSeq(wire, n + 1, Len(wire))
    /\ feeding' = TRUE
    /\ UNCHANGED <<format, streams, discarding, line, last, linkStats, replies, tracked, reportVars,
                   sent, taken, configures>>

Newlines == {i \in 1..Len(lineBuf) : lineBuf[i] = NL}
First == SubSeq(lineBuf, 1, Min(Newlines) - 1)
NextLine ==
    /\ feeding /\ Newlines # {}
    /\ lineBuf' = SubSeq(lineBuf, Min(Newlines) + 1, Len(lineBuf))

\* The overlong line ends here; it is counted.
EndOfOverlong ==
    /\ NextLine /\ discarding /\ discarding' = FALSE
    /\ UNCHANGED <<format, streams, feeding, line, last, linkStats, replies, tracked, reportVars,
                   linkVars, configures>>

\* A whole line that is too long.
Overlong ==
    /\ NextLine /\ ~discarding /\ Len(First) > MaxLine
    /\ linkStats' = Count(linkStats, {"lines", "overlong"})
    /\ UNCHANGED <<format, streams, discarding, feeding, line, last, replies, tracked, reportVars,
                   linkVars, configures>>

ShortLine == NextLine /\ ~discarding /\ Len(First) <= MaxLine /\ taken' = Append(taken, Strip(First))

BlankLine ==
    /\ ShortLine /\ Strip(First) = <<>>
    /\ UNCHANGED <<format, streams, discarding, feeding, line, last, linkStats, replies, tracked,
                   reportVars, wire, sent, configures>>

Matching(l) == {i \in 1..Len(streams) : Matches(streams[i], l)}

\* _line: the first stream whose pattern matches takes it, whether its value fits or not.
MatchedLine ==
    /\ ShortLine /\ Strip(First) # <<>> /\ Matching(Strip(First)) # {}
    /\ LET l == Strip(First)
           s == streams[Min(Matching(l))]
           t == <<s.key>>
           decoded == Count(linkStats, {"lines", "decoded"})
           value == CounterOf(s, l)
       IN  IF ValueError(s, l)
           THEN linkStats' = Count(linkStats, {"lines", "bad"}) /\ UNCHANGED <<line, last, tracked>>
           ELSE /\ line' = [line EXCEPT ![t] = (@ + 1) % LineMod]
                /\ IF value = None
                   THEN linkStats' = decoded /\ UNCHANGED <<last, tracked>>
                   ELSE /\ linkStats' = TrackCounter(decoded,
                            [u \in {t} |-> <<<<last[t], s.step>>, <<value, s.step>>>>])
                        /\ last' = [last EXCEPT ![t] = value]
                        /\ tracked' = [tracked EXCEPT ![t] = Append(@, <<value, s.step>>)]
    /\ UNCHANGED <<format, streams, discarding, feeding, replies, reportVars, wire, sent,
                   configures>>

\* A line no pattern matches: the board's reply.  deque(maxlen=REPLIES_KEPT)
RingOf(ring, n) == LET all == Append(ring, n) IN
    SubSeq(all, IF Len(all) > Kept THEN 2 ELSE 1, Len(all))

Reply ==
    /\ ShortLine /\ Strip(First) # <<>> /\ Matching(Strip(First)) = {}
    /\ linkStats' = Count(linkStats, {"lines", "unmatched"})
    /\ replies' = RingOf(replies, linkStats["unmatched"] + 1)
    /\ UNCHANGED <<format, streams, discarding, feeding, line, last, tracked, reportVars,
                   wire, sent, configures>>

\* The rest waits for the next read, unless it is too long already.
KeepCounting == linkStats' = Count(linkStats, {"lines", "overlong"})    \* mutant: at every read
CountOverlong ==
    IF discarding THEN UNCHANGED linkStats ELSE linkStats' = Count(linkStats, {"lines", "overlong"})

DiscardUntilRead == UNCHANGED discarding    \* mutant: what follows is a line
DiscardRest == discarding' = TRUE

EndFeed ==
    /\ feeding /\ Newlines = {} /\ feeding' = FALSE
    /\ IF Len(lineBuf) > MaxLine
       THEN lineBuf' = <<>> /\ DiscardRest /\ CountOverlong
       ELSE UNCHANGED <<lineBuf, discarding, linkStats>>
    /\ UNCHANGED <<format, streams, line, last, replies, tracked, reportVars, linkVars, configures>>

----------------------------------------------------------------------------
(* Frames. *)

\* configure: the first dtype of an ID and size is its meaning, for those that have the same.
Sharing(c, id, size) == {i \in 1..Len(c) : c[i].id = id /\ SizeOf(c[i]) = size}
Routes(id, size) == Sharing(streams, id, size)
Layout(id, size) == DtypeOf(streams[Min(Routes(id, size))])
Counts(dtype) == \E i \in DOMAIN dtype : dtype[i].field.name = "loop_cntr"
Routed(i) == DtypeOf(streams[i]) = Layout(streams[i].id, SizeOf(streams[i]))
KnownIds == {streams[i].id : i \in 1..Len(streams)}

\* The counters of a batch's frames of one layout.
Values(batch, t) ==
    FoldLeft(LAMBDA vs, f : IF <<f.id, f.size>> = t THEN Append(vs, <<f.counter, 1>>) ELSE vs,
             <<>>, batch)

\* route: a batch of frames, each layout's together.
Route ==
    /\ format = "binary" /\ Len(sent) < MaxSent
    /\ \E batch \in SeqOf(Frames, MaxSent - Len(sent)) \ {<<>>} :
        LET unknown == {i \in 1..Len(batch) : batch[i].id \notin KnownIds}
            mismatched == {i \in 1..Len(batch) :
                i \notin unknown /\ Routes(batch[i].id, batch[i].size) = {}}
            counted == {t \in {<<batch[i].id, batch[i].size>> : i \in 1..Len(batch)} :
                Routes(t[1], t[2]) # {} /\ Counts(Layout(t[1], t[2]))}
            dropped == [linkStats EXCEPT
                !["unknown"] = @ + Cardinality(unknown),
                !["mismatched"] = @ + Cardinality(mismatched),
                !["decoded"] = @ + Len(batch) - Cardinality(unknown) - Cardinality(mismatched)]
        IN  /\ sent' = sent \o batch
            /\ linkStats' = TrackCounter(dropped,
                            [t \in counted |-> <<<<last[t], 1>>>> \o Values(batch, t)])
            /\ last' = [t \in Tracks |-> IF t \in counted THEN Last(Values(batch, t))[1] ELSE last[t]]
            /\ tracked' = [t \in Tracks |->
                  IF t \in counted THEN tracked[t] \o Values(batch, t) ELSE tracked[t]]
    /\ UNCHANGED <<format, streams, lineBuf, discarding, feeding, line, replies, reportVars, wire,
                   taken, configures>>

----------------------------------------------------------------------------
(* The engine. *)

Named(c) == {<<c[i].key>> : i \in 1..Len(c)}

\* configure: the text streams that stay keep their counts, the router's routes are new.
Forgotten(t, c) == FALSE    \* mutant: as the router does
Stays(t, c) ==
    /\ format = "text"
    /\ \E i \in 1..Len(streams) : <<streams[i].key>> = t
    /\ \E i \in 1..Len(c) : <<c[i].key>> = t

Configure ==
    /\ ~feeding /\ configures < MaxConfigures /\ configures' = configures + 1
    /\ \E c \in Configs :
        /\ c # streams /\ streams' = c
        /\ line' = [t \in Tracks |-> IF Stays(t, c) THEN line[t] ELSE 0]
        /\ last' = [t \in Tracks |-> IF Stays(t, c) THEN last[t] ELSE None]
        /\ tracked' = [t \in Tracks |->
              IF format = "text" /\ t \in Named(streams) \cap Named(c)
              THEN tracked[t] ELSE Append(tracked[t], <<None, 1>>)]
    /\ UNCHANGED <<format, lineBuf, discarding, feeding, linkStats, replies, reportVars, linkVars>>

\* _start: reset(), and the statistics of the report before start again.
Start ==
    /\ ~feeding /\ sent # <<>> /\ configures < MaxConfigures /\ configures' = configures + 1
    /\ lineBuf' = <<>> /\ discarding' = FALSE
    /\ line' = [t \in Tracks |-> 0] /\ last' = [t \in Tracks |-> None]
    /\ linkStats' = NoStats /\ replies' = <<>> /\ prev' = 0
    /\ terminal' = [shown |-> <<>>, dropped |-> 0]
    /\ wire' = <<>> /\ sent' = <<>> /\ taken' = <<>> /\ tracked' = [t \in Tracks |-> <<>>]
    /\ UNCHANGED <<format, streams, feeding>>

\* validate_config, of streams that cannot all be decoded: those whose types or byte order
\* are not those of the first with their ID and size, or whose pattern an earlier one has.
SharedIdProblems(c) ==
    LET LayoutOf(s) == <<s.order, [i \in 1..Len(s.fields) |-> s.fields[i].type]>>
    IN  {i \in 1..Len(c) : LayoutOf(c[i]) # LayoutOf(c[Min(Sharing(c, c[i].id, SizeOf(c[i])))])}
SamePatternProblems(c) == {i \in 1..Len(c) : \E j \in 1..(i - 1) : c[j].pieces = c[i].pieces}

\* make_link_report, _on_link_stats: the newest of the replies since the report before.
NewestOf(s, n) == SubSeq(s, IF Len(s) > n THEN Len(s) - n + 1 ELSE 1, Len(s))
ReportedAll(new) == NewestOf(replies, PerReport)    \* mutant: whatever is in the ring
Reported(new) == NewestOf(NewestOf(replies, new), PerReport)

OnLinkStats(shown, dropped) ==
    terminal' = [shown |-> terminal.shown \o shown, dropped |-> terminal.dropped + dropped]
EmitLinkStats ==
    /\ ~feeding /\ format = "text"
    /\ LET new == linkStats["unmatched"] - prev IN
        /\ new > 0
        /\ OnLinkStats(Reported(new), new - Len(Reported(new)))
        /\ prev' = linkStats["unmatched"]
    /\ UNCHANGED <<format, streams, decoderVars, linkVars, configures>>

----------------------------------------------------------------------------

LNext ==
    \/ PrintLine \/ Feed
    \/ EndOfOverlong \/ Overlong \/ BlankLine \/ MatchedLine \/ Reply \/ EndFeed
    \/ Route
    \/ Configure \/ Start \/ EmitLinkStats

LSpec == LInit /\ [][LNext]_lvars

----------------------------------------------------------------------------
(* Properties. *)

\* Every variable has its type, and between reads no more than a line is buffered.
LTypeOK ==
    /\ format \in {"text", "binary"} /\ streams \in Configs /\ configures \in 0..MaxConfigures
    /\ lineBuf \in Seq(Int) /\ discarding \in BOOLEAN /\ feeding \in BOOLEAN
    /\ feeding => format = "text"
    /\ ~feeding => Len(lineBuf) <= MaxLine /\ Newlines = {}
    /\ line \in [Tracks -> 0..(LineMod - 1)] /\ last \in [Tracks -> Int]
    /\ tracked \in [Tracks -> Seq(Int \X (Nat \ {0}))]
    /\ linkStats \in [Counters -> Int] /\ linkStats["unmatched"] \in Nat
    /\ replies \in Seq(Nat) /\ prev \in Nat /\ terminal \in [shown : Seq(Nat), dropped : Nat]
    /\ wire \in Seq(Int) /\ sent \in Seq(IF format = "text" THEN Lines ELSE Frames)
    /\ taken \in Seq(Seq(Int))

\* What has been read: whole lines, and how much of the next.
Complete == Len(sent) - Cardinality({i \in 1..Len(wire) : wire[i] = NL})
PartRead ==
    IF wire = <<>> THEN 0
    ELSE Len(sent[Complete + 1]) + 1 - Min({i \in 1..Len(wire) : wire[i] = NL})

\* feed, _line: however the reads cut them, the lines matched are those the board printed,
\* without the overlong ones and with nothing of those.
Fits(n) == {i \in 1..n : Len(sent[i]) <= MaxLine}
LinesAreThoseSent ==
    format = "text" /\ ~feeding =>
        /\ Len(taken) = Cardinality(Fits(Complete))
        /\ \A i \in Fits(Complete) : taken[Cardinality(Fits(i))] = Strip(sent[i])

\* "Nothing is dropped silently (C13)": each line or frame is counted once, and once for
\* what became of it.
NothingIsDroppedSilently ==
    ~feeding =>
        IF format = "text"
        THEN /\ linkStats["lines"] = linkStats["decoded"] + linkStats["bad"] + linkStats["overlong"]
                                   + linkStats["unmatched"]
             /\ linkStats["lines"] = Cardinality({i \in 1..Complete :
                                      Len(sent[i]) > MaxLine \/ Strip(sent[i]) # <<>>})
                                  + (IF PartRead > MaxLine THEN 1 ELSE 0)
        ELSE Len(sent) = linkStats["decoded"] + linkStats["unknown"] + linkStats["mismatched"]

\* The two together: what the board printed is what was matched, and is in the counts.
LinesAreTakenAndCounted == LinesAreThoseSent /\ NothingIsDroppedSilently

\* _track_counter: losses and restarts are those in each stream's values one after another,
\* across reads, and for text across changes of the streams.
LossesAreCounted ==
    /\ linkStats["missing"] = SumFunction([t \in Tracks |-> Missing(tracked[t])])
    /\ linkStats["resets"] = SumFunction([t \in Tracks |-> Cardinality(Restarts(tracked[t]))])

\* make_link_report, "Unmatched lines since the previous report": the terminal shows each
\* reply once, in order, and says how many it does not show; it has the newest.
RepliesAreShownOnce ==
    /\ Len(terminal.shown) + terminal.dropped = prev
    /\ \A i \in 1..Len(terminal.shown) :
        /\ terminal.shown[i] \in 1..prev
        /\ \A j \in 1..(i - 1) : terminal.shown[j] < terminal.shown[i]
    /\ prev > 0 /\ Kept > 0 /\ PerReport > 0 => Last(terminal.shown) = prev

----------------------------------------------------------------------------
(* What docs say that the code does not do. *)

\* text_line.configure, "Counts continue for streams that stay, as the binary router's
\* tracking does."
CountsContinue == [][streams' # streams =>
    LET fed(c) == IF format = "text" THEN Named(c)
                  ELSE {<<c[i].id, SizeOf(c[i])>> : i \in 1..Len(c)}
    IN  \A t \in fed(streams) \cap fed(streams') : last'[t] = last[t]]_lvars

\* router.configure, "Validation warns; the first definition wins": a stream that others
\* leave nothing is reported when the file is read.
UnfedStreamsAreReported ==
    IF format = "binary"
    THEN {i \in 1..Len(streams) : ~Routed(i)} \subseteq SharedIdProblems(streams)
    ELSE \A i \in 1..Len(streams) :
        LET own == {l \in DOMAIN Read[streams[i]] : Matches(streams[i], l)}
        IN  own # {} /\ (\A l \in own : Min(Matching(l)) < i) => i \in SamePatternProblems(streams)
=============================================================================
