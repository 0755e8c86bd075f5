------------------------------- MODULE Engine -------------------------------
(***************************************************************************)
(* core/acquisition/engine.py: the engine thread, one reader thread per    *)
(* session (core/transport/reader.py) and what they share.                 *)
(*                                                                         *)
(* The engine's slots run one at a time, in the order they were posted:    *)
(* `inbox` is the thread's event queue.  It holds the GUI's calls and the  *)
(* two signals the reader threads emit.  A slot is split into steps where  *)
(* a reader thread can get in between: at a lock it takes, or where it     *)
(* blocks.  `at` is the step the engine thread is at ("idle" in its event  *)
(* loop), `job` what it works on, `out` the signals its last step emitted. *)
(***************************************************************************)
EXTENDS Integers, Sequences

CONSTANTS
    Configs,      \* stream sets that can be configured ("streams" dicts)
    NoCfg,        \* the empty stream set
    FmtOf,        \* wire format each stream set is written for
    UserCalls,    \* the calls the user's side makes (a subset of Calls({0}))
    MaxCalls,     \* bound: calls posted, so also sessions and recordings
    MaxChunks,    \* bound: reads with data in a session; a recording's length
    DiskErrors,   \* file operations that may raise OSError
    JoinTimesOut  \* may a reader miss the one second stop() waits for it?

Binary == "binary"
Text == "text"
Formats == {Binary, Text}           \* LINK_FORMATS
Unknown == "unknown"                \* a recording's format no decoder reads
None == 0

ASSUME BoundsAssumption ==
    MaxCalls \in Nat /\ MaxChunks \in Nat

ASSUME ConfigsAssumption ==
    /\ NoCfg \notin Configs
    /\ FmtOf \in [Configs \cup {NoCfg} -> Formats]

ASSUME SwitchesAssumption ==
    /\ DiskErrors \subseteq {"create", "write", "flush", "close"}
    /\ JoinTimesOut \in BOOLEAN

Sessions == 1..MaxCalls
AnyCfg == Configs \cup {NoCfg}

\* A call that starts a session gets the number the session will have when posted.
Calls(ids) ==
    [op : {"start"}, kind : {"serial", "sim"}, id : ids]
        \cup [op : {"replay"}, fmt : Formats \cup {Unknown}, id : ids]
        \cup [op : {"configure"}, cfg : AnyCfg]
        \cup [op : {"profile"}, fmt : Formats]
        \cup [op : {"stop", "record", "unrecord", "listen", "unlisten"}]

Failures == [op : {"failed"}, sess : Sessions]
RecFailures == [op : {"recfailed"}, file : Nat]
Events == Calls(Sessions) \cup Failures \cup RecFailures

ASSUME CallsAssumption == UserCalls \subseteq Calls({0})

VARIABLES
    calls,      \* number of calls posted so far
    inbox,      \* the engine thread's event queue
    at, job,    \* where the engine thread is
    state,      \* EngineState
    started,    \* the last session started (the numbers only grow)
    session,    \* the session whose transport and reader are set, or None
    profileFmt, \* format of the profile in use
    streams,    \* the configured streams
    link,       \* the decoder: its format, its layouts, whose bytes it has seen
    stores,     \* the stores: their layout, generation, rows, total_stored
    statsPrev,  \* total_stored at the last statistics report
    recorder,   \* index in `files` of the file being written, or None
    files,      \* the chunks of every recording made
    heard,      \* is listen_lines collecting bytes?
    shownRec,   \* the last recording_changed signal (a file, or None for "")
    out,        \* the signals emitted by the last step
    rd          \* the reader thread of each session

queueVars == <<calls, inbox>>
sessionVars == <<state, started, session>>
configVars == <<profileFmt, streams>>
dataVars == <<link, stores, statsPrev>>
recVars == <<recorder, files, heard, shownRec>>
vars == <<queueVars, at, job, sessionVars, configVars, dataVars, recVars, out, rd>>

----------------------------------------------------------------------------
(* Records and helpers. *)

NoJob == [op |-> "none"]

\* A session to start: from a port or the simulator, both of which write the profile's
\* format, or from a recording, which has a format of its own.
StartJob(kind, id, fmt) == [op |-> "start", kind |-> kind, id |-> id, fmt |-> fmt]

\* A reader: its place in run() and _on_bytes(), its stop event, its transport's
\* kind, the format of its bytes, the number of reads that gave data, and the batch
\* decoded from the last.
NoReader == [pc |-> "none", stop |-> FALSE, kind |-> "serial", fmt |-> Binary, n |-> 0,
             cfg |-> NoCfg, from |-> {}, gen |-> 0]
NewReader(kind, fmt) == [NoReader EXCEPT !.pc = "top", !.kind = kind, !.fmt = fmt]

\* Signals to the GUI.
StateChanged(s) == [sig |-> "state", val |-> s]
ConnectionFailed == [sig |-> "failed"]
SessionEnded == [sig |-> "ended"]
StreamsConfigured == [sig |-> "streams"]
RecordingChanged(f) == [sig |-> "recording", val |-> f]
LinesHeard(any) == [sig |-> "heard", any |-> any]
LinkStats(samples) == [sig |-> "stats", samples |-> samples]

Chunk(s) == [sess |-> s, n |-> rd[s].n]

\* BinaryFrameDecoder.configure raises KeyError for a text stream (it has no
\* stream_id); TextLineDecoder skips streams without a pattern.
Accepts(fmt, cfg) == cfg = NoCfg \/ fmt = Text \/ FmtOf[cfg] = Binary

\* Does the decoder produce records at all?
Decoding(l) == l.cfg # NoCfg /\ FmtOf[l.cfg] = l.fmt

Init ==
    /\ calls = 0 /\ inbox = <<>>
    /\ at = "idle" /\ job = NoJob
    /\ state = "IDLE" /\ started = 0 /\ session = None
    /\ profileFmt = Binary /\ streams = NoCfg
    /\ link = [fmt |-> Binary, cfg |-> NoCfg, seen |-> {}]
    /\ stores = [cfg |-> NoCfg, gen |-> 0, rows |-> <<>>, total |-> 0]
    /\ statsPrev = 0
    /\ recorder = None /\ files = <<>> /\ heard = FALSE /\ shownRec = None
    /\ out = <<>>
    /\ rd = [s \in Sessions |-> NoReader]

----------------------------------------------------------------------------
(* The engine thread: slots. *)

\* The event loop takes the oldest event and runs its slot.
Begin(op) ==
    /\ at = "idle" /\ inbox # <<>> /\ Head(inbox).op = op
    /\ inbox' = Tail(inbox)
    /\ UNCHANGED calls

Goto(pc, j) == at' = pc /\ job' = j
Done == Goto("idle", NoJob)
Emit(signals) == out' = signals

\* _use_format: a decoder for `fmt`, configured for the streams, or for none if
\* they are written for the other format.
UseFormatUnconfigured(fmt) ==    \* mutant: the new decoder is not configured
    link' = IF fmt = link.fmt THEN link ELSE [fmt |-> fmt, seen |-> {}, cfg |-> NoCfg]
UseFormat(fmt) ==
    link' = IF fmt = link.fmt THEN link
            ELSE [fmt |-> fmt, seen |-> {},
                  cfg |-> IF Accepts(fmt, streams) THEN streams ELSE NoCfg]

\* The first thing _start does: stores.clear().
ClearStoresForgotten == UNCHANGED stores    \* mutant
ClearStores == stores' = [stores EXCEPT !.rows = <<>>]

CanStart == state = "CONFIGURED"

\* start_working, up to the clear of the stores in _start.
StartWorking ==
    /\ Begin("start")
    /\ IF CanStart
         THEN /\ UseFormat(profileFmt)
              /\ IF Head(inbox).kind = "sim" /\ streams = NoCfg
                   THEN Done /\ UNCHANGED stores     \* "No valid stream to simulate"
                   ELSE /\ Goto("reset", StartJob(Head(inbox).kind, Head(inbox).id, profileFmt))
                        /\ ClearStores
         ELSE Done /\ UNCHANGED <<link, stores>>     \* a status_msg only
    /\ Emit(<<>>)
    /\ UNCHANGED <<sessionVars, configVars, recVars, statsPrev, rd>>

\* start_replay, up to the same place.  Any file may turn out to be no recording.
StartReplay ==
    /\ Begin("replay")
    /\ \/ /\ ~CanStart
          /\ Done /\ Emit(<<>>) /\ UNCHANGED <<link, stores>>
       \/ /\ CanStart                                \* RecordingError, or no decoder
          /\ Done /\ Emit(<<ConnectionFailed>>) /\ UNCHANGED <<link, stores>>
       \/ /\ CanStart /\ Head(inbox).fmt \in Formats
          /\ UseFormat(Head(inbox).fmt) /\ ClearStores
          /\ Goto("reset", StartJob("replay", Head(inbox).id, Head(inbox).fmt))
          /\ Emit(<<>>)
    /\ UNCHANGED <<sessionVars, configVars, recVars, statsPrev, rd>>

\* _start, next: the decoder forgets the previous session (under _data_lock).
ResetLink ==
    /\ at = "reset"
    /\ link' = [link EXCEPT !.seen = {}]
    /\ statsPrev' = stores.total
    /\ Goto("open", job) /\ Emit(<<>>)
    /\ UNCHANGED <<queueVars, sessionVars, configVars, recVars, stores, rd>>

\* _start, the rest: open the transport, be RUNNING, start a reader.
OpenTransport ==
    /\ at = "open"
    /\ Done
    /\ \/ /\ job.kind # "sim"                        \* TransportError
          /\ Emit(<<ConnectionFailed>>)
          /\ UNCHANGED <<sessionVars, rd>>
       \/ /\ started' = job.id /\ session' = job.id
          /\ state' = "RUNNING" /\ Emit(<<StateChanged("RUNNING")>>)
          /\ rd' = [rd EXCEPT ![job.id] = NewReader(job.kind, job.fmt)]
    /\ UNCHANGED <<queueVars, configVars, dataVars, recVars>>

\* stop_working up to the join in ReaderThread.stop(); `why` names what follows it.
BeginStopUnsignalled(why) ==     \* mutant: the stop event is not set
    /\ state' = "CONFIGURED" /\ session' = None /\ UNCHANGED rd
    /\ Goto("join", [op |-> why, sess |-> session])
BeginStop(why) ==
    /\ state' = "CONFIGURED" /\ session' = None
    /\ rd' = [rd EXCEPT ![session].stop = TRUE]
    /\ Goto("join", [op |-> why, sess |-> session])

StopWorking ==
    /\ Begin("stop")
    /\ IF state = "RUNNING"
         THEN BeginStop("stop") /\ Emit(<<StateChanged("CONFIGURED")>>)
         ELSE Done /\ Emit(<<>>) /\ UNCHANGED <<state, session, rd>>
    /\ UNCHANGED <<configVars, dataVars, recVars, started>>

\* ReplayTransport.finished: every recorded read has been played.
PlayedOut(s) == rd[s].kind = "replay" /\ rd[s].n = MaxChunks

\* _on_reader_failed: asks the replay being played, if it is one, whether it is over.
ReaderFailed ==
    /\ Begin("failed")
    /\ CASE state # "RUNNING" ->
              Done /\ Emit(<<>>) /\ UNCHANGED <<state, session, rd>>
         [] state = "RUNNING" /\ PlayedOut(session) ->
              BeginStop("ended") /\ Emit(<<StateChanged("CONFIGURED")>>)
         [] OTHER ->
              /\ BeginStop("stop")
              /\ Emit(<<ConnectionFailed, StateChanged("CONFIGURED")>>)
    /\ UNCHANGED <<configVars, dataVars, recVars, started>>

\* ReaderThread.stop(): the join ends when the reader has, or after a second.
Joined(s) == rd[s].pc = "dead" \/ JoinTimesOut

JoinReader ==
    /\ at = "join"
    /\ Joined(job.sess)
    /\ Goto("wrapup", job) /\ Emit(<<>>)
    /\ UNCHANGED <<queueVars, sessionVars, configVars, dataVars, recVars, rd>>

\* An OSError nobody catches in a slot: PyQt ends the process.
CloseRaises == recorder # None /\ "close" \in DiskErrors
Abort ==
    /\ Goto("aborted", NoJob) /\ Emit(<<>>)
    /\ recorder' = None /\ UNCHANGED <<heard, shownRec>>

\* stop_recording: what it says, if anything was being recorded.
RecordingStopped == IF recorder = None THEN <<>> ELSE <<RecordingChanged(None)>>
StopRecordingKeepsFile ==    \* mutant: the reader thread goes on writing
    UNCHANGED recorder /\ shownRec' = IF recorder = None THEN shownRec ELSE None
StopRecording == recorder' = None /\ shownRec' = IF recorder = None THEN shownRec ELSE None

\* stop_working, the rest: stop_recording(), stop_listening(), and what follows.
WrapUp ==
    /\ at = "wrapup"
    /\ \/ /\ StopRecording /\ heard' = FALSE /\ Done
          /\ Emit(RecordingStopped
                    \o (IF heard THEN <<LinesHeard(TRUE)>> ELSE <<>>)
                    \o (IF job.op = "ended" THEN <<SessionEnded>> ELSE <<>>))
       \/ CloseRaises /\ Abort
    /\ UNCHANGED <<queueVars, sessionVars, configVars, dataVars, files, rd>>

\* configure_streams: first the decoder, under _data_lock ...
ConfigureStreams ==
    /\ Begin("configure")
    /\ LET cfg == Head(inbox).cfg IN
         IF Accepts(link.fmt, cfg)
           THEN link' = [link EXCEPT !.cfg = cfg] /\ Goto("stores", Head(inbox))
           ELSE Done /\ UNCHANGED link               \* "Stream config error"
    /\ Emit(<<>>)
    /\ UNCHANGED <<sessionVars, configVars, recVars, stores, statsPrev, rd>>

\* ... then new stores, under their own lock.
ConfigureStores ==
    /\ at = "stores"
    /\ stores' = [cfg |-> job.cfg, gen |-> stores.gen + 1, rows |-> <<>>, total |-> 0]
    /\ streams' = job.cfg
    /\ state' = IF state = "IDLE" THEN "CONFIGURED" ELSE state
    /\ Emit(IF state = "IDLE" THEN <<StateChanged("CONFIGURED"), StreamsConfigured>>
                              ELSE <<StreamsConfigured>>)
    /\ Done
    /\ UNCHANGED <<queueVars, recVars, started, session, profileFmt, link, statsPrev, rd>>

\* A session in progress keeps its decoder.
SwitchesAnyTime == TRUE    \* mutant: also while a session reads
MaySwitchFormat == state # "RUNNING"

ConfigureProfile ==
    /\ Begin("profile")
    /\ profileFmt' = Head(inbox).fmt
    /\ IF MaySwitchFormat THEN UseFormat(Head(inbox).fmt) ELSE UNCHANGED link
    /\ Done /\ Emit(<<>>)
    /\ UNCHANGED <<sessionVars, recVars, streams, stores, statsPrev, rd>>

\* _emit_link_stats, every second while RUNNING: the report, then flush().
EmitLinkStats ==
    /\ at = "idle" /\ state = "RUNNING"
    /\ \/ /\ Done /\ Emit(<<LinkStats(stores.total - statsPrev)>>)
          /\ UNCHANGED <<recorder, heard, shownRec>>
       \/ "flush" \in DiskErrors /\ recorder # None /\ Abort
    /\ statsPrev' = stores.total
    /\ UNCHANGED <<queueVars, sessionVars, configVars, link, stores, files, rd>>

\* start_recording: stop_recording() first ...
StartRecording ==
    /\ Begin("record")
    /\ \/ /\ state = "RUNNING"
          /\ StopRecording /\ Emit(RecordingStopped) /\ UNCHANGED heard
          /\ Goto("newfile", Head(inbox))
       \/ /\ state # "RUNNING" /\ Done /\ Emit(<<>>)
          /\ UNCHANGED <<recorder, heard, shownRec>>
       \/ state = "RUNNING" /\ CloseRaises /\ Abort
    /\ UNCHANGED <<sessionVars, configVars, dataVars, files, rd>>

\* ... then a new file, handed to the reader thread under _rec_lock.
NewFile ==
    /\ at = "newfile"
    /\ Done
    /\ \/ /\ files' = Append(files, <<>>)
          /\ recorder' = Len(files) + 1 /\ shownRec' = Len(files) + 1
          /\ Emit(<<RecordingChanged(Len(files) + 1)>>)
       \/ /\ "create" \in DiskErrors
          /\ shownRec' = None /\ Emit(<<RecordingChanged(None)>>)
          /\ UNCHANGED <<files, recorder>>
    /\ UNCHANGED <<queueVars, sessionVars, configVars, dataVars, heard, rd>>

EndRecording ==
    /\ Begin("unrecord")
    /\ \/ StopRecording /\ Emit(RecordingStopped) /\ Done /\ UNCHANGED heard
       \/ CloseRaises /\ Abort
    /\ UNCHANGED <<sessionVars, configVars, dataVars, files, rd>>

\* _on_recording_failed
RecordingFailed ==
    /\ Begin("recfailed")
    /\ shownRec' = None /\ Emit(<<RecordingChanged(None)>>) /\ Done
    /\ UNCHANGED <<sessionVars, configVars, dataVars, recorder, files, heard, rd>>

\* listen_lines: without a session the answer, no lines, comes at once.
NotAnswered == Emit(<<>>)    \* mutant
AnsweredAtOnce == Emit(<<LinesHeard(FALSE)>>)
ListenLines ==
    /\ Begin("listen")
    /\ IF state = "RUNNING" THEN heard' = TRUE /\ Emit(<<>>)
                            ELSE UNCHANGED heard /\ AnsweredAtOnce
    /\ Done
    /\ UNCHANGED <<sessionVars, configVars, dataVars, recorder, files, shownRec, rd>>

\* stop_listening, called early, or when the listen timer fires.
StopListening ==
    /\ \/ Begin("unlisten")
       \/ at = "idle" /\ heard /\ UNCHANGED queueVars
    /\ heard' = FALSE
    /\ Emit(IF heard THEN <<LinesHeard(TRUE)>> ELSE <<>>) /\ Done
    /\ UNCHANGED <<sessionVars, configVars, dataVars, recorder, files, shownRec, rd>>

----------------------------------------------------------------------------
(* The reader threads: ReaderThread.run() and TelemetryEngine._on_bytes(). *)

ReaderAt(s, pc) ==
    /\ rd[s].pc = pc /\ at # "aborted"
    /\ Emit(<<>>)
    /\ UNCHANGED <<sessionVars, configVars, calls, at, job, statsPrev, heard, shownRec>>

Move(s, pc) == rd' = [rd EXCEPT ![s].pc = pc]

\* The three tests of the stop event: before a read, after data, after an error.
CheckStop(s) ==
    /\ \/ ReaderAt(s, "top") /\ Move(s, IF rd[s].stop THEN "dead" ELSE "read")
       \/ ReaderAt(s, "got") /\ Move(s, IF rd[s].stop THEN "top" ELSE "record")
       \/ ReaderAt(s, "error") /\ Move(s, IF rd[s].stop THEN "dead" ELSE "report")
    /\ UNCHANGED <<inbox, link, stores, recorder, files>>

\* on_error: the failure goes to the engine thread, and the reader ends.
ReportLost(s) == UNCHANGED inbox    \* mutant
Report(s) == inbox' = Append(inbox, [op |-> "failed", sess |-> s])

ReportFailure(s) ==
    /\ ReaderAt(s, "report") /\ Move(s, "dead")
    /\ Report(s)
    /\ UNCHANGED <<link, stores, recorder, files>>

\* One blocking read: data, nothing before the timeout, or a TransportError (an
\* unplugged port; a replay's end, once every recorded read was played).
Read(s) ==
    /\ ReaderAt(s, "read")
    /\ \/ rd[s].n < MaxChunks /\ rd' = [rd EXCEPT ![s].n = @ + 1, ![s].pc = "got"]
       \/ ~PlayedOut(s) /\ Move(s, "top")
       \/ (rd[s].kind = "serial" \/ PlayedOut(s)) /\ Move(s, "error")
    /\ UNCHANGED <<inbox, link, stores, recorder, files>>

\* _on_bytes, under _rec_lock.  After a write error the file is left as it is.
RecordChunk(s) ==
    /\ ReaderAt(s, "record")
    /\ Move(s, "feed")
    /\ IF recorder = None THEN UNCHANGED <<inbox, recorder, files>>
       ELSE \/ /\ files' = [files EXCEPT ![recorder] = Append(@, Chunk(s))]
               /\ UNCHANGED <<inbox, recorder>>
            \/ /\ "write" \in DiskErrors
               /\ recorder' = None /\ UNCHANGED files
               /\ inbox' = Append(inbox, [op |-> "recfailed", file |-> recorder])
    /\ UNCHANGED <<link, stores>>

\* _on_bytes, under _data_lock: the chunk completes a record, which may have begun
\* in any earlier chunk the decoder has seen since its reset.
FeedLink(s) ==
    /\ ReaderAt(s, "feed")
    /\ link' = [link EXCEPT !.seen = @ \cup {s}]
    /\ rd' = [rd EXCEPT ![s].pc = IF Decoding(link) THEN "get" ELSE "top",
                        ![s].cfg = link.cfg, ![s].from = link'.seen]
    /\ UNCHANGED <<inbox, stores, recorder, files>>

\* stores.get(key) ...
GetStore(s) ==
    /\ ReaderAt(s, "get")
    /\ rd' = [rd EXCEPT ![s].pc = IF stores.cfg = NoCfg THEN "top" ELSE "append",
                        ![s].gen = stores.gen]
    /\ UNCHANGED <<inbox, link, stores, recorder, files>>

\* ... and append_records: into the store looked up, which may be replaced by now.
AppendRecords(s) ==
    /\ ReaderAt(s, "append")
    /\ Move(s, "top")
    /\ IF rd[s].gen = stores.gen
         THEN stores' = [stores EXCEPT !.total = @ + 1,
                           !.rows = Append(@, [sess |-> s, n |-> rd[s].n,
                                               cfg |-> rd[s].cfg, from |-> rd[s].from])]
         ELSE UNCHANGED stores
    /\ UNCHANGED <<inbox, link, recorder, files>>

Reader(s) ==
    \/ CheckStop(s) \/ Read(s) \/ ReportFailure(s)
    \/ RecordChunk(s) \/ FeedLink(s) \/ GetStore(s) \/ AppendRecords(s)

----------------------------------------------------------------------------
(* The GUI thread posts calls; the specification. *)

Post(c) ==
    /\ calls < MaxCalls /\ at # "aborted"
    /\ calls' = calls + 1
    /\ inbox' = Append(inbox, IF c.op \in {"start", "replay"} THEN [c EXCEPT !.id = calls'] ELSE c)
    /\ Emit(<<>>)
    /\ UNCHANGED <<sessionVars, configVars, dataVars, recVars, at, job, rd>>

Slots ==
    \/ StartWorking \/ StartReplay \/ ResetLink \/ OpenTransport
    \/ StopWorking \/ ReaderFailed \/ JoinReader \/ WrapUp
    \/ ConfigureStreams \/ ConfigureStores \/ ConfigureProfile
    \/ StartRecording \/ NewFile \/ EndRecording \/ RecordingFailed
    \/ ListenLines \/ StopListening

Next ==
    \/ Slots \/ EmitLinkStats
    \/ \E s \in Sessions : Reader(s)
    \/ \E c \in UserCalls : Post(c)

Spec == Init /\ [][Next]_vars

\* The engine's event loop and the reader threads keep running; the user may not.
Fairness == WF_vars(Slots) /\ \A s \in Sessions : WF_vars(Reader(s))

FairSpec == Spec /\ Fairness

----------------------------------------------------------------------------
(* Properties. *)

ReaderPcs == {"none", "top", "read", "got", "record", "feed", "get", "append",
              "error", "report", "dead"}
Alive(s) == rd[s].pc \notin {"none", "dead"}

Rows == [sess : Sessions, n : 0..MaxChunks, cfg : AnyCfg, from : SUBSET Sessions]
Chunks == [sess : Sessions, n : 0..MaxChunks]
Links == [fmt : Formats, cfg : AnyCfg, seen : SUBSET Sessions]
StoreStates == [cfg : AnyCfg, gen : Nat, rows : Seq(Rows), total : Nat]
Readers == [pc : ReaderPcs, stop : BOOLEAN, kind : {"serial", "sim", "replay"},
            fmt : Formats, n : 0..MaxChunks, cfg : AnyCfg, from : SUBSET Sessions, gen : Nat]
Jobs ==
    [op : {"start"}, kind : {"serial", "sim", "replay"}, id : Sessions, fmt : Formats]
        \cup [op : {"configure"}, cfg : AnyCfg]
        \cup [op : {"stop", "ended"}, sess : Sessions]
        \cup [op : {"none", "record"}]

\* What job goes with what place of the engine thread.
JobFits ==
    /\ at \in {"idle", "aborted"} => job = NoJob
    /\ at \in {"reset", "open"} => job.op = "start"
    /\ at \in {"join", "wrapup"} => job.op \in {"stop", "ended"}
    /\ at = "stores" => job.op = "configure"
    /\ at = "newfile" => job.op = "record"

QueueOK == calls \in 0..MaxCalls /\ inbox \in Seq(Events)
ThreadOK ==
    /\ at \in {"idle", "reset", "open", "join", "wrapup", "stores", "newfile", "aborted"}
    /\ job \in Jobs /\ JobFits
SessionOK ==
    /\ state \in {"IDLE", "CONFIGURED", "RUNNING"} /\ started \in 0..MaxCalls
    /\ session \in {None, started} /\ (session # None <=> state = "RUNNING")
DataOK ==
    /\ profileFmt \in Formats /\ streams \in AnyCfg
    /\ link \in Links /\ stores \in StoreStates /\ statsPrev \in Nat
RecordingOK ==
    /\ files \in Seq(Seq(Chunks)) /\ recorder \in 0..Len(files)
    /\ heard \in BOOLEAN /\ shownRec \in 0..Len(files)
ReadersOK == rd \in [Sessions -> Readers]

\* Every variable has its type; a session's transport and reader are set exactly
\* while the engine is RUNNING, as engine.py keeps `state` and `_transport`.
TypeOK == QueueOK /\ ThreadOK /\ SessionOK /\ DataOK /\ RecordingOK /\ ReadersOK

\* reader.py, engine.stop_working: no reader thread outlives its session, so two never
\* feed the decoder at once.  While the engine waits for one, it is that one only.
NoReaderOutlivesItsSession ==
    \A s \in Sessions : Alive(s) => s = session \/ (at = "join" /\ s = job.sess)

\* engine._start, "Clear buffers to prevent time travel artifacts": every row is of the
\* last session and has no bytes of an earlier one, and the stores hold an unbroken run
\* of its reads, in order, each once.  Stores about to be replaced may miss some: the
\* decoder they go with may have been set back to one that reads nothing.
StoresHoldARun ==
    LET rows == stores.rows IN
    \A i \in DOMAIN rows :
        /\ rows[i].sess = started /\ rows[i].from = {started}
        /\ at # "stores" => rows[i].n = rows[1].n + i - 1

\* engine._on_bytes, start_recording: a recording is an unbroken run of one session's
\* reads, and the one being written has every read decoded since its first.
RecordingsAreComplete ==
    /\ \A f \in DOMAIN files : \A i \in DOMAIN files[f] :
           /\ files[f][i].sess = files[f][1].sess
           /\ files[f][i].n = files[f][1].n + i - 1
    /\ recorder # None /\ files[recorder] # <<>> /\ session # None =>
           LET r == rd[session]
               last == files[recorder][Len(files[recorder])]
           IN  last.sess = session
               /\ last.n = IF r.pc \in {"got", "record"} THEN r.n - 1 ELSE r.n

OnceButFor(last, chunks) ==
    \A i, j \in DOMAIN chunks :
        chunks[i].sess = chunks[j].sess /\ chunks[i].sess # last => i = j

\* reader.stop, reader.run: a reader that missed the second it is waited for has been
\* told to stop.  It hands over at most the read it was at: of an ended session no two
\* reads get into the stores of a later one, nor into a recording of a later one.
LateReadersAddOneRead ==
    /\ \A s \in Sessions : Alive(s) => s = session \/ rd[s].stop
    /\ OnceButFor(started, stores.rows)
    /\ \A f \in DOMAIN files : \E s \in Sessions : OnceButFor(s, files[f])

\* engine.stop_working: recording and listening end with the session.
NothingOutlivesASession ==
    at = "idle" /\ state # "RUNNING" => recorder = None /\ ~heard

\* engine.configure_streams, _use_format: between slots, the stores are those of the
\* configured streams, and so is the decoder, unless it is one that refuses them, which
\* then decodes none.  A session's decoder is always one for its own bytes' format.
DecoderFitsStores ==
    /\ at = "idle" =>
           /\ stores.cfg = streams
           /\ link.cfg = IF Accepts(link.fmt, streams) THEN streams ELSE NoCfg
    /\ session # None => link.fmt = rd[session].fmt

\* reader.run, engine._on_reader_failed: a transport that fails, or a replay that ends,
\* ends its session.
FailureEndsSession ==
    \A s \in Sessions : rd[s].pc = "dead" /\ ~rd[s].stop ~> session # s

----------------------------------------------------------------------------
(* What docs and comments say that the code does not do. *)

\* engine.configure_streams, "the decoder and stores are swapped atomically": every row
\* stored was decoded with its store's layouts.
StoresMatchLayout == \A i \in DOMAIN stores.rows : stores.rows[i].cfg = stores.cfg

\* main_window.start_replay, "Stops any session and plays the file": a session is ended
\* by a failure of its own transport only.
OnlyOwnFailureEndsSession ==
    [][at = "idle" /\ inbox # <<>> /\ inbox' = Tail(inbox) /\ Head(inbox).op = "failed"
         /\ session # None /\ session' = None => Head(inbox).sess = session]_vars

\* ADR-0006, "a write error stops the recording, not the session".
WriteErrorEndsOnlyTheRecording == at # "aborted"
=============================================================================
