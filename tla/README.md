# Specifications of the telemetry plotter

TLA+ models of `core/` and of the parts of `ui/` that drive it, the TLC runs that check
them and the TLAPS proofs about them. `PROJECT.json` maps every definition to the lines
it stands for. Paths below are relative to the repository.

## 1. The system

The application reads a serial port (or a simulator, or a recording), decodes frames or
text lines into rows, stores the newest rows per stream, draws them, and sends commands
back. Three kinds of thread share it:

- the **GUI thread** (`ui/main_window.py`, panels, plot, live feed, configuration editor):
  posts *queued* calls to the engine, receives its *queued* signals, and reads the stores
  directly;
- the **engine thread** (`core/acquisition/engine.py`): an event loop whose slots run one
  at a time;
- one **reader thread per session** (`core/transport/reader.py`): reads the transport,
  and runs `engine._on_bytes`, which records, decodes and stores.

They share `_data_lock` (the decoder), `_rec_lock` (the recording file), one lock per
store, and the transport's own lock. Files are the configuration (one per profile), the
settings, and recordings.

### Inventory

| Component | State | Operations | Interacts by | Hard behaviour | What makes it correct |
|---|---|---|---|---|---|
| Engine (`engine.py`) | state, transport, reader, decoder and its format, streams, profile, recorder | start, replay, stop, configure streams / profile, record, listen, send, statistics tick | slots (queued calls), signals, locks with the reader | slots interleave with readers; late failure reports; file errors | one reader at a time; rows of one session only; decoder and stores fit the streams; recordings complete and ended with the session |
| Reader (`reader.py`) | stop event, position in its loop | run, stop (join with timeout) | `_on_bytes`, failure signal | join that times out; report queued behind other calls | ends; its failure ends its session |
| Main window (`main_window.py`, `connection.py`) | mirror of the engine's state, Connect button, replay flag, recording shown, profile | connect, disconnect, replay, switch profile, save, record, close | queued and blocking calls, queued signals | acts on a mirror that lags | the mirror is right once nothing is under way; closing completes and leaves nothing |
| Time base (`timebase.py`) | last value, tick, counters | process, reset | called by a store under its lock | wraps, losses, restarts, missing values | time only grows and is the device's |
| Frame parser (`frame_parser.py`) | buffer, counters | feed, reset | called under `_data_lock` | frames split and damaged anywhere | finds exactly the frames there are, bounded buffer, terminates |
| Store (`storage.py`, `lod.py`, `live_feed.py`) | double ring, version, generation, buckets | append, clear, resize, scale, overview, read_since | reader writes, GUI reads | wrap, oversized batch, unaligned buckets, two-lock read, stale cursors | readers see the newest rows, every change is drawn, a poll sees each row once |
| Trigger (`trigger.py`, `trigger_controller.py`) | armed / fired / done, cursor, last sample | arm, feed, poll, capture, disarm | polls a store, tells a panel | clears and resizes between polls and between two reads of one poll | fires on a crossing, misses none, captures it, shows it |
| Router, text decoder (`router.py`, `text_line.py`) | routes, counters, line buffer, replies | configure, feed, reset | called under `_data_lock` | overlong lines over several reads, reconfiguration, layouts that share an ID | takes each line and frame once, counts what it drops |
| Link report (`stats.py`) | snapshots | make report | statistics tick | deltas over a reset or a full ring | no reply shown twice or dropped unsaid |
| Replay, recording file (`replay_transport.py`, `sbtp.py`) | position, pace, pause, steps | open, read, speed, pause, step | three threads and its lock | clock re-based in the middle, truncated file | every read once, in order, not before its time |
| Simulator (`sim_transport.py`) | frames sent, answers, its streams and commands | read, write, set stream, set commands | its lock; the engine's slots | falling behind; commands saved while a press is under way | skipped frames show as losses; reads what is sent |
| Commands (`controls.py`, `commands.py`, `command_panel.py`) | values, live timers, presets, log | parse, press, edit, drag, live mode, send again | queued send | debounce against edits and disconnects; two judgements of what a button needs | the last value is what was sent; an accepted button can be pressed |
| Configuration (`core/config/*`, `ui/config/*`) | documents, drafts, half-typed text, dirty mark, file | load, edit, paste, save, revert | file, queued configure | references between fields, signals and settings; crash in a save; redraws under typed text | references stay valid, the mark is true, the file is whole |
| Console dialog (`console_dialog.py`, `infer_lines.py`) | box, cards, listening | paste, listen, accept | queued listen, signals | listening against sessions that end | listening is answered; what is found reads its lines |
| View (`ui_state.py`, `container.py`, `panes.py`, `signals.py`, plot) | shown stream, lanes, panes, stop, markers | toggles, drags, profiles, persistence | settings store, engine's signals | new stores come back later than the call that makes them | restored as saved; shows the engine's stores and this session's marks |
| Analysis, export | none | functions of a captured packet | none | none | numerical |

## 2. What models what

| Module | Models | State and actions |
|---|---|---|
| `Engine` | engine and readers | `inbox` is the thread's event queue; `at`, `job` say where inside a slot the engine thread is. A slot is cut at each lock a reader takes too and where it blocks: `_start` is `StartWorking`/`StartReplay`, `ResetLink`, `OpenTransport`; `stop_working` is `BeginStop`, `JoinReader`, `WrapUp`; `configure_streams` is `ConfigureStreams`, `ConfigureStores`; `start_recording` is `StartRecording`, `NewFile`. Each reader `rd[s]` goes `top`, `read`, `got`, `record`, `feed`, `get`, `append`, through the check of the stop event and the locks of `_on_bytes`. A reader and a session's start carry the format of the bytes (`StartJob`), the profile's or the recording's. A row carries the session and number of its read, the layout it was decoded with and the sessions whose bytes the decoder held. |
| `Window` | the window over `Engine` | EXTENDS `Engine`; `gui` is the GUI thread's queue of signals. Each user operation posts its calls in the order the code does; `EngineStep` is any step of the engine or a reader, its emitted signals (`out`) appended to `gui`; one action per signal handler. `Close` blocks until `stop_working` has returned (`BlockingQueuedConnection`). |
| `Console` | the dialog "From console output" over `Engine` and `Infer` | `told` is the queue of signals to the dialog (`DialogHears` is any step of the engine with what it emits); the box, the cards read from it, the timer that reads it, Listen and its end, the tab's `_connected`; `Crash` is an exception that leaves a slot |
| `Infer`, `TextLine` | patterns found in lines; what a pattern matches | pure operators on lines made of tokens: shapes, names of values, counters, types; match, strip, conversion of slots |
| `Link` | text decoder, router, link report | a line is cut into tokens that come in any reads; one action per exit of the loop over lines (`Overlong`, `BlankLine`, `MatchedLine`, `Reply`, ...), `Route` for a batch of frames, `Configure`, `Start`, `EmitLinkStats` with the terminal it feeds |
| `TimeBase` | `TimeBase.process`, `reset` | one step per value of a batch (the loop carries nothing else from value to value) and the device that sends it: `Frame`, `FrameWithout` the field, `Restart`. |
| `FrameParser` | `FrameParser.feed` | one action per exit of the loop in `frames()`; the stream is arbitrary bytes, cut into arbitrary reads; the CRC is a constant operator. |
| `SampleLog` | (abstract) | what a store promises: the newest rows, in order, as many as fit. |
| `SampleStore` | store, buckets, live feed, trigger cursor | rows are their numbers; the ring holds each twice, as the code does. `overview`'s two lock regions are `Tick` and `Snapshot`; `version`, `generation`, cursor as in the code. |
| `Trigger` | watcher, controller and panel over `SampleStore` | `PollTrigger` reads the rows since the cursor and compares them; `EmitCapture` is the second read of the same poll, with the store free to change in between; what the trigger is armed with (`Specs`: a signal, its edge, level, and the window before and after, either of which may be empty) is a constant, chosen anew each time; the trigger's time is interpolated between the two samples, rounded down to the model's unit |
| `Replay` | recording file and replay transport | the recorder writes, flushes, closes or is `Killed` at any byte; then `Open`, the branches of `read` (`StepOne`, `PlayFast`, `PlayDue`, `Wait`, `End`), speed, pause, steps and the clock |
| `Draft`, `Struct` | `draft.py`, `cstruct.py` | operators that edit a stream's definition; a C struct laid out with its padding, and replacing fields by those of a struct |
| `Config` | editor, tab and `document.py` | over `Draft`: selection, what line edit has the focus and what was typed in it, redraws, every click; a save in its steps (backup, temporary file, replace) that may fail or end at any of them |
| `Panel`, `Desk` | command panel; the window around it | `Panel`: inputs, links, drags, presets, Live mode's timers, log, what the device was told. `Desk` over it: stream shown, signals list and plot, panes, stop and live, trigger and anchor, markers, the engine's calls and signals, settings per profile, restarts |
| `Command`, `Simulator` | `controls.py`, `commands.py`; virtual device, engine's slots and window's send path | `Command`: what is taken of a file, values resolved, packed and unpacked. `Simulator`: queued calls, the device's frames, answers and gains |

`MC*` modules only give values to constants (`MCFrameParser` also holds the recursive
reference parser). `*Proofs` modules hold theorems (section 4).

Definitions marked `mutant` are plausible wrong versions of the definition that follows
them. No specification uses them: they show that each property notices such a mistake.

### How the modules stand to each other

`Window` and `Console` compose the engine with its two users by EXTENDS: every step of
the engine is a step of theirs, with its signals queued. `Trigger` composes the store with
the two that read it, `Config` the drafts with the tab, the file and pasted structs,
`Desk` the panel with the window, `Simulator` the commands with the engine's slots and the
device. Between these groups the abstraction is the interface: to `Engine` a read is a
number and a layout a value (what `FrameParser` and `Link` make of bytes, and `TimeBase`
and `SampleStore` of rows, are their own modules); to `Desk` a store is its generation.
`SampleStore` is shown to implement `SampleLog`.

## 3. Runs

`tlc -config X.cfg MODULE`. Sizes are distinct states.

| Run (module, size) | Asks | Properties | Bounds |
|---|---|---|---|
| `engine_sessions` (MCEngine, 7.3 M) | connecting, replaying, listening, recording, stopping, changing streams and profiles of two formats in every order, every file operation failing | `StoresHoldARun`, `DecoderFitsStores`, `RecordingsAreComplete`, `NothingOutlivesASession` | 5 calls, 2 reads with data per session. Two sessions and the stop between them take 3, so there is room for changes in each of them; a third session meets nothing that the second has not |
| `console` (MCConsole, 2.0 M) | the dialog opened, filled, listened in, cancelled and accepted while sessions start, end and fail | `ListeningIsAnswered`, `CreatedStreamsReadTheirLines` | 5 calls (a listen and an end of it are 2, a session 2 more); 5 boxes of up to 5 lines, with a counter whose steps are just half and one and a half times their median (the limit of what is taken for a counter, and of what counts no loss), one that jumps, numbers of every kind, padding, a reserved name |
| `window_patient` (MCWindow, 6.8 M) | a user who waits, with readers that may outlive the second `stop()` waits for them (`JoinTimesOut = TRUE`) | `WindowAndEngineAgree`, `LateReadersAddOneRead` | 5 calls: a profile switch is 2, with a session before it and one behind it 5; so are two sessions with a recording in each. 2 reads with data per session, one more than a reader left over may add; a profile of each format |
| `window_hasty` (MCWindow, 0.2 M) | a user who does not, recording automatically, under fairness | `AutoRecordCoversSessions`, `NothingRunsAfterClose`, and in time `CloseCompletes`, `FailureEndsSession` | 3 calls of the user (a replay is 2), the window's own besides |
| `timebase` (MCTimeBase, 2.0 M) | a device that counts through wraps, losses, restarts and missing values | `TimeIsTheDevices`, `TicksOnlyGrow` | a counter of 4 bits, step 2, losses up to the window, 6 frames: two wraps |
| `parser` (MCFrameParser, 5.3 M) | every stream in every split | `FramesAreThoseSent`, `ParserIsTheReference` | 12 bytes over 3 values: two whole frames, or one with noise or a damaged one before it |
| `store` (MCTrigger, 1.3 M) | batches of any size, clears, resizes, re-timings, a live view or a trigger that reads | `StoreIsALog` (refinement), `OverviewIsTheWindow`, `FrameIsCurrent`, `PollsSeeEverySample`, `CrossingsAreCaptured` (`FiresJustOnCrossings` and `CaptureIsTheWindow`), `PanelShowsTheTrigger` | capacities 3 and 8, batches of 1, 3 (with a gap marker) and 10 rows, more than either ring; 4 changes. With 8 rows a bucket has 4, so rings of rows and of buckets wrap apart. Scales of 4 and 8 units a row; three triggers (`MCSpecs`): rising at a quarter of the way up a wave, either edge of a signal with a gap in it, falling onto the level with nothing before it and hardly a row behind |
| `link` (MCLink, 5.5 M) | lines and frames of every kind, cut anywhere, with streams configured and reports made in between | `LinesAreTakenAndCounted`, `LossesAreCounted`, `RepliesAreShownOnce` | 4 lines or batches, lines of at most 3 tokens (the longest is 8, of which the end would match), 3 replies kept, 2 a report, 1 configuration |
| `replay` (Replay, 3.4 M) | a recording closed or killed at any byte, replayed under changing speed, pause and steps | `ReplayIsTheRecording`, `PlaysAtItsPace`, and in time `PlaysToTheEnd` | 3 chunks with timestamps that may be set back, 3 controls, fast reads end at 3, in the second chunk of 2 |
| `config` (MCConfig, 6.7 M) | edits, clicks, pastes, saves that fail, kills | `ReferencesAreKept`, `MarkIsTrue`, `SavesAreWhole`, `PastesFollowTheFirmware` | 5 edits (`PasteEffort`: a paste counts 2), 2 files, 2 streams of 3 field names, 2 structs |
| `desk` (MCDesk, 1.1 M) | everything around the panels, with the engine's queued calls | `RestartShowsTheSame`, `WindowFollowsTheEngine`, `MarksAreTrue`, `LiveSendsWhatIsTyped`, `LiveIsPaced` | 12 units (`MaxSteps`): a step around the panels takes 4, one of the panel, a line sent, a connect or a replay 3. That is every order of three steps, of four of the panel, of a session and what it meets. 2 sessions, 1 marker |
| `device` (MCSimulator, 1.6 M) | two layouts of one command that read the same bytes differently, saved, pressed and sent | `EveryPressHasValues`, `DeviceReadsWhatIsSent`, `FramesKeepTime` | 2 sends, 3 other calls, time 4: a stall of more frames than a read returns |

What the properties say, module by module (each is stated in full, with the text it is
taken from, above its definition):

- **Engine.** The stores and each recording hold an
  unbroken run of one session's reads. A session's decoder is one for the format of its
  bytes; between slots the stores are those of the configured streams, and the decoder
  reads these or, when it is of another format and refuses them, none. Nothing is recorded
  or listened to between sessions. A reader that outlives its session has been told to
  stop, and at most the read it was at gets into later stores or recordings.
- **Window.** With nothing under way the window shows the state, recording and profile the
  engine has; a live session is recorded if that is asked for; a closed window leaves
  nothing; a failed transport ends its session.
- **Console.** A dialog that listens has its answer under way; a stream it creates matches
  the lines it came from, converts their values, and counts no loss in them.
- **TimeBase.** Ticks only grow, and are those the device counted while it sends them.
- **FrameParser.** Frames found are frames sent, and all that a reference parser of the
  whole stream finds, with every byte accounted for.
- **SampleStore, Trigger.** A window is the log of newest rows; its buckets cover exactly
  it; the live view never rests on an old frame; a poll gets every row once; the trigger
  fires on a crossing of the level, on the first, at a time between the two samples,
  captures just the rows of the window around it that are still there, and says so. Left
  out of the last is what the code does not do (section 6): while the store was found empty
  at the capture the panel goes on showing a trigger that is done, and after the stream was
  shown anew its button is up.
- **Link.** Lines matched are lines sent, each counted once for what became of it; losses
  counted are the gaps of the counters; each reply is shown once or counted as not shown.
- **Replay.** Whole chunks come once, in order, none early, until the end.
- **Config.** Fields named by signals and simulator exist, and in a text stream those named
  by its pattern and X axis (a binary stream's X axis may dangle, section 6); the Save mark is
  true; the file is always one that was saved, and has what was typed; a pasted struct has
  the compiler's layout and leaves the signals of fields that stay.
- **Desk, Panel.** A restart shows the same; store, periods and marks shown are those of
  the engine's stores and this session; a value unmarked is one the device has; Live mode
  sends what is typed, no faster than it says. (A revert is no edit to the timer: section 6.)
- **Simulator, Command.** A button of an accepted panel has its values; the device reads
  the values entered, answers each line once, and frames come when due, skipped ones as a
  gap of the counter. Packets of which no command takes anything are read as nothing.

`CHECK_DEADLOCK FALSE` everywhere: the user and the link may stop at any time, the window
closes for good, and every run ends at its bound. That the engine, a reader and a closing
window do not get stuck is checked as liveness instead.

**Fairness.** `FairSpec` of `Engine` and `WFairSpec` assume that the engine's event loop
and each reader thread keep running (an OS schedules threads, reads time out after
50 ms), and that the GUI thread handles its signals. `FairSpec` of `Replay` assumes the
reader and the clock. The user's actions and the data on the link are never fair. These
are weak fairness conditions: each of the threads is always enabled once it has something
to do. The other specifications state none, and have no liveness property; what should
come in time is stated there as a state that may not be at rest (a report is under way, a
timer runs).

**Named bounds.** `MaxCalls`, `MaxChunks` (Engine), `MaxFrames` (TimeBase), `MaxStream`,
`MaxChunk`, `MaxVersion`, `MaxSent`, `MaxConfigures`, `MaxControls`, `Far`, `MaxEdits`,
`MaxSteps`, `MaxSessions`, `MaxMarkers`, `MaxNow` stop the counters of histories; no
property depends on them. Limits of the program that are constants here (`MAX_LINE_BYTES`,
`REPLIES_KEPT`, `MAX_READ_BYTES`, `MAX_FRAMES_PER_READ`, the log's rows) are small so that
they are met. `JoinTimesOut` says whether a reader may miss the second that `stop()` waits
for it. It is TRUE in `window_patient` only: a read or a chunk's handling that blocks for that
long can do it, and then one read gets where it should not (section 6). The other runs say
what holds when it does not happen, and `window_patient` that no more goes wrong when it does.
A trigger's time is rounded down to the model's unit of time (`Interpolated`); rows are
several units apart, and the proofs hold for any unit.

## 4. Proofs

`tlapm M.tla`. All hold for every value of the constants, under the ASSUMEs of the
modules, which TLC evaluates in every run. Where a theorem assumes more, it says so in
its statement: `JoinTimesOut = FALSE` (every reader ends within the second `stop()` waits
for it), or how the user and the disk behave.

- `WindowProofs`, of the engine. `TypeCorrect`: `TypeOK` is inductive; one lemma per slot
  and reader step. Among the types is that transport and reader are set exactly while
  RUNNING. `LateReadersAreHarmless` (no assumption on the join): a reader's session is only
  unset by a slot that tells it to stop or by the end of the reader itself, so every other
  reader alive is told (`ToldToStop`). A reader that is told does not get into `_on_bytes`
  again once it is out of it. So its session either has nothing in the later stores while
  the reader is still between the two (`Midway`), or has the one row it added and the reader
  is out (`LateRows`); the same of the recording being written, up to the step that records
  (`LateChunks`). If the join never times out, no reader but the session's is alive at all
  (`ReadersEndWithTheirSessions`), which the next theorems rest on. `RecordingEndsWithTheSession`
  needs `StateFits` (which places of a slot go with which state): a recorder is created in a
  slot that has seen RUNNING, and the only way out of RUNNING leads through `WrapUp`. Then
  what the session's data are. `DecoderFollowsStreams`: the invariant `DecoderFits` covers
  the place between the two halves of `configure_streams`, where the decoder is already that
  of the streams to come; `FormatFits`, that the decoder has the format of the session's
  bytes from the slot that starts it on, also while the transport is opened, as a profile's
  format is only taken over when no session runs (`MaySwitchFormat`). `StoresKeepTheRun` (assumes `JoinTimesOut = FALSE`) needs, for
  each place of a reader's loop, whose bytes it and the decoder hold (`BytesFit`), that a
  store it has looked up is the present one or the present one is empty (`StoresFit`), and
  how far the stored rows have got against its count of reads (`LastFits`); that there is
  only one such reader is `OneReader`. `RecordingsKeepTheRun` (same assumption): every file
  is a run (`RunsFit`), and the one being written ends with the last read its reader
  recorded (`LastChunk`), until the reader is told to stop and drops a read, when no more is
  written.
- `WindowProofs`, of the engine with its window. The engine's lemmas carry over, as every
  step of `Window` is an engine step or only posts calls (`EngineIsKept`). So does what
  is said of late readers (`LateReadersAreHarmlessWithAWindow`).
  `ClosingEndsEverything` (assumes `JoinTimesOut = FALSE`): `Closing` says that while the
  window waits, the stop it posted is the last call in the queue but for readers' failures
  (`StopComes`), or has been begun (`StopDone`): nothing behind it starts a session again.
  `LiveSessionsAreRecorded` assumes what the property is about: recording on connect is on
  (`RecordOnConnect`), files can be written (`DiskErrors = {}`), and the user does not
  click Record. Its invariant follows one promise through the queues (`LiveIsRecorded`): a
  live session that is not recorded has its RUNNING signal in `gui`, or the call to record
  or a stop in `inbox`. `LiveIsCovered` is about replays, whose RUNNING records nothing: a
  live start left over when the window asks for a replay has a stop behind it.
  `WindowAgrees` assumes a user who waits (`Hasty = FALSE`), a disk that fails at most when
  a file is created, no replays, and no simulator without streams: what happens otherwise
  is in section 6. The invariant (`Agreeing`) says of each thing shown that it is what the engine
  has, or that the last signal under way about it says so (`Told`), or that a call is under
  way whose slot will emit one; `Phase` says which calls can be under way together when
  the user waits. It holds even if a join times out.
- `WindowProofs`, of the engine with the console's dialog. `ConsoleIsAnswered`: a dialog
  that listens has its answer on the way. The answer is the signal `lines_heard`, and what
  comes before it is one of three things, one of which always holds (`WillHear`): the call
  is queued, the engine listens, or the signal is queued. A session that ends stops the
  listening in the step that ends it, and a call that is refused is answered at once.
- `TimeBaseProofs`. `TypeCorrect`; `Ordered` (`TicksOnlyGrow`), by cases of the loop
  body; `DeviceIsFollowed` and `NoFalseReset` from `Follows`: while the session has missed
  no value, the last value is where the device's counter is, so the distance found,
  unwrapped, is the one it counted, which the assumption keeps below the window.
- `ProtocolProofs`, of `Link`. `LinkTypeCorrect`: between reads the buffer holds less than a
  line, and no more than the limit. `RepliesShownOnce` from `RingInv`: the ring of replies
  is the newest of those counted, as many as fit, and no report is ahead of them; so the
  terminal's lines and its count of dropped ones make up all that were counted when it was
  told. `LossesCounted` from `Continues` (each counter's last value is where its tracking
  goes on, also when the streams are configured) and `Tallied` (the totals are sums over the
  streams' gaps and restarts). `LinesTaken` from `LinesInv`: `Laid` says where each printed
  line that is left ends in what is unread, the buffer and what the reads still bring; the
  lines before it are taken and counted, and of the first that is left so many characters
  were dropped. Each exit of the loop takes one line of it, so the search for the next line
  feed finds the end of that line (`NextIs`) wherever the reads cut. `LinkAssumption` says
  that no printed line holds a line feed and that limits are numbers, `FramesAssumption` and
  `StreamsAssumption` what a frame and a stream consist of, `TracksAssumption` that counters
  are finitely many.
- `ProtocolProofs`, of `FrameParser`. `TypeCorrect`, with `Counted` (discarded, damaged and
  buffered bytes are never more than received), without which the counters' bounds are not
  inductive; `BufferBounded`; `NoTurnStalls` (each turn of the loop takes bytes or is the
  last). `FramesFound`, for every stream and split, from `ParserInv`: the buffer is the end
  of the stream, the frames found lie before it one behind the other, and every valid frame
  that starts before it was found or is reached into by an earlier valid header.
- `StoreProofs`. `StoreImplementsLog`: the mapping takes the window in the ring to the
  log and the capacity to its size. The inductive invariant is that for every position of
  the write head, both copies of the last `count` rows are in their places (`Holds`).
  `TypeCorrect`. `FramesAreCurrent` from `FrameIsOfThePast`: a frame's version is never
  newer than the store's, and each change makes a new one.
  `OverviewIsComplete` from `LodHolds`, which does for the ring of buckets what `Holds`
  does for the ring of rows, and says which rows each bucket has had; the batch is followed
  through the three parts `append` cuts it into (the rest of the open bucket, whole
  buckets, a new open one). `PollsAreComplete` from `CursorInv`: the cursor is as far from
  the newest row as the rows seen are, unless the ring was resized since.
  `TriggerCapturesCrossings` from `TriggerInv`: all rows from where it was armed to the
  last one seen were compared (`PollInv`), it fired on two that cross (`CrossingInv`), and
  the trigger's time is interpolated between theirs; when the capture is cut, the newest row
  compared is behind the window's end, so no row of the window is still to come, and what
  was cut is what is in it (`CaptureInv`). `PanelIsTold` from `PanelInv`. `TriggerOnlyReads`: `TSpec => Spec`, so
  the store's theorems hold with a trigger on it.
- `ReplayProofs`. `ReplayFollows`: chunks lie in the file one behind the other (`Laid`),
  the disk has at least what was flushed and at most what was written (`OnDisk`), and the
  reader's next chunk is the one behind those it played, what it calls truncated being
  exactly the rest of the file behind the last whole one (`Reading`). `PlaysInTime` from
  `Pacing`: what was played is not ahead of the time elapsed at the speed set
  (`Paced`). `PaceAssumption` says that the model's unit of time is small enough for paced
  times to be exact, and its horizon `Far` beyond any two stamps.
- `SimulatorProofs`. `PressesHaveValues`: what `ButtonIsValid` accepts gives each field a
  value, the column of a field being one of the panel's. `FramesAreTimed`: since the stream
  was set the frames have not fallen behind what was due at the last read (`TimeOK`), so a
  read that finds more than it may return has waited for as long as they take; calls in the
  queue select streams there are (`QueueOK`). `PressesAreRead` proves
  `DeviceReadsWhatIsSent`, for any types, byte order, layout and values that fit. Its half
  about data is the lemma `RoundTrip`: `Unpack` of what `Pack` made is what went in. A
  number is what its digits make (`DigitsBack`), a field's bytes are read back as its value,
  below 0 as well (`PieceBack`), and each field is read where it was written, the sizes
  before it summed (`StartIs`, `PackedAt`). The other half is `CallsOK`: followed through
  the queue, the document the engine knows becomes the window's, and a packet was packed
  with the one known when its turn comes (`Reaches`, `PressedIn`). `LinesOK` says the same
  of text: what was answered, what waits and what is typed are what was written. The folds
  and recursive functions here (`FoldLeft`, `FlattenSeq`, `Power`) are shown to be the runs
  of a step by a least counterexample (`Upto`, from `WFMin`). `CommandAssumption` says that
  a byte has an even number of values and each type a byte at least; `SimulatorAssumption`,
  that fields are a list.
- `ConfigProofs`. `SpecKeepsReferences`, `SpecMarksWhatIsUnsaved` and `SpecSavesWholeFiles`
  from one invariant, `IInv`. `ReferencesAreKept` is not inductive by itself: a handler
  writes through the selection, and applies text that was typed before. So `EditorOK` says
  that every draft is `Sound` (its references name its fields, keys and names are distinct,
  the positions of its signals are numbers), that the field and signal selected are there as
  far as the code keeps them so, and that what is typed is fit for the line edit that has
  the focus. `SavedIsTheFile`: the copy the tab compares with is what the file has, and the
  mark is true unless a redraw that will set it is still to come (`Marked`; `Follows` is
  what one handler does to it). `FilesAreSound`: what can be opened has right references,
  and the file that is open is such a one. `SaveGoesOn`: at each place of a save what is
  written is the editor's document with the typed text in it, and a temporary file that
  replaces the file is whole. There is one lemma per operation of `Draft` and `Struct`
  (`...Keeps`), and one per handler. The fields of a struct are plotted one after another by
  a fold (`PlotAll`); its lemma is by induction over a function that unrolls it, as the
  library's theorems about folds are out of the provers' reach. `ConfigAssumption` says what
  the editor is given: patterns typed parse, to distinct names; structs pasted are read with
  distinct names (`cstruct.py:233` reports the others); and files there at first that can be
  opened have right references. Files the code opens with errors in them are section 6's
  `StreamsWithErrorsCanBeEdited`.
- `DeskProofs`. `MarksHold`, `LiveSends` and `LivePaces` from `PanelInv`: what the panel
  believes the device has, it has (`Known`), and a column whose value differs from the
  device's in Live mode has a timer that runs or is excused by a refusal (`Timed`).
  `RestartIsSame` from `ViewInv`: list, plot and settings of the stream shown are one.
  `WindowFollows` from `QueueInv` and `MarksInv`: what the calls under way will make of the
  engine's streams, active stream and periods is what the window shows (`QueueOf`: the last
  configuration in the queue, the last selection, and the periods set behind that
  configuration decide), and every mark is of the session that runs, or a start is on its
  way that clears it. `DeskAssumption` and
  `PanelAssumption` only say that `None` is no stream, value or button.

`TimeBaseAssumption` holds the one assumption about a device: it loses, at once, no more
than the window in which the code can unwrap its counter (`WRAP_WINDOW_FRAMES`, or half of the
counter's range). Beyond it a wrap cannot be told from a restart by any receiver.

**Model-checked only.**

- Liveness, which TLAPS does not prove (ENABLED): `CloseCompletes`, `FailureEndsSession`,
  `PlaysToTheEnd`.
- Properties that quantify over data by recursion or folds: `ParserIsTheReference` (a
  RECURSIVE operator), `CreatedStreamsReadTheirLines`, `PastesFollowTheFirmware`.

## 5. Not modelled

- Engine: the branch of `ReaderThread.run` for an exception in `_on_bytes` ("internal
  error while handling received data"), for which the decoders would have to raise.
- The bytes of a chunk in `Engine`: a read is a number. Parsing is `FrameParser`'s, lines
  and frames are `Link`'s.
- Floating point: ticks, times and values are integers (in `Command`, halves). NaN is
  modelled where the code treats it apart.
- `SampleStore`: values, and so minima and maxima of a bucket; the feed's back-off.
  `snapshot()` and `values_at()` are reads without state.
- `Link`: rates (counts divided by the time between two reports).
- `Simulator`: what a frame's fields hold (waves, the model of a motor), but for the gains
  the device was told.
- `Config`: migration of older schemas, the scanning of C text and of printf formats, the
  group order, the paste dialog's preview, ID and byte order, the drawing of the frame.
- `Desk`: geometry of window and panes, port and baud, recent profiles, axes and readouts,
  drawing, the overlay of reference step responses.
- Analysis and export: numerical functions and CSV of a captured packet, no state.
- Serial transport: a wrapper of pyserial. `Engine` has its reads, failures and blocking.
- Link decoders and the former handler: glue of parser and router; `Engine!UseFormat` is
  the choice they make.
- Tools and tests: read as documentation of what is promised.
- External: pyserial and the OS (a read may fail at any time), Qt (queued calls keep
  their order; an exception that leaves a slot ends the process, as nothing installs an
  except hook), the file system (each operation may fail where the module says so).

## 6. Disagreements of code and text

Each has a definition that states what the text says and that TLC finds violated when it is
put into the run's cfg in place of its properties (as PROPERTY where it is a formula
`[][...]_vars`, as INVARIANT otherwise). `PROJECT.json` quotes the text. The models have the
code's behaviour.

| Run | Definition | What the code does |
|---|---|---|
| `engine_sessions` | `StoresMatchLayout` | `configure_streams` swaps the decoder, then the stores: a batch decoded before the swap reaches the stores after it |
| | `OnlyOwnFailureEndsSession` | a failure report queued behind a stop and a start ends the new session |
| | `WriteErrorEndsOnlyTheRecording` | an `OSError` of `flush()` or `close()` leaves the slot, which ends the process |
| `window_hasty` | `NoReplayIsRecorded` | a replay started while a live session runs is recorded, with automatic recording on |
| `store` | `PollsMissNothing` | a resize between two polls renumbers the rows under the trigger's cursor |
| | `FiresInOneSession` | the watcher's last sample survives a clear: a crossing may be of two sessions |
| | `PanelReflectsTheTrigger` | a clear between a poll and its capture, or the stream shown anew, leaves the panel as it was |
| `link` | `CountsContinue` | saving a configuration forgets the counters of a binary stream that stays |
| | `UnfedStreamsAreReported` | two layouts of the same types and other names: the second is dropped unsaid |
| `replay` | `PaceFollowsSpeed` | `set_speed` re-bases with the old speed: the replay catches up or waits |
| | `PausedPlaysSteps` | steps asked for while the replay runs are kept for the next pause |
| `config` | `SelectionIsThere` | a drop selects a signal without its field |
| | `LeftTextIsNoEdit` | text a redraw left in a line edit is applied to the stream shown now |
| | `StreamsWithErrorsCanBeEdited` | field edits raise in a stream whose pattern does not parse |
| | `DraftsAreKept` | switching the profile drops unsaved drafts |
| | `TheFirstOnePairs` | a signal pairs with the last one waiting, not the first |
| | `PastesKeepSignals` | a new field's signal may overwrite one whose key is `name_new` |
| | `XAxisIsThere` | a field removed from a binary stream leaves its name in `time.field` |
| `desk` | `LinkedRowsAreEqual` | revert, presets and linking leave the columns of a linked row different |
| | `RevertsAreWaitedFor` | a revert does not start Live mode's timer again: the values it put back go out when the timer of the edit before it ends |
| | `EveryDifferenceIsMarked` | a packet sent again, or a value fixed by a button, is not told to the panel |
| | `StoppedViewIsTheShownStreams` | another stream shown while stopped leaves the old packet |
| | `MarksAreOfTheirStores` | markers survive the stores their times are of |
| | `LanesAreInOrder` | list and plot order a lane that was empty differently |
| | `NothingIsShownOfNothing` | with no stream left, the old one stays in list, plot and feed |
| `device` | `EveryFileLoads` | a `null` parameter keeps the whole file from loading |
| | `ShowingKeepsGains` | showing another stream gives the virtual device new motors |
| `console` | `ListensWhileConnected` | late lines put the Listen button up with nothing connected |
| | `LinesAreOfOneStream` | lines that differ in padding make two streams, the second of which gets no line |
| | `PatternsParse` | a value named `_line` makes a pattern that does not parse, and raises in a slot |

`PastesKeepSignals` needs an instance of its own: `PasteEffort = 1`, `Names` with `bad` as
a fourth name, in `Wheels` the fields `<<lc, v2>>`, the second signal of key `v1` but of the
field `v2`, simulator and time of `v2` too, the second file (`q`) without streams, and as
`Sources` the packed structs of `lc, v1, v2` and of `lc, v1, v2, bad`: paste the first,
rename `v1` to `bad`, paste the second. `RevertsAreWaitedFor` needs `MaxSteps = 15`:
connect, send, Live mode, an edit, and a revert before its timer ends.

Others seen while modelling:

- `engine.py:283`: streams saved while a recording of another format is replayed are
  refused by the decoder in use and dropped, though the slot is documented to take them over.
- `engine.py:445`: the report of a failed recording, handled after a new one has begun,
  says that nothing is recorded (with `Hasty = TRUE` and `"write"` in `DiskErrors`, `Window`
  settles with `recorder # None` and `recPath = None`).
- `reader.py:57`: a reader that misses its join stores its read after the next session's
  clear (`StoresHoldARun` with `JoinTimesOut = TRUE`), and no more than that
  (`LateReadersAddOneRead`).
- `engine.py:376`: the total behind the sample rate falls when streams are configured, so
  a rate may be negative.
- `main_window.py:407`: the profile switch is guarded by the mirror of the state, so with
  a connect on its way the profile changes under a running engine (`WindowAndEngineAgree`
  with `Hasty = TRUE`).
- `engine.py:132`: connecting to the simulator with no valid stream leaves the Connect
  button checked (`WindowAndEngineAgree` with port `"sim"` and profile `NoCfg`).
- `timebase.py:141`, `:145`: rows before the first value move the ticks on, and the first
  value may set them back; a missing value makes the next one count as a loss.

## 7. Plan

The order was: engine, window, time base, parser, store; then what reads the store
(`Trigger`), what feeds it (`Link`, `Replay`, `Simulator`), what configures it (`Draft`,
`Struct`, `Config`, `Infer`, `Console`) and what shows it (`Panel`, `Desk`). All of that is
written and checked. Left:

1. The schema's migration, as an operator on old documents.
2. The reader's branch for a decoder that raises, once the decoders' models have what raises.
