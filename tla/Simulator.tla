------------------------------ MODULE Simulator ------------------------------
(***************************************************************************)
(* The virtual device, and what is sent to it: core/transport/             *)
(* sim_transport.py with core/simulation/synth.py, the engine's slots that *)
(* drive it (core/acquisition/engine.py), and the window that encodes a    *)
(* press of a panel's button with the commands of the file it has loaded   *)
(* (ui/main_window.py), which may be another one by the time the device    *)
(* has it.                                                                 *)
(*                                                                         *)
(* Every stream here has the model of the motors, the only one a command   *)
(* reaches.  A file that does not load leaves what was loaded.             *)
(* Time goes in half intervals of MIN_READ_INTERVAL_S.  A frame is its     *)
(* number k; a line sent to a text device is its number too.               *)
(***************************************************************************)
EXTENDS Command

CONSTANTS
    Files,          \* what the file may hold: document -> [commands, panels]
    Periods,        \* stream -> its period
    MinRead,        \* MIN_READ_INTERVAL_S
    MaxFrames,      \* MAX_FRAMES_PER_READ
    MaxSent, MaxNow, MaxCalls \* bounds: sends, time, what else the user does

Streams == DOMAIN Periods

\* (The fields of a command are a list: CommandDef.fields.)
ASSUME SimulatorAssumption ==
    /\ Periods \in [Streams -> Nat \ {0}] /\ MinRead \in Nat /\ MaxFrames \in Nat \ {0}
    /\ MaxSent \in Nat /\ MaxNow \in Nat /\ MaxCalls \in Nat
    /\ \A d \in DOMAIN Files : \A key \in DOMAIN Files[d].commands :
           Files[d].commands[key].fields \in Seq(Range(Files[d].commands[key].fields))

VARIABLES
    text,       \* is it a text profile's device? (the session's profile)
    document,   \* what the window has loaded
    shown,      \* the stream it shows
    running,    \* does its engine_state say RUNNING?
    calls,      \* the calls queued for the engine
    reports,    \* the states it has reported and the window not handled: RUNNING?
    known,      \* engine._commands: of which document
    active,     \* engine._active_key
    open,       \* is the simulator open (a session)?
    layouts,    \* SimTransport._command_defs: of which document
    stream,     \* the stream it simulates
    k, k0, t0, lastRead, \* _k, _k0, _t0, _last_read
    gains,      \* what the model of this stream was told last
    typed, answers, \* _typed: the lines not ended yet; _answers
    now,        \* (of the environment) the clock
    frames,     \* (history) the last read's frames: [first, count]
    since, base, \* (history) when the stream was set, and the first frame of it
    failed,     \* (history) was a button pressed whose command has no value for a field?
    meant,      \* (history) what was sent last and what the device made of it
    replies,    \* (history) the lines answered, and those sent to the device
    written,
    sends, acts \* (bounds) what was sent, what else was done

windowVars == <<text, document, shown, running, failed>>
engineVars == <<known, active>>
clockVars == <<k, k0, t0, lastRead>>
deviceVars == <<reports, open, layouts, stream, gains, typed, answers>>
histVars == <<frames, since, base, meant, replies, written>>
vars == <<windowVars, calls, engineVars, clockVars, deviceVars, now, histVars, sends, acts>>

NoFrames == [first |-> 0, count |-> 0]
Unsent == [sent |-> <<>>, read |-> <<>>]

\* What a document gives the window, the problems left out.
Commands == [d \in DOMAIN Files |-> ParseCommands(Files[d].commands)]
Panels == [d \in DOMAIN Files |-> ParsePanels(Files[d].panels, Commands[d])]

Loads(d) == ~Raises(Files[d].panels)

----------------------------------------------------------------------------
(* The window. *)

Call(c) == calls' = Append(calls, c)
Selection(s) == [do |-> "select", stream |-> s]
Act == acts < MaxCalls /\ acts' = acts + 1

\* What the panels' buttons send, with what their inputs hold: the command's values.
PressesOf(d, panel) ==
    {[document |-> d, command |-> Commands[d][b.command],
      vals |-> Resolve(Commands[d][b.command], v, ButtonColumn(b, panel), b.values)] :
        b \in ToSet(panel.buttons), v \in InputsOf(panel)}
Presses == UNION {UNION {PressesOf(d, panel) : panel \in Range(Panels[d])} : d \in DOMAIN Files}

\* _send_command: what has no value (resolve_values' CommandError) or does not fit is
\* refused.
Unresolved(p) == None \in Range(p.vals)
Press(p) ==
    /\ p.document = document /\ running /\ ~text /\ sends < MaxSent /\ sends' = sends + 1
    /\ failed' = (failed \/ Unresolved(p))
    /\ IF Unresolved(p) \/ ~Encodes(p.command, p.vals) THEN UNCHANGED calls
       ELSE Call([do |-> "send", id |-> p.command.id, payload |-> Pack(p.command, p.vals),
                  vals |-> p.vals])
    /\ UNCHANGED <<text, document, shown, running, engineVars, clockVars, deviceVars, now, histVars, acts>>

\* _send_line: a line, with an end the device knows or not.
SendLine(ended) ==
    /\ running /\ text /\ sends < MaxSent /\ sends' = sends + 1
    /\ Call([do |-> "write", line |-> sends + 1, ended |-> ended])
    /\ UNCHANGED <<windowVars, engineVars, clockVars, deviceVars, now, histVars, acts>>

\* _reload_configuration: the panels are the new file's before the engine is told, which
\* is first told of the stream shown.
SaveConfig(d) ==
    /\ Act /\ d # document /\ Loads(d) /\ document' = d /\ UNCHANGED <<text, shown, running, failed>>
    /\ calls' = calls \o <<Selection(shown), [do |-> "commands", document |-> d], [do |-> "streams"]>>
    /\ UNCHANGED <<engineVars, clockVars, deviceVars, now, histVars, sends>>

SelectStream(s) ==
    /\ Act /\ shown' = s /\ Call(Selection(s))
    /\ UNCHANGED <<text, document, running, failed, engineVars, clockVars, deviceVars, now, histVars, sends>>
Connect ==
    /\ ~running /\ Act /\ Call([do |-> "start"])
    /\ UNCHANGED <<windowVars, engineVars, clockVars, deviceVars, now, histVars, sends>>
Disconnect ==
    /\ running /\ Act /\ Call([do |-> "stop"])
    /\ UNCHANGED <<windowVars, engineVars, clockVars, deviceVars, now, histVars, sends>>

\* _on_engine_state: the report of a state, handled when its turn comes.
StateReported ==
    /\ reports # <<>> /\ running' = Head(reports) /\ reports' = Tail(reports)
    /\ UNCHANGED <<text, document, shown, failed, calls, engineVars, clockVars, open, layouts, stream, gains,
                   typed, answers, now, histVars, sends, acts>>

----------------------------------------------------------------------------
(* The engine's slots, and the simulator behind them. *)

Slot(do) == calls # <<>> /\ Head(calls).do = do /\ calls' = Tail(calls)
This == Head(calls)

\* set_stream: from now on, at that stream's period; the frames go on.
RebasedInNumberOnly == k0' = k /\ UNCHANGED t0    \* mutant
Rebased == t0' = now /\ k0' = k
SetStream(s) ==
    /\ stream' = s /\ Rebased /\ gains' = <<>>
    /\ since' = now /\ base' = k

ConfigureCommands ==
    /\ Slot("commands") /\ known' = This.document
    /\ layouts' = IF open THEN This.document ELSE layouts
    /\ UNCHANGED <<windowVars, active, clockVars, reports, open, stream, gains, typed, answers, now, histVars,
                   sends, acts>>
\* _apply_active_stream
Apply(s) == IF open THEN SetStream(s) ELSE UNCHANGED <<stream, k0, t0, gains, since, base>>
ConfigureStreams ==
    /\ Slot("streams") /\ Apply(active)
    /\ UNCHANGED <<windowVars, engineVars, k, lastRead, reports, open, layouts, typed, answers, now,
                   frames, meant, replies, written, sends, acts>>
Select ==
    /\ Slot("select") /\ active' = This.stream /\ Apply(This.stream)
    /\ UNCHANGED <<windowVars, known, k, lastRead, reports, open, layouts, typed, answers, now, frames, meant,
                   replies, written, sends, acts>>

\* start_working: a new simulator for each session.
StartWorking ==
    /\ Slot("start")
    /\ IF open THEN UNCHANGED <<clockVars, deviceVars, histVars>>
       ELSE /\ open' = TRUE /\ reports' = Append(reports, TRUE)
            /\ layouts' = known /\ stream' = active /\ gains' = <<>>
            /\ typed' = <<>> /\ answers' = <<>>
            /\ k' = 0 /\ k0' = 0 /\ t0' = now /\ lastRead' = now
            /\ frames' = NoFrames /\ since' = now /\ base' = 0
            /\ replies' = <<>> /\ written' = <<>> /\ UNCHANGED meant
    /\ UNCHANGED <<windowVars, engineVars, now, sends, acts>>
StopWorking ==
    /\ Slot("stop") /\ open' = FALSE /\ reports' = IF open THEN Append(reports, FALSE) ELSE reports
    /\ UNCHANGED <<windowVars, engineVars, clockVars, layouts, stream, gains, typed, answers, now,
                   histVars, sends, acts>>

\* send_packet, SimTransport.write, FrameSynth.apply_command.  Without a session the
\* packet is not written.
SendPacket ==
    /\ Slot("send")
    /\ LET taken == TakenBy(Commands[layouts], This.id, This.payload)
       IN  IF ~open \/ taken = {} THEN UNCHANGED <<gains, meant>>
           ELSE \E key \in taken :
                LET read == Unpack(Commands[layouts][key], This.payload) IN
                /\ gains' = read
                /\ meant' = IF taken = {key} THEN [sent |-> This.vals, read |-> read] ELSE Unsent
    /\ UNCHANGED <<windowVars, engineVars, clockVars, reports, open, layouts, stream, typed, answers, now, frames,
                   since, base, replies, written, sends, acts>>
WriteLine ==
    /\ Slot("write")
    /\ IF ~open THEN UNCHANGED <<typed, answers, written>>
       ELSE /\ written' = Append(written, This.line)
            /\ IF This.ended
               THEN typed' = <<>> /\ answers' = answers \o <<Append(typed, This.line)>>
               ELSE typed' = Append(typed, This.line) /\ UNCHANGED answers
    /\ UNCHANGED <<windowVars, engineVars, clockVars, reports, open, layouts, stream, gains, now, frames, since,
                   base, meant, replies, sends, acts>>

----------------------------------------------------------------------------
(* The reader, at any moment it looks: SimTransport.read. *)

DueNow == k0 + (now - t0) \div Periods[stream] + 1 - k
Skipped(n) == IF n > MaxFrames THEN n - MaxFrames ELSE 0

ReadAnswers ==
    /\ open /\ answers # <<>>
    /\ replies' = replies \o answers /\ answers' = <<>>
    /\ UNCHANGED <<windowVars, calls, engineVars, clockVars, reports, open, layouts, stream, gains, typed, now,
                   frames, since, base, meant, written, sends, acts>>
ReadFrames ==
    /\ open /\ answers = <<>> /\ DueNow > 0 /\ now >= lastRead + MinRead
    /\ k' = k + DueNow /\ lastRead' = now
    /\ frames' = [first |-> k + Skipped(DueNow), count |-> DueNow - Skipped(DueNow)]
    /\ UNCHANGED <<windowVars, calls, engineVars, k0, t0, deviceVars, now, since, base, meant, replies,
                   written, sends, acts>>

Tick ==
    /\ now < MaxNow /\ now' = now + 1
    /\ UNCHANGED <<windowVars, calls, engineVars, clockVars, deviceVars, histVars, sends, acts>>

----------------------------------------------------------------------------
Init ==
    /\ text \in BOOLEAN /\ document \in {d \in DOMAIN Files : Loads(d)} /\ known = document /\ calls = <<>> /\ reports = <<>>
    /\ running = FALSE /\ shown \in Streams /\ active = shown
    /\ open = FALSE /\ layouts = document /\ stream = active /\ gains = <<>>
    /\ k = 0 /\ k0 = 0 /\ t0 = 0 /\ lastRead = 0 /\ now = 0
    /\ typed = <<>> /\ answers = <<>> /\ replies = <<>> /\ written = <<>>
    /\ frames = NoFrames /\ since = 0 /\ base = 0 /\ meant = Unsent /\ failed = FALSE
    /\ sends = 0 /\ acts = 0

User ==
    \/ \E p \in Presses : Press(p)
    \/ \E ended \in BOOLEAN : SendLine(ended)
    \/ \E d \in DOMAIN Files : SaveConfig(d)
    \/ \E s \in Streams : SelectStream(s)
    \/ Connect \/ Disconnect \/ StateReported
Slots == ConfigureCommands \/ ConfigureStreams \/ Select \/ StartWorking \/ StopWorking \/ SendPacket \/ WriteLine

Next == User \/ Slots \/ ReadAnswers \/ ReadFrames \/ Tick

Spec == Init /\ [][Next]_vars

----------------------------------------------------------------------------
(* A button of a panel that was accepted can be pressed: whatever its      *)
(* inputs hold, every field of its command has a value (_button's check    *)
(* against resolve_values').                                               *)
EveryPressHasValues == ~failed

(* (Not of the code: a finding.)  Errors in a panel leave out the panel,   *)
(* never the file.                                                         *)
EveryFileLoads == \A d \in DOMAIN Files : Loads(d)

(* (Not of the code: a finding.)  To show another stream restarts nothing: *)
(* what the device was told stays told.                                    *)
ShowingKeepsGains == [][Slot("select") /\ calls' # calls => gains' = gains]_vars

(* The device does what was meant: it reads the numbers that were entered, *)
(* though the file may have changed between the press and the device, and  *)
(* answers the lines it was sent, each once and in their order, whole.     *)
DeviceReadsWhatIsSent ==
    /\ meant.read = meant.sent
    /\ FlattenSeq(replies) \o FlattenSeq(answers) \o typed = written

(* The frames of a stream come when they are due, from the moment it was   *)
(* selected: a read leaves none that is due, brings none that is not, and  *)
(* skips some only if it looked away for as long as MaxFrames of them      *)
(* take.                                                                   *)
Latest(a, b) == IF a > b THEN a ELSE b
FramesKeepTime ==
    [][k' # k /\ open /\ open' =>
        /\ k' = base + (now - since) \div Periods[stream] + 1
        /\ frames'.first + frames'.count = k'
        /\ frames'.first # k => /\ frames'.count = MaxFrames
                                 /\ now - Latest(since, lastRead) >= MaxFrames * Periods[stream]]_vars
=============================================================================
