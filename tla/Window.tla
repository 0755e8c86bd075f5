------------------------------- MODULE Window -------------------------------
(***************************************************************************)
(* ui/main_window.py with ui/panels/connection.py: what the window makes   *)
(* of the engine's signals, and when it lets the user call the engine.     *)
(*                                                                         *)
(* The window only knows what it was told: a signal waits in `gui`, the    *)
(* GUI thread's event queue, until the GUI thread gets to it, and a call   *)
(* waits in the engine's `inbox`.  Every step of the engine puts the       *)
(* signals it emits (`out`) at the end of `gui`.                           *)
(***************************************************************************)
EXTENDS Engine

CONSTANTS
    Profiles,      \* the streams a profile can have (NoCfg: none that is valid)
    UserOps,       \* what the user does in a run (a subset of AllOps)
    Ports,         \* kinds of port to connect to
    ReplayFmts,    \* formats of the recordings to replay
    RecordOnConnect,
    Hasty          \* does the user act before the window has settled?

AllOps == {"connect", "disconnect", "replay", "profile", "save", "record", "close"}

ASSUME WindowAssumption ==
    /\ Profiles \subseteq AnyCfg /\ UserOps \subseteq AllOps
    /\ Ports \subseteq {"serial", "sim"} /\ ReplayFmts \subseteq Formats \cup {Unknown}
    /\ RecordOnConnect \in BOOLEAN /\ Hasty \in BOOLEAN

VARIABLES
    gui,          \* signals waiting for the GUI thread
    shut,         \* "new", "open", "closing" (blocked in closeEvent) or "closed"
    engineState,  \* the mirror of the engine's state
    connected,    \* is the Connect button checked ("Disconnect")?
    replaying,    \* _replaying
    recPath,      \* _recording_path
    recChecked,   \* is the Record action checked?
    profile       \* the streams of the profile the window shows

mirrorVars == <<engineState, connected, replaying, recPath, recChecked>>
engineVars == <<queueVars, at, job, sessionVars, configVars, dataVars, recVars, rd>>
wvars == <<vars, gui, shut, mirrorVars, profile>>

----------------------------------------------------------------------------
(* Helpers. *)

\* Nothing is on its way between the two threads.
Settled == gui = <<>> /\ inbox = <<>> /\ at = "idle"

UserMay(op) == op \in UserOps /\ shut = "open" /\ (Hasty \/ Settled)

\* A GUI step: the calls it posts, and the engine as it is.
Invoke(newCalls) ==
    /\ inbox' = inbox \o newCalls /\ out' = <<>>
    /\ UNCHANGED <<at, job, sessionVars, configVars, dataVars, recVars, rd>>

\* The same for the user's calls, of which there are MaxCalls.
UserInvokes(newCalls) ==
    /\ calls + Len(newCalls) <= MaxCalls
    /\ calls' = calls + Len(newCalls)
    /\ Invoke(newCalls) /\ UNCHANGED gui

Stop == [op |-> "stop"]
Record == [op |-> "record"]

\* _apply_profile(), _configure_engine_streams()
ApplyProfile(cfg) ==
    <<[op |-> "profile", fmt |-> FmtOf[cfg]], [op |-> "configure", cfg |-> cfg]>>

WInit ==
    /\ Init
    /\ gui = <<>> /\ shut = "new"
    /\ engineState = "IDLE" /\ connected = FALSE /\ replaying = FALSE
    /\ recPath = None /\ recChecked = FALSE
    /\ profile \in Profiles

\* The end of __init__.
Construct ==
    /\ shut = "new" /\ shut' = "open"
    /\ Invoke(ApplyProfile(profile))
    /\ UNCHANGED <<calls, gui, mirrorVars, profile>>

----------------------------------------------------------------------------
(* The user. *)

\* ConnectionPanel._on_connect_toggled and MainWindow._handle_connection.
ReplayingStays == replaying    \* mutant: a failed replay's flag is left set
ReplayingOnConnect == FALSE

Connect ==
    /\ UserMay("connect") /\ ~connected
    /\ \E kind \in Ports : UserInvokes(<<[op |-> "start", kind |-> kind, id |-> calls + 1]>>)
    /\ connected' = TRUE /\ replaying' = ReplayingOnConnect
    /\ UNCHANGED <<shut, engineState, recPath, recChecked, profile>>

Disconnect ==
    /\ UserMay("disconnect") /\ connected
    /\ UserInvokes(<<Stop>>)
    /\ connected' = FALSE
    /\ UNCHANGED <<shut, engineState, replaying, recPath, recChecked, profile>>

\* start_replay, from the menu.
PlayRecording ==
    /\ UserMay("replay")
    /\ \E fmt \in ReplayFmts :
           UserInvokes(<<Stop, [op |-> "replay", fmt |-> fmt, id |-> calls + 1]>>)
    /\ replaying' = TRUE
    /\ UNCHANGED <<shut, engineState, connected, recPath, recChecked, profile>>

\* switch_profile: the guard is on the window's mirror of the state.
SwitchProfile ==
    /\ UserMay("profile") /\ engineState # "RUNNING"
    /\ \E cfg \in Profiles \ {profile} :
           UserInvokes(ApplyProfile(cfg)) /\ profile' = cfg
    /\ UNCHANGED <<shut, mirrorVars>>

\* The configuration was saved: _reload_configuration.  Its format stays.
SaveConfiguration ==
    /\ UserMay("save")
    /\ \E cfg \in Profiles :
           /\ FmtOf[cfg] = FmtOf[profile]
           /\ UserInvokes(ApplyProfile(cfg)) /\ profile' = cfg
    /\ UNCHANGED <<shut, mirrorVars>>

\* The Record action, or the REC button: _toggle_recording.
ToggleRecording ==
    /\ UserMay("record") /\ (engineState = "RUNNING" \/ recPath # None)
    /\ recChecked' = ~recChecked
    /\ UserInvokes(<<IF recChecked THEN [op |-> "unrecord"] ELSE Record>>)
    /\ UNCHANGED <<shut, engineState, connected, replaying, recPath, profile>>

\* closeEvent: a blocking call of stop_working ...
Close ==
    /\ UserMay("close")
    /\ shut' = "closing"
    /\ Invoke(<<Stop>>)
    /\ UNCHANGED <<calls, gui, mirrorVars, profile>>

\* ... which has returned; the engine's event loop quits.
BlockingStopIsQueued == TRUE    \* mutant: closeEvent does not wait
BlockingStopReturns == at = "idle" /\ \A i \in DOMAIN inbox : inbox[i].op # "stop"

Closed ==
    /\ shut = "closing" /\ BlockingStopReturns
    /\ shut' = "closed" /\ out' = <<>>
    /\ UNCHANGED <<engineVars, gui, mirrorVars, profile>>

----------------------------------------------------------------------------
(* The GUI thread: slots of the engine's signals. *)

Deliver(sig) ==
    /\ shut = "open" /\ gui # <<>> /\ Head(gui).sig = sig
    /\ gui' = Tail(gui)
    /\ UNCHANGED <<calls, shut, profile>>

\* _on_engine_state_changed: "record automatically on connect" is not for replays.
AutoRecord(s) == s = "RUNNING" /\ RecordOnConnect /\ ~replaying

OnStateChanged ==
    /\ Deliver("state")
    /\ LET s == Head(gui).val IN
         /\ engineState' = s /\ connected' = (s = "RUNNING")
         /\ replaying' = (s = "RUNNING" /\ replaying)
         /\ Invoke(IF AutoRecord(s) THEN <<Record>> ELSE <<>>)
    /\ UNCHANGED <<recPath, recChecked>>

\* _handle_connection_failed
ConnectedAfterFailureStays == connected    \* mutant: the button is left checked
ConnectedAfterFailure == FALSE

OnConnectionFailed ==
    /\ Deliver("failed")
    /\ connected' = ConnectedAfterFailure
    /\ Invoke(<<>>)
    /\ UNCHANGED <<engineState, replaying, recPath, recChecked>>

\* _on_recording_changed
OnRecordingChanged ==
    /\ Deliver("recording")
    /\ recPath' = Head(gui).val /\ recChecked' = (Head(gui).val # None)
    /\ Invoke(<<>>)
    /\ UNCHANGED <<engineState, connected, replaying>>

\* The signals that change nothing here.  (Listening and the statistics timer are in
\* the runs of Engine alone.)
OnOther ==
    /\ \E sig \in {"ended", "streams"} : Deliver(sig)
    /\ Invoke(<<>>)
    /\ UNCHANGED mirrorVars

----------------------------------------------------------------------------

\* A step of the engine or a reader; what it emits is queued for the window.
EngineStep ==
    /\ shut # "closed"
    /\ Slots \/ \E s \in Sessions : Reader(s)
    /\ gui' = gui \o out'
    /\ UNCHANGED <<shut, mirrorVars, profile>>

GuiStep == OnStateChanged \/ OnConnectionFailed \/ OnRecordingChanged \/ OnOther \/ Closed

User ==
    \/ Connect \/ Disconnect \/ PlayRecording \/ SwitchProfile
    \/ SaveConfiguration \/ ToggleRecording \/ Close

WNext == Construct \/ EngineStep \/ GuiStep \/ User

WSpec == WInit /\ [][WNext]_wvars

WFairSpec == WSpec /\ WF_wvars(GuiStep) /\ WF_wvars(shut # "closed" /\ Slots /\ EngineStep)
                   /\ \A s \in Sessions : WF_wvars(Reader(s) /\ EngineStep)

----------------------------------------------------------------------------
(* Properties. *)

\* main_window.py:594, "the Connect button mirrors the engine, however the session
\* started"; switch_profile, _reload_configuration, engine.configure_profile: whenever
\* nothing is under way, the window shows the engine's real state and the recording that
\* is really going on, and the engine decodes the streams of the profile it shows.
WindowAndEngineAgree ==
    Settled /\ shut = "open" =>
        /\ connected = (state = "RUNNING") /\ engineState = state
        /\ recPath = recorder /\ recChecked = (recorder # None)
        /\ streams = profile /\ profileFmt = FmtOf[profile]

\* _on_engine_state_changed, README "Record automatically on connect records every
\* session": a live session is being recorded once nothing is under way.
AutoRecordCoversSessions ==
    Settled /\ shut = "open" /\ state = "RUNNING" /\ rd[session].kind # "replay"
        => recorder # None

\* closeEvent, "stops the engine and its thread before the window goes away": then no
\* session, no recording and no reader is left.
NothingRunsAfterClose ==
    shut = "closed" => session = None /\ recorder = None /\ \A s \in Sessions : ~Alive(s)

\* closeEvent: the blocking call returns, whatever the reader and the engine are doing.
CloseCompletes == shut = "closing" ~> shut = "closed"

\* README, "records every session (not replays)": the automatic recording never holds
\* what a replay plays.
NoReplayIsRecorded ==
    \A f \in DOMAIN files : \A i \in DOMAIN files[f] : rd[files[f][i].sess].kind # "replay"
=============================================================================
