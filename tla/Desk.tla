-------------------------------- MODULE Desk --------------------------------
(***************************************************************************)
(* The window around the panels: ui/main_window.py, ui/panels/container.py *)
(* and ui/ui_state.py with the signals list, the panes, the plot and its   *)
(* live feed.  Which stream is shown and how, what of that is kept for     *)
(* each profile, and what the plot holds while it is paused.               *)
(*                                                                         *)
(* A store is <<generation, stream>>: each configuration the engine takes  *)
(* makes new ones.  A lane is a number: that of a lane the user made       *)
(* ("Lane 3"), or a greater one of the configuration.                      *)
(***************************************************************************)
EXTENDS Panel, FiniteSets

CONSTANTS
    StreamNames,   \* keys of streams
    Documents,     \* the streams a file may hold: sequences of keys
    FirstFiles,    \* each profile's file at first
    TextProfiles,  \* profiles with a terminal instead of panels
    SignalOrder,   \* the signals of each stream, in the file's order
    ConfigLane,    \* signal -> its lane in the file
    Rows,          \* what is moved at once: a signal, or the two of a row
    Endings, LF,   \* line endings of the terminal, the default
    MaxMarkers,    \* markers kept for a stream (MAX_MARKERS)
    MaxSteps, MaxSessions \* bounds: what the user does, the sessions

Signals == ToSet(SignalOrder)
Views == {"tune", "step"}

ASSUME DeskAssumption ==
    /\ Documents \subseteq Seq(StreamNames) /\ FirstFiles \in [Scopes -> Documents]
    /\ TextProfiles \subseteq Scopes
    /\ None \notin StreamNames /\ None \notin [left : BOOLEAN, right : BOOLEAN, view : Views]
    /\ ConfigLane \in [Signals -> Nat] /\ Rows \subseteq SUBSET Signals /\ LF \in Endings /\ MaxMarkers \in Nat \ {0}
    /\ MaxSteps \in Nat /\ MaxSessions \in Nat

VARIABLES
    files,      \* profile -> the streams its file holds
    profile,    \* the loader's file
    views,      \* UiState: profile -> what is remembered of its view
    shown,      \* the selected tab's stream, or None
    listed,     \* the signals list: [visible, lane, lanes]
    plotted,    \* the plot: the same, its lanes with those it collapsed
    panes,      \* PaneState: [left, right, view]
    ending,     \* the terminal's line ending
    mode,       \* plot.mode: "LIVE" or "ANALYSIS"
    button,     \* the RUN/STOP box: is it at STOP?
    packet,     \* analysis_packet: the store it is from, or None
    last,       \* last_packet: the store it is from, or None
    overlays,   \* what is drawn for the analysis: "anchor", "window"
    feed,       \* the live feed's store
    watched, armed, \* the trigger's store; is it armed?
    override,   \* _scale_overrides: streams whose period the user set
    markers,    \* stream -> its markers, oldest first: [session, store]
    drawn,      \* the plot's markers
    generation, stores, \* the engine's stores: the newest generation, its streams
    data,       \* the stores that hold samples
    scaled,     \* streams whose store has the user's scale
    alive, session, \* the engine: does a session run, how many have started
    active,     \* _active_key: the stream the simulator produces
    calls, events, \* queued calls to the engine, and its signals to the window
    steps       \* (bound) what the user has done

viewVars == <<files, profile, views, shown, listed, plotted, panes, ending>>
plotVars == <<mode, button, packet, last, overlays, feed, watched, armed>>
markVars == <<markers, drawn>>
engineVars == <<generation, stores, data, scaled, alive, session, active>>
queueVars == <<calls, events>>
dvars == <<viewVars, plotVars, override, markVars, engineVars, queueVars, steps>>
vars == <<pvars, dvars>>

----------------------------------------------------------------------------
(* What is remembered of a view, and a stream as it is shown. *)

Fresh == [stream |-> None, visible |-> [s \in StreamNames |-> <<>>],
          lane |-> [s \in StreamNames |-> <<>>], panes |-> None, ending |-> LF]
AllOpen == [left |-> TRUE, right |-> TRUE, view |-> "tune"]
KeptPanes(v) == IF v.panes = None THEN AllOpen ELSE v.panes
IsText(p) == p \in TextProfiles

\* apply_view_overrides: what is remembered, on top of the file.
Visible(v, k) == [s \in Signals |-> IF s \in DOMAIN v.visible[k] THEN v.visible[k][s] ELSE TRUE]
LaneOf(v, k) == [s \in Signals |-> IF s \in DOMAIN v.lane[k] THEN v.lane[k][s] ELSE ConfigLane[s]]

\* lane_layout: the lanes with a signal, as their first signals come.
LanesOf(lane) == FoldLeft(LAMBDA ls, s : IF Contains(ls, lane[s]) THEN ls ELSE Append(ls, lane[s]),
                          <<>>, SignalOrder)

NoSignals == [visible |-> <<>>, lane |-> <<>>, lanes |-> <<>>]
List(v, k) == IF k = None THEN NoSignals
              ELSE [visible |-> Visible(v, k), lane |-> LaneOf(v, k), lanes |-> LanesOf(LaneOf(v, k))]
\* The tab shown of a file's: the one wanted, if it is there, or the first.
Tab(keys, wanted) == IF Contains(keys, wanted) THEN wanted ELSE IF keys = <<>> THEN None ELSE keys[1]

\* The store of a stream, as the GUI thread finds it.
Store(k) == IF k \in stores THEN <<generation, k>> ELSE None

----------------------------------------------------------------------------
(* Steps of the window. *)

\* The bound on what the user does: a step at the panel counts less than one
\* around it, and starting a session least.
Effort(n) == steps' = steps + n /\ steps' <= MaxSteps
User == Effort(4)
Call(cs) == calls' = calls \o cs

\* _bind_live_feed: another store takes the trigger's place.
Bind(k) ==
    /\ feed' = Store(k) /\ watched' = Store(k)
    /\ armed' = (armed /\ Store(k) = watched)

MarkersOf(ms, k) == IF k \in DOMAIN ms THEN ms[k] ELSE <<>>

\* _on_stream_selection, _on_stream_changed: everything but what is paused
\* follows; v is what is remembered, ms the markers.
Select(k, v, ms) ==
    /\ shown' = k /\ listed' = List(v, k) /\ plotted' = List(v, k)
    /\ overlays' = overlays \ {"anchor"}
    /\ drawn' = MarkersOf(ms, k)
    /\ Bind(k)
Selected(k) == IF k = None THEN <<>> ELSE <<[do |-> "select", key |-> k]>>
Remembered(v, k) == IF k = None THEN v ELSE [v EXCEPT !.stream = k]

\* A text profile has no Step view.
Coerced(ps, p) == IF IsText(p) THEN [ps EXCEPT !.view = "tune"] ELSE ps

\* _configure_engine_streams: new stores, with the file's periods.
OverridesStay == override    \* mutant
Cleared == {}
Configured(keys) == <<[do |-> "configure", keys |-> ToSet(keys)]>>

\* _set_pause_state, set_paused.
LeaveAnalysis == mode' = "LIVE" /\ packet' = None /\ overlays' = {}
Unpause == LeaveAnalysis /\ button' = FALSE
Freeze == IF feed \in data THEN feed ELSE last

----------------------------------------------------------------------------
(* The user: streams, signals and panes. *)

SelectStream(k) ==
    /\ User /\ Contains(files[profile], k) /\ k # shown
    /\ views' = [views EXCEPT ![scope] = Remembered(@, k)]
    /\ Select(k, views[scope], markers) /\ Call(Selected(k))
    /\ UNCHANGED <<pvars, files, profile, panes, ending, mode, button, packet, last, override, markers,
                   engineVars, events>>

\* set_visible, set_lane of UiState: an entry of each signal, over those there are.
Updated(remembered, ss, x) ==
    [s \in ss \cup DOMAIN remembered |-> IF s \in ss THEN x ELSE remembered[s]]

\* set_visible, set_lane_visible, and what is connected to them.
Show(ss, on) ==
    LET turned == {s \in ss : listed.visible[s] # on}
        Now(visible) == [s \in Signals |-> IF s \in turned THEN on ELSE visible[s]]
    IN  /\ User /\ shown # None /\ turned # {}
        /\ listed' = [listed EXCEPT !.visible = Now(@)]
        /\ plotted' = [plotted EXCEPT !.visible = Now(@)]
        /\ views' = [views EXCEPT ![scope].visible[shown] = Updated(@, turned, on)]
        /\ UNCHANGED <<pvars, files, profile, shown, panes, ending, plotVars, override, markVars,
                       engineVars, queueVars>>
SetVisible == \E s \in Signals, on \in BOOLEAN : Show({s}, on)
SetLaneVisible ==
    \E l \in ToSet(listed.lanes), on \in BOOLEAN : Show({s \in Signals : listed.lane[s] = l}, on)

\* _new_lane: its number is at least that of the lanes.
NewLane(lanes) == CHOOSE n \in Len(lanes) + 1 .. 2 * Len(lanes) + 1 :
    /\ ~Contains(lanes, n)
    /\ \A m \in Len(lanes) + 1 .. n - 1 : Contains(lanes, m)

With(lanes, l) == IF Contains(lanes, l) THEN lanes ELSE Append(lanes, l)

\* _move, move_signal: the list drops a lane that is left empty, the plot
\* keeps it without showing it.
MoveTo(ss, lane) ==
    LET moving == {s \in ss : listed.lane[s] # lane}
        Now(assigned) == [s \in Signals |-> IF s \in moving THEN lane ELSE assigned[s]]
    IN
    /\ User /\ shown # None /\ moving # {}
    /\ listed' = [listed EXCEPT !.lane = Now(@),
                     !.lanes = SelectSeq(With(@, lane), LAMBDA l : \E s \in Signals : Now(listed.lane)[s] = l)]
    /\ plotted' = [plotted EXCEPT !.lane = Now(@), !.lanes = With(@, lane)]
    /\ views' = [views EXCEPT ![scope].lane[shown] = Updated(@, moving, lane)]
    /\ UNCHANGED <<pvars, files, profile, shown, panes, ending, plotVars, override, markVars, engineVars,
                   queueVars>>

\* reset_view
ResetView ==
    LET v == [views[scope] EXCEPT !.visible[shown] = <<>>, !.lane[shown] = <<>>] IN
    /\ User /\ shown # None
    /\ views' = [views EXCEPT ![scope] = v]
    /\ Select(shown, v, markers) /\ Call(Selected(shown))
    /\ UNCHANGED <<pvars, files, profile, panes, ending, mode, button, packet, last, override, markers,
                   engineVars, events>>

\* _set_panes: what is kept is what is shown.
KeepPanes(ps) == panes' = Coerced(ps, profile) /\ views' = [views EXCEPT ![scope].panes = panes']

BothToggled(ps) == LET open == ~(ps.left \/ ps.right) IN [ps EXCEPT !.left = open, !.right = open]
RightClicked(ps, v) ==
    IF ps.right /\ ps.view = v THEN [ps EXCEPT !.right = FALSE] ELSE [ps EXCEPT !.right = TRUE, !.view = v]
ChangePanes ==
    /\ User
    /\ \/ KeepPanes([panes EXCEPT !.left = ~@])
       \/ KeepPanes([panes EXCEPT !.right = ~@])
       \/ KeepPanes(BothToggled(panes))
       \/ \E v \in Views : (v = "step" => ~IsText(profile)) /\ KeepPanes(RightClicked(panes, v))
    /\ UNCHANGED <<pvars, files, profile, shown, listed, plotted, ending, plotVars, override, markVars,
                   engineVars, queueVars>>

SetEnding(e) ==
    /\ User /\ IsText(profile) /\ e # ending
    /\ ending' = e /\ views' = [views EXCEPT ![scope].ending = e]
    /\ UNCHANGED <<pvars, files, profile, shown, listed, plotted, panes, plotVars, override, markVars,
                   engineVars, queueVars>>

----------------------------------------------------------------------------
(* The user: profiles, the configuration, the next run. *)

ScopeStays(p) == scope    \* mutant

\* switch_profile, reload_profile: a profile without streams shows nothing.
ScopeOf(p) == p
SwitchProfile(p) ==
    LET v == views[ScopeOf(p)]
        k == Tab(files[p], v.stream)
    IN  /\ User /\ ~running /\ p # profile
        /\ profile' = p /\ scope' = ScopeOf(p) /\ Build(kept[ScopeOf(p)])
        /\ views' = [views EXCEPT ![ScopeOf(p)] = Remembered(v, k)]
        /\ panes' = Coerced(KeptPanes(v), p) /\ ending' = v.ending
        /\ markers' = <<>> /\ Select(k, v, <<>>)
        /\ override' = Cleared /\ Call(Selected(k) \o Configured(files[p]))
        /\ UNCHANGED <<files, mode, button, packet, last, engineVars, events, log, number, device, kept,
                       running, sinceEdit>>

\* _reload_configuration, reload_streams: the tab stays if it is still there.
\* With no stream left, what was shown stays.
SaveConfig(keys) ==
    LET k == Tab(keys, shown) IN
    /\ User /\ files' = [files EXCEPT ![profile] = keys]
    /\ Build(kept[scope])
    /\ IF k = None
       THEN shown' = None /\ UNCHANGED <<listed, plotted, overlays, drawn, feed, watched, armed, views>>
       ELSE /\ Select(k, views[scope], markers)
            /\ views' = [views EXCEPT ![scope] = Remembered(@, k)]
    /\ override' = Cleared /\ Call(Selected(k) \o Configured(keys))
    /\ UNCHANGED <<profile, panes, ending, mode, button, packet, last, markers, engineVars, events, log,
                   number, device, keptVars, running, sinceEdit>>

\* closeEvent, and the next run of the application with the same settings.
Restart ==
    LET v == views[profile]
        k == Tab(files[profile], v.stream)
    IN  /\ User
        /\ scope' = profile /\ Build(kept[profile])
        /\ log' = <<>> /\ number' = 0 /\ running' = FALSE
        /\ views' = [views EXCEPT ![profile] = Remembered(v, k)]
        /\ shown' = k /\ listed' = List(v, k) /\ plotted' = List(v, k)
        /\ panes' = Coerced(KeptPanes(v), profile) /\ ending' = v.ending
        /\ LeaveAnalysis /\ button' = FALSE /\ last' = None
        /\ feed' = None /\ watched' = None /\ armed' = FALSE
        /\ override' = {} /\ markers' = <<>> /\ drawn' = <<>>
        /\ stores' = {} /\ data' = {} /\ scaled' = {} /\ alive' = FALSE /\ active' = None
        /\ calls' = Configured(files[profile]) \o Selected(k) /\ events' = <<>>
        /\ UNCHANGED <<files, profile, generation, session, device, kept, sinceEdit>>

----------------------------------------------------------------------------
(* The user: the session, the stopped view, the trigger, the period. *)

\* _handle_connection, start_replay
Connect ==
    /\ Effort(3) /\ ~running /\ session < MaxSessions /\ Call(<<[do |-> "start"]>>)
    /\ UNCHANGED <<pvars, viewVars, plotVars, override, markVars, engineVars, events>>
Disconnect ==
    /\ User /\ running /\ Call(<<[do |-> "stop"]>>) /\ Unpause
    /\ UNCHANGED <<pvars, viewVars, last, feed, watched, armed, override, markVars, engineVars, events>>
StartReplay ==
    /\ Effort(3) /\ session < MaxSessions
    /\ Call(<<[do |-> "stop"], [do |-> "start"]>>) /\ Unpause
    /\ UNCHANGED <<pvars, viewVars, last, feed, watched, armed, override, markVars, engineVars, events>>

\* The RUN/STOP box
PressStop ==
    /\ User /\ mode = "LIVE"
    /\ mode' = "ANALYSIS" /\ button' = TRUE /\ packet' = Freeze
    /\ UNCHANGED <<pvars, viewVars, last, overlays, feed, watched, armed, override, markVars, engineVars,
                   queueVars>>
PressRun ==
    /\ User /\ mode = "ANALYSIS" /\ Unpause
    /\ UNCHANGED <<pvars, viewVars, last, feed, watched, armed, override, markVars, engineVars, queueVars>>

\* on_mouse_clicked
DropAnchor ==
    /\ User /\ mode = "ANALYSIS" /\ packet # None /\ overlays' = overlays \cup {"anchor"}
    /\ UNCHANGED <<pvars, viewVars, mode, button, packet, last, feed, watched, armed, override, markVars,
                   engineVars, queueVars>>

\* _arm_trigger: refused without a session; the view runs again.
Arm ==
    /\ User /\ running /\ ~armed /\ listed.lanes # <<>> /\ armed' = TRUE
    /\ IF mode = "ANALYSIS" THEN Unpause ELSE UNCHANGED <<mode, button, packet, overlays>>
    /\ UNCHANGED <<pvars, viewVars, last, feed, watched, override, markVars, engineVars, queueVars>>
Disarm ==
    /\ User /\ armed /\ armed' = FALSE
    /\ UNCHANGED <<pvars, viewVars, mode, button, packet, last, overlays, feed, watched, override, markVars,
                   engineVars, queueVars>>

\* _on_trigger_captured
Captured ==
    /\ armed /\ watched \in data /\ armed' = FALSE
    /\ mode' = "ANALYSIS" /\ button' = TRUE /\ packet' = watched
    /\ overlays' = {"anchor", "window"}
    /\ KeepPanes([panes EXCEPT !.right = TRUE, !.view = "step"])
    /\ UNCHANGED <<pvars, files, profile, shown, listed, plotted, ending, last, feed, watched, override,
                   markVars, engineVars, queueVars, steps>>

\* LiveFeed.tick
LiveFrame ==
    /\ mode = "LIVE" /\ feed \in data /\ last' = feed
    /\ UNCHANGED <<pvars, viewVars, mode, button, packet, overlays, feed, watched, armed, override, markVars,
                   engineVars, queueVars, steps>>

\* _on_period_changed: for this session, not remembered.
SetPeriod ==
    /\ User /\ shown # None /\ override' = override \cup {shown}
    /\ Call(<<[do |-> "scale", key |-> shown]>>)
    /\ UNCHANGED <<pvars, viewVars, plotVars, markVars, engineVars, events>>

----------------------------------------------------------------------------
(* The engine, and what the window does with its signals. *)

Tell(es) == events' = events \o es
EngineOnly == UNCHANGED <<pvars, viewVars, plotVars, override, markVars, steps>>

Call1 == calls # <<>> /\ calls' = Tail(calls)
NewStores(keys) == generation' = generation + 1 /\ stores' = keys /\ scaled' = {}
DoConfigure ==
    /\ Call1 /\ Head(calls).do = "configure"
    /\ NewStores(Head(calls).keys)
    /\ Tell(<<"configured">>)
    /\ EngineOnly /\ UNCHANGED <<data, alive, session, active>>
DoSelect ==
    /\ Call1 /\ Head(calls).do = "select" /\ active' = Head(calls).key
    /\ EngineOnly /\ UNCHANGED <<generation, stores, data, scaled, alive, session, events>>
DoScale ==
    /\ Call1 /\ Head(calls).do = "scale" /\ scaled' = scaled \cup ({Head(calls).key} \cap stores)
    /\ EngineOnly /\ UNCHANGED <<generation, stores, data, alive, session, active, events>>

\* start: the stores are cleared, then the port is opened, or not.
Held == {<<generation, k>> : k \in stores}
DoStart ==
    /\ Call1 /\ Head(calls).do = "start"
    /\ IF alive THEN UNCHANGED <<data, alive, session, events>>
       ELSE /\ data' = data \ Held
            /\ \/ alive' = TRUE /\ session' = session + 1 /\ Tell(<<"running">>)
               \/ Tell(<<"failed">>) /\ UNCHANGED <<alive, session>>
    /\ EngineOnly /\ UNCHANGED <<generation, stores, scaled, active>>
DoStop ==
    /\ Call1 /\ Head(calls).do = "stop" /\ alive' = FALSE
    /\ events' = IF alive THEN Append(events, "stopped") ELSE events
    /\ EngineOnly /\ UNCHANGED <<generation, stores, data, scaled, session, active>>

\* The end of a replay, or a lost port.
EndOfSession ==
    /\ alive /\ alive' = FALSE
    /\ Tell(<<"stopped">>) \/ Tell(<<"stopped", "failed">>)
    /\ EngineOnly /\ UNCHANGED <<generation, stores, data, scaled, session, active, calls>>
Stored ==
    /\ alive /\ \E x \in Held : data' = data \cup {x}
    /\ EngineOnly /\ UNCHANGED <<generation, stores, scaled, alive, session, active, queueVars>>

RestOfPanel == UNCHANGED <<valueVars, liveVars, presetVars, sendVars, keptVars, sinceEdit, excused>>
Event(e) == events # <<>> /\ Head(events) = e /\ events' = Tail(events)

\* A new session: the marks of the last one do not apply.
MarkersStay == markers    \* mutant
NewMarkers == <<>>
OnRunning ==
    /\ Event("running") /\ running' = TRUE /\ markers' = NewMarkers /\ drawn' = <<>>
    /\ RestOfPanel /\ UNCHANGED <<viewVars, plotVars, override, engineVars, calls, steps>>
OnStopped ==
    /\ Event("stopped") /\ running' = FALSE
    /\ RestOfPanel /\ UNCHANGED <<viewVars, plotVars, override, markVars, engineVars, calls, steps>>
OnFailed ==
    /\ Event("failed") /\ Unpause
    /\ UNCHANGED <<pvars, viewVars, last, feed, watched, armed, override, markVars, engineVars, calls, steps>>
OnConfigured ==
    /\ Event("configured") /\ Bind(shown)
    /\ UNCHANGED <<pvars, viewVars, mode, button, packet, last, overlays, override, markVars, engineVars,
                   calls, steps>>

----------------------------------------------------------------------------
(* The panel on this desk: what it sends is marked on every stream with data. *)

Marked(ms, m) == SubSeq(Append(ms, m), IF Len(ms) < MaxMarkers THEN 1 ELSE 2, Len(ms) + 1)
MarkSend ==
    LET keys == {k \in stores : Store(k) \in data}
        new(k) == Marked(MarkersOf(markers, k), [session |-> session, store |-> Store(k)])
    IN  /\ markers' = [k \in keys \cup DOMAIN markers |-> IF k \in keys THEN new(k) ELSE markers[k]]
        /\ drawn' = MarkersOf(markers', shown)
PanelStep ==
    /\ \/ PanelUser /\ Effort(3) /\ ~IsText(profile)
       \/ PanelTime /\ UNCHANGED steps
    /\ IF number' # number THEN MarkSend ELSE UNCHANGED markVars
    /\ UNCHANGED <<viewVars, plotVars, override, engineVars, queueVars>>

\* _send_line: the terminal of a text profile.
SendLine ==
    /\ Effort(3) /\ IsText(profile) /\ running /\ number' = number + 1 /\ MarkSend
    /\ UNCHANGED <<sent, log, device, told, valueVars, liveVars, presetVars, keptVars, running, sinceEdit,
                   excused, viewVars, plotVars, override, engineVars, queueVars>>

----------------------------------------------------------------------------
\* The first run, before the engine has its streams.
Init ==
    /\ PanelInit
    /\ files = FirstFiles /\ profile \in Scopes /\ scope = profile
    /\ shown = Tab(files[profile], None)
    /\ views = [s \in Scopes |-> IF s = profile THEN Remembered(Fresh, shown) ELSE Fresh]
    /\ listed = List(Fresh, shown) /\ plotted = listed /\ panes = AllOpen /\ ending = LF
    /\ mode = "LIVE" /\ button = FALSE /\ packet = None /\ last = None /\ overlays = {}
    /\ feed = None /\ watched = None /\ armed = FALSE
    /\ override = {} /\ markers = <<>> /\ drawn = <<>>
    /\ generation = 0 /\ stores = {} /\ data = {} /\ scaled = {} /\ alive = FALSE /\ session = 0
    /\ active = None
    /\ calls = Configured(files[profile]) \o Selected(shown) /\ events = <<>> /\ steps = 0

Looking ==
    \/ \E k \in StreamNames : SelectStream(k)
    \/ SetVisible \/ SetLaneVisible \/ ResetView \/ ChangePanes
    \/ \E ss \in Rows, l \in ToSet(listed.lanes) \cup {NewLane(listed.lanes)} : MoveTo(ss, l)
    \/ \E e \in Endings : SetEnding(e)
Working ==
    \/ \E p \in Scopes : SwitchProfile(p)
    \/ \E keys \in Documents : SaveConfig(keys)
    \/ Restart \/ Connect \/ Disconnect \/ StartReplay \/ PressStop \/ PressRun \/ DropAnchor
    \/ Arm \/ Disarm \/ Captured \/ LiveFrame \/ SetPeriod
EngineStep == DoConfigure \/ DoSelect \/ DoScale \/ DoStart \/ DoStop \/ EndOfSession \/ Stored
WindowEvent == OnRunning \/ OnStopped \/ OnFailed \/ OnConfigured

Next == Looking \/ Working \/ EngineStep \/ WindowEvent \/ PanelStep \/ SendLine

Spec == Init /\ [][Next]_vars

----------------------------------------------------------------------------
(* Properties. *)

\* Whatever the user did, the next run of the application shows it as it is
\* now: the stream, its signals and lanes, the panes, the line ending, and the
\* panel's values, presets and Live mode (README: remembered per profile).
RestartShowsTheSame ==
    LET v == views[profile]
        k == Tab(files[profile], v.stream)
    IN  /\ shown = k
        /\ k # None => /\ listed.visible = Visible(v, k) /\ listed.lane = LaneOf(v, k)
                       /\ plotted.visible = listed.visible /\ plotted.lane = listed.lane
        /\ panes = Coerced(KeptPanes(v), profile) /\ ending = v.ending
        /\ values = KeptValues(kept[profile]) /\ presets = kept[profile].presets
        /\ live = kept[profile].live

\* With nothing under way between window and engine, the window looks at the
\* engine's own stores: the live view and the trigger at the shown stream's, the
\* periods the user set are in force and no others, and the simulator produces
\* the shown stream.
Settled == calls = <<>> /\ events = <<>>
WindowSeesTheStores ==
    Settled =>
        /\ stores = ToSet(files[profile])
        /\ feed = Store(shown) /\ watched = feed
        /\ override \cap stores = scaled
        /\ shown # None => active = shown

\* A mark stands where a packet of this session was sent, and the plot has those
\* of the shown stream; the live view keeps nothing of a stopped one.
MarksAreOfThisSession ==
    /\ Settled => \A k \in DOMAIN markers : \A i \in DOMAIN markers[k] : markers[k][i].session = session
    /\ shown # None => drawn = MarkersOf(markers, shown)
    /\ button <=> mode = "ANALYSIS"
    /\ mode = "LIVE" => overlays = {} /\ packet = None

\* What the window keeps of the engine is the engine's: stores, periods and marks.
WindowFollowsTheEngine == WindowSeesTheStores /\ MarksAreOfThisSession

\* (Not of the code: findings.)  The stopped view is the shown stream's; a mark
\* is on the store it was made for; the list has the lanes in the plot's order;
\* without a stream nothing is shown.
StoppedViewIsTheShownStreams == mode = "ANALYSIS" /\ packet # None => packet[2] = shown
MarksAreOfTheirStores ==
    Settled => \A k \in DOMAIN markers : \A i \in DOMAIN markers[k] : markers[k][i].store = Store(k)
LanesAreInOrder == SelectSeq(plotted.lanes, LAMBDA l : Contains(listed.lanes, l)) = listed.lanes
NothingIsShownOfNothing == shown = None => listed = NoSignals
=============================================================================
