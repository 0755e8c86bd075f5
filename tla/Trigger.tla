------------------------------- MODULE Trigger -------------------------------
(***************************************************************************)
(* core/analysis/trigger.py and ui/charts/trigger_controller.py over the   *)
(* store they poll, with the panel that shows the trigger's state.         *)
(*                                                                         *)
(* A row's time counts from its session's first, at the store's scale.     *)
(* Times are in a unit as small as one likes; what is interpolated is      *)
(* rounded down to it.  The live view and the trigger both only read the   *)
(* store: a behaviour has the one or the other.                            *)
(***************************************************************************)
EXTENDS SampleStore

CONSTANTS
    Specs,  \* TriggerSpecs: the signal (its values, repeated), edge, level, pre, post
    NaN     \* a gap

ASSUME TriggerAssumption ==
    /\ NaN \in Int /\ Scales \subseteq Nat \ {0}
    /\ \A s \in Specs :
        /\ s.signal \in Seq(Int) /\ s.signal # <<>>
        /\ s.edge \in {"rising", "falling", "either"} /\ s.level \in Int
        /\ s.pre \in Nat /\ s.post \in Nat

VARIABLES
    began,      \* rows written before this session
    spec,       \* the TriggerSpec it was armed with, or NoSpec
    state,      \* of the watcher: "idle", "armed", "fired" or "done"
    before,     \* _prev: a row, or NoRow
    beforeTime, \* _t_prev
    crossed,    \* the rows around the crossing
    trigTime,   \* t_trigger
    capturing,  \* between poll()'s two reads of the store
    ui,         \* the panel: "idle", "armed" or "fired"
    button,     \* is its Arm button down?
    capture,    \* the rows captured last
    \* Histories, since the trigger was armed:
    armedAt, missed, retimed, gone, reselected,
    watching    \* is it the trigger that reads the store?

watcherVars == <<spec, state, before, beforeTime, crossed, trigTime>>
panelVars == <<capturing, ui, button, capture>>
histVars == <<armedAt, missed, retimed, gone, reselected>>
tvars == <<vars, began, watcherVars, panelVars, histVars, watching>>

NoSpec == <<>>

Value(row) == spec.signal[(row % Len(spec.signal)) + 1]
TimeOf(row) == scale * (row - began)

\* find_crossing: from one side of the level to it or past it; NaN compares false.
Rises(a, b) == Value(a) < spec.level /\ Value(b) >= spec.level
Falls(a, b) == Value(a) > spec.level /\ Value(b) <= spec.level
Crosses(a, b) ==
    /\ Value(a) # NaN /\ Value(b) # NaN
    /\ \/ spec.edge # "falling" /\ Rises(a, b)
       \/ spec.edge # "rising" /\ Falls(a, b)

TInit ==
    /\ Init
    /\ began = 0 /\ spec = NoSpec
    /\ state = "idle" /\ before = NoRow /\ beforeTime = 0 /\ crossed = <<>> /\ trigTime = 0
    /\ capturing = FALSE /\ ui = "idle" /\ button = FALSE /\ capture = {}
    /\ armedAt = 0 /\ missed = FALSE /\ retimed = FALSE /\ gone = FALSE /\ reselected = FALSE
    /\ watching \in BOOLEAN

----------------------------------------------------------------------------
(* The store's own steps. *)

\* Rows that are gone, or renumbered by a resize, before a poll of the armed trigger can
\* return them.
StoreStep ==
    /\ missed' = (missed \/ /\ state = "armed"
                            /\ (resized' \/ \E row \in (seenTo + 1)..written' :
                                      \A i \in 1..count' : Window'[i] # row))
    /\ UNCHANGED <<watcherVars, panelVars, armedAt, gone, reselected, watching>>

Stores ==
    /\ \E b \in Batches : Store(b[1], b[2])
    /\ StoreStep /\ UNCHANGED <<began, retimed>>

Clears ==
    /\ Clear /\ StoreStep
    /\ began' = written /\ UNCHANGED retimed

Resizes ==
    /\ \E c \in Capacities : Resize(c)
    /\ StoreStep /\ UNCHANGED <<began, retimed>>

Rescales ==
    /\ \E s \in Scales : SetTimeScale(s)
    /\ StoreStep /\ retimed' = TRUE
    /\ UNCHANGED began

\* The live view.
Draws ==
    /\ ~watching /\ (Feed \/ Invalidate)
    /\ UNCHANGED <<began, watcherVars, panelVars, histVars, watching>>

----------------------------------------------------------------------------
(* The trigger. *)

\* TriggerPanel._on_arm_toggled, TriggerController.arm: from the newest sample on.
ArmTrigger ==
    /\ watching /\ ~capturing /\ ~button /\ Arm
    /\ spec' \in Specs
    /\ state' = "armed" /\ before' = NoRow /\ beforeTime' = 0 /\ crossed' = <<>> /\ trigTime' = 0
    /\ ui' = "armed" /\ button' = TRUE
    /\ armedAt' = seenTo' /\ missed' = FALSE /\ retimed' = FALSE /\ gone' = FALSE
    /\ reselected' = FALSE
    /\ UNCHANGED <<began, capturing, capture, watching>>

\* disarm: by the button, which comes up, or because another store is shown.
Disarm ==
    /\ watching /\ ~capturing /\ (button \/ ui # "idle")
    /\ state' = "idle"
    /\ IF state \in {"armed", "fired"} THEN ui' = "idle" /\ button' = FALSE
       ELSE UNCHANGED ui /\ button' \in {FALSE, button}
    /\ UNCHANGED <<vars, began, spec, before, beforeTime, crossed, trigTime, capturing, capture,
                   histVars, watching>>

\* _on_stream_selection, set_signals: the stream is shown anew (reset_view); the store is the same, so nothing is disarmed.
Reselect ==
    /\ watching /\ ~capturing /\ button
    /\ button' = FALSE /\ reselected' = TRUE
    /\ UNCHANGED <<vars, began, watcherVars, capturing, ui, capture, armedAt, missed, retimed,
                   gone, watching>>

\* The pairs of rows compared: the last one of the poll before, and the new ones.
Compared(new) == IF before = NoRow THEN new ELSE <<before>> \o new

Hits(rs) == {i \in 2..Len(rs) : Crosses(rs[i - 1], rs[i])}
FirstHit(rs) == CHOOSE i \in Hits(rs) : \A j \in Hits(rs) : i <= j

\* When the line between two samples meets the level.  A crossing has a first sample, so
\* that has a time, and the samples differ.
TimeAt(row) == IF row = before THEN beforeTime ELSE TimeOf(row)
Apart(m, n) == IF m < n THEN n - m ELSE m - n
Interpolated(a, b) ==
    TimeAt(a) + (Apart(Value(a), spec.level) * (TimeOf(b) - TimeAt(a)))
                    \div Apart(Value(a), Value(b))

\* Whether the last of the new rows is post_s after the crossing.
Crossed(new, trig) == new # <<>> /\ TimeOf(new[Len(new)]) >= trig    \* mutant: it does not wait
Complete(new, trig) == new # <<>> /\ TimeOf(new[Len(new)]) >= trig + spec.post

\* poll, TriggerWatcher.feed
PollTrigger ==
    /\ watching /\ ~capturing /\ state \in {"armed", "fired"} /\ Poll
    /\ LET new == Since(cursor)
           rs == Compared(new)
           hit == state = "armed" /\ Hits(rs) # {}
           i == FirstHit(rs)
           trig == IF hit THEN Interpolated(rs[i - 1], rs[i]) ELSE trigTime
           fired == hit \/ state = "fired"
       IN  /\ crossed' = IF hit THEN <<rs[i - 1], rs[i]>> ELSE crossed
           /\ trigTime' = trig
           /\ IF new = <<>> THEN UNCHANGED <<before, beforeTime>>
              ELSE before' = new[Len(new)] /\ beforeTime' = TimeOf(new[Len(new)])
           /\ IF fired /\ Complete(new, trig)
              THEN state' = "done" /\ capturing' = TRUE
              ELSE state' = (IF fired THEN "fired" ELSE "armed") /\ UNCHANGED capturing
           /\ IF hit /\ state' = "fired" THEN ui' = "fired" /\ button' = TRUE
              ELSE UNCHANGED <<ui, button>>
    /\ UNCHANGED <<began, spec, capture, histVars, watching>>

\* _emit_capture: reads the store again; it returns when there is nothing in it.
InCapture(row) == TimeOf(row) >= trigTime - spec.pre /\ TimeOf(row) <= trigTime + spec.post

WindowRows == {Window[i] : i \in 1..count}
EmptyStore == count < 2
TellNothing == UNCHANGED <<ui, button>>    \* mutant
TellIdle == ui' = "idle" /\ button' = FALSE

EmitCapture ==
    /\ capturing /\ capturing' = FALSE
    /\ IF EmptyStore
       THEN gone' = TRUE /\ UNCHANGED <<ui, button, capture>>
       ELSE /\ TellIdle /\ UNCHANGED gone
            /\ capture' = {row \in WindowRows : InCapture(row)}
    /\ UNCHANGED <<vars, began, watcherVars, armedAt, missed, retimed, reselected, watching>>

TNext ==
    \/ Stores \/ Clears \/ Resizes \/ Rescales \/ Draws
    \/ ArmTrigger \/ Disarm \/ Reselect \/ PollTrigger \/ EmitCapture

TSpec == TInit /\ [][TNext]_tvars

----------------------------------------------------------------------------
(* Properties. *)

\* find_crossing, "NaN never counts as a crossing, so lost frames or a device reset can't
\* fire the trigger"; feed, read_since, "every sample": it fires only on two rows the signal
\* crossed between, since it was armed; and until it does, or up to those two, no two rows
\* next to each other have crossed unnoticed, however the polls fall between them, unless
\* rows were gone before it was polled.
FiresJustOnCrossings ==
    /\ state \in {"fired", "done"} =>
        /\ armedAt < crossed[1] /\ crossed[1] < crossed[2]
        /\ Crosses(crossed[1], crossed[2])
        /\ ~missed => /\ crossed[2] = crossed[1] + 1
                      /\ \A row \in (armedAt + 2)..crossed[1] : ~Crosses(row - 1, row)
    /\ state = "armed" /\ ~missed =>
        \A row \in (armedAt + 2)..seenTo : ~Crosses(row - 1, row)

\* (Not of the code: a finding.)  It does not fire across the start of a session.
FiresInOneSession ==
    state \in {"fired", "done"} /\ crossed # <<>> => ~(crossed[1] <= began /\ crossed[2] > began)

\* "The capture completes once post_s seconds after that have arrived.  The caller then
\* freezes [t - pre_s, t + post_s]": the trigger's time is between those of the two rows, and
\* of the rows still stored, and of those written since, the capture has what is in the
\* window and nothing else.  (Unless the store was cleared or re-timed under it.)
CaptureIsTheWindow ==
    state = "done" /\ ~capturing /\ ~gone /\ ~retimed /\ crossed[1] > began =>
        /\ TimeOf(crossed[1]) <= trigTime /\ trigTime <= TimeOf(crossed[2])
        /\ \A row \in WindowRows :
            row \in capture <=> /\ trigTime - spec.pre <= TimeOf(row)
                               /\ TimeOf(row) <= trigTime + spec.post

\* The two together: the trigger's crossing is the signal's, and what it shows is its.
CrossingsAreCaptured == FiresJustOnCrossings /\ CaptureIsTheWindow

\* show_state: a trigger that waits is shown as what it is, whatever becomes of its store and
\* of the panel; one that does not is shown as waiting, and its button down, only after its
\* store was found empty when the capture was to be cut; and the button is up under a state
\* shown only then or after the stream was shown anew.
PanelShowsTheTrigger ==
    /\ state \in {"armed", "fired"} => ui = state
    /\ ui # "idle" /\ state \notin {"armed", "fired"} => capturing \/ gone
    /\ button => ui # "idle"
    /\ ui # "idle" /\ ~button => gone \/ reselected

\* (Not of the code: a finding.)  "Reflects the controller's state", always.
PanelReflectsTheTrigger ==
    ~capturing => (ui # "idle" <=> state \in {"armed", "fired"}) /\ (button <=> ui # "idle")
=============================================================================
