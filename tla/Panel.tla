------------------------------- MODULE Panel -------------------------------
(***************************************************************************)
(* ui/panels/command_panel.py, and what the main window does with it: the  *)
(* values of a panel, what of them the device was told, the Live mode that *)
(* sends as one types, the presets, the log one can send again from, and   *)
(* what of all that is kept for the next run (ui/panels/container.py,      *)
(* ui/ui_state.py).                                                        *)
(*                                                                         *)
(* A cell is a parameter in a column.  A packet is the cells it tells the  *)
(* device: those the panel put in, and those its button fixes.  Time goes  *)
(* in units of 50 ms.                                                      *)
(***************************************************************************)
EXTENDS Integers, Sequences, SequencesExt

CONSTANTS
    Columns, First,  \* the panel's columns, the first of them
    Params,          \* its parameters
    MaxValue,        \* their range is 0..MaxValue
    Unfit,           \* the values that do not fit a command's field
    Buttons,         \* its buttons
    Fields,          \* button -> the cells its command carries
    Fixed,           \* button -> cells with the values the button gives them
    LiveButton,      \* column -> the button Live mode presses, or None
    Names,           \* names of presets
    MaxRows,         \* rows the log keeps (MAX_ROWS)
    Debounce, MinInterval, \* LIVE_DEBOUNCE_MS, LIVE_MIN_INTERVAL_S
    Scopes,          \* the profiles things are remembered for
    None

Cells == Columns \X Params
Numbers == 0..MaxValue
Default == 0

ASSUME PanelAssumption ==
    /\ First \in Columns /\ MaxValue \in Nat /\ Unfit \subseteq Numbers
    /\ None \notin Nat /\ None \notin [Cells -> Numbers]
    /\ Fields \in [Buttons -> SUBSET Cells]
    /\ \A b \in Buttons : DOMAIN Fixed[b] \subseteq Cells \ Fields[b]
    /\ LiveButton \in [Columns -> Buttons \cup {None}]
    /\ Debounce \in Nat /\ MinInterval \in Nat /\ MaxRows \in Nat \ {0}

VARIABLES
    values,    \* the inputs
    sent,      \* _sent: what a send carried last, or None
    marked,    \* the cells shown as edited
    linked,    \* the rows whose columns stay equal
    drag,      \* the label being dragged and the values it started at, or None
    live,      \* Live mode
    timers,    \* column -> time until its live send, or None
    lastLive,  \* column -> time since its last live send
    presets, current, \* the named values, the name shown
    log,       \* the packets of the log, newest first (None: refused)
    number,    \* _next_marker: the packets sent so far
    running,   \* engine_state: is the engine RUNNING, as the window knows it?
    scope, kept, \* what is remembered: the profile it is for; each profile's
    device,    \* (of the environment) what the packets given to the engine tell the device
    told,      \* (history) cell -> "panel": the device has it from this panel
    sinceEdit, \* (history) column -> time since an edit of its values; Revert, of which Live
               \* mode is not told, is none (a finding)
    excused    \* (history) columns with values Live mode was not to send

valueVars == <<values, marked, drag, linked>>
liveVars == <<live, timers, lastLive>>
presetVars == <<presets, current>>
sendVars == <<sent, log, number, device, told>>
keptVars == <<scope, kept>>
pvars == <<valueVars, liveVars, presetVars, sendVars, keptVars, running, sinceEdit, excused>>

Never == IF Debounce > MinInterval THEN Debounce ELSE MinInterval  \* long ago
Nothing == [values |-> None, presets |-> <<>>, live |-> FALSE]

----------------------------------------------------------------------------
(* What is remembered, and a panel built from it. *)

KeptValues(k) == IF k.values = None THEN [x \in Cells |-> Default] ELSE k.values

EqualRows(v) == {p \in Params : \A c, d \in Columns : v[<<c, p>>] = v[<<d, p>>]}

\* A new panel with what is remembered: nothing is known of the device, and
\* nothing waits to be sent.
Build(k) ==
    /\ values' = KeptValues(k) /\ linked' = EqualRows(KeptValues(k))
    /\ presets' = k.presets /\ current' = None /\ live' = k.live
    /\ sent' = [x \in Cells |-> None] /\ marked' = {} /\ drag' = None
    /\ timers' = [c \in Columns |-> None] /\ lastLive' = [c \in Columns |-> Never]
    /\ told' = [x \in Cells |-> "no"] /\ excused' = Columns

KeepValues(v) == kept' = [kept EXCEPT ![scope].values = v]
KeepPresets(ps) == kept' = [kept EXCEPT ![scope].presets = ps]
KeepLive(on) == kept' = [kept EXCEPT ![scope].live = on]

----------------------------------------------------------------------------
(* Values. *)

\* edited(): what differs from what was last sent.
Edited(v, s) == {x \in Cells : s[x] # None /\ v[x] # s[x]}

ScheduledOnce(cols) ==    \* mutant
    [c \in Columns |-> IF live /\ c \in cols /\ LiveButton[c] # None /\ timers[c] = None THEN Debounce ELSE timers[c]]
\* _schedule_live: the timer of each column starts, or starts again.
Scheduled(cols) ==
    [c \in Columns |-> IF live /\ c \in cols /\ LiveButton[c] # None THEN Debounce ELSE timers[c]]

Changed(v) == {c \in Columns : \E p \in Params : v[<<c, p>>] # values[<<c, p>>]}

\* The end of an edit: marks, what is remembered, Live mode.
Notify(v, cols) ==
    /\ values' = v /\ marked' = Edited(v, sent) /\ KeepValues(v) /\ timers' = Scheduled(cols)
    /\ sinceEdit' = [c \in Columns |-> IF c \in Changed(v) THEN 0 ELSE sinceEdit[c]]
    /\ excused' = IF live THEN excused \ Changed(v) ELSE excused \cup Changed(v)
    /\ UNCHANGED <<live, lastLive, sendVars, scope, running>>

\* The columns that follow an edit of a row in column c.
Followers(c, p) == IF p \in linked THEN Columns ELSE {c}
Written(v, cols, p, n) == [x \in Cells |-> IF x[1] \in cols /\ x[2] = p THEN n ELSE v[x]]

DueAlone(c, p) == {c}    \* mutant
\* The columns whose live send an edit in column c makes due.
Due(c, p) == Followers(c, p)

\* _on_edit
Edit(c, p, n) ==
    /\ n # values[<<c, p>>]
    /\ Notify(Written(values, Followers(c, p), p, n), Due(c, p))
    /\ UNCHANGED <<drag, linked, presetVars>>

\* A label is pressed, dragged (scrub) and let go.  A linked row follows its
\* first column; otherwise each column moves by the same steps.
Press(p) ==
    /\ drag = None /\ drag' = [param |-> p, from |-> [c \in Columns |-> values[<<c, p>>]]]
    /\ UNCHANGED <<values, marked, linked, liveVars, presetVars, sendVars, keptVars, running, sinceEdit, excused>>
Let ==
    /\ drag # None /\ drag' = None
    /\ UNCHANGED <<values, marked, linked, liveVars, presetVars, sendVars, keptVars, running, sinceEdit, excused>>

Steps == {-1, 0, 1}
Clamped(n) == IF n < 0 THEN 0 ELSE IF n > MaxValue THEN MaxValue ELSE n
Moved(p, d) ==
    [x \in Cells |-> IF x[2] # p THEN values[x]
                     ELSE Clamped(drag.from[IF p \in linked THEN First ELSE x[1]] + d)]
\* The inputs that change, whose edit makes the others follow.
Turned(p, v) == {c \in IF p \in linked THEN {First} ELSE Columns : v[<<c, p>>] # values[<<c, p>>]}
Drag(d) ==
    /\ drag # None
    /\ LET p == drag.param
           v == Moved(p, d)
       IN Turned(p, v) # {} /\ Notify(v, UNION {Due(c, p) : c \in Turned(p, v)})
    /\ UNCHANGED <<drag, linked, presetVars>>

\* A row's own link (its label's menu), and the box in the corner, which makes
\* the columns equal to the first.
LinkRow(p) ==
    /\ linked' = IF p \in linked THEN linked \ {p} ELSE linked \cup {p}
    /\ UNCHANGED <<values, marked, drag, liveVars, presetVars, sendVars, keptVars, running, sinceEdit, excused>>
LinkAll ==
    /\ linked # Params /\ linked' = Params
    /\ Notify([x \in Cells |-> values[<<First, x[2]>>]], Columns)
    /\ UNCHANGED <<drag, presetVars>>
UnlinkAll ==
    /\ linked = Params /\ linked' = {}
    /\ UNCHANGED <<values, marked, drag, liveVars, presetVars, sendVars, keptVars, running, sinceEdit, excused>>

\* revert: every value sent is put back; what was typed before Live mode had
\* sent it stays due.
Reverted == [x \in Cells |-> IF sent[x] # None THEN sent[x] ELSE values[x]]
Revert ==
    /\ marked # {}
    /\ values' = Reverted /\ marked' = Edited(Reverted, sent) /\ KeepValues(Reverted)
    /\ UNCHANGED <<drag, linked, liveVars, presetVars, sendVars, scope, running, sinceEdit, excused>>

----------------------------------------------------------------------------
(* Presets. *)

ApplyPreset(n) ==
    /\ n \in DOMAIN presets /\ current' = n
    /\ Notify(presets[n], Columns)
    /\ UNCHANGED <<drag, linked, presets>>
SavePreset(n) ==
    /\ presets' = [m \in DOMAIN presets \cup {n} |-> IF m = n THEN values ELSE presets[m]]
    /\ current' = n /\ KeepPresets(presets')
    /\ UNCHANGED <<valueVars, liveVars, sendVars, scope, running, sinceEdit, excused>>
DeletePreset(n) ==
    /\ n \in DOMAIN presets
    /\ presets' = [m \in DOMAIN presets \ {n} |-> presets[m]]
    /\ current' = (IF current = n THEN None ELSE current) /\ KeepPresets(presets')
    /\ UNCHANGED <<valueVars, liveVars, sendVars, scope, running, sinceEdit, excused>>

----------------------------------------------------------------------------
(* Sending (ui/main_window.py: _send_command, _resend). *)

Packet(b) ==
    [x \in Fields[b] \cup DOMAIN Fixed[b] |-> IF x \in Fields[b] THEN values[x] ELSE Fixed[b][x]]
Fits(b) == \A x \in Fields[b] : values[x] \notin Unfit

Logged(row) == log' = SubSeq(<<row>> \o log, 1, IF Len(log) < MaxRows THEN Len(log) + 1 ELSE MaxRows)

CarriedAll(b) == Cells    \* mutant
\* _sent_params: the cells a send is recorded for.
Carried(b) == Fields[b]

Transmit(packet, by) ==
    /\ device' = [x \in Cells |-> IF x \in DOMAIN packet THEN packet[x] ELSE device[x]]
    /\ told' = [x \in Cells |-> IF x \in DOMAIN packet THEN by[x] ELSE told[x]]
    /\ number' = number + 1

SendNow(b) ==
    /\ running /\ Fits(b)
    /\ Transmit(Packet(b), [x \in Cells |-> IF x \in Fields[b] THEN "panel" ELSE "else"])
    /\ sent' = [x \in Cells |-> IF x \in Carried(b) THEN values[x] ELSE sent[x]]
    /\ marked' = Edited(values, sent') /\ Logged(Packet(b))

\* A live send without a connection leaves no row.
Refuse(b, byLive) ==
    /\ ~running \/ ~Fits(b)
    /\ IF ~running /\ byLive THEN UNCHANGED log ELSE Logged(None)
    /\ UNCHANGED <<marked, sent, number, device, told>>

SendCommand(b, byLive) == SendNow(b) \/ Refuse(b, byLive)

\* What is fixed by a button or sent again is nothing Live mode has typed.
Overwritten(cells) == {x[1] : x \in cells}

Send(b) ==
    /\ SendCommand(b, FALSE)
    /\ excused' = IF running /\ Fits(b) THEN excused \cup Overwritten(DOMAIN Fixed[b]) ELSE excused
    /\ UNCHANGED <<values, drag, linked, liveVars, presetVars, keptVars, running, sinceEdit>>

\* A row of the log is sent again; the panel is not told.
Resend(i) ==
    /\ running /\ log[i] # None
    /\ Transmit(log[i], [x \in Cells |-> "else"]) /\ Logged(log[i])
    /\ excused' = excused \cup Overwritten(DOMAIN log[i])
    /\ UNCHANGED <<sent, valueVars, liveVars, presetVars, keptVars, running, sinceEdit>>

----------------------------------------------------------------------------
(* Live mode. *)

ToggleLive ==
    /\ live' = ~live /\ KeepLive(live')
    /\ timers' = IF live' THEN timers ELSE [c \in Columns |-> None]
    /\ excused' = IF live' THEN excused ELSE Columns
    /\ UNCHANGED <<lastLive, valueVars, presetVars, sendVars, scope, running, sinceEdit>>

\* The interval that is left since the column's last live send.
Wait(c) == IF lastLive[c] >= MinInterval THEN 0 ELSE MinInterval - lastLive[c]

\* _fire_live: a column's timer has run out.
Fire(c) ==
    /\ timers[c] = 0
    /\ IF Wait(c) > 0
       THEN /\ timers' = [timers EXCEPT ![c] = Wait(c)]
            /\ UNCHANGED <<lastLive, marked, sendVars, excused>>
       ELSE /\ timers' = [timers EXCEPT ![c] = None] /\ lastLive' = [lastLive EXCEPT ![c] = 0]
            /\ SendCommand(LiveButton[c], TRUE)
            /\ excused' = IF running /\ Fits(LiveButton[c])
                          THEN excused \cup Overwritten(DOMAIN Fixed[LiveButton[c]])
                          ELSE excused \cup {c}
    /\ UNCHANGED <<live, values, drag, linked, presetVars, keptVars, running, sinceEdit>>

\* 50 ms go by; a timer whose time has come waits for the event loop.
Tick ==
    LET later(n) == IF n < Never THEN n + 1 ELSE n IN
    /\ timers' = [c \in Columns |-> IF timers[c] \in {None, 0} THEN timers[c] ELSE timers[c] - 1]
    /\ lastLive' = [c \in Columns |-> later(lastLive[c])]
    /\ sinceEdit' = [c \in Columns |-> later(sinceEdit[c])]
    /\ UNCHANGED <<live, valueVars, presetVars, sendVars, keptVars, running, excused>>

----------------------------------------------------------------------------
PanelInit ==
    /\ values = [x \in Cells |-> Default] /\ linked = Params /\ marked = {} /\ drag = None
    /\ live = FALSE /\ timers = [c \in Columns |-> None] /\ lastLive = [c \in Columns |-> Never]
    /\ presets = <<>> /\ current = None /\ log = <<>> /\ number = 0
    /\ sent = [x \in Cells |-> None] /\ told = [x \in Cells |-> "no"]
    /\ device = [x \in Cells |-> None] /\ running = FALSE
    /\ kept = [s \in Scopes |-> Nothing]
    /\ sinceEdit = [c \in Columns |-> Never] /\ excused = Columns

PanelUser ==
    \/ \E c \in Columns, p \in Params, n \in Numbers : Edit(c, p, n)
    \/ \E p \in Params : Press(p) \/ LinkRow(p)
    \/ \E d \in Steps : Drag(d)
    \/ Let \/ LinkAll \/ UnlinkAll \/ Revert \/ ToggleLive
    \/ \E n \in Names : ApplyPreset(n) \/ SavePreset(n) \/ DeletePreset(n)
    \/ \E b \in Buttons : Send(b)
    \/ \E i \in DOMAIN log : Resend(i)

PanelTime == Tick \/ \E c \in Columns : Fire(c)

----------------------------------------------------------------------------
(* Properties. *)

\* What is shown as edited is what differs from what the device has from this
\* panel: nothing the panel never sent is marked, and of what it did send just
\* what has changed since.  (What a button fixes and what is sent again is not
\* recorded with the panel: a finding.)
MarksAreTrue ==
    \A x \in Cells :
        /\ told[x] = "no" => x \notin marked
        /\ told[x] = "panel" => (x \in marked <=> values[x] # device[x])

\* (Not of the code: a finding.)  "Every value that differs from what was last sent".
EveryDifferenceIsMarked == \A x \in Cells : told[x] # "no" /\ values[x] # device[x] => x \in marked

\* When no live send is due, the device has what was typed in Live mode: no
\* edit, of a linked column, a drag or a preset, is left behind.  (Of the cells
\* a column's button carries, its own: a field of another column is that
\* column's to send.)
LiveSendsWhatIsTyped ==
    \A c \in Columns \ excused :
        live /\ timers[c] = None /\ LiveButton[c] # None =>
            \A p \in Params : <<c, p>> \in Fields[LiveButton[c]] => device[<<c, p>>] = values[<<c, p>>]

\* Live mode waits until a column's values are not edited any more, and sends it
\* at most once in the interval.
LiveIsPaced ==
    [][\A c \in Columns : timers[c] = 0 /\ timers'[c] = None /\ live' /\ live /\ lastLive'[c] = 0 =>
          sinceEdit[c] >= Debounce /\ lastLive[c] >= MinInterval]_pvars

\* (Not of the code: a finding.)  "Each change sends its column's button after
\* LIVE_DEBOUNCE_MS without further changes": a revert, too, is a change.
RevertsAreWaitedFor ==
    [][Revert => \A c \in Changed(Reverted) : timers[c] # None => timers'[c] = Debounce]_pvars

\* (Not of the code: a finding.)  A linked row keeps its columns equal.
LinkedRowsAreEqual == linked \subseteq EqualRows(values)
=============================================================================
