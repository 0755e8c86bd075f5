------------------------------ MODULE Console ------------------------------
(***************************************************************************)
(* The editor's "From console output" dialog (ui/config/console_dialog.py, *)
(* ui/config/tab.py), whose Listen has the engine collect the lines of a   *)
(* session for a while.  Signals wait in `told` for the GUI thread, calls   *)
(* in the engine's inbox.                                                  *)
(***************************************************************************)
EXTENDS Engine, Infer

CONSTANTS
    Boxes       \* what the box may hold: lines typed, pasted or heard

VARIABLES
    told,       \* the engine's signals the dialog is told of
    tabConnected, \* the tab's _connected
    dialog,     \* "closed", "open", or "listening" (open, _listening)
    enabled,    \* is the Listen button enabled?
    box,        \* the lines in the paste box
    read,       \* the lines the cards shown were made of
    off,        \* the shapes whose cards are not ticked
    unread,     \* is _infer_timer running: the box changed since it was read
    created     \* the patterns streams were created of

dialogVars == <<dialog, enabled, box, read, off, unread, created>>
cvars == <<vars, told, tabConnected, dialogVars>>

CInit ==
    /\ Init /\ told = <<>> /\ tabConnected = FALSE
    /\ dialog = "closed" /\ enabled = FALSE /\ box = <<>> /\ read = <<>> /\ off = {} /\ unread = FALSE
    /\ created = {}

----------------------------------------------------------------------------
(* The engine's steps: what they tell the dialog. *)

\* Of what is emitted, the tab is connected to state_changed and lines_heard.
HearsOf(queue, s) == IF s.sig \in {"state", "heard"} THEN Append(queue, s) ELSE queue
DialogHears(step) ==
    /\ step /\ told' = told \o FoldLeft(HearsOf, <<>>, out')
    /\ UNCHANGED <<tabConnected, dialogVars>>

\* The rest of the window can be used while the dialog is not open: it is modal.
UserPosts(c) == dialog = "closed" /\ DialogHears(Post(c))

\* A GUI step that calls nothing.
NoCall == UNCHANGED vars

----------------------------------------------------------------------------
(* The dialog. *)

\* infer: a pattern keeps its tick.  A card of a pattern that does not parse raises.
Found == FoldSet(LAMBDA lines, found : (lines :> InferPatterns(lines)) @@ found, <<>>, Boxes)
Shapes == [lines \in Boxes |-> {p.pieces : p \in Range(Found[lines])}]
ReadBox(lines) ==
    /\ read' = lines /\ unread' = FALSE
    /\ off' = off \cap Shapes[lines]
Raises(lines) == \E p \in Range(Found[lines]) : ~Parses(p)
Crash ==
    /\ at' = "aborted" /\ job' = NoJob
    /\ UNCHANGED <<queueVars, sessionVars, configVars, dataVars, recVars, out, rd, dialogVars>>

Running == at # "aborted"

OpenDialog ==
    /\ Running /\ dialog = "closed" /\ NoCall
    /\ dialog' = "open" /\ enabled' = tabConnected
    /\ created' = {} /\ UNCHANGED <<told, tabConnected, box, read, off, unread>>

Paste(lines) ==
    /\ Running /\ dialog # "closed" /\ lines # box /\ NoCall
    /\ box' = lines /\ unread' = TRUE
    /\ UNCHANGED <<told, tabConnected, dialog, enabled, read, off, created>>

InferTimer ==
    /\ Running /\ dialog # "closed" /\ unread
    /\ IF Raises(box) THEN Crash
       ELSE ReadBox(box) /\ NoCall /\ UNCHANGED <<dialog, enabled, box, created>>
    /\ UNCHANGED <<told, tabConnected>>

Toggle(shape) ==
    /\ Running /\ dialog # "closed" /\ NoCall
    /\ off' = IF shape \in off THEN off \ {shape} ELSE off \cup {shape}
    /\ UNCHANGED <<told, tabConnected, dialog, enabled, box, read, unread, created>>

\* listen
Listen ==
    /\ dialog = "open" /\ enabled
    /\ Post([op |-> "listen"])
    /\ dialog' = "listening" /\ enabled' = FALSE
    /\ UNCHANGED <<told, tabConnected, box, read, off, unread, created>>

\* The dialog and what it holds is gone.
CloseDialog ==
    /\ dialog' = "closed" /\ enabled' = FALSE
    /\ box' = <<>> /\ read' = <<>> /\ off' = {} /\ unread' = FALSE

\* reject: what is heard by then is still told.
Cancel ==
    /\ Running
    /\ \/ dialog = "open" /\ NoCall
       \/ dialog = "listening" /\ Post([op |-> "unlisten"])
    /\ CloseDialog /\ UNCHANGED <<told, tabConnected, created>>

\* accept, apply_console: of the cards as they are, though the box may have changed.
Create ==
    /\ Running /\ dialog = "open" /\ Shapes[read] \ off # {} /\ NoCall
    /\ created' = {p \in Range(Found[read]) : p.pieces \notin off} /\ CloseDialog /\ UNCHANGED <<told, tabConnected>>

----------------------------------------------------------------------------
(* What the engine tells. *)

Handles(sig) == Running /\ told # <<>> /\ Head(told).sig = sig /\ told' = Tail(told)

\* set_connected
OnState ==
    /\ Handles("state") /\ NoCall
    /\ tabConnected' = (Head(told).val = "RUNNING")
    /\ enabled' = IF dialog = "open" THEN tabConnected' ELSE enabled
    /\ UNCHANGED <<dialog, box, read, off, unread, created>>

\* on_lines_heard
OnHeard ==
    /\ Handles("heard") /\ UNCHANGED tabConnected
    /\ IF dialog # "listening" THEN UNCHANGED dialogVars /\ NoCall
       ELSE \E lines \in IF Head(told).any THEN {l \in Boxes : IsPrefix(box, l)} ELSE {box} :
              IF Raises(lines) THEN Crash
              ELSE /\ dialog' = "open" /\ enabled' = TRUE /\ NoCall
                   /\ box' = lines /\ ReadBox(lines) /\ UNCHANGED created

----------------------------------------------------------------------------
GUI ==
    \/ OpenDialog \/ \E lines \in Boxes : Paste(lines)
    \/ InferTimer \/ \E shape \in Shapes[read] : Toggle(shape)
    \/ Listen \/ Cancel \/ Create
    \/ OnState \/ OnHeard

CNext ==
    \/ DialogHears(Slots \/ EmitLinkStats)
    \/ \E s \in Sessions : DialogHears(Reader(s))
    \/ \E c \in UserCalls : UserPosts(c)
    \/ GUI

CSpec == CInit /\ [][CNext]_cvars

----------------------------------------------------------------------------
(* Properties. *)

\* console_dialog.listen, engine.listen_lines: a dialog that says it listens will be
\* answered: its call is queued, or the engine listens, or the lines are on their way.
\* Whatever ends the session meanwhile, Create is not disabled for ever.
Pending(queue, name, value) == \E i \in DOMAIN queue : queue[i][name] = value
ListeningIsAnswered ==
    dialog = "listening" /\ Running =>
        heard \/ Pending(inbox, "op", "listen") \/ Pending(told, "sig", "heard")

\* infer_lines, "TextLineDecoder decodes the lines it came from": a created stream does,
\* and the axis it was given counts no loss in them.
CreatedStreamsReadTheirLines == [][\A p \in created' \ created : ReadsItsLines(p)]_cvars

----------------------------------------------------------------------------
(* What docs say that the code does not do. *)

\* console_dialog, "Listen on the port (only while connected)".
ListensWhileConnected == dialog = "open" /\ enabled => tabConnected

\* infer_lines, of all that were created: no line is one that another stream takes.
LinesAreOfOneStream ==
    \A p, q \in created : p # q => \A n \in DOMAIN p.lines : Readings(q.pieces, p.lines[n]) = {}

\* infer_lines, "Each pattern becomes a stream".
PatternsParse == ~Raises(box)
=============================================================================
