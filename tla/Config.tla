-------------------------------- MODULE Config --------------------------------
(***************************************************************************)
(* The configuration editor: ui/config/tab.py and stream_editor.py over    *)
(* drafts (Draft), and core/config/document.py, which saves and loads the  *)
(* file.                                                                   *)
(*                                                                         *)
(* What the user types in a line edit is applied when the focus leaves it, *)
(* or by flush(): a click on the strip, the tab bar or a segment button    *)
(* leaves the focus where it is, and a redraw leaves the text of the line  *)
(* edit that has it.  Everything else that is clicked takes the focus      *)
(* first.  A line edit without the focus shows what the draft says.        *)
(***************************************************************************)
EXTENDS Struct

CONSTANTS
    Keys, Labels,       \* keys of streams; names of streams and labels of signals
    Patterns,           \* the slots of the patterns typed
    Sources,            \* the C source pasted
    Lanes, Tops,        \* lanes; what the document has besides streams
    Unusable,           \* such a top: it cannot be loaded
    Torn,               \* a file of which a part was written
    Disks,              \* the files at first: by path, a document [text, top, streams]
    p, q,               \* the paths
    MaxEdits,           \* bound
    PasteEffort         \* of it, for a paste

Widgets == {"key", "name", "pattern", "label", "field"}

\* A pattern that parses, the fields of a struct that compiles, and the streams of a file in
\* which every reference is right: the editor is given such.  In a text stream whose pattern
\* does not parse the fields are what they were.
Parts(r, names) == r = [x \in names |-> r[x]]
Distinct(s) == \A i, j \in 1..Len(s) : s[i] = s[j] => i = j
IsPattern(slots) == slots \in Seq(Names) /\ slots # <<>> /\ Distinct(slots)
IsRead(read) ==
    /\ read = [i \in 1..Len(read) |-> read[i]] /\ Len(read) \in Nat
    /\ Distinct(NamesRead(read))

FieldNames == Names \cup UNION {{ParseStruct(source)[i].name : i \in 1..Len(ParseStruct(source))} :
                                  source \in Sources}
SoundSignals(signals, fields) ==
    /\ IsFiniteSet(signals)
    /\ \A s \in signals :
        Parts(s, {"at", "key", "field", "label", "lane"}) /\ s.field \in fields /\ s.at \in Nat
    /\ \A s, t \in signals : s.key = t.key => s = t
Sound(text, d) ==
    /\ Parts(d, {"name", "rest", "fields", "slots", "signals", "sim", "time"})
    /\ d.fields \in Seq(FieldNames) /\ Distinct(d.fields)
    /\ SoundSignals(d.signals, FieldsOf(d)) /\ d.sim \subseteq FieldsOf(d)
    /\ IF text THEN /\ d.fields \in Seq(Names) /\ d.slots \in {d.fields, Broken} \ {<<>>}
                    /\ d.time \in FieldsOf(d) \cup {Line, None}
               ELSE d.slots = <<>>
SoundStreams(text, ss) ==
    /\ ss = [i \in 1..Len(ss) |-> ss[i]] /\ Len(ss) \in Nat
    /\ \A i \in 1..Len(ss) : Parts(ss[i], {"key", "data"}) /\ Sound(text, ss[i].data)
SoundDocument(doc) ==
    /\ Parts(doc, {"text", "top", "streams"}) /\ doc.text \in BOOLEAN
    /\ SoundStreams(doc.text, doc.streams)

ASSUME ConfigAssumption ==
    /\ None \notin Widgets
    /\ \A slots \in Patterns : IsPattern(slots)
    /\ \A source \in Sources : IsRead(ParseStruct(source))
    /\ p # q /\ \A files \in Disks :
        /\ Parts(files, {p, q}) /\ files[p] # Torn /\ files[p].top # Unusable
        /\ \A x \in {p, q} :
              files[x] # Torn /\ files[x].top # Unusable => SoundDocument(files[x])

VARIABLES
    disk, tmp, bak,     \* the files, and those save_document writes next to them
    path, loader,       \* StreamConfigLoader: its file, and data
    ed,                 \* the tab and its editor
    step, writing,      \* of a save, with the document to be saved
    later,              \* _edited_later: a redraw is due
    edits

fileVars == <<disk, tmp, bak>>
loaderVars == <<path, loader>>
saveVars == <<step, writing>>
vars == <<fileVars, loaderVars, ed, saveVars, later, edits>>

----------------------------------------------------------------------------
(* ConfiguratorTab and StreamEditor, as a record:                          *)
(*     text, top, streams    the profile's format, the document's rest, the *)
(*                           drafts in order: [key, data]                   *)
(*     saved, marked         _saved; is Save shown?                         *)
(*     tab                   the stream shown, 0 for none                   *)
(*     field, signal         selected                                       *)
(*     focus, typing, typed  the line edit with the focus, its text, and    *)
(*                           whether it is in _typed                        *)
(*     error                 _pattern_error                                 *)

D(e) == e.streams[e.tab].data
Put(e, d) == [e EXCEPT !.streams[e.tab].data = d]
KeyList(ss) == {ss[i].key : i \in 1..Len(ss)}

\* document
Document(e) == [text |-> e.text, top |-> e.top, streams |-> e.streams]

\* _on_changed, is_dirty
Changed(e) == [e EXCEPT !.marked = Document(e) # e.saved]

\* A line edit that is hidden or disabled loses the focus.
Shown(e) ==
    IF \/ e.tab = 0
       \/ e.focus = "label" /\ e.signal = None
       \/ e.focus = "field" /\ e.field = None
    THEN [e EXCEPT !.focus = None, !.typing = None, !.typed = FALSE] ELSE e

\* _select_field
FirstSignal(d, f) ==
    LET ss == SignalsOf(d, {f}) IN
    IF ss = {} THEN None ELSE (CHOOSE s \in ss : \A t \in ss : s.at <= t.at).key
Select(e, f) == [e EXCEPT !.field = f, !.signal = IF f = None THEN None ELSE FirstSignal(D(e), f)]
FieldAt(d, i) == IF d.fields = <<>> THEN None
                 ELSE d.fields[IF i > Len(d.fields) THEN Len(d.fields) ELSE i]

\* load: the second field is selected.
Load(e, i) ==
    LET cleared == [e EXCEPT !.tab = i, !.typed = FALSE, !.error = FALSE]
    IN  Shown(IF i = 0 THEN [cleared EXCEPT !.field = None, !.signal = None]
              ELSE Select(cleared, FieldAt(D(cleared), 2)))

\* _rebuild_tabs, which selects a key or the first tab.
IndexOf(ss, key) ==
    IF \E i \in 1..Len(ss) : ss[i].key = key THEN CHOOSE i \in 1..Len(ss) : ss[i].key = key
    ELSE IF ss = <<>> THEN 0 ELSE 1
RebuildTabs(e, key) == Load(e, IndexOf(e.streams, key))
CurrentKey(e) == IF e.tab = 0 THEN None ELSE e.streams[e.tab].key

\* _take_document
Take(e, doc) ==
    LET taken == [e EXCEPT !.text = doc.text, !.top = doc.top, !.streams = doc.streams,
                           !.saved = doc]
    IN  Changed(RebuildTabs(taken, CurrentKey(e)))

\* rename_stream
RenameStream(e, key) ==
    IF key \in KeyList(e.streams) \cup {None} THEN [e EXCEPT !.typing = CurrentKey(e)]
    ELSE Changed(RebuildTabs([e EXCEPT !.streams[e.tab].key = key], key))

(* What the line edits do. *)

OnName(e) == IF e.typing = D(e).name THEN e ELSE Changed(Put(e, [D(e) EXCEPT !.name = e.typing]))

\* It raises for a signal that is gone.
OnLabel(e) ==
    IF e.signal \notin KeysOf(D(e)) \/ e.typing = SignalAt(D(e), e.signal).label THEN e
    ELSE Changed(Put(e, SetLabel(D(e), {e.signal}, e.typing)))

\* A pattern that does not parse cannot be edited with its fields: parse_pattern raises.
Editable(e) == ~e.text \/ Parses(D(e))

\* _on_field_name, rename_field
OnFieldName(e) ==
    IF e.field = None \/ e.typing = e.field \/ ~Editable(e) THEN e
    ELSE IF e.typing \notin Names \/ e.typing \in FieldsOf(D(e))
    THEN [e EXCEPT !.typing = e.field]
    ELSE Changed(Put([e EXCEPT !.field = e.typing], RenameField(D(e), e.field, e.typing)))

\* _on_pattern, set_pattern
OnPattern(e) ==
    LET read == [e EXCEPT !.typed = FALSE, !.error = FALSE]
        set == Put(read, SetPattern(D(e), e.typing))
    IN  IF e.typing = D(e).slots THEN Changed(read)
        ELSE IF e.typing = Broken THEN [read EXCEPT !.error = TRUE]
        ELSE Changed(IF e.field \in FieldsOf(D(set)) THEN set ELSE Select(set, FieldAt(D(set), 1)))

Handled(e) ==
    CASE e.focus = "name" -> OnName(e) [] e.focus = "label" -> OnLabel(e)
      [] e.focus = "field" -> OnFieldName(e) [] e.focus = "pattern" -> OnPattern(e)
      [] OTHER -> e

\* flush; the key is not flushed.
FlushNothing(e) == e    \* mutant
Flush(e) == IF e.typed THEN Handled(e) ELSE e

\* _edited
EditedUnmarked(e) == Shown(Flush(e))    \* mutant
Edited(e) == Changed(Shown(Flush(e)))

\* editingFinished
Leave(e) ==
    LET left == IF e.focus = "key" /\ e.typing # CurrentKey(e) THEN RenameStream(e, e.typing)
                ELSE Handled(e)
    IN  Shown([left EXCEPT !.typed = FALSE, !.focus = None, !.typing = None])

----------------------------------------------------------------------------

Blank == [text |-> FALSE, top |-> None, streams |-> <<>>, saved |-> None, marked |-> FALSE,
          tab |-> 0, field |-> None, signal |-> None, focus |-> None, typing |-> None,
          typed |-> FALSE, error |-> FALSE]

Init ==
    /\ disk \in Disks /\ tmp = None /\ bak = None
    /\ path = p /\ loader = disk[p]
    /\ ed = Take(Blank, disk[p])
    /\ step = "idle" /\ writing = None /\ later = FALSE /\ edits = 0

\* The user acts, between two turns of the event loop.
Act ==
    /\ step = "idle" /\ edits < MaxEdits /\ edits' = edits + 1
    /\ UNCHANGED <<fileVars, loaderVars>>
Edit == Act /\ UNCHANGED saveVars
Click == Edit /\ ed.tab # 0 /\ ed.focus = None
Here == D(ed)

\* A line edit gets the focus, and perhaps other text.
ShownText(w) ==
    CASE w = "key" -> CurrentKey(ed) [] w = "name" -> Here.name
      [] w = "pattern" -> Here.slots [] w = "label" -> SignalAt(Here, ed.signal).label
      [] w = "field" -> ed.field
TextsOf(w) ==
    CASE w = "key" -> Keys [] w = "name" -> Labels \cup {None} [] w = "pattern" -> Patterns \cup {Broken}
      [] w = "label" -> Labels [] w = "field" -> Names \cup {None}

TypeText ==
    /\ Click /\ UNCHANGED later
    /\ \E w \in Widgets :
        /\ w = "pattern" => ed.text
        /\ w = "label" => ed.signal \in KeysOf(Here)
        /\ w = "field" => ed.field # None /\ Editable(ed)
        /\ \E x \in TextsOf(w) \cup {ShownText(w)} :
            ed' = [ed EXCEPT !.focus = w, !.typing = x, !.typed = (x # ShownText(w))]

LeaveEdit ==
    /\ Edit /\ ed.focus # None /\ ed' = Leave(ed)
    /\ UNCHANGED later

\* Esc
RevertPattern ==
    /\ Edit /\ ed.focus = "pattern"
    /\ ed' = Changed([ed EXCEPT !.typed = FALSE, !.error = FALSE, !.typing = Here.slots])
    /\ UNCHANGED later

\* _on_tab_changed
SwitchStream ==
    /\ Edit /\ UNCHANGED later
    /\ \E i \in 1..Len(ed.streams) : i # ed.tab /\ ed' = Load(Flush(ed), i)

\* _on_frame_clicked: on the strip, or the line.
ClickField ==
    /\ Edit /\ ed.tab # 0 /\ UNCHANGED later
    /\ LET e == Flush(ed) IN
       \E i \in 1..Len(D(e).fields) :
          D(e).fields[i] # e.field /\ ed' = Shown(Select(e, D(e).fields[i]))

\* _on_picked: a signal of the list.
PickSignal ==
    /\ Click /\ UNCHANGED later
    /\ \E s \in Here.signals : ed' = [ed EXCEPT !.field = s.field, !.signal = s.key]

\* The stream's settings and a signal's that name nothing (byte order, ID, scale, step, panel):
\* a button leaves the focus where it is.
SetRest ==
    /\ Edit /\ ed.tab # 0 /\ UNCHANGED later
    /\ ed' = Edited(Put(ed, [Here EXCEPT !.rest = 1 - @]))

\* _on_toggled: the swatch of a signal; the redraw is for later.
Toggle ==
    /\ Click /\ Here.signals # {}
    /\ ed' = Put(ed, [Here EXCEPT !.rest = 1 - @]) /\ later' = TRUE

EditedLater ==
    /\ step = "idle" /\ later /\ later' = FALSE /\ ed' = Edited(ed)
    /\ UNCHANGED <<fileVars, loaderVars, saveVars, edits>>

\* _on_time_field: text streams offer the line number, too.
PickTime ==
    /\ Click /\ UNCHANGED later
    /\ \E n \in FieldsOf(Here) \cup (IF ed.text THEN {Line} ELSE {}) :
        ed' = Edited(Put(ed, SetTime(Here, n)))

\* add_field_after; the new field's name is what is typed next.
AddField ==
    /\ Click /\ Editable(ed) /\ UNCHANGED later
    /\ \E n \in Names \ FieldsOf(Here) :
        LET i == IF ed.field = None THEN Len(Here.fields)
                 ELSE CHOOSE i \in 1..Len(Here.fields) : Here.fields[i] = ed.field
            e == Edited(Select(Put(ed, InsertField(Here, i, n)), n))
        IN  ed' = [e EXCEPT !.focus = "field", !.typing = n]

\* remove_selected_field: a pattern keeps a value.
RemoveField ==
    /\ Click /\ Editable(ed) /\ ed.field # None /\ UNCHANGED later
    /\ ed.text => Len(Here.slots) > 1
    /\ LET i == CHOOSE i \in 1..Len(Here.fields) : Here.fields[i] = ed.field
           e == Put(ed, DropField(Here, i))
       IN  ed' = Edited(Select(e, FieldAt(D(e), i)))

MoveSelected ==
    /\ Click /\ ~ed.text /\ ed.field # None /\ UNCHANGED later
    /\ \E i, j \in 1..Len(Here.fields) :
        /\ Here.fields[i] = ed.field /\ j \in {i - 1, i + 1}
        /\ ed' = Edited(Put(ed, MoveField(Here, i, j)))

\* plot_in, _toggle_plot, _on_dropped: of a field.
Plot ==
    /\ Click /\ UNCHANGED later
    /\ \E f \in FieldsOf(Here), lane \in Lanes :
        ed' = Edited([Put(ed, AddSignal(Here, f, lane)) EXCEPT
                        !.field = f, !.signal = AddedKey(Here, f)])

\* _toggle_plot: of a signal.
Unplot ==
    /\ Click /\ ed.signal # None /\ UNCHANGED later
    /\ ed' = Edited(Select(Put(ed, WithoutSignals(Here, {s \in Here.signals : s.key = ed.signal})), ed.field))

\* dropEvent, _on_dropped: the row of the signal pressed, to another lane or to "Not plotted".
DropRow ==
    /\ Click /\ ed.signal \in KeysOf(Here) /\ UNCHANGED later
    /\ LET row == RowMembers(Here, ed.signal)
           s == SignalAt(Here, RowKey(Here, ed.signal))
       IN  \/ ed' = Edited(Select(Put(ed, WithoutSignals(Here, {t \in Here.signals : t.key \in row})), s.field))
           \/ \E lane \in Lanes :
                  ed' = Edited([Put(ed, SetLane(Here, row, lane)) EXCEPT !.signal = s.key])

----------------------------------------------------------------------------
(* The tab. *)

\* _on_profile_name, _on_profile_baud
EditProfile ==
    /\ Edit /\ ed.focus = None /\ UNCHANGED later
    /\ \E top \in Tops : ed' = Changed([ed EXCEPT !.top = top])

NewDraft(text) ==
    LET n == CHOOSE n \in Names : ~text => n = LoopCntr IN
    [name |-> CHOOSE l \in Labels : TRUE, rest |-> 0, fields |-> <<n>>,
     slots |-> IF text THEN <<n>> ELSE <<>>, signals |-> {}, sim |-> {}, time |-> None]

\* create_stream, _add_stream
CreateStream ==
    /\ Edit /\ ed.focus = None /\ UNCHANGED later
    /\ \E key \in Keys \ KeyList(ed.streams) :
        ed' = Changed(RebuildTabs(
                [ed EXCEPT !.streams = Append(@, [key |-> key, data |-> NewDraft(ed.text)])], key))

\* paste_struct, apply_paste: a new stream, or other fields of the one shown.  The dialog
\* cannot be accepted while it reads no field.  A paste counts as PasteEffort edits.
ReadOf == [source \in Sources |-> ParseStruct(source)]
PasteStruct(source) ==
    LET read == ReadOf[source]
        e == Flush(ed)
        timed == e.tab # 0    \* paste_dialog: there is a scale, the default if the file has none
        new == StreamFromStruct(read, CHOOSE l \in Labels : TRUE, timed)
    IN  /\ step = "idle" /\ edits + PasteEffort <= MaxEdits /\ edits' = edits + PasteEffort
        /\ ed.focus = None /\ ~ed.text /\ read # <<>>
        /\ UNCHANGED <<fileVars, loaderVars, saveVars, later>>
        /\ \/ /\ ed.tab # 0
              /\ ed' = Changed(RebuildTabs(Put(e, ReplaceFields(D(e), read)), CurrentKey(e)))
           \/ \E key \in Keys \ KeyList(ed.streams) :
                ed' = Changed(RebuildTabs(
                        [e EXCEPT !.streams = Append(@, [key |-> key, data |-> new])], key))

DeleteStream ==
    /\ Click /\ UNCHANGED later
    /\ LET left == RemoveAt(ed.streams, ed.tab)
           i == IF ed.tab > Len(left) THEN Len(left) ELSE ed.tab
       IN  ed' = Changed(Load([ed EXCEPT !.streams = left], i))

Revert ==
    /\ Edit /\ ed.focus = None /\ ed.marked /\ ed' = Take(ed, loader)
    /\ UNCHANGED later

----------------------------------------------------------------------------
(* The file. *)

\* validate_config: problems that keep a document from being saved, or loaded.
Usable(doc) == doc # Torn /\ doc.top # Unusable
CanBeSaved(doc) == Usable(doc) /\ \A i \in 1..Len(doc.streams) : Valid(doc.text, doc.streams[i].data)

\* save_to_file, save_document; Ctrl+S leaves the focus where it is.
Save ==
    /\ Act /\ ed' = Flush(ed) /\ UNCHANGED later
    /\ IF CanBeSaved(Document(ed'))
       THEN step' = "backup" /\ writing' = Document(ed')
       ELSE UNCHANGED saveVars

Saving(at) ==
    /\ step = at
    /\ UNCHANGED <<loaderVars, ed, later, edits>>

\* Not being able to make a backup stops nothing.
Backup ==
    /\ Saving("backup") /\ step' = "write" /\ bak' \in {disk[path], Torn}
    /\ UNCHANGED <<disk, tmp, writing>>

WriteInPlace == UNCHANGED tmp /\ disk' = [disk EXCEPT ![path] = Torn]    \* mutant
Write == tmp' = Torn /\ UNCHANGED disk

WriteTmp ==
    /\ Saving("write") /\ Write /\ step' = "writing"
    /\ UNCHANGED <<bak, writing>>

WriteEnds ==
    /\ Saving("writing") /\ tmp' = writing /\ step' = "replace"
    /\ UNCHANGED <<disk, bak, writing>>

Replace ==
    /\ Saving("replace") /\ disk' = [disk EXCEPT ![path] = tmp] /\ tmp' = None
    /\ step' = "reload"
    /\ UNCHANGED <<bak, writing>>

\* OSError
SaveFails ==
    /\ \E at \in {"write", "writing", "replace"} : Saving(at)
    /\ step' = "idle" /\ writing' = None
    /\ UNCHANGED fileVars

\* _saved is what was written.
Reload ==
    /\ step = "reload" /\ step' = "idle" /\ writing' = None
    /\ loader' = disk[path]
    /\ ed' = Changed([ed EXCEPT !.saved = Document(ed)])
    /\ UNCHANGED <<fileVars, path, later, edits>>

\* StreamConfigLoader.open: a file that cannot be loaded leaves the loader on its own.
OpenProfile ==
    /\ step = "idle" /\ edits < MaxEdits /\ edits' = edits + 1 /\ ed.focus = None
    /\ \E to \in {p, q} \ {path} :
        IF Usable(disk[to])
        THEN path' = to /\ loader' = disk[to] /\ ed' = Take(ed, disk[to])
        ELSE loader' = disk[path] /\ UNCHANGED <<path, ed>>
    /\ UNCHANGED <<fileVars, saveVars, later>>

\* The application dies: an edit of a pattern that does not parse raises in a slot, too.
Die ==
    /\ step \notin {"dead", "failed"} /\ step' = "dead" /\ writing' = None /\ later' = FALSE
    /\ UNCHANGED <<fileVars, loaderVars, ed, edits>>

Restart ==
    /\ step = "dead"
    /\ IF Usable(disk[path])
       THEN step' = "idle" /\ loader' = disk[path] /\ ed' = Take(Blank, disk[path])
       ELSE step' = "failed" /\ UNCHANGED <<loader, ed>>
    /\ UNCHANGED <<fileVars, path, writing, later, edits>>

----------------------------------------------------------------------------

EditStep ==
    \/ TypeText \/ LeaveEdit \/ RevertPattern \/ SwitchStream \/ ClickField \/ PickSignal
    \/ SetRest \/ Toggle \/ EditedLater \/ PickTime \/ AddField \/ RemoveField \/ MoveSelected
    \/ Plot \/ Unplot \/ DropRow \/ EditProfile \/ CreateStream \/ DeleteStream \/ Revert
    \/ \E source \in Sources : PasteStruct(source)
FileStep ==
    \/ Save \/ Backup \/ WriteTmp \/ WriteEnds \/ Replace \/ SaveFails \/ Reload \/ OpenProfile
    \/ Die \/ Restart

Next == EditStep \/ FileStep
Spec == Init /\ [][Next]_vars

----------------------------------------------------------------------------
(* Properties. *)

\* A draft whose fields have one name each, and whose signals, simulator and, in a text
\* stream, X axis and pattern name fields it has.
RefersToItsFields(text, d) ==
    /\ \A i, j \in 1..Len(d.fields) : d.fields[i] = d.fields[j] => i = j
    /\ \A s \in d.signals : s.field \in FieldsOf(d)
    /\ \A s, t \in d.signals : s.key = t.key => s = t
    /\ d.sim \subseteq FieldsOf(d)
    /\ text /\ d.time # None => d.time \in FieldsOf(d) \cup {Line}
    /\ text /\ Parses(d) => d.slots = d.fields

\* draft, "every operation changes only the keys it's about": whatever is renamed, removed,
\* moved or typed, signals and simulator, and the X axis and pattern of a text stream, go on
\* naming fields that exist.
ReferencesAreKept ==
    \A i \in 1..Len(ed.streams) : RefersToItsFields(ed.text, ed.streams[i].data)

\* (Not of the code: a finding.)  _forget_field, "Drops what refers to a removed field: its
\* signals, sim spec and time.field": the X axis, of a stream of either format.
XAxisIsThere ==
    \A i \in 1..Len(ed.streams) :
        LET d == ed.streams[i].data
        IN  d.time # None => d.time \in FieldsOf(d) \cup {Line}

\* __init__, "selected signal (of that field), if plotted": the selection that the handlers
\* write through is a field of the stream shown, and a signal of that field.
SelectionIsThere ==
    /\ ed.field # None => ed.tab # 0 /\ ed.field \in FieldsOf(D(ed))
    /\ ed.signal # None =>
        /\ ed.field # None
        /\ \E s \in SignalsOf(D(ed), {ed.field}) : s.key = ed.signal

\* is_dirty, "only while there are unsaved changes": Save is shown when, and only when, the
\* file is not what the editor has.
MarkIsTrue ==
    step = "idle" /\ ~later =>
        /\ loader = disk[path]
        /\ ed.marked <=> disk[path] # Document(ed)

\* save_document, "a failed write never leaves a truncated streams.json": the file is what it
\* was, or what was being saved, whatever fails and whenever the application dies.
FileIsWhole == disk[path] # Torn /\ (step \in {"write", "writing", "replace", "reload"} =>
    disk[path] \in {bak, writing} \/ bak = Torn)

\* flush, "before a save or a switch": what is typed and fits is in the document saved.
TypedIsSaved ==
    step = "reload" /\ ed.typed =>
        CASE ed.focus = "name" -> D(ed).name = ed.typing
          [] ed.focus = "label" -> SignalAt(D(ed), ed.signal).label = ed.typing
          [] ed.focus = "field" -> ed.typing \in FieldsOf(D(ed))
          [] ed.focus = "pattern" -> ed.error
          [] OTHER -> TRUE

\* What a save makes of the file and of what is typed.
SavesAreWhole == FileIsWhole /\ TypedIsSaved

\* cstruct, "the layout still matches the wire", "firmware and config can't drift"; replace_fields,
\* "signals of fields that keep their name keep their label, color and lane; new fields get a
\* signal": but for the one whose key is `name_new` already.
KeepsSignals(old, new, replaced) ==
    /\ \A s \in old.signals \ replaced : s.field \in FieldsOf(new) =>
        \E t \in new.signals : [t EXCEPT !.at = s.at] = s
    /\ \A n \in FieldsOf(new) \ FieldsOf(old) :
        Plottable(n) => \E t \in new.signals : t.field = n /\ t.label = n
PastesFollowTheFirmware == [][\A source \in Sources : PasteStruct(source) =>
    /\ AsCompiled(source)
    /\ Len(ed'.streams) = Len(ed.streams) =>
        KeepsSignals(Here, D(ed'), {s \in Here.signals : s.key.n = 0 /\ s.key.base \notin FieldsOf(Here)})]_vars

\* _typed, "text a redraw left behind is never taken for an edit".
LeftTextIsNoEdit == [][LeaveEdit /\ ~ed.typed => Document(ed') = Document(ed)]_vars

\* tab, "kept until saved or reverted", "including streams with errors, so they can be
\* fixed here"; pair_rows, "the first signal of the other side".
DraftsAreKept == [][path' # path => Document(ed) = disk[path]]_vars
StreamsWithErrorsCanBeEdited == ed.tab # 0 => Editable(ed)
TheFirstOnePairs == ed.tab # 0 =>
    LET row == PairRows(D(ed))
        At(i) == CHOOSE s \in D(ed).signals : s.at = i
    IN  \A i \in DOMAIN row \ {0} : \A j \in 1..(row[i] - 1) :
            At(j).lane = At(i).lane /\ At(j).label = At(row[i]).label =>
                row[j] # 0 \/ \E k \in DOMAIN row : row[k] = j

\* replace_fields, of every signal.
PastesKeepSignals == [][\A source \in Sources : PasteStruct(source) =>
    (Len(ed'.streams) = Len(ed.streams) => KeepsSignals(Here, D(ed'), {}))]_vars
=============================================================================
