-------------------------------- MODULE Draft --------------------------------
(***************************************************************************)
(* core/config/draft.py: a stream's definition and the operations that     *)
(* edit it.  A definition names its fields in several places; here those   *)
(* are                                                                     *)
(*     fields    frame.fields, by name                                     *)
(*     slots     of frame.pattern, in a text stream; Broken if it does not *)
(*               parse                                                     *)
(*     signals   [at, key, field, label, lane], the at-th in order         *)
(*     sim       the fields with an entry in sim.fields                    *)
(*     time      time.field, or None if the file does not say              *)
(* and `name` and `rest` (id, byte order, types, scale, colours...) name   *)
(* none.  A key is [base, n]: the name and the number appended to free it. *)
(***************************************************************************)
EXTENDS Integers, Sequences, FiniteSets, SequencesExt

CONSTANTS
    Names,          \* identifiers a field may have
    LoopCntr,       \* LOOP_CNTR_NAME
    Line,           \* LINE_FIELD
    None, Broken,   \* no name, or text that is not one; a pattern that does not parse
    MateOf,         \* the pairs of labels, <<one side, the other>>
    LeftLabels      \* the labels of left sides

ASSUME DraftAssumption ==
    /\ LoopCntr \in Names /\ Line \notin Names /\ None \notin Names /\ None # Line
    /\ Broken \notin Seq(Names)

FieldsOf(d) == {d.fields[i] : i \in 1..Len(d.fields)}
KeysOf(d) == {s.key : s \in d.signals}
IsText(d) == d.slots # <<>>    \* `frame.pattern` is there
Parses(d) == d.slots # Broken

\* unique_name: `base`, with a number if that is taken.
FreeNumbers(base, taken) ==
    {n \in 1..(Cardinality(taken) + 1) : [base |-> base, n |-> n] \notin taken}
UniqueKey(base, taken) ==
    LET free == FreeNumbers(base, taken)
    IN  [base |-> base, n |-> CHOOSE n \in free : \A m \in free : n <= m]

\* default_time_field, time_value
DefaultTime(d) == IF IsText(d) /\ LoopCntr \notin FieldsOf(d) THEN Line ELSE LoopCntr
TimeValue(d) == IF d.time = None THEN DefaultTime(d) ELSE d.time

\* set_time: written if the file had it, or if it is not the default.
SetTime(d, n) == IF d.time # None \/ n # DefaultTime(d) THEN [d EXCEPT !.time = n] ELSE d

\* remove_signal
Renumbered(ss) == {[s EXCEPT !.at = Cardinality({t \in ss : t.at <= s.at})] : s \in ss}
WithoutSignals(d, gone) == [d EXCEPT !.signals = Renumbered(@ \ gone)]

\* signals_of_field, _forget_field
SignalsOf(d, fs) == {s \in d.signals : s.field \in fs}
ForgetSignals(d, gone) == WithoutSignals(d, SignalsOf(d, gone))    \* mutant: nothing else
Forget(d, gone) ==
    [WithoutSignals(d, SignalsOf(d, gone)) EXCEPT
        !.sim = @ \ gone,
        !.time = IF IsText(d) /\ @ \in gone THEN None ELSE @]

\* set_pattern: the fields follow the slots.
SetPattern(d, slots) ==
    [Forget(d, FieldsOf(d) \ {slots[i] : i \in 1..Len(slots)}) EXCEPT
        !.fields = slots, !.slots = slots]

\* add_value_after, add_field
InsertField(d, i, n) ==
    [d EXCEPT !.fields = InsertAt(@, i + 1, n),
              !.slots = IF IsText(d) THEN InsertAt(@, i + 1, n) ELSE @]

\* remove_value, remove_field
DropField(d, i) ==
    [Forget(d, {d.fields[i]}) EXCEPT
        !.fields = RemoveAt(@, i),
        !.slots = IF IsText(d) THEN RemoveAt(@, i) ELSE @]

\* rename_field, without its checks
Renamed(s, old, new) == [i \in 1..Len(s) |-> IF s[i] = old THEN new ELSE s[i]]
Repointed(s, old, new) == IF s.field = old THEN [s EXCEPT !.field = new] ELSE s
RenameAll(d, old, new) ==
    [d EXCEPT !.fields = Renamed(@, old, new),
              !.slots = IF IsText(d) THEN Renamed(@, old, new) ELSE @,
              !.signals = {Repointed(s, old, new) : s \in @},
              !.sim = IF old \in @ THEN (@ \ {old}) \cup {new} ELSE @,
              !.time = IF @ = old THEN new ELSE @]

RenameField(d, old, new) == RenameAll(d, old, new)

\* move_field: one place up or down.
MoveField(d, i, j) == [d EXCEPT !.fields = [@ EXCEPT ![i] = d.fields[j], ![j] = d.fields[i]]]

\* add_signal
AddedKey(d, f) == UniqueKey(f, KeysOf(d))
AddSignal(d, f, lane) ==
    [d EXCEPT !.signals = @ \cup {[at |-> Cardinality(@) + 1, key |-> AddedKey(d, f),
                                   field |-> f, label |-> f, lane |-> lane]}]

\* set_signal
WithLabel(s, keys, label) == IF s.key \in keys THEN [s EXCEPT !.label = label] ELSE s
SetLabel(d, keys, label) == [d EXCEPT !.signals = {WithLabel(s, keys, label) : s \in @}]
InLane(s, keys, lane) == IF s.key \in keys THEN [s EXCEPT !.lane = lane] ELSE s
SetLane(d, keys, lane) == [d EXCEPT !.signals = {InLane(s, keys, lane) : s \in @}]

SignalAt(d, key) == CHOOSE s \in d.signals : s.key = key

----------------------------------------------------------------------------
(* ui/panels/signal_rows.py: a signal pairs with the last one of the other   *)
(* side that waits, within its lane.                                         *)

\* PairRows(d)[i]: the place of the signal the i-th one pairs with when it appears, or 0.
PairRows(d) ==
    LET at(i) == CHOOSE s \in d.signals : s.at = i
        alike(s, t) == s.lane = t.lane /\ s.label = t.label
        mates(s, t) == s.lane = t.lane /\ <<t.label, s.label>> \in MateOf
        row[i \in 0..Cardinality(d.signals)] ==
            LET waits == {j \in 1..(i - 1) :
                    /\ mates(at(i), at(j)) /\ row[j] = 0
                    /\ \A k \in (j + 1)..(i - 1) :
                          row[k] # j /\ ~(alike(at(k), at(j)) /\ row[k] = 0)}
            IN  IF waits = {} THEN 0 ELSE CHOOSE j \in waits : TRUE
    IN  row

\* _mate: the key of the other side of a signal's pair, or None.
Mate(d, key) ==
    LET row == PairRows(d)
        mates == {t \in d.signals :
                    row[t.at] = SignalAt(d, key).at \/ row[SignalAt(d, key).at] = t.at}
    IN  IF mates = {} THEN None ELSE (CHOOSE t \in mates : TRUE).key

\* _row_members, and the first of them, which stands for the row.
RowMembers(d, key) == {key} \cup ({Mate(d, key)} \ {None})
RowKey(d, key) == IF SignalAt(d, key).label \in LeftLabels \/ Mate(d, key) = None THEN key
                  ELSE Mate(d, key)

----------------------------------------------------------------------------
(* core/config/streams.py *)

\* validate_stream: what is an error and not a warning.
PatternProblems(text, d) == text /\ d.slots # d.fields
TimeProblems(text, d) ==
    TimeValue(d) \notin FieldsOf(d) \cup (IF text THEN {Line} ELSE {})
Valid(text, d) ==
    /\ d.name # None
    /\ d.fields # <<>> /\ Cardinality(FieldsOf(d)) = Len(d.fields)
    /\ ~PatternProblems(text, d)
    /\ text \/ LoopCntr \in FieldsOf(d)
    /\ d.time # None => ~TimeProblems(text, d)
    /\ \A s \in d.signals : s.field \in FieldsOf(d)
=============================================================================
