------------------------------- MODULE Struct -------------------------------
(***************************************************************************)
(* core/config/cstruct.py: streams of the C structs a firmware sends, and  *)
(* back.  Source, as it is read: [bare, packed, sizes, members], where a   *)
(* member is [type, names], a name [name, count]: Plain, a number, or the  *)
(* name of one of `sizes`, the #defines.  A member that is not read (its   *)
(* type is no key of Sizes) and a pointer or bit-field (no count) are left *)
(* out.  Fields read are [name, type].                                     *)
(***************************************************************************)
EXTENDS Draft, Folds

CONSTANTS
    Plain,          \* no array
    DefaultLane     \* where a signal without a group is drawn

\* type_size, C_TYPES
Sizes == [u8 |-> 1, i8 |-> 1, u16 |-> 2, i16 |-> 2, u32 |-> 4, i32 |-> 4, f32 |-> 4,
          u64 |-> 8, i64 |-> 8, f64 |-> 8]
SizeOf(read) == FoldLeft(LAMBDA n, f : n + Sizes[f.type], 0, read)
Widest(read) == FoldLeft(LAMBDA n, f : IF Sizes[f.type] > n THEN Sizes[f.type] ELSE n, 1, read)

\* A name, or an array's elements, which are fields of their own (name_0, ...).
Elements(source, x) ==
    LET counts == {x.count} \cap Nat
        sizes == {x.count} \cap DOMAIN source.sizes
    IN  CASE x.count = Plain -> <<x.name>>
          [] counts # {} -> [i \in 1..x.count |-> [of |-> x.name, i |-> i - 1]]
          [] sizes # {} -> [i \in 1..source.sizes[x.count] |-> [of |-> x.name, i |-> i - 1]]
          [] OTHER -> <<>>
MemberFields(source, m) ==
    IF m.type \notin DOMAIN Sizes THEN <<>>
    ELSE FlattenSeq([k \in 1..Len(m.names) |->
            [i \in 1..Len(Elements(source, m.names[k])) |->
                [name |-> Elements(source, m.names[k])[i], type |-> m.type]]])
Declared(source) ==
    FlattenSeq([j \in 1..Len(source.members) |-> MemberFields(source, source.members[j])])

\* _with_padding: what the compiler inserts, a byte a field, is named after its place.
IsPad(name) == \E o \in 0..255 : name = [pad |-> o]
PadTo(offset, boundary) ==
    [i \in 1..((boundary - (offset % boundary)) % boundary) |->
        [name |-> [pad |-> offset + i - 1], type |-> "u8"]]
Padded(read, f) == Append(read \o PadTo(SizeOf(read), Sizes[f.type]), f)
NoPadBehind(read) == <<>>    \* mutant
PadBehind(read) == PadTo(SizeOf(read), Widest(read))
WithPadding(fields) ==
    LET read == FoldLeft(Padded, <<>>, fields) IN read \o PadBehind(read)

\* parse_c_struct: bare member lines are a frame's, and those are packed.
ParseStruct(source) ==
    IF source.bare \/ source.packed THEN Declared(source) ELSE WithPadding(Declared(source))

\* to_c_struct, of fields whose names are identifiers.
ToCStruct(read) ==
    [bare |-> FALSE, packed |-> TRUE, sizes |-> <<>>,
     members |-> [i \in 1..Len(read) |->
        [type |-> read[i].type, names |-> <<[name |-> read[i].name, count |-> Plain]>>]]]

----------------------------------------------------------------------------
(* Streams of it. *)

NamesRead(read) == [i \in 1..Len(read) |-> read[i].name]
Plottable(name) == name # LoopCntr /\ ~IsPad(name)

\* _new_signal, at a key; what is there is replaced.
NewSignal(d, name, key) ==
    LET taken == {s \in d.signals : s.key = key}
        at == IF taken = {} THEN Cardinality(d.signals) + 1 ELSE (CHOOSE s \in taken : TRUE).at
    IN  [d EXCEPT !.signals = (@ \ taken) \cup
            {[at |-> at, key |-> key, field |-> name, label |-> name, lane |-> DefaultLane]}]

\* What names a field's signal: the field, with another number if `spare` is one and a signal
\* has that name.
NewKey(d, name, spare) ==
    [base |-> name, n |-> IF [base |-> name, n |-> 1] \in KeysOf(d) THEN spare ELSE 1]
\* Each name a stream does not know gets a signal, one after another.
PlotNew(d, name, known, spare) ==
    IF Plottable(name) /\ name \notin known THEN NewSignal(d, name, NewKey(d, name, spare)) ELSE d
PlotAll(d, names, known, spare) ==
    FoldLeft(LAMBDA e, name : PlotNew(e, name, known, spare), d, names)

\* stream_from_struct
StreamFromStruct(read, name, timed) ==
    PlotAll([name |-> name, rest |-> 0, fields |-> NamesRead(read), slots |-> <<>>,
             signals |-> {}, sim |-> {}, time |-> IF timed THEN LoopCntr ELSE None],
            NamesRead(read), {}, 1)

\* replace_fields: `name_new` (its number is 0) if a signal has the field's name for its key.
WithFieldsRead(d, names) ==
    LET gone == {s.field : s \in d.signals} \ {names[i] : i \in 1..Len(names)}
    IN  [WithoutSignals(d, SignalsOf(d, gone)) EXCEPT
            !.fields = names, !.sim = @ \cap {names[i] : i \in 1..Len(names)}]
ReplaceFields(d, read) ==
    PlotAll(WithFieldsRead(d, NamesRead(read)), NamesRead(read), FieldsOf(d), 0)

----------------------------------------------------------------------------
(* What is promised of it. *)

\* "the padding a 32-bit compiler inserts": each field on a multiple of its size, the whole on
\* one of the widest, and no more of it than that takes.
OffsetOf(read, i) == SizeOf(SubSeq(read, 1, i - 1))
Boundary(read, i) ==
    LET behind == {j \in i..Len(read) : ~IsPad(read[j].name)}
    IN  IF behind = {} THEN Widest(read)
        ELSE Sizes[read[CHOOSE j \in behind : \A k \in behind : j <= k].type]
AsCompiled(source) ==
    LET read == ParseStruct(source)
        pads == {i \in 1..Len(read) : IsPad(read[i].name)}
    IN  /\ SelectSeq(read, LAMBDA f : ~IsPad(f.name)) = Declared(source)
        /\ source.bare \/ source.packed => pads = {}
        /\ ~source.bare /\ ~source.packed =>
            /\ \A i \in 1..Len(read) : OffsetOf(read, i) % Sizes[read[i].type] = 0
            /\ SizeOf(read) % Widest(read) = 0
            /\ \A i \in pads : OffsetOf(read, i) % Boundary(read, i) # 0
        /\ ParseStruct(ToCStruct(read)) = read
=============================================================================
