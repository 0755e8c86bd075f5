------------------------------- MODULE Infer -------------------------------
(***************************************************************************)
(* core/config/infer_lines.py: the line patterns found in console output,  *)
(* and the streams made of them.  A number is never next to another, nor   *)
(* inside a word.                                                          *)
(***************************************************************************)
EXTENDS TextLine

CONSTANTS
    Naming,     \* words that name the value behind them ("t=")
    Reserved    \* those of them whose name is no slot's (_line)

ASSUME InferAssumption == Reserved \subseteq Naming

\* split_line: the fixed text around the numbers, and the numbers.
NumbersIn(l) == SelectSeq(l, LAMBDA token : token \in NumberTokens)
Shape(l) ==
    LET at == <<0>> \o SetToSortSeq({i \in 1..Len(l) : l[i] \in NumberTokens}, <) \o <<Len(l) + 1>>
    IN  [i \in 1..(Len(at) - 1) |-> SubSeq(l, at[i] + 1, at[i + 1] - 1)]

----------------------------------------------------------------------------
(* A pattern's values. *)

\* A value's name: the word before it, or its place; unique_name adds a number to it.
StemOf(shape, i) ==
    LET before == Strip(shape[i])
    IN  IF before # <<>> /\ Last(before) \in Naming THEN [word |-> Last(before)] ELSE [place |-> i]
NamesOf(shape) ==
    [i \in 1..(Len(shape) - 1) |->
        [stem |-> StemOf(shape, i),
         copy |-> Cardinality({j \in 1..i : StemOf(shape, j) = StemOf(shape, i)})]]

\* _value_type
AnyWhole(column) == \E i \in DOMAIN column : column[i] \in Digits    \* mutant
AllWhole(column) == Range(column) \subseteq Digits
Fits(column, type) == Range(column) \cap Digits \subseteq RangeOf(type)
ValueType(column) ==
    LET type == IF \E n \in DOMAIN column : column[n] < 0 THEN "i32" ELSE "u32"
    IN  IF AllWhole(column) /\ Fits(column, type) THEN type ELSE "f32"

\* _axis_step, twice it: the median of the differences, none of which is more than
\* AXIS_TOLERANCE away from it.  0 is None.
Differences(column) == [i \in 1..(Len(column) - 1) |-> column[i + 1] - column[i]]
TwiceMedian(ds) ==
    LET s == SortSeq(ds, <)
        half == Len(s) \div 2
    IN  IF Len(s) % 2 = 1 THEN 2 * s[half + 1] ELSE s[half] + s[half + 1]
Tolerated(d, twice) == 4 * d >= twice /\ 4 * d <= 3 * twice
AxisStep(column) ==
    LET ds == Differences(column)
    IN  IF /\ \A i \in DOMAIN ds : ds[i] > 0
           /\ \A i \in DOMAIN ds : Tolerated(ds[i], TwiceMedian(ds))
        THEN TwiceMedian(ds) ELSE 0

\* _pattern: its lines' numbers, by the value.
PatternOf(shape, lines) ==
    LET columns == [i \in 1..(Len(shape) - 1) |-> [n \in 1..Len(lines) |-> NumbersIn(lines[n])[i]]]
        types == [i \in DOMAIN columns |-> ValueType(columns[i])]
        rising == {i \in DOMAIN columns : types[i] # "f32" /\ AxisStep(columns[i]) > 0}
        axis == IF rising = {} THEN 0 ELSE Min(rising)
    IN  [pieces |-> shape, names |-> NamesOf(shape), types |-> types, time |-> axis,
         twice |-> IF axis = 0 THEN 2 ELSE AxisStep(columns[axis]), lines |-> lines]

\* infer_patterns: those of two lines or more that hold a number, as they first appear.
InferPatterns(box) ==
    LET lines == SelectSeq([i \in 1..Len(box) |-> Strip(box[i])], LAMBDA l : l # <<>>)
        Alike(l) == SelectSeq(lines, LAMBDA m : Shape(m) = Shape(l))
        first == {i \in 1..Len(lines) :
            /\ Len(Alike(lines[i])) >= 2 /\ Len(Shape(lines[i])) >= 2
            /\ \A j \in 1..(i - 1) : Shape(lines[j]) # Shape(lines[i])}
        order == SetToSortSeq(first, <)
    IN  [n \in 1..Len(order) |-> PatternOf(Shape(lines[order[n]]), Alike(lines[order[n]]))]

\* parse_pattern takes the pattern: no name twice, none reserved.
Parses(p) ==
    /\ IsInjective(p.names)
    /\ \A i \in DOMAIN p.names : p.names[i] \notin {[stem |-> [word |-> w], copy |-> 1] : w \in Reserved}

----------------------------------------------------------------------------
\* The module's "`TextLineDecoder` decodes the lines it came from": the pattern matches
\* each, its numbers are read as the values' types, and the counter found misses none.
ReadsItsLines(p) ==
    /\ \A n \in DOMAIN p.lines :
        /\ Readings(p.pieces, p.lines[n]) # {}
        /\ \A slots \in Readings(p.pieces, p.lines[n]) :
              \A i \in DOMAIN p.types : Converts(p.types[i], slots[i])
    /\ p.time # 0 =>
        \A n \in 2..Len(p.lines) :
            LET d == NumbersIn(p.lines[n])[p.time] - NumbersIn(p.lines[n - 1])[p.time]
            IN  d > 0 /\ ~IsGap(d, p.twice)
=============================================================================
