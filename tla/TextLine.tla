------------------------------ MODULE TextLine ------------------------------
(***************************************************************************)
(* core/protocol/text_line.py: what a line pattern matches and what its    *)
(* values become, for the decoder (Link) and for the inference of patterns *)
(* from console output (Infer).                                            *)
(*                                                                         *)
(* A line is a sequence of tokens: whitespace, numbers, and words of fixed *)
(* text.  A pattern is its fixed text, cut where the slots are.            *)
(***************************************************************************)
EXTENDS Integers, Sequences, FiniteSets, FiniteSetsExt, SequencesExt

CONSTANTS
    SP,             \* a space
    Digits,         \* integers, each its own value; the words are others
    DOT,            \* a number that is not integral
    MaxU32, MaxI32  \* the widest values of the integer types

ASSUME TextLineAssumption ==
    /\ SP \in Int /\ DOT \in Int /\ Digits \subseteq Int /\ {SP, DOT} \cap Digits = {} /\ SP # DOT
    /\ MaxU32 \in Nat /\ MaxI32 \in Nat

NumberTokens == Digits \cup {DOT}

\* str.strip
Strip(l) ==
    LET ink == {i \in 1..Len(l) : l[i] # SP}
    IN  IF ink = {} THEN <<>> ELSE SubSeq(l, Min(ink), Max(ink))

----------------------------------------------------------------------------
(* Patterns: what each item of one leaves of a line. *)

\* The items: a word or a run of whitespace, <<token>>, or a slot, <<>>.
Words(piece) ==
    LET kept == {i \in 1..Len(piece) : piece[i] = SP => i = 1 \/ piece[i - 1] # SP}
    IN  [n \in 1..Cardinality(kept) |-> <<piece[SetToSortSeq(kept, <)[n]]>>]
Items(pieces) ==
    FlattenSeq([i \in 1..Len(pieces) |->
        IF i < Len(pieces) THEN Append(Words(pieces[i]), <<>>) ELSE Words(pieces[i])])

\* A reading: how far in the line, and what the slots so far hold.
AfterSlot(r, l) ==
    {[r EXCEPT !.slots = Append(@, <<>>)]}
        \cup {[at |-> r.at + 1, slots |-> Append(r.slots, <<l[i]>>)] :
                  i \in {r.at + 1} \cap {j \in 1..Len(l) : l[j] \in NumberTokens}}
AfterWord(r, l, word) ==
    {[r EXCEPT !.at = i] : i \in {j \in (r.at + 1)..Len(l) :
        \A k \in (r.at + 1)..j : l[k] = word /\ (word = SP \/ k = r.at + 1)}}
After(r, l, item) == IF item = <<>> THEN AfterSlot(r, l) ELSE AfterWord(r, l, item[1])

\* regex.fullmatch: the slots' contents, a number or nothing each; none if no match.
Readings(pieces, l) ==
    {r.slots : r \in {x \in FoldLeft(LAMBDA rs, item : UNION {After(r, l, item) : r \in rs},
                                     {[at |-> 0, slots |-> <<>>]}, Items(pieces)) :
                      x.at = Len(l)}}

\* _int_converter: an integer needs an integral value of its range.  _to_float: a number
\* takes anything.
RangeOf(type) == IF type = "u32" THEN 0..MaxU32 ELSE (-MaxI32 - 1)..MaxI32
Converts(type, slot) == type = "f32" \/ (slot # <<>> /\ slot[1] \in Digits \cap RangeOf(type))

\* _track_counter: a step of more than one and a half, of a stream whose step is `twice` / 2.
IsGap(distance, twice) == 4 * distance > 3 * twice
=============================================================================
