---------------------------- MODULE ConfigProofs ----------------------------
(***************************************************************************)
(* Proofs about Config, for any files, drafts, sources and edits:          *)
(*                                                                         *)
(*   - every operation of Draft and Struct leaves a sound draft sound, and *)
(*     its references to the fields it has (Sound);                        *)
(*   - every handler of the editor leaves its drafts sound, a field that   *)
(*     is there selected, and what is typed fit for what is shown          *)
(*     (EditorOK), with the mark true (Follows, Marked);                   *)
(*   - every action keeps the invariant (IInv), and so the references are  *)
(*     kept, the mark is true and the file is whole.                       *)
(***************************************************************************)
EXTENDS Config, SequenceTheorems, FunctionTheorems, FiniteSetTheorems, WellFoundedInduction, TLAPS

----------------------------------------------------------------------------
(* Sets and sequences. *)

\* The image of a finite set is finite.
LEMMA ImageFinite ==
  ASSUME NEW S, IsFiniteSet(S), NEW f, f = [x \in S |-> f[x]]
  PROVE  IsFiniteSet({f[x] : x \in S})
<1> DEFINE T == {f[x] : x \in S}
<1>1. f \in Surjection(S, T)
  BY DEF Surjection
<1> HIDE DEF T
<1> QED
  BY <1>1, FS_Surjection DEF T

\* Names of fields, one behind another: with one more, and with one less.
WithName(s, i, x) == InsertAt(s, i + 1, x)
LEMMA Inserted ==
  ASSUME NEW S, NEW s \in Seq(S), NEW i \in 0..Len(s), NEW x \in S
  PROVE  /\ WithName(s, i, x) \in Seq(S) /\ Len(WithName(s, i, x)) = Len(s) + 1
         /\ \A j \in 1..(Len(s) + 1) : WithName(s, i, x)[j] =
                IF j <= i THEN s[j] ELSE IF j = i + 1 THEN x ELSE s[j - 1]
<1>1. Len(s) \in Nat /\ i \in Nat
  BY LenProperties
<1>2. \A j \in 1..Len(s) : s[j] \in S
  BY ElementOfSeq
<1> DEFINE a == SubSeq(s, 1, i)
           b == SubSeq(s, i + 1, Len(s))
<1>3. a \in Seq(S) /\ Len(a) = i /\ \A j \in 1..i : a[j] = s[j]
  <2>1. \A j \in 1..i : s[j] \in S
    BY <1>1, <1>2
  <2> QED
    BY <1>1, <2>1, SubSeqProperties
<1>4. b \in Seq(S) /\ Len(b) = Len(s) - i /\ \A j \in 1..(Len(s) - i) : b[j] = s[i + j]
  <2>1. \A j \in (i + 1)..Len(s) : s[j] \in S
    BY <1>1, <1>2
  <2> QED
    BY <1>1, <2>1, SubSeqProperties
<1>5. InsertAt(s, i + 1, x) = (a \o <<x>>) \o b
  <2>1. PICK k : k = i + 1
    OBVIOUS
  <2>2. k - 1 = i
    BY <1>1, <2>1
  <2>3. InsertAt(s, k, x) = (SubSeq(s, 1, k - 1) \o <<x>>) \o SubSeq(s, k, Len(s))
    BY DEF InsertAt
  <2> QED
    BY <2>1, <2>2, <2>3
<1> HIDE DEF a, b
<1>6. <<x>> \in Seq(S) /\ Len(<<x>>) = 1 /\ <<x>>[1] = x
  OBVIOUS
<1> DEFINE c == a \o <<x>>
<1>7. /\ c \in Seq(S) /\ Len(c) = i + 1
      /\ \A j \in 1..(i + 1) : c[j] = IF j <= i THEN a[j] ELSE x
  <2>1. /\ c \in Seq(S) /\ Len(c) = Len(a) + Len(<<x>>)
        /\ \A j \in 1..(Len(a) + Len(<<x>>)) : c[j] = IF j <= Len(a) THEN a[j] ELSE <<x>>[j - Len(a)]
    BY <1>3, <1>6, ConcatProperties
  <2> QED
    BY <1>1, <1>3, <1>6, <2>1
<1> HIDE DEF c
<1> DEFINE d == c \o b
<1>8. /\ d \in Seq(S) /\ Len(d) = Len(s) + 1
      /\ \A j \in 1..(Len(s) + 1) : d[j] = IF j <= i + 1 THEN c[j] ELSE b[j - (i + 1)]
  <2>1. /\ d \in Seq(S) /\ Len(d) = Len(c) + Len(b)
        /\ \A j \in 1..(Len(c) + Len(b)) : d[j] = IF j <= Len(c) THEN c[j] ELSE b[j - Len(c)]
    BY <1>4, <1>7, ConcatProperties
  <2>2. Len(c) + Len(b) = Len(s) + 1
    BY <1>1, <1>4, <1>7
  <2> QED
    BY <1>7, <2>1, <2>2
<1> HIDE DEF d
<1>9. ASSUME NEW j \in 1..(Len(s) + 1)
      PROVE  d[j] = IF j <= i THEN s[j] ELSE IF j = i + 1 THEN x ELSE s[j - 1]
  <2>1. CASE j <= i
    BY <1>1, <1>3, <1>7, <1>8, <2>1
  <2>2. CASE j = i + 1
    BY <1>1, <1>7, <1>8, <2>2
  <2>3. CASE j > i + 1
    <3>1. j - (i + 1) \in 1..(Len(s) - i) /\ i + (j - (i + 1)) = j - 1
      BY <1>1, <2>3
    <3>2. d[j] = b[j - (i + 1)]
      BY <1>1, <1>8, <2>3
    <3>3. b[j - (i + 1)] = s[i + (j - (i + 1))]
      BY <1>4, <3>1
    <3> QED
      BY <1>1, <2>3, <3>1, <3>2, <3>3
  <2> QED
    BY <1>1, <2>1, <2>2, <2>3
<1>10. WithName(s, i, x) = d
  BY <1>5 DEF c, d, WithName
<1> QED
  BY <1>8, <1>9, <1>10

LEMMA Removed ==
  ASSUME NEW S, NEW s \in Seq(S), NEW i \in 1..Len(s)
  PROVE  /\ RemoveAt(s, i) \in Seq(S) /\ Len(RemoveAt(s, i)) = Len(s) - 1
         /\ \A j \in 1..(Len(s) - 1) : RemoveAt(s, i)[j] = IF j < i THEN s[j] ELSE s[j + 1]
<1>1. Len(s) \in Nat /\ i \in Nat
  BY LenProperties
<1>2. \A j \in 1..Len(s) : s[j] \in S
  BY ElementOfSeq
<1> DEFINE a == SubSeq(s, 1, i - 1)
           b == SubSeq(s, i + 1, Len(s))
<1>3. a \in Seq(S) /\ Len(a) = i - 1 /\ \A j \in 1..(i - 1) : a[j] = s[j]
  <2>1. \A j \in 1..(i - 1) : s[j] \in S
    BY <1>1, <1>2
  <2> QED
    BY <1>1, <2>1, SubSeqProperties
<1>4. b \in Seq(S) /\ Len(b) = Len(s) - i /\ \A j \in 1..(Len(s) - i) : b[j] = s[i + j]
  <2>1. \A j \in (i + 1)..Len(s) : s[j] \in S
    BY <1>1, <1>2
  <2> QED
    BY <1>1, <2>1, SubSeqProperties
<1>5. RemoveAt(s, i) = a \o b
  BY DEF RemoveAt
<1> HIDE DEF a, b
<1> DEFINE d == a \o b
<1>6. /\ d \in Seq(S) /\ Len(d) = Len(s) - 1
      /\ \A j \in 1..(Len(s) - 1) : d[j] = IF j <= i - 1 THEN a[j] ELSE b[j - (i - 1)]
  <2>1. /\ d \in Seq(S) /\ Len(d) = Len(a) + Len(b)
        /\ \A j \in 1..(Len(a) + Len(b)) : d[j] = IF j <= Len(a) THEN a[j] ELSE b[j - Len(a)]
    BY <1>3, <1>4, ConcatProperties
  <2>2. Len(a) + Len(b) = Len(s) - 1
    BY <1>1, <1>3, <1>4
  <2> QED
    BY <1>3, <2>1, <2>2
<1> HIDE DEF d
<1>7. ASSUME NEW j \in 1..(Len(s) - 1)
      PROVE  d[j] = IF j < i THEN s[j] ELSE s[j + 1]
  <2>1. CASE j < i
    BY <1>1, <1>3, <1>6, <2>1
  <2>2. CASE ~(j < i)
    <3>1. j - (i - 1) \in 1..(Len(s) - i) /\ i + (j - (i - 1)) = j + 1
      BY <1>1, <2>2
    <3>2. d[j] = b[j - (i - 1)]
      BY <1>1, <1>6, <2>2
    <3>3. b[j - (i - 1)] = s[i + (j - (i - 1))]
      BY <1>4, <3>1
    <3> QED
      BY <2>2, <3>1, <3>2, <3>3
  <2> QED
    BY <2>1, <2>2
<1>8. RemoveAt(s, i) = d
  BY <1>5 DEF d
<1> QED
  BY <1>6, <1>7, <1>8

----------------------------------------------------------------------------
(* Signals. *)

SignalParts == {"at", "key", "field", "label", "lane"}
DraftParts == {"name", "rest", "fields", "slots", "signals", "sim", "time"}

\* Each signal replaced by one with its key.
LEMMA MappedSignals ==
  ASSUME NEW ss, NEW fs, NEW gs, SoundSignals(ss, fs), NEW f, f = [s \in ss |-> f[s]],
         \A s \in ss : /\ Parts(f[s], SignalParts) /\ f[s].key = s.key /\ f[s].field \in gs
                      /\ f[s].at \in Nat
  PROVE  SoundSignals({f[s] : s \in ss}, gs)
<1>1. IsFiniteSet({f[s] : s \in ss})
  BY ImageFinite DEF SoundSignals
<1>2. \A s, t \in ss : f[s].key = f[t].key => f[s] = f[t]
  BY DEF SoundSignals
<1> QED
  BY <1>1, <1>2 DEF SoundSignals, SignalParts

LEMMA FewerSignals ==
  ASSUME NEW ss, NEW fs, NEW gs, SoundSignals(ss, fs), NEW T, T \subseteq ss,
         \A s \in T : s.field \in gs
  PROVE  SoundSignals(T, gs)
<1>1. IsFiniteSet(T)
  BY FS_Subset DEF SoundSignals
<1> QED
  BY <1>1 DEF SoundSignals

\* remove_signal
LEMMA RenumberedSignals ==
  ASSUME NEW ss, NEW fs, SoundSignals(ss, fs)
  PROVE  SoundSignals(Renumbered(ss), fs)
<1> DEFINE f == [s \in ss |-> [s EXCEPT !.at = Cardinality({t \in ss : t.at <= s.at})]]
<1>1. ASSUME NEW s \in ss, NEW n
      PROVE  Parts([s EXCEPT !.at = n], SignalParts) /\ [s EXCEPT !.at = n].key = s.key
             /\ [s EXCEPT !.at = n].field = s.field
  <2>1. Parts(s, SignalParts)
    BY DEF SoundSignals, SignalParts
  <2> QED
    BY <2>1 DEF Parts, SignalParts
<1>2. ASSUME NEW s \in ss
      PROVE  /\ Parts(f[s], SignalParts) /\ f[s].key = s.key /\ f[s].field \in fs
             /\ f[s].at \in Nat
  <2> DEFINE n == Cardinality({t \in ss : t.at <= s.at})
  <2>1. IsFiniteSet({t \in ss : t.at <= s.at})
    BY FS_Subset DEF SoundSignals
  <2>2. n \in Nat
    BY <2>1, FS_CardinalityType
  <2> HIDE DEF n
  <2>3. [s EXCEPT !.at = n].at = n
    BY DEF SoundSignals, Parts
  <2>4. f[s] = [s EXCEPT !.at = n]
    BY DEF n
  <2> QED
    BY <1>1, <2>2, <2>3, <2>4 DEF SoundSignals
<1>3. Renumbered(ss) = {f[s] : s \in ss}
  BY DEF Renumbered
<1>4. f = [s \in ss |-> f[s]]
  OBVIOUS
<1> HIDE DEF f
<1> QED
  BY <1>2, <1>3, <1>4, MappedSignals

----------------------------------------------------------------------------
(* Drafts: what draft.py does to one leaves it sound. *)

\* A draft with other signals of the fields it has.
LEMMA OtherSignals ==
  ASSUME NEW text, NEW d, Sound(text, d), NEW ss, SoundSignals(ss, FieldsOf(d))
  PROVE  Sound(text, [d EXCEPT !.signals = ss])
<1> DEFINE e == [d EXCEPT !.signals = ss]
<1>1. /\ Parts(e, DraftParts) /\ e.signals = ss /\ e.fields = d.fields /\ e.slots = d.slots
      /\ e.sim = d.sim /\ e.time = d.time
  BY DEF Sound, DraftParts, Parts
<1>2. FieldsOf(e) = FieldsOf(d)
  BY <1>1 DEF FieldsOf
<1> HIDE DEF e
<1>3. Sound(text, e)
  BY <1>1, <1>2 DEF Sound, DraftParts
<1> QED
  BY <1>3 DEF e

\* Its name, and the rest.
LEMMA OtherRest ==
  ASSUME NEW text, NEW d, Sound(text, d), NEW v, NEW part \in {"name", "rest"}
  PROVE  /\ Sound(text, [d EXCEPT ![part] = v]) /\ FieldsOf([d EXCEPT ![part] = v]) = FieldsOf(d)
         /\ KeysOf([d EXCEPT ![part] = v]) = KeysOf(d) /\ [d EXCEPT ![part] = v].slots = d.slots
<1> DEFINE e == [d EXCEPT ![part] = v]
<1>1. /\ Parts(e, DraftParts) /\ e.signals = d.signals /\ e.fields = d.fields /\ e.slots = d.slots
      /\ e.sim = d.sim /\ e.time = d.time
  BY DEF Sound, DraftParts, Parts
<1>2. FieldsOf(e) = FieldsOf(d) /\ KeysOf(e) = KeysOf(d)
  BY <1>1 DEF FieldsOf, KeysOf
<1> HIDE DEF e
<1>3. Sound(text, e)
  BY <1>1, <1>2 DEF Sound, DraftParts
<1> QED
  BY <1>1, <1>2, <1>3 DEF e

\* set_time
LEMMA SetTimeKeeps ==
  ASSUME NEW text \in BOOLEAN, NEW d, Sound(text, d),
         NEW n \in FieldsOf(d) \cup (IF text THEN {Line} ELSE {})
  PROVE  Sound(text, SetTime(d, n)) /\ FieldsOf(SetTime(d, n)) = FieldsOf(d)
<1> DEFINE e == [d EXCEPT !.time = n]
<1>1. /\ Parts(e, DraftParts) /\ e.signals = d.signals /\ e.fields = d.fields /\ e.slots = d.slots
      /\ e.sim = d.sim /\ e.time = n
  BY DEF Sound, DraftParts, Parts
<1>2. FieldsOf(e) = FieldsOf(d)
  BY <1>1 DEF FieldsOf
<1> HIDE DEF e
<1>3. Sound(text, e)
  BY <1>1, <1>2 DEF Sound, DraftParts
<1>4. SetTime(d, n) \in {d, e}
  BY DEF SetTime, e
<1> QED
  BY <1>2, <1>3, <1>4

NamesIn(s) == {s[i] : i \in 1..Len(s)}

\* The fields of a draft with others, one of them more.
LEMMA FieldsInserted ==
  ASSUME NEW d, NEW S, d.fields \in Seq(S), Distinct(d.fields), NEW i \in 0..Len(d.fields),
         NEW n \in S, n \notin FieldsOf(d)
  PROVE  /\ WithName(d.fields, i, n) \in Seq(S) /\ WithName(d.fields, i, n) # <<>>
         /\ Distinct(WithName(d.fields, i, n))
         /\ NamesIn(WithName(d.fields, i, n)) = FieldsOf(d) \cup {n}
<1> DEFINE f == d.fields
<1>1. Len(f) \in Nat /\ f \in Seq(S) /\ i \in 0..Len(f)
  BY LenProperties
<1>2. \A j, k \in 1..Len(f) : f[j] = f[k] => j = k
  BY DEF Distinct
<1>3. FieldsOf(d) = {f[j] : j \in 1..Len(f)}
  BY DEF FieldsOf
<1> HIDE DEF f
<1> DEFINE s == WithName(f, i, n)
<1>4. /\ s \in Seq(S) /\ Len(s) = Len(f) + 1
      /\ \A j \in 1..(Len(f) + 1) : s[j] =
             IF j <= i THEN f[j] ELSE IF j = i + 1 THEN n ELSE f[j - 1]
  <2> HIDE DEF s
  <2>1. WithName(f, i, n) \in Seq(S)
    BY <1>1, Inserted
  <2>2. Len(WithName(f, i, n)) = Len(f) + 1
    BY <1>1, Inserted
  <2>3. \A j \in 1..(Len(f) + 1) : WithName(f, i, n)[j] =
            IF j <= i THEN f[j] ELSE IF j = i + 1 THEN n ELSE f[j - 1]
    BY <1>1, Inserted
  <2> QED
    BY <2>1, <2>2, <2>3 DEF s
<1> HIDE DEF s
<1>5. i \in Nat /\ i <= Len(f) /\ \A j \in 1..Len(f) : f[j] # n
  BY <1>1, <1>3
<1>6. ASSUME NEW j \in 1..Len(s), NEW k \in 1..Len(s), s[j] = s[k]
      PROVE  j = k
  <2> DEFINE At(x) == IF x <= i THEN x ELSE x - 1
  <2>1. \A x \in 1..Len(s) : x # i + 1 => At(x) \in 1..Len(f) /\ s[x] = f[At(x)]
    BY <1>1, <1>4, <1>5
  <2>2. s[i + 1] = n
    BY <1>1, <1>4, <1>5
  <2>3. j = i + 1 <=> k = i + 1
    BY <1>5, <1>6, <2>1, <2>2
  <2>4. ASSUME j # i + 1, k # i + 1 PROVE j = k
    <3>1. At(j) = At(k)
      BY <1>2, <1>6, <2>1, <2>4
    <3> QED
      BY <1>1, <1>4, <1>5, <2>4, <3>1
  <2> QED
    BY <2>3, <2>4
<1>7. ASSUME NEW x PROVE x \in {s[j] : j \in 1..Len(s)} <=> x \in FieldsOf(d) \cup {n}
  <2>1. ASSUME NEW j \in 1..Len(s) PROVE s[j] \in FieldsOf(d) \cup {n}
    <3>1. CASE j <= i
      BY <1>1, <1>3, <1>4, <1>5, <3>1
    <3>2. CASE j = i + 1
      BY <1>1, <1>4, <1>5, <3>2
    <3>3. CASE j > i + 1
      <4>1. s[j] = f[j - 1] /\ j - 1 \in 1..Len(f)
        BY <1>1, <1>4, <1>5, <3>3
      <4> QED
        BY <1>3, <4>1
    <3> QED
      BY <1>1, <1>4, <1>5, <3>1, <3>2, <3>3
  <2>2. s[i + 1] = n /\ i + 1 \in 1..Len(s)
    BY <1>1, <1>4, <1>5
  <2>3. ASSUME NEW j \in 1..Len(f) PROVE \E k \in 1..Len(s) : s[k] = f[j]
    <3>1. CASE j <= i
      BY <1>1, <1>4, <3>1
    <3>2. CASE j > i
      <4>1. j + 1 \in 1..Len(s) /\ ~(j + 1 <= i) /\ j + 1 # i + 1 /\ j + 1 - 1 = j
        BY <1>1, <1>4, <1>5, <3>2
      <4>2. s[j + 1] = f[j + 1 - 1]
        BY <1>4, <4>1
      <4> QED
        BY <4>1, <4>2
    <3> QED
      BY <1>1, <1>5, <3>1, <3>2
  <2> QED
    BY <1>3, <2>1, <2>2, <2>3
<1>8. s # <<>>
  <2>1. Len(s) # 0
    BY <1>1, <1>4
  <2> QED
    BY <2>1
<1> QED
  BY <1>4, <1>6, <1>7, <1>8 DEF Distinct, NamesIn, s, f

\* Or one less.
LEMMA FieldsRemoved ==
  ASSUME NEW d, NEW S, d.fields \in Seq(S), Distinct(d.fields), NEW i \in 1..Len(d.fields)
  PROVE  /\ RemoveAt(d.fields, i) \in Seq(S) /\ Distinct(RemoveAt(d.fields, i))
         /\ Len(RemoveAt(d.fields, i)) = Len(d.fields) - 1
         /\ NamesIn(RemoveAt(d.fields, i)) = FieldsOf(d) \ {d.fields[i]}
<1> DEFINE f == d.fields
           s == RemoveAt(f, i)
<1>1. Len(f) \in Nat /\ f \in Seq(S) /\ i \in 1..Len(f)
  BY LenProperties
<1>2. \A j, k \in 1..Len(f) : f[j] = f[k] => j = k
  BY DEF Distinct
<1>3. FieldsOf(d) = {f[j] : j \in 1..Len(f)}
  BY DEF FieldsOf
<1>4. /\ s \in Seq(S) /\ Len(s) = Len(f) - 1
      /\ \A j \in 1..(Len(f) - 1) : s[j] = IF j < i THEN f[j] ELSE f[j + 1]
  BY <1>1, Removed
<1> HIDE DEF f, s
<1> DEFINE At(x) == IF x < i THEN x ELSE x + 1
<1>5. \A x \in 1..Len(s) : At(x) \in 1..Len(f) /\ At(x) # i /\ s[x] = f[At(x)]
  BY <1>1, <1>4
<1>6. ASSUME NEW j \in 1..Len(s), NEW k \in 1..Len(s), s[j] = s[k]
      PROVE  j = k
  <2>1. At(j) = At(k)
    BY <1>2, <1>5, <1>6
  <2> QED
    BY <1>1, <1>4, <2>1
<1>7. ASSUME NEW x PROVE x \in {s[j] : j \in 1..Len(s)} <=> x \in FieldsOf(d) \ {f[i]}
  <2>1. ASSUME NEW j \in 1..Len(s) PROVE s[j] \in FieldsOf(d) \ {f[i]}
    BY <1>1, <1>2, <1>3, <1>5
  <2>2. ASSUME NEW j \in 1..Len(f), f[j] # f[i] PROVE \E k \in 1..Len(s) : s[k] = f[j]
    <3>1. j # i
      BY <2>2
    <3>2. CASE j < i
      BY <1>1, <1>4, <3>2
    <3>3. CASE j > i
      <4>1. j - 1 \in 1..Len(s) /\ ~(j - 1 < i) /\ j - 1 + 1 = j
        BY <1>1, <1>4, <3>3
      <4>2. s[j - 1] = f[j - 1 + 1]
        BY <1>4, <4>1
      <4> QED
        BY <4>1, <4>2
    <3> QED
      BY <1>1, <3>1, <3>2, <3>3
  <2> QED
    BY <1>3, <2>1, <2>2
<1> QED
  BY <1>4, <1>6, <1>7 DEF Distinct, NamesIn, s, f

\* A text stream is one with a pattern.
LEMMA TextHasPattern ==
  ASSUME NEW text \in BOOLEAN, NEW d, Sound(text, d)
  PROVE  /\ text <=> IsText(d)
         /\ text /\ Parses(d) => d.slots = d.fields /\ d.fields # <<>>
         /\ Broken # <<>>
<1>1. Broken # <<>>
  BY EmptySeq, DraftAssumption
<1>2. CASE text
  BY <1>1, <1>2 DEF Sound, IsText, Parses
<1>3. CASE ~text
  BY <1>1, <1>3 DEF Sound, IsText
<1> QED
  BY <1>1, <1>2, <1>3

\* _forget_field: nothing refers to the fields that go.
LEMMA ForgetGives ==
  ASSUME NEW text \in BOOLEAN, NEW d, Sound(text, d), NEW gone
  PROVE  /\ Parts(Forget(d, gone), DraftParts)
         /\ Forget(d, gone).fields = d.fields /\ Forget(d, gone).slots = d.slots
         /\ SoundSignals(Forget(d, gone).signals, FieldsOf(d) \ gone)
         /\ Forget(d, gone).sim \subseteq FieldsOf(d) \ gone
         /\ text => Forget(d, gone).time \in (FieldsOf(d) \ gone) \cup {Line, None}
<1> DEFINE ss == Renumbered(d.signals \ SignalsOf(d, gone))
           time == IF IsText(d) /\ d.time \in gone THEN None ELSE d.time
           e == Forget(d, gone)
<1>1. SoundSignals(d.signals \ SignalsOf(d, gone), FieldsOf(d) \ gone)
  <2>1. SoundSignals(d.signals, FieldsOf(d))
    BY DEF Sound
  <2>2. \A s \in d.signals \ SignalsOf(d, gone) : s.field \in FieldsOf(d) \ gone
    BY <2>1 DEF SignalsOf, SoundSignals
  <2> QED
    BY <2>1, <2>2, FewerSignals
<1>2. SoundSignals(ss, FieldsOf(d) \ gone)
  BY <1>1, RenumberedSignals
<1>3. e = [[d EXCEPT !.signals = ss] EXCEPT !.sim = d.sim \ gone, !.time = time]
  BY DEF Forget, WithoutSignals, Sound, Parts
<1>4. Parts(d, DraftParts)
  BY DEF Sound, DraftParts
<1> HIDE DEF ss, time, e
<1>5. /\ Parts(e, DraftParts) /\ e.fields = d.fields /\ e.slots = d.slots
      /\ e.signals = ss /\ e.sim = d.sim \ gone /\ e.time = time
  BY <1>3, <1>4 DEF Parts, DraftParts
<1>6. e.sim \subseteq FieldsOf(d) \ gone
  BY <1>5 DEF Sound
<1>7. ASSUME text PROVE e.time \in (FieldsOf(d) \ gone) \cup {Line, None}
  BY <1>5, <1>7, TextHasPattern DEF time, Sound
<1> QED
  BY <1>2, <1>5, <1>6, <1>7 DEF e

WithFields(e, fields, slots) == [e EXCEPT !.fields = fields, !.slots = slots]

\* The references are to fields that stay: other fields, and the pattern with them.
LEMMA OtherFields ==
  ASSUME NEW text \in BOOLEAN, NEW e, Parts(e, DraftParts), NEW fields \in Seq(FieldNames), Distinct(fields),
         NEW slots, SoundSignals(e.signals, NamesIn(fields)), e.sim \subseteq NamesIn(fields),
         text => /\ fields \in Seq(Names) /\ slots = fields /\ fields # <<>>
                 /\ e.time \in NamesIn(fields) \cup {Line, None},
         ~text => slots = <<>>
  PROVE  /\ Sound(text, WithFields(e, fields, slots))
         /\ FieldsOf(WithFields(e, fields, slots)) = NamesIn(fields)
<1> DEFINE f == WithFields(e, fields, slots)
<1>1. /\ Parts(f, DraftParts) /\ f.fields = fields /\ f.slots = slots
      /\ f.signals = e.signals /\ f.sim = e.sim /\ f.time = e.time
  BY DEF Parts, DraftParts, WithFields
<1> HIDE DEF f
<1>2. FieldsOf(f) = NamesIn(fields)
  BY <1>1 DEF FieldsOf, NamesIn
<1>3. Sound(text, f)
  BY <1>1, <1>2 DEF Sound, DraftParts
<1> QED
  BY <1>2, <1>3 DEF f

\* set_pattern
LEMMA SetPatternKeeps ==
  ASSUME NEW text \in BOOLEAN, text, NEW d, Sound(text, d), NEW slots, IsPattern(slots)
  PROVE  Sound(text, SetPattern(d, slots)) /\ FieldsOf(SetPattern(d, slots)) = NamesIn(slots)
<1> DEFINE names == NamesIn(slots)
           gone == FieldsOf(d) \ names
           e == Forget(d, gone)
<1>3. SetPattern(d, slots) = WithFields(e, slots, slots)
  BY DEF SetPattern, NamesIn, WithFields
<1>0. FieldsOf(d) \ gone \subseteq names
  OBVIOUS
<1> HIDE DEF gone, names
<1>1. /\ Parts(e, DraftParts) /\ SoundSignals(e.signals, FieldsOf(d) \ gone)
      /\ e.sim \subseteq FieldsOf(d) \ gone /\ e.time \in (FieldsOf(d) \ gone) \cup {Line, None}
  BY ForgetGives
<1>2. slots \in Seq(FieldNames) /\ slots \in Seq(Names) /\ slots # <<>> /\ Distinct(slots)
  BY SeqMonotonic DEF IsPattern, FieldNames
<1> HIDE DEF e
<1>4. SoundSignals(e.signals, names)
  BY <1>0, <1>1, FewerSignals DEF SoundSignals
<1>5. e.sim \subseteq names /\ e.time \in names \cup {Line, None}
  BY <1>0, <1>1
<1>6. Sound(text, WithFields(e, slots, slots)) /\ FieldsOf(WithFields(e, slots, slots)) = NamesIn(slots)
  BY <1>1, <1>2, <1>4, <1>5, OtherFields DEF names
<1> QED
  BY <1>3, <1>6

\* add_value_after, add_field
LEMMA InsertFieldKeeps ==
  ASSUME NEW text \in BOOLEAN, NEW d, Sound(text, d), ~text \/ Parses(d),
         NEW i \in 0..Len(d.fields), NEW n \in Names, n \notin FieldsOf(d)
  PROVE  Sound(text, InsertField(d, i, n)) /\ FieldsOf(InsertField(d, i, n)) = FieldsOf(d) \cup {n}
<1> DEFINE s == WithName(d.fields, i, n)
           slots == IF text THEN s ELSE <<>>
<1>1. d.fields \in Seq(FieldNames) /\ Distinct(d.fields) /\ Parts(d, DraftParts)
  BY DEF Sound, DraftParts
<1>0. n \in FieldNames /\ Names \subseteq FieldNames /\ FieldNames \subseteq FieldNames
  BY DEF FieldNames
<1>2. s \in Seq(FieldNames) /\ s # <<>> /\ Distinct(s) /\ NamesIn(s) = FieldsOf(d) \cup {n}
  BY <1>0, <1>1, FieldsInserted
<1>3. text => s \in Seq(Names)
  <2> SUFFICES ASSUME text PROVE s \in Seq(Names)
    OBVIOUS
  <2>1. d.fields \in Seq(Names) /\ Distinct(d.fields)
    BY <1>1 DEF Sound
  <2>2. WithName(d.fields, i, n) \in Seq(Names)
    BY <2>1, FieldsInserted, Zenon
  <2> QED
    BY <2>2
<1>4. InsertField(d, i, n) = WithFields(d, s, slots)
  <2>1. CASE text
    BY <2>1, TextHasPattern DEF InsertField, WithFields, WithName
  <2>2. CASE ~text
    BY <2>2, TextHasPattern DEF InsertField, Sound, WithFields, WithName
  <2> QED
    BY <2>1, <2>2
<1>9. (text => slots = s) /\ (~text => slots = <<>>)
  OBVIOUS
<1> HIDE DEF s, slots
<1>5. SoundSignals(d.signals, NamesIn(s)) /\ d.sim \subseteq NamesIn(s)
  BY <1>2, FewerSignals DEF Sound, SoundSignals
<1>6. text => d.time \in NamesIn(s) \cup {Line, None}
  BY <1>2 DEF Sound
<1>7. Sound(text, WithFields(d, s, slots)) /\ FieldsOf(WithFields(d, s, slots)) = NamesIn(s)
  BY <1>1, <1>2, <1>3, <1>5, <1>6, <1>9, OtherFields
<1> QED
  BY <1>2, <1>4, <1>7

\* remove_value, remove_field
LEMMA DropFieldKeeps ==
  ASSUME NEW text \in BOOLEAN, NEW d, Sound(text, d), text => Parses(d) /\ Len(d.slots) > 1,
         NEW i \in 1..Len(d.fields)
  PROVE  Sound(text, DropField(d, i))
<1> DEFINE s == RemoveAt(d.fields, i)
           slots == IF text THEN s ELSE <<>>
           gone == {d.fields[i]}
           e == Forget(d, gone)
<1>1. d.fields \in Seq(FieldNames) /\ Distinct(d.fields)
  BY DEF Sound
<1>2. /\ s \in Seq(FieldNames) /\ Distinct(s) /\ NamesIn(s) = FieldsOf(d) \ gone
      /\ Len(s) = Len(d.fields) - 1
  BY <1>1, FieldsRemoved
<1>3. text => s \in Seq(Names)
  BY <1>1, FieldsRemoved DEF Sound
<1>8. DropField(d, i) = [e EXCEPT !.fields = RemoveAt(e.fields, i),
                                  !.slots = IF IsText(d) THEN RemoveAt(e.slots, i) ELSE e.slots]
  BY DEF DropField
<1>9. (text => slots = s) /\ (~text => slots = <<>>)
  OBVIOUS
<1> HIDE DEF gone
<1>4. /\ Parts(e, DraftParts) /\ SoundSignals(e.signals, FieldsOf(d) \ gone)
      /\ e.sim \subseteq FieldsOf(d) \ gone /\ (text => e.time \in (FieldsOf(d) \ gone) \cup {Line, None})
      /\ e.fields = d.fields /\ e.slots = d.slots
  BY ForgetGives
<1> HIDE DEF e
<1>5. DropField(d, i) = WithFields(e, s, slots)
  <2>1. CASE text
    BY <2>1, <1>4, <1>8, TextHasPattern DEF WithFields
  <2>2. CASE ~text
    BY <2>2, <1>4, <1>8, TextHasPattern DEF Sound, WithFields
  <2> QED
    BY <2>1, <2>2
<1> HIDE DEF s, slots
<1>6. text => s # <<>>
  <2> SUFFICES ASSUME text PROVE s # <<>>
    OBVIOUS
  <2>1. d.slots = d.fields /\ Len(d.fields) \in Nat
    BY <1>1, TextHasPattern, LenProperties
  <2>2. PICK n : n = Len(d.fields)
    OBVIOUS
  <2>3. n > 1 /\ n \in Nat /\ Len(s) = n - 1
    BY <1>2, <2>1, <2>2
  <2>4. Len(s) # 0
    BY <2>3
  <2> QED
    BY <2>4
<1>7. SoundSignals(e.signals, NamesIn(s)) /\ e.sim \subseteq NamesIn(s)
  BY <1>2, <1>4
<1>10. text => s \in Seq(Names) /\ slots = s /\ s # <<>> /\ e.time \in NamesIn(s) \cup {Line, None}
  BY <1>2, <1>3, <1>4, <1>6, <1>9
<1>11. Parts(e, DraftParts) /\ s \in Seq(FieldNames) /\ Distinct(s) /\ (~text => slots = <<>>)
  BY <1>2, <1>4, <1>9
<1>12. Sound(text, WithFields(e, s, slots))
  BY <1>7, <1>10, <1>11, OtherFields
<1> QED
  BY <1>5, <1>12

\* rename_field, of what names the fields.
LEMMA RenamedNames ==
  ASSUME NEW S, NEW s \in Seq(S), Distinct(s), NEW old, NEW new \in S, new \notin NamesIn(s)
  PROVE  /\ Renamed(s, old, new) \in Seq(S) /\ Len(Renamed(s, old, new)) = Len(s)
         /\ Distinct(Renamed(s, old, new))
         /\ \A x \in NamesIn(s) : x # old => x \in NamesIn(Renamed(s, old, new))
         /\ old \in NamesIn(s) => new \in NamesIn(Renamed(s, old, new))
<1>1. Len(s) \in Nat /\ \A i \in 1..Len(s) : s[i] \in S
  BY LenProperties, ElementOfSeq
<1> DEFINE t == Renamed(s, old, new)
<1>2. t = [i \in 1..Len(s) |-> IF s[i] = old THEN new ELSE s[i]]
  BY DEF Renamed
<1> HIDE DEF t
<1>3. t \in [1..Len(s) -> S]
  BY <1>1, <1>2
<1>4. t \in Seq(S) /\ Len(t) = Len(s)
  BY <1>1, <1>3, SeqDef, LenProperties
<1>5. \A i \in 1..Len(s) : t[i] = IF s[i] = old THEN new ELSE s[i]
  BY <1>2
<1>6. \A i \in 1..Len(s) : s[i] # new
  BY DEF NamesIn
<1>7. Distinct(t)
  BY <1>4, <1>5, <1>6 DEF Distinct
<1>8. ASSUME NEW x \in NamesIn(s), x # old PROVE x \in NamesIn(t)
  BY <1>4, <1>5, <1>8 DEF NamesIn
<1>9. ASSUME old \in NamesIn(s) PROVE new \in NamesIn(t)
  BY <1>4, <1>5, <1>9 DEF NamesIn
<1> QED
  BY <1>4, <1>7, <1>8, <1>9 DEF t

\* All of a draft's parts that name fields, at once.
LEMMA OtherParts ==
  ASSUME NEW text \in BOOLEAN, NEW f, Parts(f, DraftParts), f.fields \in Seq(FieldNames), Distinct(f.fields),
         SoundSignals(f.signals, FieldsOf(f)), f.sim \subseteq FieldsOf(f),
         text => f.fields \in Seq(Names) /\ f.slots = f.fields /\ f.fields # <<>>,
         text => f.time \in FieldsOf(f) \cup {Line, None},
         ~text => f.slots = <<>>
  PROVE  Sound(text, f)
BY DEF Sound, DraftParts

\* rename_field
LEMMA RenameKeeps ==
  ASSUME NEW text \in BOOLEAN, NEW d, Sound(text, d), ~text \/ Parses(d),
         NEW old \in FieldsOf(d), NEW new \in Names, new \notin FieldsOf(d)
  PROVE  /\ Sound(text, RenameAll(d, old, new)) /\ new \in FieldsOf(RenameAll(d, old, new))
         /\ ~text \/ Parses(RenameAll(d, old, new))
<1> DEFINE f == RenameAll(d, old, new)
           fields == Renamed(d.fields, old, new)
           signals == {Repointed(s, old, new) : s \in d.signals}
           sim == IF old \in d.sim THEN (d.sim \ {old}) \cup {new} ELSE d.sim
           time == IF d.time = old THEN new ELSE d.time
<1>1. Parts(d, DraftParts) /\ d.fields \in Seq(FieldNames) /\ Distinct(d.fields)
  BY DEF Sound, DraftParts
<1>2. FieldsOf(d) = NamesIn(d.fields) /\ new \in FieldNames
  BY DEF FieldsOf, NamesIn, FieldNames
<1>3. /\ Parts(f, DraftParts) /\ f.fields = fields /\ f.signals = signals /\ f.sim = sim /\ f.time = time
      /\ f.slots = IF IsText(d) THEN Renamed(d.slots, old, new) ELSE d.slots
  BY <1>1 DEF RenameAll, Parts, DraftParts
<1> HIDE DEF f
<1>4. /\ fields \in Seq(FieldNames) /\ Len(fields) = Len(d.fields) /\ Distinct(fields)
      /\ \A x \in FieldsOf(d) : x # old => x \in NamesIn(fields)
      /\ new \in NamesIn(fields)
  BY <1>1, <1>2, RenamedNames
<1>5. text => fields \in Seq(Names)
  BY <1>1, <1>2, RenamedNames DEF Sound
<1>6. SoundSignals(signals, NamesIn(fields))
  <2> DEFINE g == [s \in d.signals |-> Repointed(s, old, new)]
  <2>1. SoundSignals(d.signals, FieldsOf(d))
    BY DEF Sound
  <2>2. ASSUME NEW s \in d.signals
        PROVE  /\ Parts(g[s], SignalParts) /\ g[s].key = s.key /\ g[s].field \in NamesIn(fields)
               /\ g[s].at \in Nat
    <3>1. Parts(s, SignalParts) /\ s.field \in FieldsOf(d) /\ s.at \in Nat
      BY <2>1 DEF SoundSignals, SignalParts
    <3>2. CASE s.field = old
      <4>1. g[s] = [s EXCEPT !.field = new]
        BY <3>2 DEF Repointed
      <4> QED
        BY <1>4, <3>1, <4>1 DEF Parts, SignalParts
    <3>3. CASE s.field # old
      BY <1>4, <3>1, <3>3 DEF Repointed
    <3> QED
      BY <3>2, <3>3
  <2>3. signals = {g[s] : s \in d.signals} /\ g = [s \in d.signals |-> g[s]]
    OBVIOUS
  <2> HIDE DEF g
  <2> QED
    BY <2>1, <2>2, <2>3, MappedSignals
<1>7. f.slots = IF text THEN fields ELSE <<>>
  <2>1. CASE text
    BY <2>1, <1>3, TextHasPattern
  <2>2. CASE ~text
    BY <2>2, <1>3, TextHasPattern DEF Sound
  <2> QED
    BY <2>1, <2>2
<1>8. sim \subseteq NamesIn(fields)
  BY <1>4 DEF Sound
<1>9. text => time \in NamesIn(fields) \cup {Line, None}
  BY <1>4 DEF Sound
<1> HIDE DEF fields, signals, sim, time
<1>10. text => fields # <<>>
  <2> SUFFICES ASSUME text PROVE Len(fields) # 0
    BY <1>4
  <2>1. d.fields # <<>>
    BY TextHasPattern
  <2> QED
    BY <1>1, <1>4, <2>1, EmptySeq
<1>11. FieldsOf(f) = NamesIn(fields)
  BY <1>3 DEF FieldsOf, NamesIn
<1>12. ~text \/ Parses(f)
  BY <1>5, <1>7, DraftAssumption DEF Parses
<1> QED
  BY <1>3, <1>4, <1>5, <1>6, <1>7, <1>8, <1>9, <1>10, <1>11, <1>12, OtherParts DEF f

\* move_field
LEMMA MoveKeeps ==
  ASSUME NEW text \in BOOLEAN, ~text, NEW d, Sound(text, d), NEW i \in 1..Len(d.fields), NEW j \in 1..Len(d.fields)
  PROVE  Sound(text, MoveField(d, i, j)) /\ FieldsOf(MoveField(d, i, j)) = FieldsOf(d)
<1> DEFINE s == d.fields
           t == [s EXCEPT ![i] = s[j], ![j] = s[i]]
           f == MoveField(d, i, j)
<1>1. Parts(d, DraftParts) /\ s \in Seq(FieldNames) /\ \A k, l \in 1..Len(s) : s[k] = s[l] => k = l
  BY DEF Sound, DraftParts, Distinct
<1>2. Parts(f, DraftParts) /\ f.fields = t /\ f.signals = d.signals /\ f.slots = d.slots /\ f.sim = d.sim
  BY <1>1 DEF MoveField, Parts, DraftParts
<1>3. i \in 1..Len(s) /\ j \in 1..Len(s) /\ Len(s) \in Nat /\ \A k \in 1..Len(s) : s[k] \in FieldNames
  BY <1>1, LenProperties, ElementOfSeq
<1>4. FieldsOf(d) = {s[k] : k \in 1..Len(s)}
  BY DEF FieldsOf
<1>5. s \in [1..Len(s) -> FieldNames]
  BY <1>1, SeqDef, LenProperties
<1> HIDE DEF s, f
<1>6. t \in [1..Len(s) -> FieldNames] /\ \A k \in 1..Len(s) : t[k] = IF k = j THEN s[i] ELSE IF k = i THEN s[j] ELSE s[k]
  BY <1>3, <1>5
<1> HIDE DEF t
<1>7. t \in Seq(FieldNames) /\ Len(t) = Len(s)
  BY <1>3, <1>6, SeqDef, LenProperties
<1>8. Distinct(t)
  BY <1>1, <1>3, <1>6, <1>7 DEF Distinct
<1>9. FieldsOf(f) = FieldsOf(d)
  <2>1. FieldsOf(f) = {t[k] : k \in 1..Len(s)}
    BY <1>2, <1>7 DEF FieldsOf
  <2>2. ASSUME NEW k \in 1..Len(s) PROVE t[k] \in FieldsOf(d)
    BY <1>3, <1>4, <1>6
  <2>3. ASSUME NEW k \in 1..Len(s) PROVE \E l \in 1..Len(s) : t[l] = s[k]
    <3>1. CASE k = i
      BY <1>3, <1>6, <3>1
    <3>2. CASE k = j
      BY <1>3, <1>6, <3>2
    <3>3. CASE k # i /\ k # j
      BY <1>6, <3>3
    <3> QED
      BY <3>1, <3>2, <3>3
  <2> QED
    BY <1>4, <2>1, <2>2, <2>3
<1>10. SoundSignals(f.signals, FieldsOf(f)) /\ f.sim \subseteq FieldsOf(f) /\ f.slots = <<>>
  BY <1>2, <1>9 DEF Sound
<1> QED
  BY <1>2, <1>7, <1>8, <1>9, <1>10, OtherParts DEF f

\* A set of numbers that is not empty has a least one.
LEMMA LeastOf ==
  ASSUME NEW T, T \subseteq Nat, T # {}
  PROVE  \E x \in T : \A y \in T : x <= y
<1> DEFINE R == OpToRel(<, Nat)
<1>1. IsWellFoundedOn(R, Nat)
  BY NatLessThanWellFounded
<1>2. \A x, y \in Nat : <<y, x>> \in R <=> y < x
  BY DEF OpToRel
<1> HIDE DEF R
<1>3. PICK x \in T : \A y \in T : ~ (<<y, x>> \in R)
  BY <1>1, WFMin
<1>4. ASSUME NEW y \in T PROVE x <= y
  <2>1. x \in Nat /\ y \in Nat
    OBVIOUS
  <2>2. ~(y < x)
    BY <1>2, <1>3, <2>1
  <2> QED
    BY <2>1, <2>2
<1> QED
  BY <1>4

\* unique_name finds one: there is one number more than there are keys.
LEMMA FreshKey ==
  ASSUME NEW taken, IsFiniteSet(taken), NEW base
  PROVE  UniqueKey(base, taken) \notin taken
<1> DEFINE N == Cardinality(taken)
           free == FreeNumbers(base, taken)
           f == [n \in 1..(N + 1) |-> [base |-> base, n |-> n]]
<1>1. N \in Nat
  BY FS_CardinalityType
<1>2. IsFiniteSet(1..(N + 1)) /\ Cardinality(1..(N + 1)) = N + 1
  BY <1>1, FS_Interval
<1>3. free # {}
  <2> SUFFICES ASSUME free = {} PROVE FALSE
    OBVIOUS
  <2>1. \A n \in 1..(N + 1) : f[n] \in taken
    BY DEF FreeNumbers
  <2>2. f \in [1..(N + 1) -> taken]
    BY <2>1
  <2>3. \A m, n \in 1..(N + 1) : f[m] = f[n] => m = n
    <3> SUFFICES ASSUME NEW m \in 1..(N + 1), NEW n \in 1..(N + 1), f[m] = f[n] PROVE m = n
      OBVIOUS
    <3>1. f[m].n = m /\ f[n].n = n
      OBVIOUS
    <3> QED
      BY <3>1
  <2> HIDE DEF f
  <2>4. PICK K : K = 1..(N + 1)
    OBVIOUS
  <2>5. IsFiniteSet(K) /\ Cardinality(taken) < Cardinality(K) /\ f \in [K -> taken]
    BY <1>1, <1>2, <2>2, <2>4
  <2>6. \A m, n \in K : f[m] = f[n] => m = n
    BY <2>3, <2>4
  <2> HIDE DEF N
  <2> QED
    BY <2>5, <2>6, FS_PigeonHole
<1>4. free \subseteq Nat
  BY <1>1 DEF FreeNumbers
<1>5. PICK n \in free : \A m \in free : n <= m
  BY <1>3, <1>4, LeastOf
<1> DEFINE k == CHOOSE n_1 \in free : \A m \in free : n_1 <= m
<1>6. k \in free
  BY <1>5
<1>7. UniqueKey(base, taken) = [base |-> base, n |-> k]
  BY DEF UniqueKey
<1> QED
  BY <1>6, <1>7 DEF FreeNumbers

KeysIn(ss) == {s.key : s \in ss}

\* One signal more, or in the place of those with its key.
LEMMA OneMore ==
  ASSUME NEW ss, NEW fs, SoundSignals(ss, fs), NEW taken, taken \subseteq ss, NEW t, Parts(t, SignalParts), t.field \in fs, t.at \in Nat,
         \A s \in ss : s.key = t.key => s \in taken
  PROVE  SoundSignals((ss \ taken) \cup {t}, fs)
<1>1. IsFiniteSet(ss \ taken)
  BY FS_Subset DEF SoundSignals
<1>2. IsFiniteSet((ss \ taken) \cup {t})
  BY <1>1, FS_AddElement
<1> QED
  BY <1>2 DEF SoundSignals, SignalParts

\* add_signal
LEMMA AddSignalKeeps ==
  ASSUME NEW text \in BOOLEAN, NEW d, Sound(text, d), NEW f \in FieldsOf(d), NEW lane
  PROVE  /\ Sound(text, AddSignal(d, f, lane)) /\ FieldsOf(AddSignal(d, f, lane)) = FieldsOf(d)
<1> DEFINE t == [at |-> Cardinality(d.signals) + 1, key |-> AddedKey(d, f), field |-> f, label |-> f, lane |-> lane]
           ss == d.signals \cup {t}
<1>1. SoundSignals(d.signals, FieldsOf(d))
  BY DEF Sound
<1>2. AddedKey(d, f) \notin KeysOf(d)
  <2>1. IsFiniteSet(KeysOf(d))
    <3> DEFINE g == [s \in d.signals |-> s.key]
    <3>1. KeysOf(d) = {g[s] : s \in d.signals} /\ g = [s \in d.signals |-> g[s]]
      BY DEF KeysOf
    <3> HIDE DEF g
    <3> QED
      BY <1>1, <3>1, ImageFinite DEF SoundSignals
  <2> QED
    BY <2>1, FreshKey DEF AddedKey
<1>3. SoundSignals(ss, FieldsOf(d))
  <2>1. Parts(t, SignalParts) /\ t.field = f /\ t.key = AddedKey(d, f) /\ t.at \in Nat
    BY <1>1, FS_CardinalityType DEF Parts, SignalParts, SoundSignals
  <2>2. \A s \in d.signals : s.key # t.key
    BY <1>2, <2>1 DEF KeysOf
  <2>3. ss = (d.signals \ {}) \cup {t}
    OBVIOUS
  <2> HIDE DEF t, ss
  <2> QED
    BY <1>1, <2>1, <2>2, <2>3, OneMore
<1>4. AddSignal(d, f, lane) = [d EXCEPT !.signals = ss]
  BY DEF AddSignal, Sound, Parts
<1> HIDE DEF ss
<1>5. FieldsOf([d EXCEPT !.signals = ss]) = FieldsOf(d)
  BY DEF FieldsOf, Sound, Parts
<1> QED
  BY <1>3, <1>4, <1>5, OtherSignals

\* Signals without some, with other labels or in other lanes.
LEMMA WithoutSignalsKeeps ==
  ASSUME NEW text \in BOOLEAN, NEW d, Sound(text, d), NEW gone
  PROVE  Sound(text, WithoutSignals(d, gone)) /\ FieldsOf(WithoutSignals(d, gone)) = FieldsOf(d)
<1> DEFINE ss == Renumbered(d.signals \ gone)
<1>1. SoundSignals(d.signals, FieldsOf(d))
  BY DEF Sound
<1>2. SoundSignals(d.signals \ gone, FieldsOf(d))
  <2>1. \A s \in d.signals \ gone : s.field \in FieldsOf(d)
    BY <1>1 DEF SoundSignals
  <2> QED
    BY <1>1, <2>1, FewerSignals
<1>3. SoundSignals(ss, FieldsOf(d))
  BY <1>2, RenumberedSignals
<1>4. WithoutSignals(d, gone) = [d EXCEPT !.signals = ss]
  BY DEF WithoutSignals, Sound, Parts
<1> HIDE DEF ss
<1>5. FieldsOf([d EXCEPT !.signals = ss]) = FieldsOf(d)
  BY DEF FieldsOf, Sound, Parts
<1> QED
  BY <1>3, <1>4, <1>5, OtherSignals

LEMMA SetLabelKeeps ==
  ASSUME NEW text \in BOOLEAN, NEW d, Sound(text, d), NEW keys, NEW label
  PROVE  Sound(text, SetLabel(d, keys, label)) /\ FieldsOf(SetLabel(d, keys, label)) = FieldsOf(d)
<1> DEFINE g == [s \in d.signals |-> WithLabel(s, keys, label)]
           ss == {g[s] : s \in d.signals}
<1>1. SoundSignals(d.signals, FieldsOf(d))
  BY DEF Sound
<1>2. ASSUME NEW s \in d.signals
      PROVE  /\ Parts(g[s], SignalParts) /\ g[s].key = s.key /\ g[s].field \in FieldsOf(d)
             /\ g[s].at \in Nat
  <2>1. Parts(s, SignalParts) /\ s.field \in FieldsOf(d) /\ s.at \in Nat
    BY <1>1 DEF SoundSignals, SignalParts
  <2> QED
    BY <2>1 DEF WithLabel, Parts, SignalParts
<1>3. g = [s \in d.signals |-> g[s]]
  OBVIOUS
<1>4. SetLabel(d, keys, label) = [d EXCEPT !.signals = ss]
  BY DEF SetLabel, Sound, Parts
<1> HIDE DEF g
<1>5. SoundSignals(ss, FieldsOf(d))
  BY <1>1, <1>2, <1>3, MappedSignals
<1> HIDE DEF ss
<1>6. FieldsOf([d EXCEPT !.signals = ss]) = FieldsOf(d)
  BY DEF FieldsOf, Sound, Parts
<1> QED
  BY <1>4, <1>5, <1>6, OtherSignals

LEMMA SetLaneKeeps ==
  ASSUME NEW text \in BOOLEAN, NEW d, Sound(text, d), NEW keys, NEW lane
  PROVE  Sound(text, SetLane(d, keys, lane)) /\ FieldsOf(SetLane(d, keys, lane)) = FieldsOf(d)
<1> DEFINE g == [s \in d.signals |-> InLane(s, keys, lane)]
           ss == {g[s] : s \in d.signals}
<1>1. SoundSignals(d.signals, FieldsOf(d))
  BY DEF Sound
<1>2. ASSUME NEW s \in d.signals
      PROVE  /\ Parts(g[s], SignalParts) /\ g[s].key = s.key /\ g[s].field \in FieldsOf(d)
             /\ g[s].at \in Nat
  <2>1. Parts(s, SignalParts) /\ s.field \in FieldsOf(d) /\ s.at \in Nat
    BY <1>1 DEF SoundSignals, SignalParts
  <2> QED
    BY <2>1 DEF InLane, Parts, SignalParts
<1>3. g = [s \in d.signals |-> g[s]]
  OBVIOUS
<1>4. SetLane(d, keys, lane) = [d EXCEPT !.signals = ss]
  BY DEF SetLane, Sound, Parts
<1> HIDE DEF g
<1>5. SoundSignals(ss, FieldsOf(d))
  BY <1>1, <1>2, <1>3, MappedSignals
<1> HIDE DEF ss
<1>6. FieldsOf([d EXCEPT !.signals = ss]) = FieldsOf(d)
  BY DEF FieldsOf, Sound, Parts
<1> QED
  BY <1>4, <1>5, <1>6, OtherSignals

\* create_stream
LEMMA NewDraftIsSound ==
  ASSUME NEW text \in BOOLEAN
  PROVE  Sound(text, NewDraft(text))
<1> DEFINE n == CHOOSE n_1 \in Names : ~text => n_1 = LoopCntr
           f == NewDraft(text)
<1>1. n \in Names
  BY DraftAssumption
<1> DEFINE label == CHOOSE l \in Labels : TRUE
           slots == IF text THEN <<n>> ELSE <<>>
<1>2. /\ Parts(f, DraftParts) /\ f.fields = <<n>> /\ f.slots = slots
      /\ f.signals = {} /\ f.sim = {} /\ f.time = None
  <2>1. f = [name |-> label, rest |-> 0, fields |-> <<n>>,
             slots |-> slots, signals |-> {}, sim |-> {}, time |-> None]
    BY DEF NewDraft
  <2> HIDE DEF n, f, label, slots
  <2> QED
    BY <2>1 DEF Parts, DraftParts
<1> HIDE DEF n, f
<1>3. <<n>> \in Seq(Names) /\ <<n>> \in Seq(FieldNames) /\ <<n>> # <<>> /\ Distinct(<<n>>)
  BY <1>1 DEF FieldNames, Distinct
<1>4. SoundSignals({}, FieldsOf(f))
  BY FS_EmptySet DEF SoundSignals
<1> QED
  BY <1>2, <1>3, <1>4, OtherParts DEF f

----------------------------------------------------------------------------
(* Streams of a struct. *)

\* What holds at 0, and goes on to the next number up to N, holds up to N.
LEMMA Upto ==
  ASSUME NEW N \in Nat, NEW A, 0 \in A, \A m \in 0..(N - 1) : m \in A => m + 1 \in A
  PROVE  \A m \in 0..N : m \in A
<1> DEFINE T == {m \in 0..N : m \notin A}
<1>1. SUFFICES ASSUME T # {} PROVE FALSE
  OBVIOUS
<1>2. PICK x \in T : \A y \in T : x <= y
  <2>1. T \subseteq Nat
    OBVIOUS
  <2> HIDE DEF T
  <2> QED
    BY <1>1, <2>1, LeastOf
<1>3. x \in Nat /\ x # 0 /\ x <= N
  OBVIOUS
<1>4. PICK m : m = x - 1
  OBVIOUS
<1>5. m \in 0..(N - 1) /\ m + 1 = x /\ m \in 0..N /\ ~(x <= m)
  BY <1>3, <1>4
<1>6. m \in A
  BY <1>2, <1>5
<1> QED
  BY <1>5, <1>6

\* The results of plotting the names whose places are in a set, the last one last.
Folded(it, n, d, names, known, spare) ==
    it = [S \in SUBSET (1..n) |-> IF S = {} THEN d
                                  ELSE PlotNew(it[S \ {Max(S)}], names[Max(S)], known, spare)]

LEMMA FoldedFurther ==
  ASSUME NEW n \in Nat, NEW d, NEW names, NEW known, NEW spare, NEW g, Folded(g, n, d, names, known, spare)
  PROVE  \E h : Folded(h, n + 1, d, names, known, spare)
<1> DEFINE PlotAt(v, i) == PlotNew(v, names[i], known, spare)
           L == n + 1
           h == [S \in SUBSET (1..L) |-> IF L \in S THEN PlotAt(g[S \ {L}], L) ELSE g[S]]
<1>1. \A S \in SUBSET (1..n) : g[S] = IF S = {} THEN d ELSE PlotAt(g[S \ {Max(S)}], Max(S))
  BY DEF Folded
<1>2. L \in Nat /\ L \in 1..L /\ 1..n = (1..L) \ {L} /\ \A y \in 1..L : L >= y /\ (y >= L => y = L)
  OBVIOUS
<1> HIDE DEF PlotAt, L
<1>3. ASSUME NEW S \in SUBSET (1..L)
      PROVE  h[S] = IF S = {} THEN d ELSE PlotAt(h[S \ {Max(S)}], Max(S))
  <2>1. CASE L \in S
    <3>1. Max(S) = L
      <4>1. \A y \in S : L >= y
        BY <1>2
      <4>2. \A x \in S : (\A y \in S : x >= y) => x = L
        BY <1>2, <2>1
      <4> QED
        BY <2>1, <4>1, <4>2 DEF Max
    <3>2. S \ {L} \in SUBSET (1..L) /\ L \notin S \ {L} /\ S # {}
      BY <2>1
    <3>3. h[S \ {L}] = g[S \ {L}]
      BY <3>2
    <3> QED
      BY <2>1, <3>1, <3>2, <3>3
  <2>2. CASE L \notin S /\ S # {}
    <3>1. S \in SUBSET (1..n) /\ S \ {Max(S)} \in SUBSET (1..L) /\ L \notin S \ {Max(S)}
      BY <1>2, <2>2
    <3>2. h[S \ {Max(S)}] = g[S \ {Max(S)}] /\ h[S] = g[S]
      BY <2>2, <3>1
    <3> QED
      BY <1>1, <2>2, <3>1, <3>2
  <2>3. CASE S = {}
    <3>1. {} \in SUBSET (1..n) /\ L \notin {}
      OBVIOUS
    <3>2. g[{}] = d
      BY <1>1, <3>1
    <3> QED
      BY <2>3, <3>2
  <2> QED
    BY <2>1, <2>2, <2>3
<1>4. h = [S \in SUBSET (1..L) |-> IF S = {} THEN d ELSE PlotAt(h[S \ {Max(S)}], Max(S))]
  <2>1. h = [S \in SUBSET (1..L) |-> h[S]]
    OBVIOUS
  <2> HIDE DEF h
  <2> QED
    BY <1>3, <2>1
<1> HIDE DEF h
<1> QED
  BY <1>4 DEF Folded, PlotAt, L

LEMMA FoldExists ==
  ASSUME NEW N \in Nat, NEW d, NEW names, NEW known, NEW spare
  PROVE  \E it : Folded(it, N, d, names, known, spare)
<1> DEFINE A == {n \in Nat : \E it : Folded(it, n, d, names, known, spare)}
<1>1. 0 \in A
  <2> DEFINE it == [S \in {{}} |-> d]
  <2>1. SUBSET (1..0) = {{}}
    OBVIOUS
  <2>2. it = [S \in SUBSET (1..0) |-> IF S = {} THEN d
                                  ELSE PlotNew(it[S \ {Max(S)}], names[Max(S)], known, spare)]
    BY <2>1
  <2> QED
    BY <2>2 DEF Folded
<1>2. \A n \in 0..(N - 1) : n \in A => n + 1 \in A
  BY FoldedFurther
<1> HIDE DEF A
<1>3. N \in A
  BY <1>1, <1>2, Upto
<1> QED
  BY <1>3 DEF A

LEMMA PlotAllFolds ==
  ASSUME NEW n \in Nat, NEW d, NEW names, DOMAIN names = 1..n, NEW known, NEW spare
  PROVE  \E it : Folded(it, n, d, names, known, spare) /\ PlotAll(d, names, known, spare) = it[1..n]
<1> DEFINE it == CHOOSE it_1 : Folded(it_1, n, d, names, known, spare)
<1>1. Folded(it, n, d, names, known, spare)
  BY FoldExists
<1>2. PlotAll(d, names, known, spare) = it[1..n]
  BY Zenon DEF PlotAll, FoldLeft, MapThenFoldSet, Folded
<1> QED
  BY <1>1, <1>2

\* _new_signal, of a field: what is not a signal stays.
LEMMA PlotNewKeeps ==
  ASSUME NEW text \in BOOLEAN, NEW d, Sound(text, d), NEW name, name \in FieldsOf(d), NEW known, NEW spare
  PROVE  /\ Sound(text, PlotNew(d, name, known, spare))
         /\ FieldsOf(PlotNew(d, name, known, spare)) = FieldsOf(d)
<1> DEFINE key == NewKey(d, name, spare)
           e == NewSignal(d, name, key)
           taken == {s \in d.signals : s.key = key}
           at == IF taken = {} THEN Cardinality(d.signals) + 1 ELSE (CHOOSE s \in taken : TRUE).at
           t == [at |-> at, key |-> key, field |-> name, label |-> name, lane |-> DefaultLane]
           ss == (d.signals \ taken) \cup {t}
<1>1. SoundSignals(d.signals, FieldsOf(d))
  BY DEF Sound
<1>2. e = [d EXCEPT !.signals = ss]
  <2>1. d.signals = d.signals
    OBVIOUS
  <2> HIDE DEF key
  <2> QED
    BY DEF NewSignal, Sound, Parts
<1>9. at \in Nat
  BY <1>1, FS_CardinalityType DEF SoundSignals
<1> HIDE DEF key, at
<1>3. Parts(t, SignalParts) /\ t.field = name /\ t.key = key /\ t.at \in Nat
  BY <1>9 DEF Parts, SignalParts
<1>4. taken \subseteq d.signals /\ \A s \in d.signals : s.key = t.key => s \in taken
  BY <1>3
<1> HIDE DEF t, taken
<1>5. SoundSignals(ss, FieldsOf(d))
  BY <1>1, <1>3, <1>4, OneMore
<1> HIDE DEF ss
<1>6. FieldsOf([d EXCEPT !.signals = ss]) = FieldsOf(d)
  BY DEF FieldsOf, Sound, Parts
<1>7. Sound(text, e) /\ FieldsOf(e) = FieldsOf(d)
  BY <1>2, <1>5, <1>6, OtherSignals
<1>8. PlotNew(d, name, known, spare) \in {d, e}
  BY DEF PlotNew, key
<1> QED
  BY <1>7, <1>8

LEMMA PlotAllKeeps ==
  ASSUME NEW text \in BOOLEAN, NEW d, Sound(text, d), NEW n \in Nat, NEW names, DOMAIN names = 1..n,
         \A i \in 1..n : names[i] \in FieldsOf(d), NEW known, NEW spare
  PROVE  Sound(text, PlotAll(d, names, known, spare))
<1>1. PICK it : Folded(it, n, d, names, known, spare) /\ PlotAll(d, names, known, spare) = it[1..n]
  BY PlotAllFolds
<1> DEFINE Good(v) == Sound(text, v) /\ FieldsOf(v) = FieldsOf(d)
           A == {m \in Nat : m <= n => Good(it[1..m])}
<1>2. \A S \in SUBSET (1..n) : it[S] = IF S = {} THEN d ELSE PlotNew(it[S \ {Max(S)}], names[Max(S)], known, spare)
  BY <1>1 DEF Folded
<1>3. 0 \in A
  <2>1. 1..0 = {} /\ {} \in SUBSET (1..n)
    OBVIOUS
  <2>2. it[1..0] = d
    BY <1>2, <2>1
  <2> QED
    BY <2>2
<1>4. ASSUME NEW m \in 0..(n - 1), m \in A PROVE m + 1 \in A
  <2>1. PICK k : k = m + 1
    OBVIOUS
  <2>2. k \in Nat /\ k \in 1..n /\ m \in Nat /\ m <= n /\ k # m /\ \A y \in 1..n : y <= m <=> y < k
    BY <2>1
  <2> DEFINE S == 1..k
  <2>3. S \in SUBSET (1..n) /\ k \in S
    BY <2>2
  <2>4. S \ {k} = 1..m
    BY <2>1, <2>2
  <2>5. (\A y \in S : k >= y) /\ \A x \in S : x >= k => x = k
    BY <2>2
  <2> HIDE DEF S
  <2>6. Max(S) = k
    BY <2>3, <2>5 DEF Max
  <2>7. it[S] = PlotNew(it[1..m], names[k], known, spare)
    BY <1>2, <2>3, <2>4, <2>6
  <2>8. Good(it[1..m])
    BY <1>4, <2>2
  <2>9. names[k] \in FieldsOf(it[1..m])
    BY <2>2, <2>8
  <2>10. Good(it[S])
    BY <2>7, <2>8, <2>9, PlotNewKeeps
  <2> QED
    BY <2>1, <2>2, <2>10 DEF S
<1>5. n \in A
  <2> HIDE DEF A
  <2> QED
    BY <1>3, <1>4, Upto
<1> QED
  BY <1>1, <1>5

\* What is read of a source names fields, each once.
LEMMA ReadNames ==
  ASSUME NEW source \in Sources
  PROVE  /\ NamesRead(ReadOf[source]) \in Seq(FieldNames) /\ Distinct(NamesRead(ReadOf[source]))
         /\ DOMAIN NamesRead(ReadOf[source]) = 1..Len(NamesRead(ReadOf[source]))
         /\ Len(NamesRead(ReadOf[source])) \in Nat
<1> DEFINE read == ParseStruct(source)
           names == NamesRead(read)
<1>1. IsRead(read) /\ ReadOf[source] = read
  BY ConfigAssumption DEF ReadOf
<1>2. \A i \in 1..Len(read) : read[i].name \in FieldNames
  BY DEF FieldNames
<1> HIDE DEF read
<1>3. Len(read) \in Nat /\ Distinct(names)
  BY <1>1 DEF IsRead
<1>4. names \in [1..Len(read) -> FieldNames]
  BY <1>2 DEF NamesRead
<1>5. names \in Seq(FieldNames)
  BY <1>3, <1>4, SeqDef
<1>6. DOMAIN names = 1..Len(names) /\ Len(names) \in Nat
  BY <1>5, LenProperties
<1> QED
  BY <1>1, <1>3, <1>5, <1>6

\* stream_from_struct
LEMMA StreamIsSound ==
  ASSUME NEW text \in BOOLEAN, ~text, NEW source \in Sources, NEW name, NEW timed
  PROVE  Sound(text, StreamFromStruct(ReadOf[source], name, timed))
<1> DEFINE names == NamesRead(ReadOf[source])
           time == IF timed THEN LoopCntr ELSE None
           d == [name |-> name, rest |-> 0, fields |-> names, slots |-> <<>>,
                 signals |-> {}, sim |-> {}, time |-> time]
<1>1. names \in Seq(FieldNames) /\ Distinct(names) /\ DOMAIN names = 1..Len(names) /\ Len(names) \in Nat
  BY ReadNames
<1>2. StreamFromStruct(ReadOf[source], name, timed) = PlotAll(d, names, {}, 1)
  BY DEF StreamFromStruct
<1> HIDE DEF names, time
<1>3. /\ Parts(d, DraftParts) /\ d.fields = names /\ d.slots = <<>> /\ d.signals = {} /\ d.sim = {}
  BY DEF Parts, DraftParts
<1> HIDE DEF d
<1>4. SoundSignals({}, FieldsOf(d))
  BY FS_EmptySet DEF SoundSignals
<1>5. Sound(text, d)
  BY <1>1, <1>3, <1>4, OtherParts
<1>6. \A i \in 1..Len(names) : names[i] \in FieldsOf(d)
  BY <1>3 DEF FieldsOf
<1> QED
  BY <1>1, <1>2, <1>5, <1>6, PlotAllKeeps

\* replace_fields
LEMMA ReplaceKeeps ==
  ASSUME NEW text \in BOOLEAN, ~text, NEW source \in Sources, NEW d, Sound(text, d)
  PROVE  Sound(text, ReplaceFields(d, ReadOf[source]))
<1> DEFINE names == NamesRead(ReadOf[source])
           gone == {s.field : s \in d.signals} \ {names[i] : i \in 1..Len(names)}
           rest == d.signals \ SignalsOf(d, gone)
           sim == d.sim \cap {names[i] : i \in 1..Len(names)}
           f == WithFieldsRead(d, names)
<1>1. names \in Seq(FieldNames) /\ Distinct(names) /\ DOMAIN names = 1..Len(names) /\ Len(names) \in Nat
  BY ReadNames
<1>2. ReplaceFields(d, ReadOf[source]) = PlotAll(f, names, FieldsOf(d), 0)
  BY DEF ReplaceFields
<1>3. f = [[d EXCEPT !.signals = Renumbered(rest)] EXCEPT !.fields = names, !.sim = sim]
  BY DEF WithFieldsRead, WithoutSignals, Sound, Parts
<1>4. SoundSignals(d.signals, FieldsOf(d)) /\ Parts(d, DraftParts)
  BY DEF Sound, DraftParts
<1>5. rest \subseteq d.signals /\ \A s \in rest : s.field \in NamesIn(names)
  BY DEF SignalsOf, NamesIn
<1>6. sim \subseteq NamesIn(names)
  BY DEF NamesIn
<1> HIDE DEF names, gone, rest, sim, f
<1>7. SoundSignals(Renumbered(rest), NamesIn(names))
  BY <1>4, <1>5, FewerSignals, RenumberedSignals
<1>8. /\ Parts(f, DraftParts) /\ f.fields = names /\ f.slots = d.slots /\ f.sim = sim
      /\ f.signals = Renumbered(rest)
  BY <1>3, <1>4 DEF Parts, DraftParts
<1>9. FieldsOf(f) = NamesIn(names) /\ d.slots = <<>>
  BY <1>8 DEF FieldsOf, NamesIn, Sound
<1>10. Sound(text, f)
  BY <1>1, <1>6, <1>7, <1>8, <1>9, OtherParts
<1>11. \A i \in 1..Len(names) : names[i] \in FieldsOf(f)
  BY <1>9 DEF NamesIn
<1> QED
  BY <1>1, <1>2, <1>10, <1>11, PlotAllKeeps

----------------------------------------------------------------------------
(* The editor: its drafts are sound, the field it has selected is there, and what has the    *)
(* focus fits what is shown.                                                                 *)

EditorParts == {"text", "top", "streams", "saved", "marked", "tab", "field", "signal", "focus",
                "typing", "typed", "error"}

\* What is saved.
DocumentParts == {"text", "top", "streams"}

Drafts(e) ==
    /\ Parts(e, EditorParts) /\ e.text \in BOOLEAN /\ SoundStreams(e.text, e.streams)
    /\ e.tab \in 0..Len(e.streams)
PatternFits(e) ==
    e.focus = "pattern" => e.text /\ (e.typing = Broken \/ IsPattern(e.typing))
FieldFits(e) == e.typed /\ e.focus = "field" /\ e.tab # 0 => Editable(e)
Focused(e) == e.typed => e.focus # None
\* Whatever is selected.
Base(e) == Drafts(e) /\ PatternFits(e) /\ FieldFits(e) /\ Focused(e)

FieldIsThere(e) == e.field # None => e.tab # 0 /\ e.field \in FieldsOf(D(e))
LabelFits(e) == e.typed /\ e.focus = "label" /\ e.tab # 0 => e.signal \in KeysOf(D(e)) \cup {None}
\* Before a line edit that is hidden has lost the focus, and then.
Redrawn(e) == Base(e) /\ FieldIsThere(e) /\ LabelFits(e)
FocusIsShown(e) ==
    /\ e.focus # None => e.tab # 0
    /\ e.typed /\ e.focus = "label" => e.signal \in KeysOf(D(e))
    /\ e.typed /\ e.focus = "field" => e.field # None
EditorOK(e) == Redrawn(e) /\ FocusIsShown(e)

\* The mark is right; and a step leaves it so, as it touches no draft, or sets it.
Marked(e) == e.marked <=> Document(e) # e.saved
Follows(e, f) ==
    /\ f.saved = e.saved
    /\ (Document(f) = Document(e) /\ f.marked = e.marked) \/ Marked(f)

LEMMA FollowsOn ==
  ASSUME NEW e, NEW f, Follows(e, f)
  PROVE  /\ Marked(e) => Marked(f)
         /\ \A g : Follows(f, g) => Follows(e, g)
BY DEF Follows, Marked

\* What is set is set, and all else stays.
LEMMA PartsSet ==
  ASSUME NEW names, NEW d, Parts(d, names), NEW part \in names, NEW v
  PROVE  /\ Parts([d EXCEPT ![part] = v], names)
         /\ [d EXCEPT ![part] = v][part] = v
         /\ \A other \in names \ {part} : [d EXCEPT ![part] = v][other] = d[other]
BY DEF Parts

\* What Document looks at, and the mark.
LEMMA SameDocument ==
  ASSUME NEW e, NEW f, f.text = e.text, f.top = e.top, f.streams = e.streams
  PROVE  /\ Document(f) = Document(e)
         /\ f.saved = e.saved /\ f.marked = e.marked => Follows(e, f)
BY DEF Document, Follows

\* _on_changed
LEMMA ChangedGives ==
  ASSUME NEW e, Parts(e, EditorParts)
  PROVE  /\ Parts(Changed(e), EditorParts)
         /\ \A part \in EditorParts \ {"marked"} : Changed(e)[part] = e[part]
         /\ Marked(Changed(e)) /\ Changed(e).saved = e.saved
<1> DEFINE mark == Document(e) # e.saved
           f == Changed(e)
<1>1. f = [e EXCEPT !.marked = mark]
  BY DEF Changed
<1> HIDE DEF mark, f
<1>2. Parts(f, EditorParts) /\ f.marked = mark /\ \A part \in EditorParts \ {"marked"} : f[part] = e[part]
  BY <1>1 DEF Parts, EditorParts
<1>3. Document(f) = Document(e) /\ f.saved = e.saved
  BY <1>2 DEF Document, EditorParts
<1>4. Marked(f)
  BY <1>2, <1>3 DEF Marked, mark
<1> QED
  BY <1>2, <1>3, <1>4 DEF f

LEMMA ChangedFollows ==
  ASSUME NEW e, NEW f, Parts(f, EditorParts), f.saved = e.saved
  PROVE  Follows(e, Changed(f))
BY ChangedGives DEF Follows

\* What is asked of an editor does not look at its mark, nor at what is saved.
LEMMA SameView ==
  ASSUME NEW e, NEW f, Parts(f, EditorParts),
         \A part \in EditorParts \ {"marked", "saved", "error", "top"} : f[part] = e[part]
  PROVE  /\ D(f) = D(e)
         /\ Drafts(e) => Drafts(f)
         /\ Redrawn(e) => Redrawn(f)
         /\ EditorOK(e) => EditorOK(f)
<1>1. /\ f.text = e.text /\ f.streams = e.streams /\ f.tab = e.tab /\ f.field = e.field
      /\ f.signal = e.signal /\ f.focus = e.focus /\ f.typing = e.typing /\ f.typed = e.typed
  BY DEF EditorParts
<1>2. D(f) = D(e)
  BY <1>1 DEF D
<1>3. Drafts(e) => Drafts(f)
  BY <1>1 DEF Drafts
<1>4. FieldIsThere(e) => FieldIsThere(f)
  BY <1>1, <1>2 DEF FieldIsThere
<1>5. PatternFits(e) => PatternFits(f)
  BY <1>1 DEF PatternFits
<1>6. LabelFits(e) => LabelFits(f)
  BY <1>1, <1>2 DEF LabelFits
<1>7. FieldFits(e) => FieldFits(f)
  BY <1>1, <1>2 DEF FieldFits, Editable
<1>8. Redrawn(e) => Redrawn(f)
  BY <1>1, <1>3, <1>4, <1>5, <1>6, <1>7 DEF Redrawn, Base, Focused
<1>9. FocusIsShown(e) => FocusIsShown(f)
  BY <1>1, <1>2 DEF FocusIsShown
<1> QED
  BY <1>2, <1>3, <1>8, <1>9 DEF EditorOK

LEMMA ChangedKeeps ==
  ASSUME NEW e, Parts(e, EditorParts)
  PROVE  (Redrawn(e) => Redrawn(Changed(e))) /\ (EditorOK(e) => EditorOK(Changed(e)))
<1>1. Parts(Changed(e), EditorParts) /\ \A part \in EditorParts \ {"marked", "saved", "error", "top"} : Changed(e)[part] = e[part]
  BY ChangedGives
<1> QED
  BY <1>1, SameView

\* Without the focus, all that is asked is that the drafts are sound and the selection is there.
LEMMA Unfocused ==
  ASSUME NEW e, Drafts(e), FieldIsThere(e), e.focus = None, ~e.typed
  PROVE  EditorOK(e)
<1>1. PatternFits(e)
  BY ConfigAssumption DEF PatternFits, Widgets
<1> QED
  BY <1>1 DEF EditorOK, Redrawn, Base, FieldFits, LabelFits, FocusIsShown, Focused

\* A line edit that is hidden loses the focus.
LEMMA ShownGives ==
  ASSUME NEW e, Redrawn(e)
  PROVE  /\ EditorOK(Shown(e))
         /\ \A part \in EditorParts \ {"focus", "typing", "typed"} : Shown(e)[part] = e[part]
         /\ e.focus = None => Shown(e).focus = None
         /\ Follows(e, Shown(e))
<1> DEFINE f == Shown(e)
           g == [e EXCEPT !.focus = None, !.typing = None, !.typed = FALSE]
<1>1. Parts(e, EditorParts)
  BY DEF Redrawn, Base, Drafts
<1>2. /\ Parts(g, EditorParts) /\ g.focus = None /\ ~g.typed
      /\ \A part \in EditorParts \ {"focus", "typing", "typed"} : g[part] = e[part]
  BY <1>1 DEF Parts, EditorParts
<1>3. f = IF e.tab = 0 \/ (e.focus = "label" /\ e.signal = None) \/ (e.focus = "field" /\ e.field = None)
          THEN g ELSE e
  BY DEF Shown
<1> HIDE DEF f, g
<1>4. g.text = e.text /\ g.streams = e.streams /\ g.tab = e.tab /\ g.field = e.field
  BY <1>2 DEF EditorParts
<1>5. EditorOK(g) /\ Follows(e, g)
  <2>2. Drafts(g) /\ D(g) = D(e)
    BY <1>2, <1>4 DEF Redrawn, Base, Drafts, D
  <2>3. FieldIsThere(g)
    BY <1>4, <2>2 DEF Redrawn, FieldIsThere
  <2>4. g.top = e.top /\ g.saved = e.saved /\ g.marked = e.marked
    BY <1>2 DEF EditorParts
  <2> QED
    BY <1>2, <1>4, <2>2, <2>3, <2>4, Unfocused, SameDocument
<1>6. CASE f = g
  BY <1>2, <1>5, <1>6 DEF f
<1>7. CASE f # g
  <2>1. f = e /\ e.tab # 0 /\ (e.focus = "label" => e.signal # None) /\ (e.focus = "field" => e.field # None)
    BY <1>3, <1>7
  <2>2. EditorOK(e) /\ Follows(e, e)
    BY <2>1 DEF EditorOK, FocusIsShown, Follows, Redrawn, Base, LabelFits, Focused
  <2> QED
    BY <2>1, <2>2 DEF f
<1> QED
  BY <1>6, <1>7

\* Another draft for the stream shown.
LEMMA PutGives ==
  ASSUME NEW e, Drafts(e), e.tab # 0, NEW d, Sound(e.text, d)
  PROVE  /\ Drafts(Put(e, d)) /\ D(Put(e, d)) = d
         /\ \A part \in EditorParts \ {"streams"} : Put(e, d)[part] = e[part]
         /\ Len(Put(e, d).streams) = Len(e.streams)
<1> DEFINE ss == e.streams
           s == [ss[e.tab] EXCEPT !.data = d]
           tt == [ss EXCEPT ![e.tab] = s]
           f == [e EXCEPT !.streams = tt]
<1>1. /\ Parts(e, EditorParts) /\ ss = [i \in 1..Len(ss) |-> ss[i]] /\ Len(ss) \in Nat
      /\ e.tab \in 1..Len(ss) /\ e.text \in BOOLEAN
      /\ \A i \in 1..Len(ss) : Parts(ss[i], {"key", "data"}) /\ Sound(e.text, ss[i].data)
  BY DEF Drafts, SoundStreams
<1>2. Parts(s, {"key", "data"}) /\ s.data = d
  BY <1>1 DEF Parts
<1>3. Put(e, d) = f
  BY <1>1 DEF Put, Parts, EditorParts
<1>4. Parts(f, EditorParts) /\ f.streams = tt /\ \A part \in EditorParts \ {"streams"} : f[part] = e[part]
  BY <1>1 DEF Parts, EditorParts
<1> HIDE DEF s, f, ss
<1>5. DOMAIN tt = 1..Len(ss) /\ tt[e.tab] = s /\ \A i \in 1..Len(ss) : i # e.tab => tt[i] = ss[i]
  BY <1>1
<1> HIDE DEF tt
<1>6. tt \in [1..Len(ss) -> {tt[i] : i \in 1..Len(ss)}]
  <2>1. tt = [i \in 1..Len(ss) |-> tt[i]]
    BY <1>1, <1>5 DEF tt
  <2> QED
    BY <2>1
<1>7. Len(tt) = Len(ss) /\ tt = [i \in 1..Len(tt) |-> tt[i]]
  BY <1>1, <1>6, SeqDef, LenProperties
<1>8. f.text = e.text /\ f.tab = e.tab
  BY <1>4 DEF EditorParts
<1>9. SoundStreams(f.text, f.streams)
  BY <1>1, <1>2, <1>4, <1>5, <1>7, <1>8 DEF SoundStreams
<1>10. Drafts(f)
  BY <1>1, <1>4, <1>7, <1>8, <1>9 DEF Drafts, ss
<1>11. D(f) = d
  BY <1>2, <1>4, <1>5, <1>8 DEF D
<1> QED
  BY <1>3, <1>4, <1>7, <1>10, <1>11 DEF ss

\* The selection and what is typed still fit, if the fields and the signals are still there.
LEMMA PutBase ==
  ASSUME NEW e, Base(e), e.tab # 0, NEW d, Sound(e.text, d),
         e.typed /\ e.focus = "field" => ~e.text \/ Parses(d)
  PROVE  Base(Put(e, d))
<1> DEFINE f == Put(e, d)
<1>1. Drafts(f) /\ D(f) = d /\ \A part \in EditorParts \ {"streams"} : f[part] = e[part]
  BY PutGives DEF Base
<1> HIDE DEF f
<1>2. f.text = e.text /\ f.tab = e.tab /\ f.focus = e.focus /\ f.typing = e.typing /\ f.typed = e.typed
  BY <1>1 DEF EditorParts
<1>3. PatternFits(f) /\ FieldFits(f) /\ Focused(f)
  BY <1>1, <1>2 DEF Base, PatternFits, FieldFits, Editable, Focused
<1> QED
  BY <1>1, <1>3 DEF Base, f

LEMMA PutKeeps ==
  ASSUME NEW e, Base(e), e.tab # 0, NEW d, Sound(e.text, d), e.field \in FieldsOf(d) \cup {None},
         e.typed /\ e.focus = "field" => ~e.text \/ Parses(d),
         e.typed /\ e.focus = "label" => e.signal \in KeysOf(d)
  PROVE  Redrawn(Put(e, d)) /\ (FocusIsShown(e) => EditorOK(Put(e, d)))
<1> DEFINE f == Put(e, d)
<1>1. Base(f) /\ D(f) = d /\ \A part \in EditorParts \ {"streams"} : f[part] = e[part]
  BY PutGives, PutBase DEF Base
<1> HIDE DEF f
<1>2. f.tab = e.tab /\ f.focus = e.focus /\ f.typed = e.typed /\ f.field = e.field /\ f.signal = e.signal
  BY <1>1 DEF EditorParts
<1>3. FieldIsThere(f) /\ LabelFits(f)
  BY <1>1, <1>2 DEF FieldIsThere, LabelFits
<1>4. FocusIsShown(e) => FocusIsShown(f)
  BY <1>1, <1>2 DEF FocusIsShown
<1> QED
  BY <1>1, <1>3, <1>4 DEF Redrawn, EditorOK, f

\* The first signal of a field is a signal.
LEMMA FirstSignalIsThere ==
  ASSUME NEW text, NEW d, Sound(text, d), NEW f
  PROVE  FirstSignal(d, f) \in KeysOf(d) \cup {None}
<1> DEFINE ss == SignalsOf(d, {f})
           ats == {s.at : s \in ss}
<1>1. CASE ss = {}
  BY <1>1 DEF FirstSignal
<1>2. CASE ss # {}
  <2>1. ats \subseteq Nat /\ ats # {}
    BY <1>2 DEF SignalsOf, Sound, SoundSignals
  <2>2. \E x \in ats : \A y \in ats : x <= y
    <3> HIDE DEF ats
    <3> QED
      BY <2>1, LeastOf
  <2>3. \E s \in ss : \A t \in ss : s.at <= t.at
    BY <2>2
  <2>4. (CHOOSE s \in ss : \A t \in ss : s.at <= t.at) \in d.signals
    <3>1. ss \subseteq d.signals
      BY DEF SignalsOf
    <3> HIDE DEF ss
    <3> QED
      BY <2>3, <3>1
  <2> QED
    BY <1>2, <2>4 DEF FirstSignal, KeysOf
<1> QED
  BY <1>1, <1>2

\* _select_field
LEMMA SelectGives ==
  ASSUME NEW e, Base(e), NEW f, f # None => e.tab # 0 /\ f \in FieldsOf(D(e))
  PROVE  /\ Redrawn(Select(e, f)) /\ D(Select(e, f)) = D(e)
         /\ \A part \in EditorParts \ {"field", "signal"} : Select(e, f)[part] = e[part]
         /\ Select(e, f).field = f
<1> DEFINE x == IF f = None THEN None ELSE FirstSignal(D(e), f)
           g == Select(e, f)
<1>1. g = [e EXCEPT !.field = f, !.signal = x]
  BY DEF Select
<1>2. x \in KeysOf(D(e)) \cup {None}
  <2>1. CASE f = None
    BY <2>1
  <2>2. CASE f # None
    <3>1. Sound(e.text, D(e))
      BY <2>2 DEF Base, Drafts, SoundStreams, D
    <3> QED
      BY <2>2, <3>1, FirstSignalIsThere
  <2> QED
    BY <2>1, <2>2
<1> HIDE DEF x, g
<1>3. Parts(e, EditorParts)
  BY DEF Base, Drafts
<1>4. /\ Parts(g, EditorParts) /\ g.field = f /\ g.signal = x
      /\ \A part \in EditorParts \ {"field", "signal"} : g[part] = e[part]
  BY <1>1, <1>3 DEF Parts, EditorParts
<1>5. /\ g.text = e.text /\ g.streams = e.streams /\ g.tab = e.tab
      /\ g.focus = e.focus /\ g.typing = e.typing /\ g.typed = e.typed
  BY <1>4 DEF EditorParts
<1>6. D(g) = D(e)
  BY <1>5 DEF D
<1>7. Base(g)
  BY <1>4, <1>5, <1>6 DEF Base, Drafts, PatternFits, FieldFits, Editable, Focused
<1>8. FieldIsThere(g) /\ LabelFits(g)
  BY <1>2, <1>4, <1>5, <1>6 DEF FieldIsThere, LabelFits
<1> QED
  BY <1>4, <1>6, <1>7, <1>8 DEF Redrawn, g

\* What is shown when nothing else is: the field at a place, or the last.
LEMMA FieldAtIsThere ==
  ASSUME NEW text, NEW d, Sound(text, d), NEW i \in Nat \ {0}
  PROVE  FieldAt(d, i) # None => FieldAt(d, i) \in FieldsOf(d)
<1>1. d.fields \in Seq(FieldNames) /\ (d.fields # <<>> => Len(d.fields) \in Nat \ {0})
  BY EmptySeq, LenProperties DEF Sound
<1> QED
  BY <1>1 DEF FieldAt, FieldsOf

\* load
LEMMA LoadGives ==
  ASSUME NEW e, Parts(e, EditorParts), e.text \in BOOLEAN, SoundStreams(e.text, e.streams),
         PatternFits(e), NEW i \in 0..Len(e.streams)
  PROVE  /\ EditorOK(Load(e, i))
         /\ \A part \in DocumentParts \cup {"marked", "saved"} : Load(e, i)[part] = e[part]
         /\ Load(e, i).tab = i
         /\ e.focus = None => Load(e, i).focus = None
         /\ Follows(e, Load(e, i))
<1> DEFINE c == [e EXCEPT !.tab = i, !.typed = FALSE, !.error = FALSE]
           n == [c EXCEPT !.field = None, !.signal = None]
           s == Select(c, FieldAt(D(c), 2))
           f == Load(e, i)
<1>1. /\ Parts(c, EditorParts) /\ c.tab = i /\ ~c.typed
      /\ \A part \in EditorParts \ {"tab", "typed", "error"} : c[part] = e[part]
  BY DEF Parts, EditorParts
<1>2. f = Shown(IF i = 0 THEN n ELSE s)
  BY DEF Load
<1>3. /\ Parts(n, EditorParts) /\ n.field = None
      /\ \A part \in EditorParts \ {"field", "signal"} : n[part] = c[part]
  BY <1>1 DEF Parts, EditorParts
<1> HIDE DEF c, n, f
<1>4. c.text = e.text /\ c.streams = e.streams /\ c.focus = e.focus /\ c.typing = e.typing
  BY <1>1 DEF EditorParts
<1>5. Base(c)
  BY <1>1, <1>4 DEF Base, Drafts, PatternFits, FieldFits, Focused
<1>6. CASE i = 0
  <2>1. f = Shown(n)
    BY <1>2, <1>6
  <2>2. /\ n.text = c.text /\ n.streams = c.streams /\ n.focus = c.focus /\ n.typing = c.typing
        /\ n.tab = c.tab /\ n.typed = c.typed
    BY <1>3 DEF EditorParts
  <2>3. Redrawn(n)
    BY <1>1, <1>3, <1>5, <2>2
    DEF Redrawn, Base, Drafts, PatternFits, FieldFits, Focused, FieldIsThere, LabelFits
  <2>4. /\ EditorOK(f) /\ (n.focus = None => f.focus = None)
        /\ \A part \in EditorParts \ {"focus", "typing", "typed"} : f[part] = n[part]
    BY <2>1, <2>3, ShownGives
  <2>5. /\ f.tab = i /\ (e.focus = None => f.focus = None)
        /\ \A part \in DocumentParts \cup {"marked", "saved"} : f[part] = e[part]
    BY <1>1, <1>3, <1>4, <2>2, <2>4 DEF EditorParts, DocumentParts
  <2> QED
    BY <2>4, <2>5, SameDocument DEF f, DocumentParts
<1>7. CASE i # 0
  <2>1. f = Shown(s)
    BY <1>2, <1>7
  <2>2. Sound(c.text, D(c))
    BY <1>1, <1>5, <1>7 DEF Base, Drafts, SoundStreams, D
  <2>3. FieldAt(D(c), 2) # None => c.tab # 0 /\ FieldAt(D(c), 2) \in FieldsOf(D(c))
    BY <1>1, <1>7, <2>2, FieldAtIsThere
  <2>4. Redrawn(s) /\ \A part \in EditorParts \ {"field", "signal"} : s[part] = c[part]
    BY <1>5, <2>3, SelectGives
  <2> HIDE DEF s
  <2>5. /\ EditorOK(f) /\ (s.focus = None => f.focus = None)
        /\ \A part \in EditorParts \ {"focus", "typing", "typed"} : f[part] = s[part]
    BY <2>1, <2>4, ShownGives
  <2>6. /\ f.tab = i /\ (e.focus = None => f.focus = None)
        /\ \A part \in DocumentParts \cup {"marked", "saved"} : f[part] = e[part]
    BY <1>1, <1>4, <2>4, <2>5 DEF EditorParts, DocumentParts
  <2> QED
    BY <2>5, <2>6, SameDocument DEF f, DocumentParts
<1> QED
  BY <1>6, <1>7

\* _rebuild_tabs
LEMMA IndexIsThere ==
  ASSUME NEW text, NEW ss, SoundStreams(text, ss), NEW key
  PROVE  IndexOf(ss, key) \in 0..Len(ss)
<1>1. Len(ss) \in Nat /\ ss = [i \in 1..Len(ss) |-> ss[i]]
  BY DEF SoundStreams
<1>2. CASE \E i \in 1..Len(ss) : ss[i].key = key
  <2>1. IndexOf(ss, key) = CHOOSE i \in 1..Len(ss) : ss[i].key = key
    BY <1>2 DEF IndexOf
  <2> QED
    BY <1>1, <1>2, <2>1
<1>3. CASE ~\E i \in 1..Len(ss) : ss[i].key = key
  <2>1. IndexOf(ss, key) = IF ss = <<>> THEN 0 ELSE 1
    BY <1>3 DEF IndexOf
  <2>2. Len(ss) = 0 => ss = <<>>
    <3>1. ss \in [1..Len(ss) -> {ss[i] : i \in 1..Len(ss)}]
      BY <1>1
    <3>2. ss \in Seq({ss[i] : i \in 1..Len(ss)})
      BY <1>1, <3>1, SeqDef
    <3> QED
      BY <3>2, EmptySeq
  <2> QED
    BY <1>1, <2>1, <2>2
<1> QED
  BY <1>2, <1>3

LEMMA RebuildGives ==
  ASSUME NEW e, Parts(e, EditorParts), e.text \in BOOLEAN, SoundStreams(e.text, e.streams),
         PatternFits(e), NEW key
  PROVE  /\ EditorOK(RebuildTabs(e, key))
         /\ \A part \in DocumentParts \cup {"marked", "saved"} : RebuildTabs(e, key)[part] = e[part]
         /\ e.focus = None => RebuildTabs(e, key).focus = None
BY IndexIsThere, LoadGives DEF RebuildTabs

LEMMA RebuiltIsSound ==
  ASSUME NEW e, Parts(e, EditorParts), e.text \in BOOLEAN, SoundStreams(e.text, e.streams),
         PatternFits(e), NEW key
  PROVE  /\ EditorOK(Changed(RebuildTabs(e, key)))
         /\ \A part \in DocumentParts \cup {"saved"} : Changed(RebuildTabs(e, key))[part] = e[part]
         /\ e.focus = None => Changed(RebuildTabs(e, key)).focus = None
         /\ Marked(Changed(RebuildTabs(e, key)))
<1> DEFINE r == RebuildTabs(e, key)
           f == Changed(r)
<1>1. /\ EditorOK(r) /\ (e.focus = None => r.focus = None)
      /\ \A part \in DocumentParts \cup {"marked", "saved"} : r[part] = e[part]
  BY RebuildGives
<1> HIDE DEF r
<1>2. Parts(r, EditorParts)
  BY <1>1 DEF EditorOK, Redrawn, Base, Drafts
<1>3. EditorOK(f) /\ Marked(f) /\ \A part \in EditorParts \ {"marked"} : f[part] = r[part]
  BY <1>1, <1>2, ChangedGives, ChangedKeeps
<1> HIDE DEF f
<1>4. f.focus = r.focus /\ \A part \in DocumentParts \cup {"saved"} : f[part] = r[part]
  BY <1>3 DEF EditorParts, DocumentParts
<1>5. \A part \in DocumentParts \cup {"saved"} : f[part] = e[part]
  BY <1>1, <1>4
<1> QED
  BY <1>1, <1>3, <1>4, <1>5 DEF f, r

\* _take_document: of a document that is sound.
LEMMA TakeGives ==
  ASSUME NEW e, Parts(e, EditorParts), e.focus = None, NEW doc, SoundDocument(doc)
  PROVE  EditorOK(Take(e, doc)) /\ Marked(Take(e, doc)) /\ Take(e, doc).saved = doc
<1> DEFINE t == [e EXCEPT !.text = doc.text, !.top = doc.top, !.streams = doc.streams, !.saved = doc]
           key == CurrentKey(e)
<1>1. /\ Parts(t, EditorParts) /\ t.text = doc.text /\ t.streams = doc.streams /\ t.saved = doc
      /\ t.focus = e.focus
  BY DEF Parts, EditorParts
<1>2. Take(e, doc) = Changed(RebuildTabs(t, key))
  BY DEF Take
<1> HIDE DEF t, key
<1>3. SoundStreams(t.text, t.streams) /\ t.text \in BOOLEAN /\ PatternFits(t)
  BY <1>1, ConfigAssumption DEF SoundDocument, PatternFits, Widgets
<1> QED
  BY <1>1, <1>2, <1>3, RebuiltIsSound

\* rename_stream
LEMMA RenameStreamGives ==
  ASSUME NEW e, Base(e), e.tab # 0, e.focus = "key", FieldIsThere(e), NEW key
  PROVE  /\ Drafts(RenameStream(e, key)) /\ FieldIsThere(RenameStream(e, key))
         /\ Follows(e, RenameStream(e, key))
<1> DEFINE f == RenameStream(e, key)
           s == [e.streams[e.tab] EXCEPT !.key = key]
           tt == [e.streams EXCEPT ![e.tab] = s]
           r == [e EXCEPT !.streams = tt]
           y == [e EXCEPT !.typing = CurrentKey(e)]
<1>1. /\ Parts(e, EditorParts) /\ e.text \in BOOLEAN /\ SoundStreams(e.text, e.streams)
      /\ e.tab \in 1..Len(e.streams) /\ Len(e.streams) \in Nat
  BY DEF Base, Drafts, SoundStreams
<1>2. CASE key \in KeyList(e.streams) \cup {None}
  <2>1. f = y
    BY <1>2 DEF RenameStream
  <2>2. Parts(y, EditorParts) /\ \A part \in EditorParts \ {"typing"} : y[part] = e[part]
    BY <1>1 DEF Parts, EditorParts
  <2> HIDE DEF y, f
  <2>3. /\ y.text = e.text /\ y.top = e.top /\ y.streams = e.streams /\ y.tab = e.tab
        /\ y.field = e.field /\ y.saved = e.saved /\ y.marked = e.marked
    BY <2>2 DEF EditorParts
  <2>4. Drafts(y) /\ FieldIsThere(y) /\ Follows(e, y)
    BY <2>2, <2>3, SameDocument DEF Base, Drafts, FieldIsThere, D
  <2> QED
    BY <2>1, <2>4 DEF f
<1>3. CASE key \notin KeyList(e.streams) \cup {None}
  <2>1. f = Changed(RebuildTabs(r, key))
    BY <1>1, <1>3 DEF RenameStream, Parts, EditorParts
  <2>2. Parts(r, EditorParts) /\ r.streams = tt /\ \A part \in EditorParts \ {"streams"} : r[part] = e[part]
    BY <1>1 DEF Parts, EditorParts
  <2>3. Parts(s, {"key", "data"}) /\ s.data = e.streams[e.tab].data
    BY <1>1 DEF SoundStreams, Parts
  <2> HIDE DEF s, r, f
  <2>4. /\ DOMAIN tt = 1..Len(e.streams) /\ tt[e.tab] = s
        /\ \A i \in 1..Len(e.streams) : i # e.tab => tt[i] = e.streams[i]
    BY <1>1 DEF SoundStreams
  <2>5. tt = [i \in 1..Len(e.streams) |-> tt[i]]
    BY <1>1, <2>4 DEF SoundStreams
  <2> HIDE DEF tt
  <2>6. tt \in [1..Len(e.streams) -> {tt[i] : i \in 1..Len(e.streams)}]
    BY <2>5
  <2>7. Len(tt) = Len(e.streams) /\ tt = [i \in 1..Len(tt) |-> tt[i]]
    BY <1>1, <2>5, <2>6, SeqDef, LenProperties
  <2>8. r.text = e.text /\ r.focus = e.focus /\ r.typing = e.typing /\ r.saved = e.saved
    BY <2>2 DEF EditorParts
  <2>9. SoundStreams(r.text, r.streams)
    BY <1>1, <2>2, <2>3, <2>4, <2>7, <2>8 DEF SoundStreams
  <2>10. r.text \in BOOLEAN /\ PatternFits(r)
    BY <1>1, <2>8 DEF PatternFits
  <2>11. EditorOK(f) /\ Marked(f) /\ f.saved = r.saved
    BY <2>1, <2>2, <2>9, <2>10, RebuiltIsSound
  <2> QED
    BY <2>8, <2>11 DEF f, EditorOK, Redrawn, Base, Follows
<1> QED
  BY <1>2, <1>3

----------------------------------------------------------------------------
(* What the line edits do.                                                                   *)

Handles(e, f) ==
    /\ EditorOK(f) /\ Follows(e, f)
    /\ f.text = e.text /\ f.tab = e.tab /\ f.focus = e.focus /\ Len(f.streams) = Len(e.streams)

LEMMA NothingHandled ==
  ASSUME NEW e, EditorOK(e)
  PROVE  Handles(e, e)
BY DEF Handles, Follows

\* An editor's draft is sound.
LEMMA ShownDraft ==
  ASSUME NEW e, Drafts(e), e.tab # 0
  PROVE  Sound(e.text, D(e)) /\ e.text \in BOOLEAN
BY DEF Drafts, SoundStreams, D

LEMMA PutChanged ==
  ASSUME NEW e, Base(e), FocusIsShown(e), e.tab # 0, NEW d, Sound(e.text, d),
         e.field \in FieldsOf(d) \cup {None},
         e.typed /\ e.focus = "field" => ~e.text \/ Parses(d),
         e.typed /\ e.focus = "label" => e.signal \in KeysOf(d)
  PROVE  /\ Handles(e, Changed(Put(e, d))) /\ D(Changed(Put(e, d))) = d
         /\ \A part \in EditorParts \ {"streams", "marked"} : Changed(Put(e, d))[part] = e[part]
<1> DEFINE g == Put(e, d)
           f == Changed(g)
<1>1. /\ EditorOK(g) /\ D(g) = d /\ Len(g.streams) = Len(e.streams)
      /\ \A part \in EditorParts \ {"streams"} : g[part] = e[part]
  BY PutKeeps, PutGives DEF Base
<1> HIDE DEF g
<1>2. Parts(g, EditorParts)
  BY <1>1 DEF EditorOK, Redrawn, Base, Drafts
<1>3. /\ EditorOK(f) /\ Marked(f)
      /\ Parts(f, EditorParts) /\ \A part \in EditorParts \ {"marked"} : f[part] = g[part]
  BY <1>1, <1>2, ChangedGives, ChangedKeeps
<1> HIDE DEF f
<1>4. D(f) = d
  BY <1>1, <1>3, SameView
<1>5. \A part \in EditorParts \ {"streams", "marked"} : f[part] = e[part]
  BY <1>1, <1>3
<1>6. /\ f.text = e.text /\ f.tab = e.tab /\ f.focus = e.focus /\ f.saved = e.saved
      /\ Len(f.streams) = Len(e.streams)
  BY <1>1, <1>3, <1>5 DEF EditorParts
<1> QED
  BY <1>3, <1>4, <1>5, <1>6 DEF Handles, Follows, f, g

\* _on_name
LEMMA NameHandled ==
  ASSUME NEW e, EditorOK(e), e.focus = "name"
  PROVE  Handles(e, OnName(e)) /\ OnName(e).typing = e.typing /\ D(OnName(e)).name = e.typing
<1> DEFINE d == [D(e) EXCEPT !.name = e.typing]
<1>1. Base(e) /\ FocusIsShown(e) /\ e.tab # 0 /\ FieldIsThere(e) /\ Drafts(e)
  BY ConfigAssumption DEF EditorOK, Redrawn, FocusIsShown, Base, Widgets
<1>2. Sound(e.text, D(e))
  BY <1>1, ShownDraft
<1>3. Sound(e.text, d) /\ FieldsOf(d) = FieldsOf(D(e)) /\ d.name = e.typing
  BY <1>2, OtherRest DEF Sound, Parts
<1> HIDE DEF d
<1>4. /\ Handles(e, Changed(Put(e, d))) /\ D(Changed(Put(e, d))) = d
      /\ \A part \in EditorParts \ {"streams", "marked"} : Changed(Put(e, d))[part] = e[part]
  BY <1>1, <1>3, PutChanged DEF FieldIsThere
<1>5. Changed(Put(e, d)).typing = e.typing
  BY <1>4 DEF EditorParts
<1>6. OnName(e) = IF e.typing = D(e).name THEN e ELSE Changed(Put(e, d))
  BY DEF OnName, d
<1> QED
  BY <1>3, <1>4, <1>5, <1>6, NothingHandled

\* _on_label
LEMMA LabelIsSet ==
  ASSUME NEW text, NEW d, Sound(text, d), NEW key \in KeysOf(d), NEW label
  PROVE  /\ KeysOf(SetLabel(d, {key}, label)) = KeysOf(d)
         /\ SignalAt(SetLabel(d, {key}, label), key).label = label
<1> DEFINE l == [s \in d.signals |-> WithLabel(s, {key}, label)]
           ss == {l[s] : s \in d.signals}
           e == SetLabel(d, {key}, label)
<1>1. e.signals = ss
  BY DEF SetLabel, Sound, Parts
<1>2. ASSUME NEW s \in d.signals
      PROVE  l[s].key = s.key /\ (s.key = key => l[s].label = label)
  <2>1. Parts(s, SignalParts)
    BY DEF Sound, SoundSignals, SignalParts
  <2> QED
    BY <2>1 DEF WithLabel, Parts, SignalParts
<1> HIDE DEF l, e
<1>3. KeysOf(e) = KeysOf(d)
  BY <1>1, <1>2 DEF KeysOf
<1>4. PICK s \in d.signals : s.key = key
  BY DEF KeysOf
<1>5. \A t \in ss : t.key = key => t.label = label
  BY <1>2
<1>6. l[s] \in ss /\ l[s].key = key
  BY <1>2, <1>4
<1>7. SignalAt(e, key) \in ss /\ SignalAt(e, key).key = key
  BY <1>1, <1>6 DEF SignalAt
<1> QED
  BY <1>3, <1>5, <1>7 DEF e

LEMMA LabelHandled ==
  ASSUME NEW e, EditorOK(e), e.focus = "label"
  PROVE  /\ Handles(e, OnLabel(e))
         /\ e.typed => /\ SignalAt(D(OnLabel(e)), OnLabel(e).signal).label = OnLabel(e).typing
<1> DEFINE d == SetLabel(D(e), {e.signal}, e.typing)
           f == Changed(Put(e, d))
<1>1. Base(e) /\ FocusIsShown(e) /\ e.tab # 0 /\ FieldIsThere(e) /\ Drafts(e) /\ LabelFits(e)
  BY ConfigAssumption DEF EditorOK, Redrawn, FocusIsShown, Base, Widgets
<1>2. Sound(e.text, D(e)) /\ e.text \in BOOLEAN
  BY <1>1, ShownDraft
<1>3. Sound(e.text, d) /\ FieldsOf(d) = FieldsOf(D(e))
  BY <1>2, SetLabelKeeps
<1>4. e.signal \in KeysOf(D(e)) => KeysOf(d) = KeysOf(D(e)) /\ SignalAt(d, e.signal).label = e.typing
  BY <1>2, LabelIsSet
<1>5. OnLabel(e) = IF e.signal \notin KeysOf(D(e)) \/ e.typing = SignalAt(D(e), e.signal).label THEN e ELSE f
  BY DEF OnLabel
<1> HIDE DEF d
<1>6. ASSUME e.signal \in KeysOf(D(e))
      PROVE  /\ Handles(e, f) /\ D(f) = d
             /\ \A part \in EditorParts \ {"streams", "marked"} : f[part] = e[part]
  BY <1>1, <1>3, <1>4, <1>6, PutChanged DEF FieldIsThere
<1> HIDE DEF f
<1>7. CASE OnLabel(e) = e /\ (e.signal \notin KeysOf(D(e)) \/ e.typing = SignalAt(D(e), e.signal).label)
  <2>1. e.typed => e.signal \in KeysOf(D(e))
    BY <1>1 DEF LabelFits, FocusIsShown
  <2> QED
    BY <1>7, <2>1, NothingHandled
<1>8. CASE OnLabel(e) = f /\ e.signal \in KeysOf(D(e))
  <2>1. f.signal = e.signal /\ f.typing = e.typing
    BY <1>6, <1>8 DEF EditorParts
  <2> QED
    BY <1>4, <1>6, <1>8, <2>1
<1> QED
  BY <1>5, <1>7, <1>8

\* _on_field_name
LEMMA FieldNameHandled ==
  ASSUME NEW e, EditorOK(e), e.focus = "field"
  PROVE  /\ Handles(e, OnFieldName(e))
         /\ e.typed => OnFieldName(e).typing \in FieldsOf(D(OnFieldName(e)))
<1> DEFINE d == RenameAll(D(e), e.field, e.typing)
           g == [e EXCEPT !.field = e.typing]
           y == [e EXCEPT !.typing = e.field]
           f == Changed(Put(g, d))
<1>1. Base(e) /\ FocusIsShown(e) /\ e.tab # 0 /\ FieldIsThere(e) /\ Drafts(e) /\ Parts(e, EditorParts)
  BY ConfigAssumption DEF EditorOK, Redrawn, FocusIsShown, Base, Widgets, Drafts
<1>2. Sound(e.text, D(e)) /\ e.text \in BOOLEAN
  BY <1>1, ShownDraft
<1>3. CASE e.field = None \/ e.typing = e.field \/ ~Editable(e)
  <2>1. OnFieldName(e) = e
    BY <1>3 DEF OnFieldName
  <2>2. e.typed => e.field # None /\ Editable(e)
    BY <1>1 DEF FocusIsShown, Base, FieldFits
  <2>3. e.typed => e.typing \in FieldsOf(D(e))
    BY <1>1, <1>3, <2>2 DEF FieldIsThere
  <2> QED
    BY <2>1, <2>3, NothingHandled
<1>4. CASE /\ ~(e.field = None \/ e.typing = e.field \/ ~Editable(e))
           /\ e.typing \notin Names \/ e.typing \in FieldsOf(D(e))
  <2>1. OnFieldName(e) = y
    BY <1>4 DEF OnFieldName
  <2>2. Parts(y, EditorParts) /\ y.typing = e.field /\ \A part \in EditorParts \ {"typing"} : y[part] = e[part]
    BY <1>1 DEF Parts, EditorParts
  <2> HIDE DEF y
  <2>3. /\ y.text = e.text /\ y.top = e.top /\ y.streams = e.streams /\ y.tab = e.tab
        /\ y.field = e.field /\ y.saved = e.saved /\ y.marked = e.marked /\ y.typed = e.typed
        /\ y.focus = e.focus /\ y.signal = e.signal
    BY <2>2 DEF EditorParts
  <2>4. D(y) = D(e)
    BY <2>3 DEF D
  <2>5. Drafts(y) /\ PatternFits(y) /\ FieldFits(y) /\ Focused(y)
    BY <1>1, <2>2, <2>3, <2>4 DEF Base, Drafts, PatternFits, FieldFits, Focused, Editable
  <2>6. FieldIsThere(y) /\ LabelFits(y) /\ FocusIsShown(y)
    BY <1>1, <2>3, <2>4 DEF FieldIsThere, LabelFits, FocusIsShown
  <2>7. EditorOK(y) /\ Follows(e, y)
    BY <2>3, <2>5, <2>6, SameDocument DEF EditorOK, Redrawn, Base
  <2>8. y.typing \in FieldsOf(D(y))
    BY <1>1, <1>4, <2>2, <2>4 DEF FieldIsThere
  <2> QED
    BY <2>1, <2>3, <2>7, <2>8 DEF Handles
<1>5. CASE /\ ~(e.field = None \/ e.typing = e.field \/ ~Editable(e))
           /\ ~(e.typing \notin Names \/ e.typing \in FieldsOf(D(e)))
  <2>1. OnFieldName(e) = f
    BY <1>5 DEF OnFieldName, RenameField
  <2>2. /\ Sound(e.text, d) /\ e.typing \in FieldsOf(d) /\ (~e.text \/ Parses(d))
    BY <1>1, <1>2, <1>5, RenameKeeps DEF FieldIsThere, Editable
  <2>3. Parts(g, EditorParts) /\ g.field = e.typing /\ \A part \in EditorParts \ {"field"} : g[part] = e[part]
    BY <1>1 DEF Parts, EditorParts
  <2> HIDE DEF g, d
  <2>4. /\ g.text = e.text /\ g.streams = e.streams /\ g.tab = e.tab /\ g.saved = e.saved
        /\ g.typed = e.typed /\ g.focus = e.focus /\ g.typing = e.typing
    BY <2>3 DEF EditorParts
  <2>5. D(g) = D(e)
    BY <2>4 DEF D
  <2>6. Base(g)
    BY <1>1, <2>3, <2>4, <2>5 DEF Base, Drafts, PatternFits, FieldFits, Focused, Editable
  <2>7. FocusIsShown(g)
    BY <1>1, <1>5, <2>3, <2>4, <2>5, DraftAssumption DEF FocusIsShown
  <2>8. /\ Handles(g, f) /\ D(f) = d
        /\ \A part \in EditorParts \ {"streams", "marked"} : f[part] = g[part]
    BY <1>1, <2>2, <2>3, <2>4, <2>6, <2>7, PutChanged
  <2>9. Marked(f)
    <3>1. Parts(Put(g, d), EditorParts)
      BY <1>1, <2>2, <2>4, <2>6, PutGives DEF Base, Drafts
    <3> QED
      BY <3>1, ChangedGives
  <2> HIDE DEF f
  <2>10. f.typing = e.typing /\ f.saved = e.saved
    BY <2>4, <2>8 DEF EditorParts
  <2>11. Handles(e, f)
    BY <2>4, <2>8, <2>9, <2>10 DEF Handles, Follows
  <2> QED
    BY <2>1, <2>2, <2>8, <2>10, <2>11
<1> QED
  BY <1>3, <1>4, <1>5

\* _on_pattern
LEMMA PatternHandled ==
  ASSUME NEW e, EditorOK(e), e.focus = "pattern"
  PROVE  Handles(e, OnPattern(e)) /\ ~OnPattern(e).typed
<1> DEFINE r == [e EXCEPT !.typed = FALSE, !.error = FALSE]
           w == [r EXCEPT !.error = TRUE]
           d == SetPattern(D(e), e.typing)
           set == Put(r, d)
           other == Select(set, FieldAt(D(set), 1))
<1>1. Base(e) /\ FocusIsShown(e) /\ e.tab # 0 /\ FieldIsThere(e) /\ Drafts(e) /\ Parts(e, EditorParts)
  BY ConfigAssumption DEF EditorOK, Redrawn, FocusIsShown, Base, Widgets, Drafts
<1>2. Sound(e.text, D(e)) /\ e.text \in BOOLEAN
  BY <1>1, ShownDraft
<1>3. e.text /\ (e.typing = Broken \/ IsPattern(e.typing))
  BY <1>1 DEF Base, PatternFits
<1>4. OnPattern(e) = IF e.typing = D(e).slots THEN Changed(r)
                     ELSE IF e.typing = Broken THEN w
                     ELSE Changed(IF e.field \in FieldsOf(D(set)) THEN set ELSE other)
  BY DEF OnPattern
<1>5. Parts(r, EditorParts) /\ ~r.typed /\ \A part \in EditorParts \ {"typed", "error"} : r[part] = e[part]
  BY <1>1 DEF Parts, EditorParts
<1>6. /\ Parts(w, EditorParts) /\ ~w.typed
      /\ \A part \in EditorParts \ {"typed", "error"} : w[part] = e[part]
  BY <1>1 DEF Parts, EditorParts
<1> HIDE DEF r, w, d
<1>7. ASSUME NEW x, Parts(x, EditorParts), ~x.typed,
             \A part \in EditorParts \ {"typed", "error"} : x[part] = e[part]
      PROVE  /\ Base(x) /\ FocusIsShown(x) /\ EditorOK(x) /\ Handles(e, x) /\ D(x) = D(e)
             /\ x.tab = e.tab /\ x.text = e.text /\ x.focus = e.focus /\ x.field = e.field
             /\ x.saved = e.saved /\ x.streams = e.streams
  <2>1. /\ x.text = e.text /\ x.top = e.top /\ x.streams = e.streams /\ x.tab = e.tab
        /\ x.field = e.field /\ x.saved = e.saved /\ x.marked = e.marked
        /\ x.focus = e.focus /\ x.signal = e.signal /\ x.typing = e.typing
    BY <1>7 DEF EditorParts
  <2>2. D(x) = D(e)
    BY <2>1 DEF D
  <2>3. Drafts(x) /\ PatternFits(x) /\ FieldFits(x) /\ Focused(x)
    BY <1>1, <1>7, <2>1 DEF Base, Drafts, PatternFits, FieldFits, Focused
  <2>4. FieldIsThere(x) /\ LabelFits(x) /\ FocusIsShown(x)
    BY <1>1, <1>7, <2>1, <2>2 DEF FieldIsThere, LabelFits, FocusIsShown
  <2>5. EditorOK(x) /\ Follows(e, x)
    BY <2>1, <2>3, <2>4, SameDocument DEF EditorOK, Redrawn, Base
  <2> QED
    BY <2>1, <2>2, <2>3, <2>4, <2>5 DEF Handles, Base
<1>8. CASE e.typing = D(e).slots
  <2> DEFINE f == Changed(r)
  <2>1. /\ EditorOK(f) /\ Marked(f) /\ \A part \in EditorParts \ {"marked"} : f[part] = r[part]
    BY <1>5, <1>7, ChangedGives, ChangedKeeps
  <2>2. OnPattern(e) = f
    BY <1>4, <1>8
  <2> HIDE DEF f
  <2>3. f.text = r.text /\ f.tab = r.tab /\ f.focus = r.focus /\ f.streams = r.streams /\ f.saved = r.saved /\ f.typed = r.typed
    BY <2>1 DEF EditorParts
  <2> QED
    BY <1>5, <1>7, <2>1, <2>2, <2>3 DEF Handles, Follows
<1>9. CASE e.typing # D(e).slots /\ e.typing = Broken
  <2>1. OnPattern(e) = w
    BY <1>4, <1>9
  <2> QED
    BY <1>6, <1>7, <2>1
<1>10. CASE e.typing # D(e).slots /\ e.typing # Broken
  <2>1. Sound(e.text, d)
    BY <1>2, <1>3, <1>10, SetPatternKeeps DEF d
  <2>2. /\ Base(r) /\ FocusIsShown(r) /\ r.tab # 0 /\ Sound(r.text, d) /\ r.field = e.field
        /\ r.text = e.text /\ r.tab = e.tab /\ r.focus = e.focus /\ r.saved = e.saved
        /\ r.streams = e.streams
    BY <1>1, <1>5, <1>7, <2>1
  <2>3. /\ Base(set) /\ Drafts(set) /\ D(set) = d /\ Len(set.streams) = Len(r.streams)
        /\ \A part \in EditorParts \ {"streams"} : set[part] = r[part]
    BY <1>5, <2>2, PutGives, PutBase DEF Base
  <2>4. CASE e.field \in FieldsOf(D(set))
    <3>1. OnPattern(e) = Changed(set)
      BY <1>4, <1>10, <2>4
    <3>2. /\ Handles(r, Changed(set))
          /\ \A part \in EditorParts \ {"streams", "marked"} : Changed(set)[part] = r[part]
      BY <1>5, <2>2, <2>3, <2>4, PutChanged
    <3>3. Marked(Changed(set)) /\ Changed(set).typed = r.typed /\ Changed(set).saved = r.saved
      BY <2>3, <3>2, ChangedGives DEF Drafts, EditorParts
    <3> QED
      BY <1>5, <2>2, <3>1, <3>2, <3>3 DEF Handles, Follows
  <2>5. CASE e.field \notin FieldsOf(D(set))
    <3> DEFINE f == Changed(other)
    <3>1. OnPattern(e) = f
      BY <1>4, <1>10, <2>5
    <3> HIDE DEF set
    <3>2. /\ set.tab = r.tab /\ set.text = r.text /\ set.focus = r.focus /\ set.saved = r.saved
          /\ set.typed = r.typed
      BY <2>3 DEF EditorParts
    <3>3. FieldAt(D(set), 1) # None => FieldAt(D(set), 1) \in FieldsOf(D(set))
      BY <2>2, <2>3, FieldAtIsThere
    <3>4. Redrawn(other) /\ \A part \in EditorParts \ {"field", "signal"} : other[part] = set[part]
      BY <2>2, <2>3, <3>2, <3>3, SelectGives
    <3> HIDE DEF other
    <3>5. /\ other.tab = e.tab /\ other.text = e.text /\ other.focus = e.focus /\ other.saved = e.saved
          /\ other.typed = r.typed /\ Len(other.streams) = Len(e.streams)
      BY <2>2, <2>3, <3>2, <3>4 DEF EditorParts
    <3>6. EditorOK(other)
      BY <1>1, <1>5, <3>4, <3>5 DEF EditorOK, FocusIsShown
    <3>7. /\ EditorOK(f) /\ Marked(f) /\ \A part \in EditorParts \ {"marked"} : f[part] = other[part]
      BY <3>4, <3>6, ChangedGives, ChangedKeeps DEF Redrawn, Base, Drafts
    <3> HIDE DEF f
    <3>8. /\ f.tab = other.tab /\ f.text = other.text /\ f.focus = other.focus /\ f.saved = other.saved
          /\ f.typed = other.typed /\ f.streams = other.streams
      BY <3>7 DEF EditorParts
    <3> QED
      BY <1>5, <3>1, <3>5, <3>7, <3>8 DEF Handles, Follows
  <2> QED
    BY <2>4, <2>5
<1> QED
  BY <1>8, <1>9, <1>10

\* flush, and what has been flushed.
Flushed(e) ==
    e.typed =>
        CASE e.focus = "name" -> D(e).name = e.typing
          [] e.focus = "label" -> SignalAt(D(e), e.signal).label = e.typing
          [] e.focus = "field" -> e.typing \in FieldsOf(D(e))
          [] e.focus = "pattern" -> e.error
          [] OTHER -> TRUE

LEMMA HandledGives ==
  ASSUME NEW e, EditorOK(e)
  PROVE  Handles(e, Handled(e)) /\ (e.typed => Flushed(Handled(e)))
<1>1. CASE e.focus = "name"
  BY <1>1, NameHandled DEF Handled, Handles, Flushed
<1>2. CASE e.focus = "label"
  BY <1>2, LabelHandled DEF Handled, Handles, Flushed
<1>3. CASE e.focus = "field"
  BY <1>3, FieldNameHandled DEF Handled, Handles, Flushed
<1>4. CASE e.focus = "pattern"
  BY <1>4, PatternHandled DEF Handled, Handles, Flushed
<1>5. CASE e.focus \notin {"name", "label", "field", "pattern"}
  BY <1>5, NothingHandled DEF Handled, Flushed
<1> QED
  BY <1>1, <1>2, <1>3, <1>4, <1>5

LEMMA FlushGives ==
  ASSUME NEW e, EditorOK(e)
  PROVE  Handles(e, Flush(e)) /\ Flushed(Flush(e)) /\ (e.focus = None => Flush(e) = e)
<1>1. CASE e.typed
  <2>1. Flush(e) = Handled(e) /\ e.focus # None
    BY <1>1 DEF Flush, EditorOK, Redrawn, Base, Focused
  <2> QED
    BY <1>1, <2>1, HandledGives
<1>2. CASE ~e.typed
  <2>1. Flush(e) = e
    BY <1>2 DEF Flush
  <2> QED
    BY <1>2, <2>1, NothingHandled DEF Flushed
<1> QED
  BY <1>1, <1>2

\* _edited
LEMMA EditedGives ==
  ASSUME NEW e, EditorOK(e)
  PROVE  /\ EditorOK(Edited(e)) /\ Marked(Edited(e)) /\ Edited(e).saved = e.saved
         /\ Edited(e).tab = e.tab
         /\ e.focus = None => Edited(e).focus = None
<1> DEFINE f == Flush(e)
           s == Shown(f)
           g == Changed(s)
<1>1. EditorOK(f) /\ f.saved = e.saved /\ f.tab = e.tab /\ f.focus = e.focus
  BY FlushGives DEF Handles, Follows
<1>2. Edited(e) = g
  BY DEF Edited
<1> HIDE DEF f
<1>3. /\ EditorOK(s) /\ Follows(f, s) /\ (f.focus = None => s.focus = None)
      /\ \A part \in EditorParts \ {"focus", "typing", "typed"} : s[part] = f[part]
  BY <1>1, ShownGives DEF EditorOK
<1> HIDE DEF s
<1>4. s.tab = f.tab /\ s.saved = f.saved /\ Parts(s, EditorParts)
  BY <1>3 DEF EditorParts, EditorOK, Redrawn, Base, Drafts
<1>5. EditorOK(g) /\ Marked(g) /\ \A part \in EditorParts \ {"marked"} : g[part] = s[part]
  BY <1>3, <1>4, ChangedGives, ChangedKeeps
<1> HIDE DEF g
<1>6. g.tab = s.tab /\ g.saved = s.saved /\ g.focus = s.focus
  BY <1>5 DEF EditorParts
<1> QED
  BY <1>1, <1>2, <1>3, <1>4, <1>5, <1>6

\* editingFinished
LEMMA LeaveGives ==
  ASSUME NEW e, EditorOK(e), e.focus # None
  PROVE  EditorOK(Leave(e)) /\ Follows(e, Leave(e))
<1> DEFINE l == IF e.focus = "key" /\ e.typing # CurrentKey(e) THEN RenameStream(e, e.typing) ELSE Handled(e)
           g == [l EXCEPT !.typed = FALSE, !.focus = None, !.typing = None]
<1>1. Drafts(l) /\ FieldIsThere(l) /\ Follows(e, l)
  <2>1. CASE e.focus = "key" /\ e.typing # CurrentKey(e)
    BY <2>1, RenameStreamGives DEF EditorOK, Redrawn, FocusIsShown
  <2>2. CASE ~(e.focus = "key" /\ e.typing # CurrentKey(e))
    <3>1. Handles(e, Handled(e))
      BY HandledGives
    <3> QED
      BY <2>2, <3>1 DEF Handles, EditorOK, Redrawn, Base
  <2> QED
    BY <2>1, <2>2
<1>2. Leave(e) = Shown(g)
  BY DEF Leave
<1> HIDE DEF l
<1>3. /\ Parts(g, EditorParts) /\ ~g.typed /\ g.focus = None
      /\ \A part \in EditorParts \ {"typed", "focus", "typing"} : g[part] = l[part]
  BY <1>1 DEF Drafts, Parts, EditorParts
<1> HIDE DEF g
<1>4. /\ g.text = l.text /\ g.top = l.top /\ g.streams = l.streams /\ g.tab = l.tab
      /\ g.field = l.field /\ g.saved = l.saved /\ g.marked = l.marked
  BY <1>3 DEF EditorParts
<1>5. Drafts(g) /\ FieldIsThere(g) /\ Follows(l, g)
  BY <1>1, <1>3, <1>4, SameDocument DEF Drafts, FieldIsThere, D
<1>6. EditorOK(g)
  BY <1>3, <1>5, Unfocused
<1>7. EditorOK(Shown(g)) /\ Follows(g, Shown(g))
  BY <1>6, ShownGives DEF EditorOK
<1> QED
  BY <1>1, <1>2, <1>5, <1>7, FollowsOn

----------------------------------------------------------------------------
(* What the actions do to the editor.                                                        *)

\* A step that leaves the editor as it should be, its mark right.
Sets(e, f) == EditorOK(f) /\ Marked(f) /\ f.saved = e.saved

\* create_stream, and a struct pasted as a new stream.
LEMMA AppendedStreams ==
  ASSUME NEW text, NEW ss, SoundStreams(text, ss), NEW key, NEW d, Sound(text, d)
  PROVE  SoundStreams(text, Append(ss, [key |-> key, data |-> d]))
<1> DEFINE x == [key |-> key, data |-> d]
           T == {ss[i] : i \in 1..Len(ss)} \cup {x}
           tt == Append(ss, x)
<1>1. Len(ss) \in Nat /\ ss = [i \in 1..Len(ss) |-> ss[i]]
  BY DEF SoundStreams
<1>2. ss \in [1..Len(ss) -> T]
  BY <1>1
<1>3. Parts(x, {"key", "data"}) /\ x.data = d /\ x \in T
  BY DEF Parts
<1> HIDE DEF x
<1> HIDE DEF T
<1>4. ss \in Seq(T)
  BY <1>1, <1>2, SeqDef
<1>5. /\ tt \in Seq(T) /\ Len(tt) = Len(ss) + 1 /\ tt[Len(ss) + 1] = x
      /\ \A i \in 1..Len(ss) : tt[i] = ss[i]
  BY <1>3, <1>4, AppendProperties
<1> HIDE DEF tt
<1>6. tt = [i \in 1..Len(tt) |-> tt[i]] /\ Len(tt) \in Nat
  BY <1>5, LenProperties, ElementOfSeq
<1>7. ASSUME NEW i \in 1..Len(tt) PROVE Parts(tt[i], {"key", "data"}) /\ Sound(text, tt[i].data)
  <2>1. CASE i = Len(ss) + 1
    BY <1>3, <1>5, <2>1
  <2>2. CASE i # Len(ss) + 1
    <3>1. i \in 1..Len(ss)
      BY <1>1, <1>5, <2>2
    <3> QED
      BY <1>5, <3>1 DEF SoundStreams
  <2> QED
    BY <2>1, <2>2
<1>8. SoundStreams(text, tt)
  BY <1>6, <1>7 DEF SoundStreams
<1> QED
  BY <1>8 DEF tt, x

\* delete_stream
LEMMA RemovedStreams ==
  ASSUME NEW text, NEW ss, SoundStreams(text, ss), NEW i \in 1..Len(ss)
  PROVE  SoundStreams(text, RemoveAt(ss, i)) /\ Len(RemoveAt(ss, i)) = Len(ss) - 1 /\ Len(ss) \in Nat
<1> DEFINE T == {ss[j] : j \in 1..Len(ss)}
           tt == RemoveAt(ss, i)
<1>1. Len(ss) \in Nat /\ ss = [j \in 1..Len(ss) |-> ss[j]]
  BY DEF SoundStreams
<1>2. ss \in [1..Len(ss) -> T]
  BY <1>1
<1> HIDE DEF T
<1>3. ss \in Seq(T)
  BY <1>1, <1>2, SeqDef
<1>4. /\ tt \in Seq(T) /\ Len(tt) = Len(ss) - 1
      /\ \A j \in 1..(Len(ss) - 1) : tt[j] = IF j < i THEN ss[j] ELSE ss[j + 1]
  BY <1>3, Removed
<1> HIDE DEF tt
<1>5. tt = [j \in 1..Len(tt) |-> tt[j]] /\ Len(tt) \in Nat
  BY <1>4, LenProperties, ElementOfSeq
<1>6. ASSUME NEW j \in 1..Len(tt) PROVE Parts(tt[j], {"key", "data"}) /\ Sound(text, tt[j].data)
  <2>1. PICK k \in 1..Len(ss) : tt[j] = ss[k]
    BY <1>1, <1>4
  <2> QED
    BY <2>1 DEF SoundStreams
<1>7. SoundStreams(text, tt)
  BY <1>5, <1>6 DEF SoundStreams
<1> QED
  BY <1>1, <1>4, <1>7 DEF tt

\* Other streams, with one of them shown.
LEMMA OtherStreams ==
  ASSUME NEW e, EditorOK(e), NEW ss, SoundStreams(e.text, ss)
  PROVE  /\ Parts([e EXCEPT !.streams = ss], EditorParts) /\ [e EXCEPT !.streams = ss].streams = ss
         /\ [e EXCEPT !.streams = ss].text = e.text /\ e.text \in BOOLEAN
         /\ [e EXCEPT !.streams = ss].saved = e.saved /\ PatternFits([e EXCEPT !.streams = ss])
<1> DEFINE f == [e EXCEPT !.streams = ss]
<1>1. Parts(e, EditorParts) /\ e.text \in BOOLEAN /\ PatternFits(e)
  BY DEF EditorOK, Redrawn, Base, Drafts
<1>2. Parts(f, EditorParts) /\ f.streams = ss /\ \A part \in EditorParts \ {"streams"} : f[part] = e[part]
  BY <1>1 DEF Parts, EditorParts
<1> HIDE DEF f
<1>3. f.text = e.text /\ f.saved = e.saved /\ f.focus = e.focus /\ f.typing = e.typing
  BY <1>2 DEF EditorParts
<1>4. PatternFits(f)
  BY <1>1, <1>3 DEF PatternFits
<1> QED
  BY <1>1, <1>2, <1>3, <1>4 DEF f

LEMMA OtherStreamsShown ==
  ASSUME NEW e, EditorOK(e), NEW ss, SoundStreams(e.text, ss), NEW key
  PROVE  Sets(e, Changed(RebuildTabs([e EXCEPT !.streams = ss], key)))
<1> DEFINE f == [e EXCEPT !.streams = ss]
<1>1. /\ Parts(f, EditorParts) /\ f.text \in BOOLEAN /\ SoundStreams(f.text, f.streams)
      /\ PatternFits(f) /\ f.saved = e.saved
  BY OtherStreams
<1> HIDE DEF f
<1>2. Sets(e, Changed(RebuildTabs(f, key)))
  BY <1>1, RebuiltIsSound DEF Sets
<1> QED
  BY <1>2 DEF f

LEMMA OtherStreamsLoaded ==
  ASSUME NEW e, EditorOK(e), NEW ss, SoundStreams(e.text, ss), NEW i \in 0..Len(ss)
  PROVE  Sets(e, Changed(Load([e EXCEPT !.streams = ss], i)))
<1> DEFINE f == [e EXCEPT !.streams = ss]
           l == Load(f, i)
<1>1. /\ Parts(f, EditorParts) /\ f.text \in BOOLEAN /\ SoundStreams(f.text, f.streams)
      /\ PatternFits(f) /\ f.saved = e.saved /\ f.streams = ss
  BY OtherStreams
<1> HIDE DEF f
<1>2. EditorOK(l) /\ l.saved = f.saved
  BY <1>1, LoadGives
<1> HIDE DEF l
<1>3. Sets(e, Changed(l))
  BY <1>1, <1>2, ChangedGives, ChangedKeeps DEF Sets, EditorOK, Redrawn, Base, Drafts
<1> QED
  BY <1>3 DEF f, l

\* The editor when no line edit has the focus.
LEMMA WithoutFocus ==
  ASSUME NEW e, EditorOK(e), e.focus = None
  PROVE  ~e.typed /\ Drafts(e) /\ FieldIsThere(e) /\ Base(e) /\ Flush(e) = e
BY DEF EditorOK, Redrawn, Base, Focused, Flush

\* Another draft, by what does not touch the line edits.
LEMMA PutUnfocused ==
  ASSUME NEW e, EditorOK(e), e.focus = None, e.tab # 0, NEW d, Sound(e.text, d)
  PROVE  /\ Base(Put(e, d)) /\ Drafts(Put(e, d)) /\ D(Put(e, d)) = d /\ Put(e, d).tab = e.tab
         /\ Put(e, d).field = e.field /\ Put(e, d).saved = e.saved
         /\ Put(e, d).focus = None /\ ~Put(e, d).typed
<1> DEFINE f == Put(e, d)
<1>1. ~e.typed /\ Drafts(e) /\ Base(e)
  BY WithoutFocus
<1>2. /\ Drafts(f) /\ D(f) = d /\ Base(f)
      /\ \A part \in EditorParts \ {"streams"} : f[part] = e[part]
  BY <1>1, PutGives, PutBase
<1> HIDE DEF f
<1>3. f.tab = e.tab /\ f.field = e.field /\ f.saved = e.saved /\ f.focus = None /\ f.typed = e.typed
  BY <1>2 DEF EditorParts
<1> QED
  BY <1>1, <1>2, <1>3 DEF f

\* ... and what it has selected still there;
LEMMA PutEdited ==
  ASSUME NEW e, EditorOK(e), e.focus = None, e.tab # 0, NEW d, Sound(e.text, d),
         e.field \in FieldsOf(d) \cup {None}
  PROVE  Sets(e, Edited(Put(e, d)))
<1> DEFINE f == Put(e, d)
<1>1. /\ Drafts(f) /\ D(f) = d /\ f.tab = e.tab /\ f.field = e.field /\ f.saved = e.saved
      /\ f.focus = None /\ ~f.typed
  BY PutUnfocused
<1> HIDE DEF f
<1>2. EditorOK(f)
  BY <1>1, Unfocused DEF FieldIsThere
<1> QED
  BY <1>1, <1>2, EditedGives DEF Sets, f

\* ... and a field selected that it has;
LEMMA PutSelected ==
  ASSUME NEW e, EditorOK(e), e.focus = None, e.tab # 0, NEW d, Sound(e.text, d),
         NEW f, f # None => f \in FieldsOf(d)
  PROVE  /\ Sets(e, Edited(Select(Put(e, d), f))) /\ Edited(Select(Put(e, d), f)).focus = None
         /\ Edited(Select(Put(e, d), f)).tab = e.tab
<1> DEFINE g == Put(e, d)
           s == Select(g, f)
<1>1. /\ Base(g) /\ D(g) = d /\ g.tab = e.tab /\ g.saved = e.saved /\ g.focus = None /\ ~g.typed
  BY PutUnfocused
<1> HIDE DEF g
<1>2. Redrawn(s) /\ \A part \in EditorParts \ {"field", "signal"} : s[part] = g[part]
  BY <1>1, SelectGives
<1> HIDE DEF s
<1>3. s.tab = g.tab /\ s.saved = g.saved /\ s.focus = None /\ s.typed = g.typed
  BY <1>1, <1>2 DEF EditorParts
<1>4. EditorOK(s)
  BY <1>1, <1>2, <1>3, Unfocused DEF Redrawn, Base
<1> QED
  BY <1>1, <1>3, <1>4, EditedGives DEF Sets, s, g

\* ... and a signal of it.
LEMMA Reselected ==
  ASSUME NEW e, Drafts(e), e.focus = None, ~e.typed, e.tab # 0, NEW f \in FieldsOf(D(e)), NEW key
  PROVE  /\ EditorOK([e EXCEPT !.field = f, !.signal = key])
         /\ Follows(e, [e EXCEPT !.field = f, !.signal = key])
<1> DEFINE g == [e EXCEPT !.field = f, !.signal = key]
<1>1. /\ Parts(g, EditorParts) /\ g.field = f
      /\ \A part \in EditorParts \ {"field", "signal"} : g[part] = e[part]
  BY DEF Drafts, Parts, EditorParts
<1> HIDE DEF g
<1>2. /\ g.text = e.text /\ g.top = e.top /\ g.streams = e.streams /\ g.saved = e.saved
      /\ g.marked = e.marked /\ g.tab = e.tab /\ g.focus = e.focus /\ g.typed = e.typed
  BY <1>1 DEF EditorParts
<1>3. Drafts(g) /\ FieldIsThere(g)
  BY <1>1, <1>2 DEF Drafts, FieldIsThere, D
<1>4. EditorOK(g) /\ Follows(e, g)
  BY <1>2, <1>3, Unfocused, SameDocument
<1> QED
  BY <1>4 DEF g

LEMMA Reselects ==
  ASSUME NEW e, EditorOK(e), e.focus = None, NEW key
  PROVE  EditorOK([e EXCEPT !.signal = key]) /\ Follows(e, [e EXCEPT !.signal = key])
<1> DEFINE g == [e EXCEPT !.signal = key]
<1>1. ~e.typed /\ Drafts(e) /\ FieldIsThere(e)
  BY WithoutFocus
<1>2. /\ Parts(g, EditorParts) /\ \A part \in EditorParts \ {"signal"} : g[part] = e[part]
  BY <1>1 DEF Drafts, Parts, EditorParts
<1> HIDE DEF g
<1>3. /\ g.text = e.text /\ g.top = e.top /\ g.streams = e.streams /\ g.saved = e.saved
      /\ g.marked = e.marked /\ g.tab = e.tab /\ g.focus = e.focus /\ g.typed = e.typed
      /\ g.field = e.field
  BY <1>2 DEF EditorParts
<1>4. Drafts(g) /\ FieldIsThere(g)
  BY <1>1, <1>2, <1>3 DEF Drafts, FieldIsThere, D
<1>5. EditorOK(g) /\ Follows(e, g)
  BY <1>1, <1>3, <1>4, Unfocused, SameDocument
<1> QED
  BY <1>5 DEF g

\* _mate, _row_members: the signal that stands for a row is one.
LEMMA RowKeyIsThere ==
  ASSUME NEW d, NEW key \in KeysOf(d)
  PROVE  RowKey(d, key) \in KeysOf(d)
<1> DEFINE row == PairRows(d)
           mates == {t \in d.signals : row[t.at] = SignalAt(d, key).at \/ row[SignalAt(d, key).at] = t.at}
<1>1. Mate(d, key) = IF mates = {} THEN None ELSE (CHOOSE t \in mates : TRUE).key
  BY DEF Mate
<1>2. mates \subseteq d.signals
  OBVIOUS
<1> HIDE DEF mates
<1>3. Mate(d, key) # None => Mate(d, key) \in KeysOf(d)
  BY <1>1, <1>2 DEF KeysOf
<1> QED
  BY <1>3 DEF RowKey

LEMMA SignalIsThere ==
  ASSUME NEW text, NEW d, Sound(text, d), NEW key \in KeysOf(d)
  PROVE  SignalAt(d, key) \in d.signals /\ SignalAt(d, key).key = key /\ SignalAt(d, key).field \in FieldsOf(d)
<1>1. \E s \in d.signals : s.key = key
  BY DEF KeysOf
<1>2. SignalAt(d, key) \in d.signals /\ SignalAt(d, key).key = key
  BY <1>1 DEF SignalAt
<1> QED
  BY <1>2 DEF Sound, SoundSignals

----------------------------------------------------------------------------
(* The invariant: the editor, what it takes to be saved, and the files of a save.            *)

Alive == step # "dead"
InSave == step \in {"backup", "write", "writing", "replace", "reload"}

FilesAreSound ==
    /\ path \in {p, q} /\ Parts(disk, {p, q}) /\ Usable(disk[path])
    /\ \A x \in {p, q} : Usable(disk[x]) => SoundDocument(disk[x])
SavedIsTheFile ==
    /\ Alive => ed.saved = loader /\ (~later => Marked(ed))
    /\ Alive /\ step # "reload" => loader = disk[path]
SaveGoesOn ==
    /\ step \in {"idle", "backup", "write", "writing", "replace", "reload", "dead"}
    /\ InSave => writing = Document(ed) /\ Usable(writing) /\ Flushed(ed)
    /\ step \in {"write", "writing", "replace"} => bak \in {disk[path], Torn}
    /\ step = "replace" => tmp = writing
    /\ step = "reload" => disk[path] = writing
IInv == EditorOK(ed) /\ FilesAreSound /\ SavedIsTheFile /\ SaveGoesOn

\* A step of the editor: nothing is being saved.
LEMMA EditorStep ==
  ASSUME IInv, step = "idle", UNCHANGED <<fileVars, loaderVars, saveVars>>, NEW e, ed' = e,
         EditorOK(e), Sets(ed, e) \/ (Follows(ed, e) /\ UNCHANGED later) \/ (e.saved = ed.saved /\ later')
  PROVE  IInv'
<1>1. FilesAreSound'
  BY DEF IInv, FilesAreSound, fileVars, loaderVars
<1>2. e.saved = loader /\ (~later' => Marked(e))
  BY DEF IInv, SavedIsTheFile, Alive, Sets, Follows, Marked
<1>3. SavedIsTheFile'
  BY <1>2 DEF IInv, SavedIsTheFile, Alive, fileVars, loaderVars, saveVars
<1>4. SaveGoesOn'
  BY DEF SaveGoesOn, InSave, saveVars
<1> QED
  BY <1>1, <1>3, <1>4 DEF IInv

\* What a click finds: no line edit has the focus.
LEMMA Clicked ==
  ASSUME IInv, Click
  PROVE  /\ EditorOK(ed) /\ ed.focus = None /\ ed.tab # 0 /\ step = "idle"
         /\ Sound(ed.text, Here) /\ ed.text \in BOOLEAN
         /\ ~ed.typed /\ Drafts(ed) /\ FieldIsThere(ed) /\ Base(ed)
         /\ UNCHANGED <<fileVars, loaderVars, saveVars>>
<1>1. EditorOK(ed) /\ ed.focus = None /\ ed.tab # 0 /\ step = "idle"
      /\ UNCHANGED <<fileVars, loaderVars, saveVars>>
  BY DEF IInv, Click, Edit, Act
<1>2. ~ed.typed /\ Drafts(ed) /\ FieldIsThere(ed) /\ Base(ed)
  BY <1>1, WithoutFocus
<1> QED
  BY <1>1, <1>2, ShownDraft DEF Here

LEMMA TypeTextKeeps == ASSUME IInv, TypeText PROVE IInv'
<1> USE Clicked DEF TypeText
<1>0. PICK w \in Widgets :
        /\ w = "pattern" => ed.text
        /\ w = "label" => ed.signal \in KeysOf(Here)
        /\ w = "field" => ed.field # None /\ Editable(ed)
        /\ \E x \in TextsOf(w) \cup {ShownText(w)} :
            ed' = [ed EXCEPT !.focus = w, !.typing = x, !.typed = (x # ShownText(w))]
  OBVIOUS
<1>1. PICK x \in TextsOf(w) \cup {ShownText(w)} :
        ed' = [ed EXCEPT !.focus = w, !.typing = x, !.typed = (x # ShownText(w))]
  BY <1>0
<1> DEFINE typed == x # ShownText(w)
           e == [ed EXCEPT !.focus = w, !.typing = x, !.typed = typed]
<1>2. Parts(ed, EditorParts)
  BY DEF Drafts
<1> HIDE DEF typed
<1>3. /\ Parts(e, EditorParts) /\ e.focus = w /\ e.typing = x
      /\ \A part \in EditorParts \ {"focus", "typing", "typed"} : e[part] = ed[part]
  BY <1>2 DEF Parts, EditorParts
<1>4. ed' = e
  BY <1>1 DEF typed
<1> HIDE DEF e
<1>5. /\ e.text = ed.text /\ e.top = ed.top /\ e.streams = ed.streams /\ e.tab = ed.tab
      /\ e.saved = ed.saved /\ e.marked = ed.marked /\ e.field = ed.field /\ e.signal = ed.signal
  BY <1>3 DEF EditorParts
<1>6. D(e) = Here
  BY <1>5 DEF D, Here
<1>7. w = "pattern" => x = Broken \/ IsPattern(x)
  <2> SUFFICES ASSUME w = "pattern" PROVE x = Broken \/ IsPattern(x)
    OBVIOUS
  <2>1. x \in Patterns \cup {Broken, Here.slots}
    BY DEF TextsOf, ShownText
  <2>2. ed.text
    BY <1>0
  <2>3. Here.slots = Broken \/ IsPattern(Here.slots)
    BY <2>2 DEF Sound, IsPattern
  <2> QED
    BY <2>1, <2>3, ConfigAssumption
<1>8. w # None
  BY ConfigAssumption
<1>9. Drafts(e) /\ PatternFits(e) /\ FieldFits(e) /\ Focused(e)
  BY <1>0, <1>3, <1>5, <1>6, <1>7, <1>8 DEF Drafts, PatternFits, FieldFits, Focused, Editable, Here
<1>10. FieldIsThere(e) /\ LabelFits(e) /\ FocusIsShown(e)
  BY <1>0, <1>3, <1>5, <1>6 DEF FieldIsThere, LabelFits, FocusIsShown, Here
<1>11. EditorOK(e) /\ Follows(ed, e)
  BY <1>5, <1>9, <1>10, SameDocument DEF EditorOK, Redrawn, Base
<1> QED
  BY <1>4, <1>11, EditorStep

LEMMA LeaveEditKeeps == ASSUME IInv, LeaveEdit PROVE IInv'
<1>1. EditorOK(Leave(ed)) /\ Follows(ed, Leave(ed))
  BY LeaveGives DEF IInv, LeaveEdit
<1> QED
  BY <1>1, EditorStep DEF LeaveEdit, Edit, Act

LEMMA RevertPatternKeeps == ASSUME IInv, RevertPattern PROVE IInv'
<1> DEFINE e == [ed EXCEPT !.typed = FALSE, !.error = FALSE, !.typing = Here.slots]
<1>1. EditorOK(ed) /\ ed.focus = "pattern" /\ ed' = Changed(e)
  BY DEF IInv, RevertPattern
<1>2. Base(ed) /\ Drafts(ed) /\ FieldIsThere(ed) /\ ed.tab # 0 /\ FocusIsShown(ed)
  BY <1>1, ConfigAssumption DEF EditorOK, Redrawn, Base, FocusIsShown, Widgets
<1>3. Sound(ed.text, Here) /\ ed.text
  BY <1>1, <1>2, ShownDraft DEF Here, Base, PatternFits
<1>4. Here.slots = Broken \/ IsPattern(Here.slots)
  BY <1>3 DEF Sound, IsPattern
<1>5. /\ Parts(e, EditorParts) /\ e.typing = Here.slots /\ ~e.typed
      /\ \A part \in EditorParts \ {"error", "typing", "typed"} : e[part] = ed[part]
  BY <1>2 DEF Drafts, Parts, EditorParts
<1> HIDE DEF e
<1>6. /\ e.text = ed.text /\ e.streams = ed.streams /\ e.tab = ed.tab /\ e.focus = ed.focus
      /\ e.saved = ed.saved /\ e.field = ed.field
  BY <1>5 DEF EditorParts
<1>7. Drafts(e) /\ PatternFits(e) /\ FieldFits(e) /\ Focused(e) /\ FieldIsThere(e) /\ LabelFits(e)
  BY <1>2, <1>3, <1>4, <1>5, <1>6
  DEF Drafts, PatternFits, FieldFits, Focused, FieldIsThere, LabelFits, D
<1>8. EditorOK(e)
  BY <1>2, <1>5, <1>6, <1>7 DEF EditorOK, Redrawn, Base, FocusIsShown
<1>9. EditorOK(Changed(e)) /\ Follows(ed, Changed(e))
  BY <1>5, <1>6, <1>8, ChangedKeeps, ChangedFollows
<1> QED
  BY <1>1, <1>9, EditorStep DEF RevertPattern, Edit, Act

LEMMA SwitchStreamKeeps == ASSUME IInv, SwitchStream PROVE IInv'
<1> DEFINE f == Flush(ed)
<1>1. PICK i \in 1..Len(ed.streams) : ed' = Load(f, i)
  BY DEF SwitchStream
<1>2. Handles(ed, f)
  BY FlushGives DEF IInv
<1> HIDE DEF f
<1>3. /\ Parts(f, EditorParts) /\ f.text \in BOOLEAN /\ SoundStreams(f.text, f.streams)
      /\ PatternFits(f) /\ Len(f.streams) = Len(ed.streams)
  BY <1>2 DEF Handles, EditorOK, Redrawn, Base, Drafts
<1>4. i \in 0..Len(f.streams)
  BY <1>3 DEF SoundStreams
<1>5. EditorOK(Load(f, i)) /\ Follows(f, Load(f, i))
  BY <1>3, <1>4, LoadGives
<1>6. Follows(ed, Load(f, i))
  BY <1>2, <1>5, FollowsOn DEF Handles
<1> QED
  BY <1>1, <1>5, <1>6, EditorStep DEF SwitchStream, Edit, Act

LEMMA ClickFieldKeeps == ASSUME IInv, ClickField PROVE IInv'
<1> DEFINE f == Flush(ed)
<1>1. ed.tab # 0 /\ Handles(ed, f)
  BY FlushGives DEF IInv, ClickField
<1>2. PICK i \in 1..Len(D(f).fields) : ed' = Shown(Select(f, D(f).fields[i]))
  BY DEF ClickField
<1> HIDE DEF f
<1>3. Base(f) /\ f.tab # 0 /\ D(f).fields[i] \in FieldsOf(D(f))
  BY <1>1 DEF Handles, EditorOK, Redrawn, FieldsOf
<1> DEFINE s == Select(f, D(f).fields[i])
<1>4. Redrawn(s) /\ \A part \in EditorParts \ {"field", "signal"} : s[part] = f[part]
  BY <1>3, SelectGives
<1>5. ed' = Shown(s)
  BY <1>2
<1> HIDE DEF s
<1>6. Follows(f, s)
  BY <1>4, SameDocument DEF EditorParts
<1>7. EditorOK(Shown(s)) /\ Follows(s, Shown(s))
  BY <1>4, ShownGives
<1>8. Follows(ed, Shown(s))
  BY <1>1, <1>6, <1>7, FollowsOn DEF Handles
<1> QED
  BY <1>5, <1>7, <1>8, EditorStep DEF ClickField, Edit, Act

LEMMA PickSignalKeeps == ASSUME IInv, PickSignal PROVE IInv'
<1>1. Click /\ UNCHANGED later
  BY DEF PickSignal
<1>2. PICK s \in Here.signals : ed' = [ed EXCEPT !.field = s.field, !.signal = s.key]
  BY DEF PickSignal
<1>3. s.field \in FieldsOf(D(ed))
  BY <1>1, Clicked DEF Sound, SoundSignals, Here
<1> DEFINE e == [ed EXCEPT !.field = s.field, !.signal = s.key]
<1>4. EditorOK(e) /\ Follows(ed, e)
  BY <1>1, <1>3, Clicked, Reselected
<1> HIDE DEF e
<1> QED
  BY <1>1, <1>2, <1>4, Clicked, EditorStep DEF e

\* Of what names nothing.
LEMMA RestGives ==
  ASSUME NEW e, EditorOK(e), e.tab # 0
  PROVE  /\ EditorOK(Put(e, [D(e) EXCEPT !.rest = 1 - @])) /\ Put(e, [D(e) EXCEPT !.rest = 1 - @]).saved = e.saved
<1> DEFINE d == [D(e) EXCEPT !.rest = 1 - @]
           rest == 1 - D(e).rest
<1>1. Base(e) /\ FocusIsShown(e) /\ Drafts(e) /\ FieldIsThere(e) /\ LabelFits(e) /\ FieldFits(e)
  BY DEF EditorOK, Redrawn, Base
<1>2. Sound(e.text, D(e))
  BY <1>1, ShownDraft
<1>3. d = [D(e) EXCEPT !["rest"] = rest]
  BY DEF Sound
<1> HIDE DEF rest
<1>4. Sound(e.text, d) /\ FieldsOf(d) = FieldsOf(D(e)) /\ KeysOf(d) = KeysOf(D(e)) /\ d.slots = D(e).slots
  BY <1>2, <1>3, OtherRest
<1> HIDE DEF d
<1>5. /\ e.field \in FieldsOf(d) \cup {None} /\ (e.typed /\ e.focus = "field" => ~e.text \/ Parses(d))
      /\ (e.typed /\ e.focus = "label" => e.signal \in KeysOf(d))
  BY <1>1, <1>4 DEF FieldIsThere, FocusIsShown, FieldFits, Editable, Parses
<1>6. EditorOK(Put(e, d)) /\ \A part \in EditorParts \ {"streams"} : Put(e, d)[part] = e[part]
  BY <1>1, <1>4, <1>5, PutKeeps, PutGives
<1> QED
  BY <1>6 DEF d, EditorParts

LEMMA SetRestKeeps == ASSUME IInv, SetRest PROVE IInv'
<1> DEFINE e == Put(ed, [D(ed) EXCEPT !.rest = 1 - @])
<1>1. EditorOK(e) /\ e.saved = ed.saved
  BY RestGives DEF IInv, SetRest
<1>2. ed' = Edited(e)
  BY DEF SetRest, Here
<1> HIDE DEF e
<1>3. EditorOK(Edited(e)) /\ Sets(ed, Edited(e))
  BY <1>1, EditedGives DEF Sets
<1> QED
  BY <1>2, <1>3, EditorStep DEF SetRest, Edit, Act

LEMMA ToggleKeeps == ASSUME IInv, Toggle PROVE IInv'
<1> DEFINE e == Put(ed, [D(ed) EXCEPT !.rest = 1 - @])
<1>1. Click /\ later'
  BY DEF Toggle
<1>2. EditorOK(e) /\ e.saved = ed.saved
  BY <1>1, Clicked, RestGives
<1>3. ed' = e
  BY DEF Toggle, Here
<1> HIDE DEF e
<1> QED
  BY <1>1, <1>2, <1>3, Clicked, EditorStep

LEMMA EditedLaterKeeps == ASSUME IInv, EditedLater PROVE IInv'
<1>1. EditorOK(Edited(ed)) /\ Sets(ed, Edited(ed))
  BY EditedGives DEF IInv, Sets
<1> QED
  BY <1>1, EditorStep DEF EditedLater

LEMMA PickTimeKeeps == ASSUME IInv, PickTime PROVE IInv'
<1>1. Click
  BY DEF PickTime
<1>2. PICK n \in FieldsOf(Here) \cup (IF ed.text THEN {Line} ELSE {}) : ed' = Edited(Put(ed, SetTime(Here, n)))
  BY DEF PickTime
<1> DEFINE d == SetTime(Here, n)
<1>3. Sound(ed.text, d) /\ FieldsOf(d) = FieldsOf(Here)
  BY <1>1, Clicked, SetTimeKeeps
<1> HIDE DEF d
<1>4. ed.field \in FieldsOf(d) \cup {None}
  BY <1>1, <1>3, Clicked DEF FieldIsThere, Here
<1>5. Sets(ed, Edited(Put(ed, d)))
  BY <1>1, <1>3, <1>4, Clicked, PutEdited
<1> QED
  BY <1>1, <1>2, <1>5, Clicked, EditorStep DEF Sets, d

\* Where the selected field is.
LEMMA SelectedIsAt ==
  ASSUME NEW e, FieldIsThere(e), e.field # None
  PROVE  /\ (CHOOSE i \in 1..Len(D(e).fields) : D(e).fields[i] = e.field) \in 1..Len(D(e).fields)
         /\ D(e).fields[CHOOSE i \in 1..Len(D(e).fields) : D(e).fields[i] = e.field] = e.field
<1>1. \E i \in 1..Len(D(e).fields) : D(e).fields[i] = e.field
  BY DEF FieldIsThere, FieldsOf
<1> QED
  BY <1>1

LEMMA AddFieldKeeps == ASSUME IInv, AddField PROVE IInv'
<1> DEFINE i == IF ed.field = None THEN Len(Here.fields)
                ELSE CHOOSE j \in 1..Len(Here.fields) : Here.fields[j] = ed.field
<1>1. Click /\ Editable(ed) /\ UNCHANGED later
  BY DEF AddField
<1>2. PICK n \in Names \ FieldsOf(Here) :
        ed' = [Edited(Select(Put(ed, InsertField(Here, i, n)), n)) EXCEPT !.focus = "field", !.typing = n]
  BY DEF AddField
<1>3. i \in 0..Len(Here.fields)
  <2>1. Len(Here.fields) \in Nat
    BY <1>1, Clicked, LenProperties DEF Sound
  <2>2. CASE ed.field = None
    BY <2>1, <2>2
  <2>3. CASE ed.field # None
    <3>1. i = CHOOSE j \in 1..Len(Here.fields) : Here.fields[j] = ed.field
      BY <2>3
    <3>2. i \in 1..Len(Here.fields)
      BY <2>3, <3>1, <1>1, Clicked, SelectedIsAt DEF Here
    <3> HIDE DEF i
    <3> QED
      BY <2>1, <3>2
  <2> QED
    BY <2>2, <2>3
<1> HIDE DEF i
<1> DEFINE d == InsertField(Here, i, n)
           e == Edited(Select(Put(ed, d), n))
           f == [e EXCEPT !.focus = "field", !.typing = n]
<1>4. Sound(ed.text, d) /\ n \in FieldsOf(d)
  BY <1>1, <1>3, Clicked, InsertFieldKeeps DEF Editable, Here
<1>5. ed' = f
  BY <1>2
<1> HIDE DEF d
<1>6. Sets(ed, e) /\ e.focus = None /\ e.tab = ed.tab
  BY <1>1, <1>4, Clicked, PutSelected
<1> HIDE DEF e
<1>7. EditorOK(e) /\ ~e.typed /\ Drafts(e) /\ FieldIsThere(e) /\ Marked(e) /\ e.saved = ed.saved /\ e.tab # 0
  BY <1>1, <1>6, WithoutFocus, Clicked DEF Sets
<1>8. /\ Parts(f, EditorParts) /\ f.focus = "field"
      /\ \A part \in EditorParts \ {"focus", "typing"} : f[part] = e[part]
  BY <1>7 DEF Drafts, Parts, EditorParts
<1> HIDE DEF f
<1>9. /\ f.text = e.text /\ f.top = e.top /\ f.streams = e.streams /\ f.saved = e.saved
      /\ f.marked = e.marked /\ f.tab = e.tab /\ f.typed = e.typed /\ f.field = e.field
  BY <1>8 DEF EditorParts
<1>10. Drafts(f) /\ FieldIsThere(f)
  BY <1>7, <1>8, <1>9 DEF Drafts, FieldIsThere, D
<1>11. EditorOK(f)
  BY <1>7, <1>8, <1>9, <1>10
  DEF EditorOK, Redrawn, Base, PatternFits, FieldFits, Focused, LabelFits, FocusIsShown
<1>12. Follows(e, f)
  BY <1>9, SameDocument
<1>13. Sets(ed, f)
  BY <1>7, <1>9, <1>11, <1>12, FollowsOn DEF Sets
<1> QED
  BY <1>1, <1>5, <1>11, <1>13, Clicked, EditorStep

LEMMA RemoveFieldKeeps == ASSUME IInv, RemoveField PROVE IInv'
<1> DEFINE i == CHOOSE j \in 1..Len(Here.fields) : Here.fields[j] = ed.field
           d == DropField(Here, i)
           e == Put(ed, d)
<1>1. Click /\ Editable(ed) /\ ed.field # None /\ (ed.text => Len(Here.slots) > 1) /\ UNCHANGED later
  BY DEF RemoveField
<1>2. ed' = Edited(Select(e, FieldAt(D(e), i)))
  BY DEF RemoveField
<1>3. i \in 1..Len(Here.fields) /\ Len(Here.fields) \in Nat
  <2>1. Len(Here.fields) \in Nat
    BY <1>1, Clicked, LenProperties DEF Sound
  <2> QED
    BY <2>1, <1>1, Clicked, SelectedIsAt DEF Here
<1> HIDE DEF i
<1>4. Sound(ed.text, d)
  BY <1>1, <1>3, Clicked, DropFieldKeeps DEF Editable, Here
<1> HIDE DEF d
<1>5. D(e) = d
  BY <1>1, <1>4, Clicked, PutUnfocused
<1>6. FieldAt(d, i) # None => FieldAt(d, i) \in FieldsOf(d)
  BY <1>3, <1>4, FieldAtIsThere
<1>7. Sets(ed, Edited(Select(Put(ed, d), FieldAt(d, i))))
  BY <1>1, <1>4, <1>6, Clicked, PutSelected
<1> QED
  BY <1>1, <1>2, <1>5, <1>7, Clicked, EditorStep DEF Sets

LEMMA MoveSelectedKeeps == ASSUME IInv, MoveSelected PROVE IInv'
<1>1. Click /\ ~ed.text
  BY DEF MoveSelected
<1>2. PICK i \in 1..Len(Here.fields) : \E j \in 1..Len(Here.fields) : ed' = Edited(Put(ed, MoveField(Here, i, j)))
  BY DEF MoveSelected
<1>3. PICK j \in 1..Len(Here.fields) : ed' = Edited(Put(ed, MoveField(Here, i, j)))
  BY <1>2
<1> DEFINE d == MoveField(Here, i, j)
<1>4. Sound(ed.text, d) /\ FieldsOf(d) = FieldsOf(Here)
  BY <1>1, Clicked, MoveKeeps
<1> HIDE DEF d
<1>5. ed.field \in FieldsOf(d) \cup {None}
  BY <1>1, <1>4, Clicked DEF FieldIsThere, Here
<1>6. Sets(ed, Edited(Put(ed, d)))
  BY <1>1, <1>4, <1>5, Clicked, PutEdited
<1> QED
  BY <1>1, <1>3, <1>6, Clicked, EditorStep DEF Sets, d

LEMMA PlotKeeps == ASSUME IInv, Plot PROVE IInv'
<1>1. Click
  BY DEF Plot
<1>2. PICK f \in FieldsOf(Here), lane \in Lanes :
        ed' = Edited([Put(ed, AddSignal(Here, f, lane)) EXCEPT !.field = f, !.signal = AddedKey(Here, f)])
  BY DEF Plot
<1> DEFINE d == AddSignal(Here, f, lane)
           key == AddedKey(Here, f)
           g == Put(ed, d)
           e == [g EXCEPT !.field = f, !.signal = key]
<1>3. Sound(ed.text, d) /\ FieldsOf(d) = FieldsOf(Here)
  BY <1>1, Clicked, AddSignalKeeps
<1> HIDE DEF key
<1>4. ed' = Edited(e)
  BY <1>2 DEF key
<1> HIDE DEF d
<1>5. Drafts(g) /\ D(g) = d /\ g.focus = None /\ ~g.typed /\ g.tab = ed.tab /\ g.saved = ed.saved
  BY <1>1, <1>3, Clicked, PutUnfocused
<1> HIDE DEF g
<1>6. EditorOK(e) /\ Follows(g, e)
  BY <1>1, <1>3, <1>5, Clicked, Reselected
<1> HIDE DEF e
<1>7. EditorOK(Edited(e)) /\ Sets(ed, Edited(e))
  BY <1>5, <1>6, EditedGives DEF Sets, Follows
<1> QED
  BY <1>1, <1>4, <1>7, Clicked, EditorStep

LEMMA UnplotKeeps == ASSUME IInv, Unplot PROVE IInv'
<1> DEFINE gone == {s \in Here.signals : s.key = ed.signal}
           d == WithoutSignals(Here, gone)
<1>1. Click
  BY DEF Unplot
<1>2. ed' = Edited(Select(Put(ed, d), ed.field))
  BY DEF Unplot
<1> HIDE DEF gone
<1>3. Sound(ed.text, d) /\ FieldsOf(d) = FieldsOf(Here)
  BY <1>1, Clicked, WithoutSignalsKeeps
<1> HIDE DEF d
<1>4. ed.field # None => ed.field \in FieldsOf(d)
  BY <1>1, <1>3, Clicked DEF FieldIsThere, Here
<1>5. Sets(ed, Edited(Select(Put(ed, d), ed.field)))
  BY <1>1, <1>3, <1>4, Clicked, PutSelected
<1> QED
  BY <1>1, <1>2, <1>5, Clicked, EditorStep DEF Sets

LEMMA DropRowKeeps == ASSUME IInv, DropRow PROVE IInv'
<1> DEFINE row == RowMembers(Here, ed.signal)
           s == SignalAt(Here, RowKey(Here, ed.signal))
           gone == {t \in Here.signals : t.key \in row}
<1>1. Click /\ ed.signal \in KeysOf(Here)
  BY DEF DropRow
<1>2. s.field \in FieldsOf(Here)
  BY <1>1, Clicked, RowKeyIsThere, SignalIsThere
<1>3. \/ ed' = Edited(Select(Put(ed, WithoutSignals(Here, gone)), s.field))
      \/ \E lane \in Lanes : ed' = Edited([Put(ed, SetLane(Here, row, lane)) EXCEPT !.signal = s.key])
  BY DEF DropRow
<1> HIDE DEF row, s, gone
<1>4. CASE ed' = Edited(Select(Put(ed, WithoutSignals(Here, gone)), s.field))
  <2> DEFINE d == WithoutSignals(Here, gone)
  <2>1. Sound(ed.text, d) /\ FieldsOf(d) = FieldsOf(Here)
    BY <1>1, Clicked, WithoutSignalsKeeps
  <2> HIDE DEF d
  <2>2. Sets(ed, Edited(Select(Put(ed, d), s.field)))
    BY <1>1, <1>2, <2>1, Clicked, PutSelected
  <2> QED
    BY <1>1, <1>4, <2>2, Clicked, EditorStep DEF Sets, d
<1>5. CASE \E lane \in Lanes : ed' = Edited([Put(ed, SetLane(Here, row, lane)) EXCEPT !.signal = s.key])
  <2>1. PICK lane \in Lanes : ed' = Edited([Put(ed, SetLane(Here, row, lane)) EXCEPT !.signal = s.key])
    BY <1>5
  <2> DEFINE d == SetLane(Here, row, lane)
             g == Put(ed, d)
             key == s.key
             e == [g EXCEPT !.signal = key]
  <2>2. Sound(ed.text, d) /\ FieldsOf(d) = FieldsOf(Here)
    BY <1>1, Clicked, SetLaneKeeps
  <2>3. ed' = Edited(e)
    BY <2>1
  <2> HIDE DEF d, key
  <2>4. /\ Drafts(g) /\ D(g) = d /\ g.focus = None /\ ~g.typed /\ g.tab = ed.tab /\ g.saved = ed.saved
        /\ g.field = ed.field
    BY <1>1, <2>2, Clicked, PutUnfocused
  <2> HIDE DEF g
  <2>5. EditorOK(g)
    BY <1>1, <2>2, <2>4, Clicked, Unfocused DEF FieldIsThere, Here
  <2>6. EditorOK(e) /\ Follows(g, e)
    BY <2>4, <2>5, Reselects
  <2> HIDE DEF e
  <2>7. EditorOK(Edited(e)) /\ Sets(ed, Edited(e))
    BY <2>4, <2>6, EditedGives DEF Sets, Follows
  <2> QED
    BY <1>1, <2>3, <2>7, Clicked, EditorStep
<1> QED
  BY <1>3, <1>4, <1>5

LEMMA EditProfileKeeps == ASSUME IInv, EditProfile PROVE IInv'
<1>1. PICK top \in Tops : ed' = Changed([ed EXCEPT !.top = top])
  BY DEF EditProfile
<1> DEFINE e == [ed EXCEPT !.top = top]
<1>2. EditorOK(ed) /\ Parts(ed, EditorParts)
  BY DEF IInv, EditorOK, Redrawn, Base, Drafts
<1>3. Parts(e, EditorParts) /\ \A part \in EditorParts \ {"top"} : e[part] = ed[part]
  BY <1>2 DEF Parts, EditorParts
<1> HIDE DEF e
<1>4. EditorOK(e) /\ e.saved = ed.saved
  BY <1>2, <1>3, SameView DEF EditorParts
<1>5. EditorOK(Changed(e)) /\ Follows(ed, Changed(e))
  BY <1>3, <1>4, ChangedKeeps, ChangedFollows
<1> QED
  BY <1>1, <1>5, EditorStep DEF EditProfile, Edit, Act, e

LEMMA CreateStreamKeeps == ASSUME IInv, CreateStream PROVE IInv'
<1>1. PICK key \in Keys \ KeyList(ed.streams) :
        ed' = Changed(RebuildTabs(
                [ed EXCEPT !.streams = Append(@, [key |-> key, data |-> NewDraft(ed.text)])], key))
  BY DEF CreateStream
<1>2. EditorOK(ed) /\ ed.text \in BOOLEAN /\ SoundStreams(ed.text, ed.streams) /\ Parts(ed, EditorParts)
  BY DEF IInv, EditorOK, Redrawn, Base, Drafts
<1> DEFINE ss == Append(ed.streams, [key |-> key, data |-> NewDraft(ed.text)])
<1>3. SoundStreams(ed.text, ss)
  BY <1>2, NewDraftIsSound, AppendedStreams
<1>4. ed' = Changed(RebuildTabs([ed EXCEPT !.streams = ss], key))
  BY <1>1, <1>2 DEF Parts, EditorParts
<1> HIDE DEF ss
<1>5. Sets(ed, Changed(RebuildTabs([ed EXCEPT !.streams = ss], key)))
  BY <1>2, <1>3, OtherStreamsShown
<1> QED
  BY <1>4, <1>5, EditorStep DEF CreateStream, Edit, Act, Sets

LEMMA PasteKeeps == ASSUME IInv, NEW source \in Sources, PasteStruct(source) PROVE IInv'
<1> DEFINE read == ReadOf[source]
           timed == ed.tab # 0
           name == CHOOSE l \in Labels : TRUE
           new == StreamFromStruct(read, name, timed)
           d == ReplaceFields(D(ed), read)
<1>1. /\ step = "idle" /\ ed.focus = None /\ ~ed.text /\ UNCHANGED later
      /\ UNCHANGED <<fileVars, loaderVars, saveVars>>
  BY DEF PasteStruct
<1>2. EditorOK(ed)
  BY DEF IInv
<1>3. ed.text \in BOOLEAN /\ SoundStreams(ed.text, ed.streams) /\ Parts(ed, EditorParts) /\ Drafts(ed) /\ Flush(ed) = ed
  BY <1>1, <1>2, WithoutFocus DEF Drafts
<1>4. \/ ed.tab # 0 /\ ed' = Changed(RebuildTabs(Put(ed, d), CurrentKey(ed)))
      \/ \E key \in Keys \ KeyList(ed.streams) :
            ed' = Changed(RebuildTabs([ed EXCEPT !.streams = Append(@, [key |-> key, data |-> new])], key))
  BY <1>3 DEF PasteStruct
<1>5. CASE ed.tab # 0 /\ ed' = Changed(RebuildTabs(Put(ed, d), CurrentKey(ed)))
  <2> DEFINE g == Put(ed, d)
             key == CurrentKey(ed)
  <2>1. Sound(ed.text, d)
    BY <1>1, <1>3, <1>5, ShownDraft, ReplaceKeeps
  <2> HIDE DEF d
  <2>2. Base(g) /\ Drafts(g) /\ g.saved = ed.saved
    BY <1>1, <1>2, <1>5, <2>1, PutUnfocused
  <2> HIDE DEF g, key
  <2>3. Sets(ed, Changed(RebuildTabs(g, key)))
    BY <2>2, RebuiltIsSound DEF Sets, Base, Drafts
  <2> QED
    BY <1>1, <1>5, <2>3, EditorStep DEF Sets, g, key
<1>6. CASE \E key \in Keys \ KeyList(ed.streams) :
            ed' = Changed(RebuildTabs([ed EXCEPT !.streams = Append(@, [key |-> key, data |-> new])], key))
  <2>1. PICK key \in Keys \ KeyList(ed.streams) :
            ed' = Changed(RebuildTabs([ed EXCEPT !.streams = Append(@, [key |-> key, data |-> new])], key))
    BY <1>6
  <2>2. Sound(ed.text, new)
    <3> HIDE DEF name, timed
    <3> QED
      BY <1>1, <1>3, StreamIsSound
  <2> HIDE DEF new
  <2> DEFINE ss == Append(ed.streams, [key |-> key, data |-> new])
  <2>3. SoundStreams(ed.text, ss)
    BY <1>3, <2>2, AppendedStreams
  <2>4. ed' = Changed(RebuildTabs([ed EXCEPT !.streams = ss], key))
    BY <1>3, <2>1 DEF Parts, EditorParts
  <2> HIDE DEF ss
  <2>5. Sets(ed, Changed(RebuildTabs([ed EXCEPT !.streams = ss], key)))
    BY <1>2, <2>3, OtherStreamsShown
  <2> QED
    BY <1>1, <2>4, <2>5, EditorStep DEF Sets
<1> QED
  BY <1>4, <1>5, <1>6

LEMMA DeleteStreamKeeps == ASSUME IInv, DeleteStream PROVE IInv'
<1> DEFINE left == RemoveAt(ed.streams, ed.tab)
           i == IF ed.tab > Len(left) THEN Len(left) ELSE ed.tab
<1>1. Click /\ ed' = Changed(Load([ed EXCEPT !.streams = left], i))
  BY DEF DeleteStream
<1>2. ed.tab \in 1..Len(ed.streams) /\ SoundStreams(ed.text, ed.streams)
  BY <1>1, Clicked DEF Drafts
<1>3. SoundStreams(ed.text, left) /\ Len(left) = Len(ed.streams) - 1 /\ Len(ed.streams) \in Nat
  BY <1>2, RemovedStreams
<1> HIDE DEF left
<1>4. i \in 0..Len(left)
  BY <1>2, <1>3
<1> HIDE DEF i
<1>5. Sets(ed, Changed(Load([ed EXCEPT !.streams = left], i)))
  BY <1>1, <1>3, <1>4, Clicked, OtherStreamsLoaded
<1> QED
  BY <1>1, <1>5, Clicked, EditorStep DEF Sets

LEMMA RevertKeeps == ASSUME IInv, Revert PROVE IInv'
<1>1. step = "idle" /\ ed.focus = None /\ ed' = Take(ed, loader) /\ UNCHANGED <<fileVars, loaderVars, saveVars>>
  BY DEF Revert, Edit, Act
<1>2. SoundDocument(loader) /\ ed.saved = loader
  BY <1>1 DEF IInv, FilesAreSound, SavedIsTheFile, Alive
<1>3. EditorOK(Take(ed, loader)) /\ Sets(ed, Take(ed, loader))
  BY <1>1, <1>2, TakeGives DEF Sets, IInv, EditorOK, Redrawn, Base, Drafts
<1> QED
  BY <1>1, <1>3, EditorStep

----------------------------------------------------------------------------
(* The steps of a save, and of the files.                                                    *)

LEMMA SaveKeeps == ASSUME IInv, Save PROVE IInv'
<1> DEFINE e == Flush(ed)
<1>1. step = "idle" /\ ed' = e /\ UNCHANGED <<fileVars, loaderVars, later>>
  BY DEF Save, Act
<1>2. EditorOK(e) /\ Follows(ed, e) /\ Flushed(e)
  BY FlushGives DEF IInv, Handles
<1>3. \/ step' = "backup" /\ writing' = Document(e) /\ Usable(Document(e))
      \/ UNCHANGED saveVars
  BY <1>1 DEF Save, CanBeSaved
<1> HIDE DEF e
<1>4. CASE UNCHANGED saveVars
  BY <1>1, <1>2, <1>4, EditorStep
<1>5. CASE step' = "backup" /\ writing' = Document(e) /\ Usable(Document(e))
  <2>1. FilesAreSound'
    BY <1>1 DEF IInv, FilesAreSound, fileVars, loaderVars
  <2>2. SavedIsTheFile'
    <3>1. e.saved = loader /\ (~later' => Marked(e)) /\ loader = disk[path]
      BY <1>1, <1>2 DEF IInv, SavedIsTheFile, Alive, Follows, Marked
    <3> QED
      BY <1>1, <1>5, <3>1 DEF SavedIsTheFile, Alive, fileVars, loaderVars
  <2>3. SaveGoesOn'
    BY <1>1, <1>2, <1>5 DEF SaveGoesOn, InSave
  <2> QED
    BY <1>1, <1>2, <2>1, <2>2, <2>3 DEF IInv
<1> QED
  BY <1>3, <1>4, <1>5

\* While the files of a save are written the editor and the loader stay.
LEMMA Saved ==
  ASSUME IInv, NEW at \in {"backup", "write", "writing", "replace"}, Saving(at),
         step' \in {"idle", "write", "writing", "replace"}, UNCHANGED disk
  PROVE  EditorOK(ed)' /\ FilesAreSound' /\ SavedIsTheFile'
<1>1. UNCHANGED <<path, loader, ed, later, disk>> /\ step = at
  BY DEF Saving, loaderVars
<1>2. FilesAreSound'
  BY <1>1 DEF IInv, FilesAreSound
<1>3. SavedIsTheFile'
  BY <1>1 DEF IInv, SavedIsTheFile, Alive
<1> QED
  BY <1>1, <1>2, <1>3 DEF IInv

LEMMA BackupKeeps == ASSUME IInv, Backup PROVE IInv'
<1>1. EditorOK(ed)' /\ FilesAreSound' /\ SavedIsTheFile'
  BY Saved DEF Backup
<1>2. SaveGoesOn'
  BY DEF IInv, SaveGoesOn, InSave, Backup, Saving, loaderVars
<1> QED
  BY <1>1, <1>2 DEF IInv

LEMMA WriteTmpKeeps == ASSUME IInv, WriteTmp PROVE IInv'
<1>1. EditorOK(ed)' /\ FilesAreSound' /\ SavedIsTheFile'
  BY Saved DEF WriteTmp, Write
<1>2. SaveGoesOn'
  BY DEF IInv, SaveGoesOn, InSave, WriteTmp, Write, Saving, loaderVars
<1> QED
  BY <1>1, <1>2 DEF IInv

LEMMA WriteEndsKeeps == ASSUME IInv, WriteEnds PROVE IInv'
<1>1. EditorOK(ed)' /\ FilesAreSound' /\ SavedIsTheFile'
  BY Saved DEF WriteEnds
<1>2. SaveGoesOn'
  BY DEF IInv, SaveGoesOn, InSave, WriteEnds, Saving, loaderVars
<1> QED
  BY <1>1, <1>2 DEF IInv

LEMMA SaveFailsKeeps == ASSUME IInv, SaveFails PROVE IInv'
<1>1. PICK at \in {"write", "writing", "replace"} : Saving(at)
  BY DEF SaveFails
<1>2. EditorOK(ed)' /\ FilesAreSound' /\ SavedIsTheFile'
  BY <1>1, Saved DEF SaveFails, fileVars
<1>3. SaveGoesOn'
  BY DEF IInv, SaveGoesOn, InSave, SaveFails
<1> QED
  BY <1>2, <1>3 DEF IInv

\* os.replace: the file is what the editor has, and that is sound.
LEMMA ReplaceFileKeeps == ASSUME IInv, Replace PROVE IInv'
<1>1. /\ step = "replace" /\ step' = "reload" /\ disk' = [disk EXCEPT ![path] = tmp]
      /\ UNCHANGED <<path, loader, ed, later, bak, writing>>
  BY DEF Replace, Saving, loaderVars
<1>2. tmp = Document(ed) /\ tmp = writing /\ Usable(tmp) /\ Flushed(ed)
  BY <1>1 DEF IInv, SaveGoesOn, InSave
<1>3. SoundDocument(Document(ed))
  BY DEF IInv, EditorOK, Redrawn, Base, Drafts, SoundDocument, Document, Parts
<1>4. /\ path \in {p, q} /\ Parts(disk', {p, q}) /\ disk'[path] = tmp
      /\ \A x \in {p, q} : x # path => disk'[x] = disk[x]
  BY <1>1 DEF IInv, FilesAreSound, Parts
<1>5. FilesAreSound'
  <2>1. PICK files : files = disk'
    OBVIOUS
  <2>2. \A x \in {p, q} : Usable(files[x]) => SoundDocument(files[x])
    BY <1>2, <1>3, <1>4, <2>1 DEF IInv, FilesAreSound
  <2> QED
    BY <1>1, <1>2, <1>4, <2>1, <2>2 DEF FilesAreSound
<1>6. SavedIsTheFile'
  BY <1>1 DEF IInv, SavedIsTheFile, Alive
<1>7. SaveGoesOn'
  BY <1>1, <1>2, <1>4 DEF SaveGoesOn, InSave
<1> QED
  BY <1>1, <1>5, <1>6, <1>7 DEF IInv

LEMMA ReloadKeeps == ASSUME IInv, Reload PROVE IInv'
<1> DEFINE doc == Document(ed)
           e == [ed EXCEPT !.saved = doc]
<1>1. /\ step = "reload" /\ step' = "idle" /\ loader' = disk[path] /\ ed' = Changed(e)
      /\ UNCHANGED <<disk, path>>
  BY DEF Reload, fileVars
<1>2. EditorOK(ed) /\ Parts(ed, EditorParts) /\ disk[path] = doc
  BY <1>1 DEF IInv, EditorOK, Redrawn, Base, Drafts, SaveGoesOn, InSave
<1> HIDE DEF doc
<1>3. Parts(e, EditorParts) /\ e.saved = doc /\ \A part \in EditorParts \ {"saved"} : e[part] = ed[part]
  BY <1>2 DEF Parts, EditorParts
<1> HIDE DEF e
<1>4. EditorOK(e)
  BY <1>2, <1>3, SameView
<1>5. EditorOK(Changed(e)) /\ Marked(Changed(e)) /\ Changed(e).saved = doc
  BY <1>3, <1>4, ChangedGives, ChangedKeeps
<1>6. FilesAreSound'
  BY <1>1 DEF IInv, FilesAreSound
<1>7. SavedIsTheFile'
  BY <1>1, <1>2, <1>5 DEF SavedIsTheFile, Alive
<1>8. SaveGoesOn'
  BY <1>1 DEF SaveGoesOn, InSave
<1> QED
  BY <1>1, <1>5, <1>6, <1>7, <1>8 DEF IInv

\* The other file, or the one the loader has.
LEMMA OpenProfileKeeps == ASSUME IInv, OpenProfile PROVE IInv'
<1>1. step = "idle" /\ ed.focus = None /\ UNCHANGED <<fileVars, saveVars, later>>
  BY DEF OpenProfile
<1>2. PICK to \in {p, q} \ {path} :
        IF Usable(disk[to])
        THEN path' = to /\ loader' = disk[to] /\ ed' = Take(ed, disk[to])
        ELSE loader' = disk[path] /\ UNCHANGED <<path, ed>>
  BY DEF OpenProfile
<1>3. SaveGoesOn'
  BY <1>1 DEF SaveGoesOn, InSave, saveVars
<1>4. CASE Usable(disk[to])
  <2>1. SoundDocument(disk[to])
    BY <1>4 DEF IInv, FilesAreSound
  <2>2. EditorOK(Take(ed, disk[to])) /\ Marked(Take(ed, disk[to])) /\ Take(ed, disk[to]).saved = disk[to]
    BY <1>1, <2>1, TakeGives DEF IInv, EditorOK, Redrawn, Base, Drafts
  <2>3. FilesAreSound'
    BY <1>1, <1>2, <1>4 DEF IInv, FilesAreSound, fileVars
  <2>4. SavedIsTheFile'
    BY <1>1, <1>2, <1>4, <2>2 DEF SavedIsTheFile, Alive, fileVars
  <2> QED
    BY <1>2, <1>3, <1>4, <2>2, <2>3, <2>4 DEF IInv
<1>5. CASE ~Usable(disk[to])
  <2>1. FilesAreSound'
    BY <1>1, <1>2, <1>5 DEF IInv, FilesAreSound, fileVars
  <2>2. SavedIsTheFile'
    BY <1>1, <1>2, <1>5 DEF IInv, SavedIsTheFile, Alive, fileVars, saveVars
  <2> QED
    BY <1>2, <1>3, <1>5, <2>1, <2>2 DEF IInv
<1> QED
  BY <1>4, <1>5

LEMMA DieKeeps == ASSUME IInv, Die PROVE IInv'
<1>1. step' = "dead" /\ UNCHANGED <<disk, path, loader, ed>>
  BY DEF Die, fileVars, loaderVars
<1> QED
  BY <1>1 DEF IInv, FilesAreSound, SavedIsTheFile, SaveGoesOn, Alive, InSave

\* The editor before there is a document.
LEMMA BlankIsSound ==
  Parts(Blank, EditorParts) /\ Blank.focus = None
BY DEF Blank, Parts, EditorParts

LEMMA RestartKeeps == ASSUME IInv, Restart PROVE IInv'
<1>1. /\ step' = "idle" /\ loader' = disk[path] /\ ed' = Take(Blank, disk[path])
      /\ UNCHANGED <<disk, path, later>>
  BY DEF Restart, IInv, FilesAreSound, fileVars
<1>2. SoundDocument(disk[path])
  BY DEF IInv, FilesAreSound
<1>3. /\ EditorOK(Take(Blank, disk[path])) /\ Marked(Take(Blank, disk[path]))
      /\ Take(Blank, disk[path]).saved = disk[path]
  BY <1>2, TakeGives, BlankIsSound
<1>4. FilesAreSound'
  BY <1>1 DEF IInv, FilesAreSound
<1>5. SavedIsTheFile'
  BY <1>1, <1>3 DEF SavedIsTheFile, Alive
<1>6. SaveGoesOn'
  BY <1>1 DEF SaveGoesOn, InSave
<1> QED
  BY <1>1, <1>3, <1>4, <1>5, <1>6 DEF IInv

----------------------------------------------------------------------------
(* The theorems.                                                                             *)

LEMMA InitHolds == Init => IInv
<1> SUFFICES ASSUME Init PROVE IInv
  OBVIOUS
<1>1. path = p /\ disk \in Disks /\ loader = disk[p] /\ ed = Take(Blank, disk[p]) /\ step = "idle"
  BY DEF Init
<1>2. /\ Parts(disk, {p, q}) /\ Usable(disk[p])
      /\ \A x \in {p, q} : Usable(disk[x]) => SoundDocument(disk[x])
  BY <1>1, ConfigAssumption DEF Usable
<1>3. /\ EditorOK(Take(Blank, disk[p])) /\ Marked(Take(Blank, disk[p]))
      /\ Take(Blank, disk[p]).saved = disk[p]
  BY <1>2, TakeGives, BlankIsSound
<1>4. FilesAreSound
  BY <1>1, <1>2 DEF FilesAreSound
<1>5. SavedIsTheFile
  BY <1>1, <1>3 DEF SavedIsTheFile, Alive
<1>6. SaveGoesOn
  BY <1>1 DEF SaveGoesOn, InSave
<1> QED
  BY <1>1, <1>3, <1>4, <1>5, <1>6 DEF IInv

LEMMA StepKeeps == IInv /\ [Next]_vars => IInv'
<1> SUFFICES ASSUME IInv, [Next]_vars PROVE IInv'
  OBVIOUS
<1>1. CASE EditStep
  <2>1. CASE TypeText \/ LeaveEdit \/ RevertPattern \/ SwitchStream \/ ClickField \/ PickSignal
    BY <2>1, TypeTextKeeps, LeaveEditKeeps, RevertPatternKeeps, SwitchStreamKeeps,
       ClickFieldKeeps, PickSignalKeeps
  <2>2. CASE SetRest \/ Toggle \/ EditedLater \/ PickTime \/ AddField \/ RemoveField \/ MoveSelected
    BY <2>2, SetRestKeeps, ToggleKeeps, EditedLaterKeeps, PickTimeKeeps, AddFieldKeeps,
       RemoveFieldKeeps, MoveSelectedKeeps
  <2>3. CASE Plot \/ Unplot \/ DropRow \/ EditProfile \/ CreateStream \/ DeleteStream \/ Revert
    BY <2>3, PlotKeeps, UnplotKeeps, DropRowKeeps, EditProfileKeeps, CreateStreamKeeps,
       DeleteStreamKeeps, RevertKeeps
  <2>4. CASE \E source \in Sources : PasteStruct(source)
    BY <2>4, PasteKeeps
  <2> QED
    BY <1>1, <2>1, <2>2, <2>3, <2>4 DEF EditStep
<1>2. CASE FileStep
  BY <1>2, SaveKeeps, BackupKeeps, WriteTmpKeeps, WriteEndsKeeps, ReplaceFileKeeps,
     SaveFailsKeeps, ReloadKeeps, OpenProfileKeeps, DieKeeps, RestartKeeps DEF FileStep
<1>3. CASE UNCHANGED vars
  <2>1. UNCHANGED <<disk, tmp, bak, path, loader, ed, step, writing, later>>
    BY <1>3 DEF vars, fileVars, loaderVars, saveVars
  <2> QED
    BY <2>1 DEF IInv, FilesAreSound, SavedIsTheFile, SaveGoesOn, Alive, InSave
<1> QED
  BY <1>1, <1>2, <1>3 DEF Next

LEMMA AlwaysSound == Spec => []IInv
BY InitHolds, StepKeeps, PTL DEF Spec

\* draft.py: whatever is renamed, removed, moved, typed or pasted, the signals and the simulator
\* of every draft, and the X axis and the pattern of a text one, name fields that the stream has.
THEOREM SpecKeepsReferences == Spec => []ReferencesAreKept
<1>1. IInv => ReferencesAreKept
  <2> SUFFICES ASSUME IInv, NEW i \in 1..Len(ed.streams)
               PROVE  RefersToItsFields(ed.text, ed.streams[i].data)
    BY DEF ReferencesAreKept
  <2>1. Sound(ed.text, ed.streams[i].data) /\ ed.text \in BOOLEAN
    BY DEF IInv, EditorOK, Redrawn, Base, Drafts, SoundStreams
  <2> QED
    BY <2>1 DEF RefersToItsFields, Sound, Distinct, SoundSignals, Parses
<1> QED
  BY <1>1, AlwaysSound, PTL

\* is_dirty, _on_changed: Save is shown when, and only when, the file is not what the editor has,
\* through every edit, save, profile opened and restart.
THEOREM SpecMarksWhatIsUnsaved == Spec => []MarkIsTrue
<1>1. IInv => MarkIsTrue
  BY DEF IInv, SavedIsTheFile, Alive, MarkIsTrue, Marked
<1> QED
  BY <1>1, AlwaysSound, PTL

\* save_document, flush: a save that fails at any point, or is cut short, leaves the whole file
\* that was or the whole one being saved; and what is typed is in that.
THEOREM SpecSavesWholeFiles == Spec => []SavesAreWhole
<1>1. IInv => FileIsWhole
  BY DEF IInv, FilesAreSound, SaveGoesOn, FileIsWhole, Usable
<1>2. IInv => TypedIsSaved
  BY DEF IInv, SaveGoesOn, InSave, TypedIsSaved, Flushed
<1> QED
  BY <1>1, <1>2, AlwaysSound, PTL DEF SavesAreWhole
====
