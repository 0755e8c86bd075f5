----------------------------- MODULE StoreProofs -----------------------------
(***************************************************************************)
(* Proofs about a SampleStore and the two that read it, for any            *)
(* capacities, batches and scales and any order of writing, clearing,      *)
(* resizing and reading: that it is a log of the newest rows (SampleLog),  *)
(* that its live view is current and its buckets complete, that polls get  *)
(* every row, and that the trigger fires on the crossings there are.       *)
(***************************************************************************)
EXTENDS Trigger, SequenceTheorems, FiniteSetTheorems, WellFoundedInduction, TLAPS

USE StoreAssumption

\* A run of row numbers is a sequence.
LEMMA RowsAreRows ==
  ASSUME NEW a \in Nat, NEW b \in Nat, a <= b
  PROVE  /\ Log!Rows(a, b) \in Seq(Nat) /\ Len(Log!Rows(a, b)) = b - a
         /\ \A i \in 1..(b - a) : Log!Rows(a, b)[i] = a + i
<1> DEFINE n == b - a
<1>1. n \in Nat
  OBVIOUS
<1>2. Log!Rows(a, b) = [i \in 1..n |-> a + i]
  BY DEF Log!Rows
<1>3. Log!Rows(a, b) \in [1..n -> Nat]
  BY <1>2
<1> HIDE DEF n
<1>4. Log!Rows(a, b) \in Seq(Nat) /\ Len(Log!Rows(a, b)) = n
  BY <1>1, <1>3
<1>5. \A i \in 1..n : Log!Rows(a, b)[i] = a + i
  BY <1>2
<1> QED
  BY <1>4, <1>5 DEF n

\* The newest of a run of row numbers are a run.
LEMMA NewestOfRun ==
  ASSUME NEW a \in Nat, NEW c \in Nat, NEW n \in Nat, a <= c,
         NEW s \in Seq(Nat), Len(s) = c - a, \A i \in 1..(c - a) : s[i] = a + i
  PROVE  Log!Newest(s, n) = Log!Rows(GreaterOf(a, c - n), c)
<1>1. CASE c - a <= n
  <2>1. GreaterOf(a, c - n) = a /\ Log!Newest(s, n) = s
    BY <1>1 DEF Log!Newest, GreaterOf
  <2>2. /\ Log!Rows(a, c) \in Seq(Nat) /\ Len(Log!Rows(a, c)) = c - a
        /\ \A i \in 1..(c - a) : Log!Rows(a, c)[i] = a + i
    BY RowsAreRows
  <2>3. s = Log!Rows(a, c)
    BY <2>2, SeqEqual
  <2> QED
    BY <2>1, <2>3
<1>2. CASE c - a > n
  <2> DEFINE m == c - n
             t == SubSeq(s, c - a - n + 1, c - a)
             u == Log!Rows(m, c)
  <2>1. GreaterOf(a, c - n) = m /\ Log!Newest(s, n) = t
    BY <1>2 DEF Log!Newest, GreaterOf
  <2>2. m \in Nat /\ m <= c /\ c - m = n
    BY <1>2
  <2>3. u \in Seq(Nat) /\ Len(u) = n /\ \A i \in 1..n : u[i] = m + i
    <3> HIDE DEF m
    <3> QED
      BY <2>2, RowsAreRows
  <2>4. \A i \in (c - a - n + 1)..(c - a) : s[i] \in Nat
    BY <1>2
  <2>5. c - a - n + 1 \in Int /\ c - a \in Int /\ (c - a) - (c - a - n + 1) + 1 = n
        /\ c - a - n + 1 <= c - a + 1
    BY <1>2
  <2>10. c - a - n + 1 \in 1..(Len(s) + 1) /\ c - a \in (c - a - n)..Len(s)
    BY <1>2
  <2>6. /\ t \in Seq(Nat)
        /\ Len(t) = IF c - a - n + 1 <= c - a THEN (c - a) - (c - a - n + 1) + 1 ELSE 0
        /\ \A i \in 1..((c - a) - (c - a - n + 1) + 1) : t[i] = s[(c - a - n + 1) + i - 1]
    BY <2>4, <2>5, <2>10, SubSeqProperties
  <2>7. Len(t) = n
    BY <2>5, <2>6
  <2>8. ASSUME NEW i \in 1..n PROVE t[i] = u[i]
    <3>1. t[i] = s[(c - a - n + 1) + i - 1]
      BY <2>5, <2>6
    <3>2. (c - a - n + 1) + i - 1 \in 1..(c - a)
      BY <1>2
    <3>3. s[(c - a - n + 1) + i - 1] = a + ((c - a - n + 1) + i - 1)
      BY <3>2
    <3> HIDE DEF t, u
    <3> QED
      BY <2>3, <3>1, <3>3
  <2> HIDE DEF m, t, u
  <2>9. t = u
    BY <2>3, <2>6, <2>7, <2>8, SeqEqual
  <2> QED
    BY <2>1, <2>9 DEF u
<1> QED
  BY <1>1, <1>2

\* The newest of two runs of row numbers, one after the other.
LEMMA NewestRows ==
  ASSUME NEW a \in Nat, NEW b \in Nat, NEW c \in Nat, NEW n \in Nat, a <= b, b <= c
  PROVE  Log!Newest(Log!Rows(a, b) \o Log!Rows(b, c), n) = Log!Rows(GreaterOf(a, c - n), c)
<1>1. SUFFICES ASSUME NEW x \in Seq(Nat), NEW y \in Seq(Nat), Len(x) = b - a, Len(y) = c - b,
                      \A i \in 1..(b - a) : x[i] = a + i, \A i \in 1..(c - b) : y[i] = b + i
               PROVE  Log!Newest(x \o y, n) = Log!Rows(GreaterOf(a, c - n), c)
  BY RowsAreRows
<1>2. /\ x \o y \in Seq(Nat) /\ Len(x \o y) = Len(x) + Len(y)
      /\ \A i \in 1..(Len(x) + Len(y)) : (x \o y)[i] = IF i <= Len(x) THEN x[i] ELSE y[i - Len(x)]
  BY ConcatProperties
<1>3. ASSUME NEW i \in 1..(c - a) PROVE (x \o y)[i] = a + i
  <2>1. (x \o y)[i] = IF i <= b - a THEN x[i] ELSE y[i - (b - a)]
    BY <1>1, <1>2
  <2>2. CASE i <= b - a
    BY <1>1, <2>1, <2>2
  <2>3. CASE ~(i <= b - a)
    <3>1. i - (b - a) \in 1..(c - b)
      BY <2>3
    <3>2. y[i - (b - a)] = b + (i - (b - a))
      BY <1>1, <3>1
    <3> QED
      BY <2>1, <2>3, <3>2
  <2> QED
    BY <2>2, <2>3
<1>4. a <= c /\ Len(x \o y) = c - a
  BY <1>1, <1>2
<1> QED
  BY <1>2, <1>3, <1>4, NewestOfRun

----------------------------------------------------------------------------

\* The ring r of capacity c holds the newest k of w rows, just before the head, twice.
Holds(r, h, c, k, w) ==
    \A i \in 0..(2 * c - 1) : AfterHead(i, h, c) >= c - k => r[i] = w - c + 1 + AfterHead(i, h, c)

\* How far a place is from the head is less than the capacity.
LEMMA AfterHeadType ==
  ASSUME NEW c \in Nat \ {0}, NEW h \in 0..(c - 1), NEW i \in 0..(2 * c - 1)
  PROVE  AfterHead(i, h, c) \in 0..(c - 1)
BY DEF AfterHead

\* Writing moves every place further away from the head, around the ring.
LEMMA AfterAdvance ==
  ASSUME NEW c \in Nat \ {0}, NEW h \in 0..(c - 1), NEW n \in 0..c, NEW i \in 0..(2 * c - 1)
  PROVE  /\ Advance(h, c, n) \in 0..(c - 1)
         /\ AfterHead(i, Advance(h, c, n), c) =
              IF AfterHead(i, h, c) < n THEN AfterHead(i, h, c) - n + c ELSE AfterHead(i, h, c) - n
BY DEF AfterHead, Advance

\* _write_locked keeps the newest rows: as many of the new ones as fit, and of the old
\* ones what is not overwritten.
LEMMA PutHolds ==
  ASSUME NEW c \in Nat \ {0}, NEW h \in 0..(c - 1), NEW k \in 0..c, NEW w \in Nat,
         NEW n \in 0..c, NEW more \in Nat, NEW r, NEW new,
         Len(new) = n, \A j \in 1..n : new[j] = w + more - n + j,
         more = n \/ (n = c /\ more > n), Holds(r, h, c, k, w)
  PROVE  Holds(Put(r, h, c, new), Advance(h, c, n), c, LesserOf(k + n, c), w + more)
<1> DEFINE h1 == Advance(h, c, n)
           k1 == LesserOf(k + n, c)
<1> SUFFICES ASSUME NEW i \in 0..(2 * c - 1), AfterHead(i, h1, c) >= c - k1
             PROVE  Put(r, h, c, new)[i] = w + more - c + 1 + AfterHead(i, h1, c)
  BY DEF Holds
<1>1. AfterHead(i, h, c) \in 0..(c - 1)
  BY AfterHeadType
<1>2. AfterHead(i, h1, c) = IF AfterHead(i, h, c) < n THEN AfterHead(i, h, c) - n + c
                                                      ELSE AfterHead(i, h, c) - n
  BY AfterAdvance
<1>3. Put(r, h, c, new)[i] = IF AfterHead(i, h, c) < n THEN new[AfterHead(i, h, c) + 1] ELSE r[i]
  BY DEF Put
<1>4. CASE AfterHead(i, h, c) < n
  <2>1. AfterHead(i, h, c) + 1 \in 1..n
    BY <1>1, <1>4
  <2>2. new[AfterHead(i, h, c) + 1] = w + more - n + (AfterHead(i, h, c) + 1)
    BY <2>1
  <2> HIDE DEF h1, k1
  <2> QED
    BY <1>1, <1>2, <1>3, <1>4, <2>2
<1>5. CASE AfterHead(i, h, c) >= n
  <2>1. more = n
    BY <1>1, <1>5
  <2>2. AfterHead(i, h, c) >= c - k
    BY <1>1, <1>2, <1>5 DEF LesserOf
  <2>3. r[i] = w - c + 1 + AfterHead(i, h, c)
    BY <2>2 DEF Holds
  <2> HIDE DEF h1, k1
  <2> QED
    BY <1>1, <1>2, <1>3, <1>5, <2>1, <2>3
<1> QED
  BY <1>1, <1>4, <1>5

\* The window of a ring that holds the newest rows is their run of numbers.
LEMMA WindowOfRing ==
  ASSUME NEW c \in Nat \ {0}, NEW h \in 0..(c - 1), NEW k \in 0..c, NEW w \in Nat, NEW r,
         k <= w, Holds(r, h, c, k, w)
  PROVE  WindowOf(r, h, c, k) = Log!Rows(w - k, w)
<1>1. ASSUME NEW i \in 1..k PROVE r[h + c - k + i - 1] = w - k + i
  <2>1. h + c - k + i - 1 \in 0..(2 * c - 1)
    OBVIOUS
  <2>2. AfterHead(h + c - k + i - 1, h, c) = c - k + i - 1
    BY DEF AfterHead
  <2> QED
    BY <2>1, <2>2 DEF Holds
<1>2. w - (w - k) = k
  OBVIOUS
<1> QED
  BY <1>1, <1>2 DEF WindowOf, Log!Rows

----------------------------------------------------------------------------

\* What every step keeps: the ring holds the newest rows, and no more than were written.
Inv ==
    /\ cap \in Capacities /\ head \in 0..(cap - 1) /\ count \in 0..cap
    /\ rows \in Nat /\ written \in Nat /\ count <= rows /\ rows <= written
    /\ Holds(ring, head, cap, count, written)

\* A capacity is a number, and not zero.
LEMMA CapType == ASSUME Inv PROVE cap \in Nat \ {0}
BY DEF Inv

\* The window a reader copies is the run of the newest rows' numbers.
LEMMA WindowIsNewest == ASSUME Inv PROVE Window = Log!Rows(written - count, written)
BY CapType, WindowOfRing DEF Inv, Window

\* The batch _store writes, cut to what fits.
LEMMA BatchHolds ==
  ASSUME Inv, NEW frames \in Nat \ {0}, NEW gaps \in Nat, Store(frames, gaps)
  PROVE  /\ Inv' /\ written' \in Nat /\ written' >= written
         /\ count' = LesserOf(count + LesserOf(frames + gaps, cap), cap) /\ cap' = cap
         /\ written' = written + frames + gaps
<1> DEFINE n == frames + gaps
           fits == LesserOf(n, cap)
           new == [i \in 1..fits |-> written + n - fits + i]
<1>1. cap \in Nat \ {0} /\ n \in Nat /\ fits \in 0..cap /\ fits <= n
      /\ (n = fits \/ (fits = cap /\ n > fits))
  <2>1. cap \in Nat \ {0}
    BY CapType
  <2>2. n \in Nat
    OBVIOUS
  <2> HIDE DEF n
  <2> QED
    BY <2>1, <2>2 DEF LesserOf
<1>2. new = Log!Rows(written + n - fits, written + n)
  <2>1. (written + n) - (written + n - fits) = fits
    BY <1>1 DEF Inv
  <2> QED
    BY <2>1 DEF Log!Rows
<1>3. Len(new) = fits /\ \A j \in 1..fits : new[j] = written + n - fits + j
  <2>1. written + n - fits \in Nat /\ written + n \in Nat /\ written + n - fits <= written + n
        /\ (written + n) - (written + n - fits) = fits
    BY <1>1 DEF Inv
  <2> HIDE DEF new, fits, n
  <2> QED
    BY <1>2, <2>1, RowsAreRows
<1>4. /\ ring' = Put(ring, head, cap, new) /\ head' = Advance(head, cap, fits)
      /\ count' = LesserOf(count + fits, cap)
      /\ rows' = rows + n /\ written' = written + n /\ cap' = cap
  BY DEF Store, Fitting
<1>5. Holds(ring', head', cap', count', written')
  <2> HIDE DEF new, fits, n
  <2> QED
    BY <1>1, <1>3, <1>4, PutHolds DEF Inv
<1>6. head' \in 0..(cap - 1)
  <2>1. 0 \in 0..(2 * cap - 1)
    BY <1>1
  <2> HIDE DEF new, fits, n
  <2> QED
    BY <1>1, <1>4, <2>1, AfterAdvance DEF Inv
<1>7. count' \in 0..cap /\ count' <= rows' /\ rows' <= written' /\ rows' \in Nat /\ written' \in Nat
      /\ written' >= written
  BY <1>1, <1>4 DEF Inv, LesserOf
<1> QED
  BY <1>4, <1>5, <1>6, <1>7 DEF Inv

\* _store is a write of the log.
LEMMA StoreWrites ==
  ASSUME Inv, NEW frames \in Nat \ {0}, NEW gaps \in Nat, Store(frames, gaps)
  PROVE  Log!Write
<1>1. /\ Inv' /\ written' \in Nat /\ written' >= written
      /\ count' = LesserOf(count + LesserOf(frames + gaps, cap), cap) /\ cap' = cap
      /\ written' = written + frames + gaps
  BY BatchHolds
<1>2. Window = Log!Rows(written - count, written)
  BY WindowIsNewest
<1>3. Window' = Log!Rows(written' - count', written')
  <2>1. cap' \in Nat \ {0}
    BY <1>1, CapType
  <2>2. WindowOf(ring', head', cap', count') = Log!Rows(written' - count', written')
    BY <1>1, <2>1, WindowOfRing DEF Inv
  <2> QED
    BY <2>2 DEF Window
<1>4. Log!Newest(Log!Rows(written - count, written) \o Log!Rows(written, written'), cap)
        = Log!Rows(GreaterOf(written - count, written' - cap), written')
  <2>1. /\ written - count \in Nat /\ written \in Nat /\ written' \in Nat /\ cap \in Nat
        /\ written - count <= written /\ written <= written' /\ written - (written - count) <= cap
    BY <1>1, CapType DEF Inv
  <2> QED
    BY <2>1, NewestRows
<1>5. GreaterOf(written - count, written' - cap) = written' - count'
  BY <1>1, CapType DEF Inv, GreaterOf, LesserOf
<1> QED
  BY <1>1, <1>2, <1>3, <1>4, <1>5 DEF Log!Write

\* resize is one of the log.
LEMMA ResizeResizes ==
  ASSUME Inv, NEW c \in Capacities, Resize(c)
  PROVE  Inv' /\ Log!Resize
<1> DEFINE keep == LesserOf(count, c)
<1>1. c \in Nat \ {0} /\ cap \in Nat \ {0} /\ keep \in 0..c /\ keep <= count /\ written - keep \in Nat
  BY CapType DEF Inv, LesserOf
<1>2. /\ cap' = c /\ ring' = Put(EmptyRing(c), 0, c, Kept(keep)) /\ head' = Advance(0, c, keep)
      /\ count' = keep /\ rows' = keep /\ written' = written
  BY DEF Resize
<1>3. Window = Log!Rows(written - count, written)
  BY WindowIsNewest
<1>4. /\ Window \in Seq(Nat) /\ Len(Window) = count
      /\ \A i \in 1..count : Window[i] = written - count + i
  <2>1. written - count \in Nat /\ written \in Nat /\ written - count <= written
        /\ written - (written - count) = count
    BY DEF Inv
  <2> QED
    BY <1>3, <2>1, RowsAreRows
<1>5. Len(Kept(keep)) = keep /\ \A j \in 1..keep : Kept(keep)[j] = written - keep + j
  <2> HIDE DEF keep
  <2>1. \A i \in (count - keep + 1)..count : Window[i] \in Nat
    BY <1>1, <1>4 DEF Inv
  <2>2. count - keep + 1 \in Int /\ count \in Int /\ count - (count - keep + 1) + 1 = keep
    BY <1>1 DEF Inv
  <2>3. /\ Len(SubSeq(Window, count - keep + 1, count)) = keep
        /\ \A i \in 1..keep : SubSeq(Window, count - keep + 1, count)[i] = Window[count - keep + 1 + i - 1]
    BY <1>1, <2>1, <2>2, SubSeqProperties
  <2> QED
    BY <1>1, <1>4, <2>3 DEF Kept, Inv
<1>6. Holds(ring', head', cap', count', written')
  <2>1. Holds(EmptyRing(c), 0, c, 0, written - keep)
    BY <1>1, AfterHeadType DEF Holds
  <2>2. keep = LesserOf(0 + keep, c) /\ written = (written - keep) + keep
    BY <1>1 DEF LesserOf, Inv
  <2>3. 0 \in 0..(c - 1) /\ 0 \in 0..c /\ keep \in Nat
    BY <1>1
  <2>4. \A j \in 1..keep : Kept(keep)[j] = (written - keep) + keep - keep + j
    BY <1>1, <1>5
  <2> HIDE DEF keep
  <2>5. Holds(Put(EmptyRing(c), 0, c, Kept(keep)), Advance(0, c, keep), c,
              LesserOf(0 + keep, c), (written - keep) + keep)
    BY <1>1, <1>5, <2>1, <2>3, <2>4, PutHolds
  <2> QED
    BY <1>2, <2>2, <2>5
<1>7. Inv'
  <2>1. head' \in 0..(c - 1)
    BY <1>1, <1>2 DEF Advance
  <2>2. keep \in Nat /\ keep <= written
    BY <1>1 DEF Inv
  <2> QED
    BY <1>1, <1>2, <1>6, <2>1, <2>2 DEF Inv
<1>8. Window' = Log!Rows(written - keep, written)
  <2>1. WindowOf(ring', head', cap', count') = Log!Rows(written' - count', written')
    BY <1>1, <1>2, <1>7, WindowOfRing DEF Inv
  <2> QED
    BY <1>2, <2>1 DEF Window
<1>9. Log!Newest(Window, c) = Log!Rows(written - keep, written)
  <2>1. CASE count <= c
    BY <1>3, <1>4, <2>1 DEF Log!Newest, LesserOf, Inv
  <2>2. CASE count > c
    <3>1. keep = c /\ Log!Newest(Window, c) = Kept(c)
      BY <1>1, <1>4, <2>2 DEF Log!Newest, LesserOf, Inv, Kept
    <3>2. Kept(c) \in Seq(Nat)
      <4>1. \A i \in (count - c + 1)..count : Window[i] \in Nat
        BY <1>1, <1>4, <2>2 DEF Inv
      <4>2. count - c + 1 \in Int /\ count \in Int
        BY <1>1 DEF Inv
      <4> QED
        BY <4>1, <4>2, SubSeqProperties DEF Kept
    <3>3. /\ Log!Rows(written - keep, written) \in Seq(Nat)
          /\ Len(Log!Rows(written - keep, written)) = keep
          /\ \A i \in 1..keep : Log!Rows(written - keep, written)[i] = written - keep + i
      <4>1. written \in Nat /\ written - keep <= written /\ written - (written - keep) = keep
        BY <1>1 DEF Inv
      <4> HIDE DEF keep
      <4> QED
        BY <1>1, <4>1, RowsAreRows
    <3> HIDE DEF keep
    <3> QED
      BY <1>5, <3>1, <3>2, <3>3, SeqEqual
  <2> QED
    BY <1>1, <2>1, <2>2 DEF Inv
<1> QED
  BY <1>2, <1>7, <1>8, <1>9 DEF Log!Resize

\* clear empties the log; what is left in the arrays is out of reach.
LEMMA ClearClears ==
  ASSUME Inv, Clear
  PROVE  Inv' /\ Log!Clear
<1>1. cap \in Nat \ {0}
  BY CapType
<1>2. rows' = 0 /\ head' = 0 /\ count' = 0 /\ UNCHANGED <<cap, ring, written>>
  BY DEF Clear
<1>3. Holds(ring, 0, cap, 0, written)
  BY <1>1, AfterHeadType DEF Holds
<1>4. Inv'
  BY <1>1, <1>2, <1>3 DEF Inv
<1>5. Window' = <<>>
  BY <1>2 DEF Window, WindowOf
<1> QED
  BY <1>2, <1>4, <1>5 DEF Log!Clear

\* Reading and re-timing leave the log as it is.
LEMMA ReadersChangeNothing ==
  ASSUME \/ \E s \in Scales : SetTimeScale(s)
         \/ Feed \/ Invalidate \/ Arm \/ Poll \/ UNCHANGED vars
  PROVE  UNCHANGED <<ringVars, written>>
BY DEF SetTimeScale, Feed, Tick, Snapshot, Invalidate, Arm, Poll, vars

\* Every step of the store is one of the log, or leaves it alone.
LEMMA StepRefines ==
  ASSUME Inv, [Next]_vars
  PROVE  Inv' /\ [Log!Next]_<<written, Window, cap>>
<1>1. ASSUME NEW b \in Batches, Store(b[1], b[2])
      PROVE  Inv' /\ Log!Next
  <2>1. b[1] \in Nat \ {0} /\ b[2] \in Nat
    OBVIOUS
  <2> QED
    BY <1>1, <2>1, BatchHolds, StoreWrites DEF Log!Next
<1>2. CASE Clear
  BY <1>2, ClearClears DEF Log!Next
<1>3. ASSUME NEW c \in Capacities, Resize(c)
      PROVE  Inv' /\ Log!Next
  BY <1>3, ResizeResizes DEF Log!Next
<1>4. CASE \/ \E s \in Scales : SetTimeScale(s)
           \/ Feed \/ Invalidate \/ Arm \/ Poll \/ UNCHANGED vars
  <2>1. UNCHANGED <<ringVars, written>>
    BY <1>4, ReadersChangeNothing
  <2> QED
    BY <2>1 DEF ringVars, Inv, Window, Holds
<1> QED
  BY <1>1, <1>2, <1>3, <1>4 DEF Next

\* SampleStore, "the newest samples": for any capacity and any batches, what a reader's
\* window holds is what the log of SampleLog does: the newest rows, in order, through
\* every wrap of the ring, every batch too large for it, every clear and every resize.
THEOREM StoreImplementsLog == Spec => StoreIsALog
<1>1. Init => Inv /\ Log!Init
  <2> SUFFICES ASSUME Init PROVE Inv /\ Log!Init
    OBVIOUS
  <2>1. cap \in Nat \ {0} /\ ring = EmptyRing(cap) /\ head = 0 /\ count = 0 /\ rows = 0 /\ written = 0
        /\ cap \in Capacities
    BY DEF Init
  <2>2. Holds(ring, head, cap, count, written)
    BY <2>1, AfterHeadType DEF Holds
  <2>3. Window = <<>>
    BY <2>1 DEF Window, WindowOf
  <2> QED
    BY <2>1, <2>2, <2>3 DEF Inv, Log!Init
<1>2. Inv /\ [Next]_vars => Inv' /\ [Log!Next]_<<written, Window, cap>>
  BY StepRefines
<1> QED
  BY <1>1, <1>2, PTL DEF Spec, StoreIsALog, Log!Spec

----------------------------------------------------------------------------

\* Rows written to a ring of row numbers leave one.
LEMMA PutType ==
  ASSUME NEW c \in Nat \ {0}, NEW h \in 0..(c - 1), NEW S, NEW r \in [0..(2 * c - 1) -> S],
         NEW new, NEW n \in Nat, Len(new) = n, \A j \in 1..n : new[j] \in S
  PROVE  Put(r, h, c, new) \in [0..(2 * c - 1) -> S]
<1>1. ASSUME NEW i \in 0..(2 * c - 1), AfterHead(i, h, c) < n
      PROVE  new[AfterHead(i, h, c) + 1] \in S
  <2>1. AfterHead(i, h, c) \in 0..(c - 1)
    BY AfterHeadType
  <2>2. AfterHead(i, h, c) + 1 \in 1..n
    BY <1>1, <2>1
  <2> QED
    BY <2>2
<1> QED
  BY <1>1 DEF Put

\* A place the head moves to is one.
LEMMA AdvanceType ==
  ASSUME NEW c \in Nat \ {0}, NEW h \in 0..(c - 1), NEW n \in 0..c
  PROVE  Advance(h, c, n) \in 0..(c - 1)
BY DEF Advance

\* A batch keeps the types.
LEMMA StoreTypes ==
  ASSUME TypeOK, NEW frames \in Nat \ {0}, NEW gaps \in Nat, Store(frames, gaps)
  PROVE  TypeOK'
<1> DEFINE n == frames + gaps
           fits == LesserOf(n, cap)
           new == [i \in 1..fits |-> written + n - fits + i]
<1>1. cap \in Nat \ {0} /\ n \in Nat /\ frames <= n /\ fits \in 0..cap /\ fits <= n /\ written \in Nat
  BY DEF TypeOK, LesserOf
<1>2. /\ ring' = Put(ring, head, cap, new) /\ head' = Advance(head, cap, fits)
      /\ count' = LesserOf(count + fits, cap) /\ rows' = rows + n /\ written' = written + n
      /\ total' = total + frames /\ version < MaxVersion /\ version' = version + 1
      /\ UNCHANGED <<cap, generation, scale>>
  BY DEF Store, Fitting, Changed
<1>3. Len(new) = fits /\ \A j \in 1..fits : new[j] \in 0..(written + n)
  <2>1. fits \in Nat /\ written + n - fits \in Nat
    BY <1>1
  <2> HIDE DEF fits, n
  <2> QED
    BY <1>1, <2>1
<1> HIDE DEF n, fits, new
<1>4. ring' \in [0..(2 * cap' - 1) -> 0..written']
  <2>1. ring \in [0..(2 * cap - 1) -> 0..(written + n)] /\ head \in 0..(cap - 1)
    BY <1>1 DEF TypeOK
  <2> DEFINE S == 0..(written + n)
  <2>2. fits \in Nat /\ ring \in [0..(2 * cap - 1) -> S] /\ \A j \in 1..fits : new[j] \in S
    BY <1>1, <1>3, <2>1
  <2> HIDE DEF S
  <2>3. Put(ring, head, cap, new) \in [0..(2 * cap - 1) -> S]
    BY <1>1, <1>3, <2>1, <2>2, PutType
  <2> QED
    BY <1>2, <2>3 DEF S
<1>5. head' \in 0..(cap' - 1)
  BY <1>1, <1>2, AdvanceType DEF TypeOK
<1>6. count' \in 0..cap' /\ rows' \in Nat /\ count' <= rows' /\ rows' <= written' /\ written' \in Nat
  BY <1>1, <1>2 DEF TypeOK, LesserOf
<1>7. total' \in Nat /\ total' <= written' /\ version' \in 0..MaxVersion
  BY <1>1, <1>2 DEF TypeOK
<1> QED
  BY <1>2, <1>4, <1>5, <1>6, <1>7 DEF TypeOK

\* A resize keeps the types.
LEMMA ResizeTypes ==
  ASSUME TypeOK, NEW c \in Capacities, Resize(c)
  PROVE  TypeOK'
<1> DEFINE keep == LesserOf(count, c)
           S == 0..written
<1>1. c \in Nat \ {0} /\ cap \in Nat \ {0} /\ keep \in 0..c /\ keep <= count /\ count \in Nat
  BY DEF TypeOK, LesserOf
<1>2. /\ cap' = c /\ ring' = Put(EmptyRing(c), 0, c, Kept(keep)) /\ head' = Advance(0, c, keep)
      /\ count' = keep /\ rows' = keep /\ version < MaxVersion /\ version' = version + 1
      /\ UNCHANGED <<generation, total, scale, written>>
  BY DEF Resize, Changed
<1> HIDE DEF keep
<1>3. \A i \in 1..count : Window[i] \in S
  BY <1>1 DEF Window, WindowOf, TypeOK
<1>4. Len(Kept(keep)) = keep /\ \A j \in 1..keep : Kept(keep)[j] \in S
  <2>1. \A i \in (count - keep + 1)..count : Window[i] \in S
    BY <1>1, <1>3
  <2>2. count - keep + 1 \in Int /\ count \in Int /\ count - (count - keep + 1) + 1 = keep
    BY <1>1
  <2> HIDE DEF S
  <2>3. /\ SubSeq(Window, count - keep + 1, count) \in Seq(S)
        /\ Len(SubSeq(Window, count - keep + 1, count)) = keep
    BY <1>1, <2>1, <2>2, SubSeqProperties
  <2> QED
    BY <1>1, <2>3 DEF Kept
<1>5. EmptyRing(c) \in [0..(2 * c - 1) -> S]
  BY DEF EmptyRing, NoRow, TypeOK
<1>6. ring' \in [0..(2 * c - 1) -> S]
  <2>1. 0 \in 0..(c - 1) /\ keep \in Nat
    BY <1>1
  <2> HIDE DEF S
  <2> QED
    BY <1>1, <1>2, <1>4, <1>5, <2>1, PutType
<1>7. head' \in 0..(cap' - 1)
  BY <1>1, <1>2 DEF Advance
<1> QED
  BY <1>1, <1>2, <1>6, <1>7 DEF TypeOK

\* Every variable has its type, whatever the capacities and batches are.
THEOREM TypeCorrect == Spec => []TypeOK
<1>1. Init => TypeOK
  BY DEF Init, TypeOK, EmptyRing, NoRow
<1>2. ASSUME TypeOK, [Next]_vars PROVE TypeOK'
  <2>1. ASSUME NEW b \in Batches, Store(b[1], b[2]) PROVE TypeOK'
    <3>1. b[1] \in Nat \ {0} /\ b[2] \in Nat
      OBVIOUS
    <3> QED
      BY <1>2, <2>1, <3>1, StoreTypes
  <2>2. CASE Clear
    BY <1>2, <2>2 DEF TypeOK, Clear, Changed, NewGeneration, feedVars, triggerVars
  <2>3. ASSUME NEW c \in Capacities, Resize(c) PROVE TypeOK'
    BY <1>2, <2>3, ResizeTypes
  <2>4. ASSUME NEW s \in Scales, SetTimeScale(s) PROVE TypeOK'
    BY <1>2, <2>4 DEF TypeOK, SetTimeScale, ScaleChanges, Changed, ringVars
  <2>5. CASE Feed \/ Invalidate \/ Arm \/ Poll \/ UNCHANGED vars
    <3>1. UNCHANGED <<ringVars, metaVars, written>>
      BY <2>5 DEF Feed, Tick, Snapshot, Invalidate, Arm, Poll, vars
    <3> QED
      BY <1>2, <3>1 DEF TypeOK, ringVars, metaVars
  <2> QED
    BY <1>2, <2>1, <2>2, <2>3, <2>4, <2>5 DEF Next
<1> QED
  BY <1>1, <1>2, PTL DEF Spec

----------------------------------------------------------------------------

\* The live view never has a version there has not been: a change makes it old.
FrameIsOfThePast ==
    /\ frame = [version |-> frame.version, rows |-> frame.rows, scale |-> frame.scale]
    /\ version \in Nat /\ frame.version \in Int /\ frame.version <= version

\* LiveFeed.tick and _version, "bumps on every change visible to readers": whenever tick
\* would find nothing new, the live view shows exactly the rows there are, at their scale,
\* through clears, resizes and re-timings between any two of its steps.
THEOREM FramesAreCurrent == Spec => []FrameIsCurrent
<1>1. Init => FrameIsOfThePast /\ FrameIsCurrent
  BY DEF Init, FrameIsOfThePast, FrameIsCurrent, NoVersion
<1>2. ASSUME FrameIsOfThePast, FrameIsCurrent, [Next]_vars
      PROVE  FrameIsOfThePast' /\ FrameIsCurrent'
  <2>1. CASE \/ \E b \in Batches : Store(b[1], b[2])
             \/ Clear
             \/ \E c \in Capacities : Resize(c)
             \/ \E s \in Scales : SetTimeScale(s)
    <3>1. version' = version + 1 /\ frame' = frame
      BY <2>1 DEF Store, Clear, Resize, SetTimeScale, ScaleChanges, Changed, feedVars
    <3> QED
      BY <1>2, <3>1 DEF FrameIsOfThePast, FrameIsCurrent
  <2>2. CASE Feed
    <3>1. UNCHANGED <<version, scale, ringVars>> /\ (frame' = frame \/ Show)
      BY <2>2 DEF Feed, Tick, Snapshot, metaVars
    <3>2. Window' = Window
      BY <3>1 DEF Window, ringVars
    <3> QED
      BY <1>2, <3>1, <3>2 DEF FrameIsOfThePast, FrameIsCurrent, Show
  <2>3. CASE Invalidate
    <3>1. version' = version /\ frame' = [frame EXCEPT !.version = NoVersion]
      BY <2>3 DEF Invalidate, metaVars
    <3> QED
      BY <1>2, <3>1 DEF FrameIsOfThePast, FrameIsCurrent, NoVersion
  <2>4. CASE Arm \/ Poll \/ UNCHANGED vars
    <3>1. UNCHANGED <<version, scale, frame, ringVars>>
      BY <2>4 DEF Arm, Poll, vars, metaVars, feedVars
    <3>2. Window' = Window
      BY <3>1 DEF Window, ringVars
    <3> QED
      BY <1>2, <3>1, <3>2 DEF FrameIsOfThePast, FrameIsCurrent
  <2> QED
    BY <1>2, <2>1, <2>2, <2>3, <2>4 DEF Next
<1> QED
  BY <1>1, <1>2, PTL DEF Spec

----------------------------------------------------------------------------
(* The trigger's cursor. *)

\* What a cursor says of the rows seen: it is as far from the newest row as they are, unless
\* the ring was resized since; one of an older generation is before all rows there are.
CursorInv ==
    /\ generation \in Nat /\ seenTo \in 0..written /\ (rows > 0 => count > 0)
    /\ cursor # NoCursor =>
        /\ cursor[1] \in 0..generation /\ cursor[2] \in Nat
        /\ IF cursor[1] = generation
           THEN /\ rows - cursor[2] <= written - seenTo
                /\ ~resized => rows - cursor[2] = written - seenTo
           ELSE seenTo <= written - rows

\* The end of a run of row numbers is one.
LEMMA EndOfRun ==
  ASSUME NEW a \in Nat, NEW b \in Nat, a <= b, NEW d \in Nat
  PROVE  SubSeq(Log!Rows(a, b), d + 1, b - a) = Log!Rows(LesserOf(a + d, b), b)
<1> DEFINE n == b - a
           m == LesserOf(a + d, b)
           s == Log!Rows(a, b)
           t == SubSeq(s, d + 1, n)
           u == Log!Rows(m, b)
<1>1. n \in Nat /\ m \in Nat /\ m <= b /\ m >= a /\ (d <= n => m = a + d) /\ (d > n => m = b)
  BY DEF LesserOf
<1>2. s \in Seq(Nat) /\ Len(s) = n /\ \A i \in 1..n : s[i] = a + i
  <2> HIDE DEF s
  <2> QED
    BY RowsAreRows DEF s
<1>3. u \in Seq(Nat) /\ Len(u) = b - m /\ \A i \in 1..(b - m) : u[i] = m + i
  <2> HIDE DEF m
  <2> QED
    BY <1>1, RowsAreRows
<1> HIDE DEF m, s, t, u
<1>4. /\ t \in Seq(Nat) /\ Len(t) = IF d + 1 <= n THEN n - (d + 1) + 1 ELSE 0
      /\ \A i \in 1..(n - (d + 1) + 1) : t[i] = s[d + 1 + i - 1]
  <2>1. \A i \in (d + 1)..n : s[i] \in Nat
    BY <1>1, <1>2
  <2>2. d + 1 \in Int /\ n \in Int
    BY <1>1
  <2> HIDE DEF n
  <2> QED
    BY <2>1, <2>2, SubSeqProperties DEF t
<1>5. Len(t) = Len(u)
  BY <1>1, <1>3, <1>4
<1>6. ASSUME NEW i \in 1..Len(t) PROVE t[i] = u[i]
  <2>1. d < n /\ i \in 1..(n - d) /\ d + i \in 1..n /\ m = a + d
    BY <1>1, <1>4
  <2>2. t[i] = s[d + i]
    BY <1>4, <2>1
  <2>3. s[d + i] = a + (d + i)
    BY <1>2, <2>1
  <2>4. u[i] = m + i
    BY <1>3, <2>1
  <2> QED
    BY <2>1, <2>2, <2>3, <2>4
<1>7. t = u
  BY <1>3, <1>4, <1>5, <1>6, SeqEqual
<1> QED
  BY <1>7 DEF t, u, m, s

\* read_since returns the newest rows from some place on, and none before the cursor's.
LEMMA SinceIsARun ==
  ASSUME Inv, CursorInv, cursor # NoCursor
  PROVE  \E from \in Nat :
            /\ Since(cursor) = Log!Rows(from, written)
            /\ seenTo <= from /\ from <= written
            /\ ~resized => from = GreaterOf(seenTo, written - count)
<1> DEFINE a == written - count
           d == StartOf(cursor) - (rows - count)
           from == LesserOf(a + d, written)
<1>1. /\ a \in Nat /\ a <= written /\ written \in Nat /\ count \in Nat /\ rows \in Nat /\ count <= rows
      /\ seenTo \in 0..written /\ written - a = count /\ rows <= written
  BY DEF Inv, CursorInv
<1>2. cursor[1] # generation => d = 0 /\ seenTo <= written - rows
  BY <1>1 DEF StartOf, CursorInv
<1>3. cursor[1] = generation =>
         /\ cursor[2] \in Nat /\ d = GreaterOf(cursor[2] - rows + count, 0)
         /\ rows - cursor[2] <= written - seenTo
         /\ ~resized => rows - cursor[2] = written - seenTo
  BY <1>1 DEF StartOf, CursorInv, GreaterOf
<1>4. d \in Nat
  BY <1>1, <1>2, <1>3 DEF GreaterOf
<1>5. Since(cursor) = SubSeq(Log!Rows(a, written), d + 1, written - a)
  <2>1. Since(cursor) = SubSeq(Window, d + 1, count)
    BY DEF Since
  <2> QED
    BY <1>1, <2>1, WindowIsNewest
<1>6. Since(cursor) = Log!Rows(from, written)
  <2> HIDE DEF a, d
  <2> QED
    BY <1>1, <1>4, <1>5, EndOfRun
<1>7. from \in Nat /\ from <= written
  <2> HIDE DEF d
  <2> QED
    BY <1>1, <1>4 DEF LesserOf
<1>8. seenTo <= from /\ (~resized => from = GreaterOf(seenTo, written - count))
  <2>1. CASE cursor[1] # generation
    <3>1. from = a
      BY <1>1, <1>2, <2>1 DEF LesserOf
    <3> QED
      BY <1>1, <1>2, <2>1, <3>1 DEF GreaterOf
  <2>2. CASE cursor[1] = generation
    <3> HIDE DEF d
    <3> QED
      BY <1>1, <1>3, <1>4, <2>2 DEF GreaterOf, LesserOf
  <2> QED
    BY <2>1, <2>2
<1> HIDE DEF from
<1> QED
  BY <1>6, <1>7, <1>8

\* Every step keeps the cursor's relation to the rows seen.
LEMMA StepKeepsCursor ==
  ASSUME Inv, CursorInv, [Next]_vars
  PROVE  CursorInv'
<1>1. /\ count \in Nat /\ rows \in Nat /\ written \in Nat /\ count <= rows /\ rows <= written
      /\ cap \in Nat \ {0} /\ generation \in Nat /\ seenTo \in 0..written
  BY CapType DEF Inv, CursorInv
<1>2. ASSUME NEW b \in Batches, Store(b[1], b[2]) PROVE CursorInv'
  <2> DEFINE n == b[1] + b[2]
             fits == Fitting(n)
  <2>1. b[1] \in Nat \ {0} /\ b[2] \in Nat
    OBVIOUS
  <2>2. n \in Nat \ {0}
    BY <2>1
  <2>3. /\ rows' = rows + n /\ written' = written + n /\ count' = LesserOf(count + fits, cap)
        /\ UNCHANGED <<generation, cursor, seenTo, resized>>
    BY <1>2 DEF Store, triggerVars
  <2> HIDE DEF n
  <2>4. fits \in Nat \ {0}
    BY <1>1, <2>2 DEF Fitting, LesserOf
  <2>5. count' > 0
    <3> HIDE DEF fits
    <3> QED
      BY <1>1, <2>3, <2>4 DEF LesserOf
  <2> QED
    BY <1>1, <2>2, <2>3, <2>5 DEF CursorInv
<1>3. CASE Clear
  <2>1. rows' = 0 /\ generation' = generation + 1 /\ UNCHANGED <<written, cursor, seenTo, resized>>
    BY <1>3 DEF Clear, NewGeneration, triggerVars
  <2> QED
    BY <1>1, <2>1 DEF CursorInv
<1>4. ASSUME NEW c \in Capacities, Resize(c) PROVE CursorInv'
  <2>1. /\ rows' = LesserOf(count, c) /\ count' = rows' /\ resized' = TRUE
        /\ UNCHANGED <<written, generation, cursor, seenTo>>
    BY <1>4 DEF Resize
  <2>2. rows' <= rows /\ rows' \in Nat
    BY <1>1, <2>1 DEF LesserOf
  <2> QED
    BY <1>1, <2>1, <2>2 DEF CursorInv
<1>5. CASE Arm
  <2>1. /\ cursor' = <<generation, ArmedAt>> /\ UNCHANGED <<rows, count, written, generation>>
        /\ seenTo' = IF rows = 0 THEN written ELSE written - 1
    BY <1>5 DEF Arm, ringVars, metaVars
  <2>2. ArmedAt = IF rows = 0 THEN 0 ELSE rows - 1
    BY <1>1 DEF ArmedAt, GreaterOf
  <2> QED
    BY <1>1, <2>1, <2>2 DEF CursorInv
<1>6. CASE Poll
  <2>1. cursor' = <<generation, rows>> /\ seenTo' = written /\ UNCHANGED <<rows, count, written, generation>>
    BY <1>6 DEF Poll, ringVars, metaVars
  <2> QED
    BY <1>1, <2>1 DEF CursorInv
<1>7. CASE (\E s \in Scales : SetTimeScale(s)) \/ Feed \/ Invalidate \/ UNCHANGED vars
  <2>1. UNCHANGED <<rows, count, written, generation, cursor, seenTo, resized>>
    BY <1>7 DEF SetTimeScale, Feed, Tick, Snapshot, Invalidate, vars, ringVars, metaVars, triggerVars
  <2> QED
    BY <2>1 DEF CursorInv
<1> QED
  BY <1>2, <1>3, <1>4, <1>5, <1>6, <1>7 DEF Next

\* What the store and its readers keep, together.
StoreInv == Inv /\ CursorInv

\* A store begins empty, with no cursor taken.
LEMMA InitStore == Init => StoreInv
<1> SUFFICES ASSUME Init PROVE Inv /\ CursorInv
  BY DEF StoreInv
<1>1. cap \in Nat \ {0} /\ ring = EmptyRing(cap) /\ head = 0 /\ count = 0 /\ rows = 0 /\ written = 0
      /\ cap \in Capacities
  BY DEF Init
<1>2. Holds(ring, head, cap, count, written)
  BY <1>1, AfterHeadType DEF Holds
<1>3. CursorInv
  BY DEF Init, CursorInv
<1> QED
  BY <1>1, <1>2, <1>3 DEF Inv

\* Every step keeps both.
LEMMA StepStore == StoreInv /\ [Next]_vars => StoreInv'
BY StepRefines, StepKeepsCursor DEF StoreInv

\* A poll now would return just the rows not seen that are still there.
LEMMA StoreShowsUnseen == StoreInv => PollsSeeEverySample
BY SinceIsARun DEF StoreInv, PollsSeeEverySample, UnseenRows

\* read_since, "every sample, gap markers included": for any capacities and batches, however
\* many rows are written or overrun between two polls and wherever the store is cleared, the
\* next poll gets every row not seen yet that is still there, in order and none twice.
THEOREM PollsAreComplete == Spec => []PollsSeeEverySample
BY InitStore, StepStore, StoreShowsUnseen, PTL DEF Spec

----------------------------------------------------------------------------
(* The buckets. *)

\* A set of numbers that is not empty has a least one.
LEMMA LeastOf ==
  ASSUME NEW T, T \subseteq Nat, T # {}
  PROVE  \E x \in T : \A y \in T : x <= y
<1> DEFINE R == OpToRel(<, Nat)
<1>1. IsWellFoundedOn(R, Nat)
  BY NatLessThanWellFounded
<1>2. \A x, y \in Nat : <<y, x>> \in R <=> y < x
  BY DEF OpToRel
<1> HIDE DEF R
<1>3. PICK x \in T : \A y \in T : ~ (<<y, x>> \in R)
  BY <1>1, WFMin
<1>4. ASSUME NEW y \in T PROVE x <= y
  <2>1. x \in Nat /\ y \in Nat
    OBVIOUS
  <2>2. ~(y < x)
    BY <1>2, <1>3, <2>1
  <2> QED
    BY <2>1, <2>2
<1> QED
  BY <1>4

\* Division with its remainder, by a number that is not given.
LEMMA Quotient ==
  ASSUME NEW x \in Int, NEW k \in Nat \ {0}
  PROVE  /\ x \div k \in Int /\ x % k \in 0..(k - 1)
         /\ x = k * (x \div k) + (x % k)
<1>1. x \div k \in Int
  OBVIOUS
<1>2. x % k \in 0..(k - 1)
  OBVIOUS
<1>3. x = k * (x \div k) + (x % k)
  OBVIOUS
<1> QED
  BY <1>1, <1>2, <1>3

\* Multiples are in the order of what is multiplied, and apart by the factor at least.
LEMMA Products ==
  ASSUME NEW a \in Int, NEW b \in Int, NEW k \in Nat \ {0}
  PROVE  /\ k * a \in Int /\ k * b \in Int
         /\ a <= b => k * a <= k * b
         /\ a < b => k * a + k <= k * b
<1>1. k * a \in Int /\ k * b \in Int
  OBVIOUS
<1>2. ASSUME NEW c \in Int, NEW d \in Nat, d = c PROVE k * c >= 0
  BY <1>2
<1>3. a <= b => k * (b - a) >= 0
  <2>1. a <= b => b - a \in Nat
    OBVIOUS
  <2> QED
    BY <2>1, <1>2
<1>4. k * (b - a) = k * b - k * a
  OBVIOUS
<1>5. a < b => k * (b - a - 1) >= 0
  <2>1. a < b => b - a - 1 \in Nat
    OBVIOUS
  <2> QED
    BY <2>1, <1>2
<1>6. k * (b - a - 1) = k * b - k * a - k
  OBVIOUS
<1> QED
  BY <1>1, <1>3, <1>4, <1>5, <1>6

\* A quotient is the number whose multiple is just below.
LEMMA QuotientIs ==
  ASSUME NEW x \in Int, NEW k \in Nat \ {0}, NEW q \in Int, k * q <= x, x < k * q + k
  PROVE  x \div k = q
<1> DEFINE d == x \div k
           r == x % k
<1>1. d \in Int /\ r \in 0..(k - 1) /\ x = k * d + r
  BY Quotient
<1> HIDE DEF d, r
<1>2. k * d \in Int /\ k * q \in Int /\ (d < q => k * d + k <= k * q) /\ (q < d => k * q + k <= k * d)
  BY <1>1, Products
<1>3. d = q
  BY <1>1, <1>2
<1> QED
  BY <1>3 DEF d

\* Quotients are in the order of what is divided, and as far apart as its quotient at most.
LEMMA QuotientsInOrder ==
  ASSUME NEW x \in Int, NEW y \in Int, NEW k \in Nat \ {0}, x <= y
  PROVE  /\ x \div k <= y \div k
         /\ \A c \in Nat : y - x < c => y \div k <= x \div k + c \div k + 1
<1> DEFINE p == x \div k
           q == y \div k
<1>1. /\ p \in Int /\ k * p <= x /\ x < k * p + k
      /\ q \in Int /\ k * q <= y /\ y < k * q + k
  BY Quotient
<1> HIDE DEF p, q
<1>2. k * p \in Int /\ k * q \in Int /\ (q < p => k * q + k <= k * p)
  BY <1>1, Products
<1>3. p <= q
  BY <1>1, <1>2
<1>4. ASSUME NEW c \in Nat, y - x < c PROVE q <= p + c \div k + 1
  <2> DEFINE d == c \div k
  <2>1. d \in Int /\ k * d <= c /\ c < k * d + k
    BY Quotient
  <2> HIDE DEF d
  <2>2. k * (p + d + 1) \in Int /\ (p + d + 1 < q => k * (p + d + 1) + k <= k * q)
    BY <1>1, <2>1, Products
  <2>3. k * (p + d + 1) = k * p + k * d + k /\ k * d \in Int
    BY <1>1, <2>1
  <2>4. q <= p + d + 1
    BY <1>1, <1>2, <1>4, <2>1, <2>2, <2>3
  <2> QED
    BY <2>4 DEF d
<1> QED
  BY <1>3, <1>4 DEF p, q

\* Numbers less than k apart that have the same remainder are the same.
LEMMA SameRemainder ==
  ASSUME NEW x \in Int, NEW y \in Int, NEW k \in Nat \ {0}, x <= y, y < x + k, x % k = y % k
  PROVE  x = y
<1> DEFINE p == x \div k
           q == y \div k
           r == x % k
<1>1. p \in Int /\ q \in Int /\ r \in 0..(k - 1) /\ x = k * p + r /\ y = k * q + r
  BY Quotient
<1> HIDE DEF p, q, r
<1>2. k * p \in Int /\ k * q \in Int /\ (p < q => k * p + k <= k * q) /\ (q < p => k * q + k <= k * p)
  BY <1>1, Products
<1>3. p = q
  BY <1>1, <1>2
<1> QED
  BY <1>1, <1>3

\* A set of numbers none of which is beyond some number has a greatest one, if it is not empty.
LEMMA GreatestOf ==
  ASSUME NEW n \in Nat, NEW T, T \subseteq 1..n, T # {}
  PROVE  \E x \in T : \A y \in T : x >= y
<1> DEFINE U == {n - x : x \in T}
<1>1. U \subseteq Nat /\ U # {}
  <2>1. ASSUME NEW x \in T PROVE n - x \in Nat
    <3>1. x \in 1..n
      OBVIOUS
    <3> QED
      BY <3>1
  <2> QED
    BY <2>1
<1>2. PICK u \in U : \A v \in U : u <= v
  BY <1>1, LeastOf
<1>3. PICK x \in T : u = n - x
  BY <1>2
<1>4. ASSUME NEW y \in T PROVE x >= y
  <2>1. n - y \in U
    OBVIOUS
  <2>3. x \in 1..n /\ y \in 1..n
    OBVIOUS
  <2>2. u <= n - y
    BY <1>2, <2>1
  <2> QED
    BY <1>3, <2>2, <2>3
<1> QED
  BY <1>4

\* A range of places from 0 on has as many as its length.
LEMMA SlotsOf == \A n \in Nat : Cardinality(0..(n - 1)) = n
<1> TAKE n \in Nat
<1>1. Cardinality(0..(n - 1)) = IF 0 > n - 1 THEN 0 ELSE (n - 1) - 0 + 1
  BY FS_Interval
<1> QED
  BY <1>1

\* The rows of the window by their numbers, before and after a step.
LEMMA WindowByNumber ==
  ASSUME Inv
  PROVE  /\ \A i \in 1..count : Window[i] = written - count + i
         /\ WindowRows = (written - count + 1)..written
<1>1. written - count \in Nat /\ written \in Nat /\ count \in Nat /\ written - (written - count) = count
  BY DEF Inv
<1>2. Window = [i \in 1..count |-> written - count + i]
  BY <1>1, WindowIsNewest DEF Log!Rows
<1>3. \A i \in 1..count : Window[i] = written - count + i
  BY <1>2
<1>4. ASSUME NEW row \in (written - count + 1)..written PROVE row \in WindowRows
  <2>1. row - (written - count) \in 1..count
    BY <1>1
  <2>2. Window[row - (written - count)] = row
    BY <1>1, <1>3, <2>1
  <2> QED
    BY <2>1, <2>2 DEF WindowRows
<1>5. WindowRows \subseteq (written - count + 1)..written
  BY <1>1, <1>3 DEF WindowRows
<1> QED
  BY <1>3, <1>4, <1>5

\* What the buckets of a window of c rows are, when k of the last n rows are still there, up
\* to row w: a bucket has only rows of its own, and each of the last ones all of its rows that
\* were put into the buckets and are still there.
BucketOfRow(place, l) == (place - 1) \div l.k
LodHolds(l, c, k, n, w) ==
    /\ {"k", "written", "at"} \subseteq DOMAIN l
    /\ l.k = BucketRows(c) /\ l.written \in 0..n
    /\ DOMAIN l.at = 0..(Slots(c) - 1)
    /\ \A s \in 0..(Slots(c) - 1) : \A row \in l.at[s].rows :
          /\ row \in Int /\ row - (w - n) \in 1..l.written
          /\ BucketOfRow(row - (w - n), l) = l.at[s].bucket
    /\ \A place \in 1..l.written :
          place > n - k /\ BucketOfRow(place, l) + Slots(c) > BucketOfRow(l.written, l) =>
             /\ BucketAt(l, BucketOfRow(place, l)).bucket = BucketOfRow(place, l)
             /\ (w - n) + place \in BucketAt(l, BucketOfRow(place, l)).rows

\* A bucket has rows, and the arrays have places.
LEMMA BucketSizes ==
  ASSUME NEW c \in Capacities
  PROVE  BucketRows(c) \in Nat \ {0} /\ Slots(c) \in Nat \ {0}
<1>1. c \in Nat /\ Target \in Nat \ {0}
  BY StoreAssumption
<1>2. c \div Target \in Nat
  BY <1>1
<1>3. BucketRows(c) \in Nat \ {0}
  BY <1>2 DEF BucketRows, GreaterOf
<1>4. c \div BucketRows(c) \in Nat
  BY <1>1, <1>3
<1> QED
  BY <1>3, <1>4 DEF Slots

\* Empty buckets are those of a window with nothing put into them yet.
LEMMA EmptyLodHolds ==
  ASSUME NEW c \in Capacities, NEW k \in Nat, NEW n \in Nat, NEW w \in Nat
  PROVE  LodHolds(EmptyLod(c), c, k, n, w)
<1> DEFINE l == EmptyLod(c)
<1>1. /\ {"k", "written", "at"} \subseteq DOMAIN l
      /\ l.k = BucketRows(c) /\ l.written = 0 /\ l.at = [s \in 0..(Slots(c) - 1) |-> NoBucket]
  BY DEF EmptyLod
<1> HIDE DEF l
<1>2. \A s \in 0..(Slots(c) - 1) : l.at[s].rows = {}
  BY <1>1 DEF NoBucket
<1>3. \A place \in 1..l.written : FALSE
  BY <1>1
<1>4. DOMAIN l.at = 0..(Slots(c) - 1)
  BY <1>1
<1>5. l.written \in 0..n
  BY <1>1
<1>6. LodHolds(l, c, k, n, w)
  BY <1>1, <1>2, <1>3, <1>4, <1>5, Zenon DEF LodHolds
<1> QED
  BY <1>6 DEF l

\* Rows written after do not change what the buckets hold of those there are.
LEMMA LodOutlasts ==
  \A l, c : \A k, n, w, k2, n2, w2 \in Nat :
     LodHolds(l, c, k, n, w) /\ n2 - k2 >= n - k /\ n2 >= n /\ w2 - n2 = w - n
     => LodHolds(l, c, k2, n2, w2)
<1> TAKE l, c
<1> TAKE k, n, w, k2, n2, w2 \in Nat
<1> HAVE LodHolds(l, c, k, n, w) /\ n2 - k2 >= n - k /\ n2 >= n /\ w2 - n2 = w - n
<1>1. l.written \in 0..n2
  BY DEF LodHolds
<1>2. \A place \in 1..l.written : place > n2 - k2 => place > n - k
  BY DEF LodHolds
<1> QED
  BY <1>1, <1>2 DEF LodHolds

\* MinMaxLod.add: the bucket of the i-th of the new rows, those of them that have a place in
\* the arrays, the last of these, and the rows of its bucket.
NewBucket(l, first, i) == (first + i - 1) \div l.k
NewAt(l, first, new, s) ==
    {i \in 1..Len(new) : NewBucket(l, first, i) % Cardinality(DOMAIN l.at) = s}
LastAt(l, first, new, s) ==
    CHOOSE i \in NewAt(l, first, new, s) : \A j \in NewAt(l, first, new, s) : i >= j
NewRows(l, first, new, s) ==
    {new[i] : i \in {j \in NewAt(l, first, new, s) :
                        NewBucket(l, first, j) = NewBucket(l, first, LastAt(l, first, new, s))}}

\* A place in the arrays keeps its bucket, or gets the last of the new ones that has this
\* place, with what it had of the same.
IsAdded(l, new, skipped, first) ==
         /\ DOMAIN AddToLod(l, new, skipped).at = DOMAIN l.at
         /\ \A s \in DOMAIN l.at :
               IF NewAt(l, first, new, s) = {}
               THEN AddToLod(l, new, skipped).at[s] = l.at[s]
               ELSE /\ AddToLod(l, new, skipped).at[s].bucket
                          = NewBucket(l, first, LastAt(l, first, new, s))
                    /\ AddToLod(l, new, skipped).at[s].rows =
                          IF l.at[s].bucket = NewBucket(l, first, LastAt(l, first, new, s))
                          THEN l.at[s].rows \cup NewRows(l, first, new, s)
                          ELSE NewRows(l, first, new, s)

\* MinMaxLod.add does it so.
LEMMA AddedBuckets ==
  ASSUME NEW l, NEW new, NEW skipped, NEW first, first = l.written + skipped,
         {"k", "written", "at"} \subseteq DOMAIN l
  PROVE  IsAdded(l, new, skipped, first)
<1> DEFINE f == l.written + skipped
           at == AddToLod(l, new, skipped).at
           In(s) == NewAt(l, f, new, s)
           Last(s) == NewBucket(l, f, LastAt(l, f, new, s))
           Added(s) == NewRows(l, f, new, s)
<1>1. at = [s \in DOMAIN l.at |->
               IF In(s) = {} THEN l.at[s]
               ELSE [bucket |-> Last(s),
                     rows |-> IF l.at[s].bucket = Last(s) THEN l.at[s].rows \cup Added(s)
                              ELSE Added(s)]]
  BY DEF AddToLod, NewBucket, NewAt, LastAt, NewRows
<1>2. first = f
  OBVIOUS
<1> HIDE DEF at, In, Last, Added, f
<1>3. DOMAIN at = DOMAIN l.at
  BY <1>1
<1>4. ASSUME NEW s \in DOMAIN l.at
      PROVE  IF In(s) = {} THEN at[s] = l.at[s]
             ELSE /\ at[s].bucket = Last(s)
                  /\ at[s].rows = IF l.at[s].bucket = Last(s) THEN l.at[s].rows \cup Added(s)
                                  ELSE Added(s)
  BY <1>1
<1> QED
  BY <1>2, <1>3, <1>4, Zenon DEF IsAdded, at, In, Last, Added

\* MinMaxLod.add: rows put into the buckets, after those that are gone, are all found there.
LEMMA AddHolds ==
  ASSUME NEW c \in Capacities, NEW k \in Nat, NEW n \in Nat, NEW w \in Nat, k <= n, n <= w,
         NEW l, LodHolds(l, c, k, n, w),
         NEW skipped \in Nat, l.written + skipped = GreaterOf(l.written, n - k),
         NEW new, Len(new) = n - (l.written + skipped),
         \A i \in 1..Len(new) : new[i] = (w - n) + (l.written + skipped) + i
  PROVE  LodHolds(AddToLod(l, new, skipped), c, k, n, w) /\ AddToLod(l, new, skipped).written = n
<1> DEFINE start == l.written + skipped
           q == l.k
           S == Cardinality(DOMAIN l.at)
           B(place) == (place - 1) \div q
           Bucket(i) == NewBucket(l, start, i)
           In(s) == NewAt(l, start, new, s)
           Last(s) == LastAt(l, start, new, s)
           Added(s) == NewRows(l, start, new, s)
           m == AddToLod(l, new, skipped)
<1>1. /\ q \in Nat \ {0} /\ l.written \in 0..n /\ start \in Nat /\ start \in l.written..n /\ n - start \in Nat
      /\ Len(new) = n - start /\ start = GreaterOf(l.written, n - k)
  <2>1. q \in Nat \ {0} /\ l.written \in 0..n
    BY BucketSizes, Zenon DEF LodHolds
  <2>2. start \in Nat /\ start \in l.written..n
    BY <2>1 DEF GreaterOf
  <2>3. Len(new) = n - start /\ start = GreaterOf(l.written, n - k)
    OBVIOUS
  <2> HIDE DEF start
  <2> QED
    BY <2>1, <2>2, <2>3
<1>2. DOMAIN l.at = 0..(S - 1) /\ S \in Nat \ {0} /\ S = Slots(c)
  <2>1. Slots(c) \in Nat \ {0} /\ DOMAIN l.at = 0..(Slots(c) - 1)
    BY BucketSizes DEF LodHolds
  <2>2. S = Slots(c)
    BY <2>1, SlotsOf
  <2> QED
    BY <2>1, <2>2
<1>3. /\ {"k", "written", "at"} \subseteq DOMAIN m
      /\ m.k = q /\ m.written = n
      /\ DOMAIN m.at = 0..(S - 1)
      /\ \A s \in 0..(S - 1) :
            IF In(s) = {} THEN m.at[s] = l.at[s]
            ELSE /\ m.at[s].bucket = Bucket(Last(s))
                 /\ m.at[s].rows = IF l.at[s].bucket = Bucket(Last(s))
                                   THEN l.at[s].rows \cup Added(s) ELSE Added(s)
  <2>1. start + Len(new) = n
    BY <1>1
  <2>2. {"k", "written", "at"} \subseteq DOMAIN l
    BY DEF LodHolds
  <2>3. {"k", "written", "at"} \subseteq DOMAIN m /\ m.k = q /\ m.written = start + Len(new)
    BY <2>2 DEF AddToLod
  <2>4. /\ DOMAIN m.at = DOMAIN l.at
        /\ \A s \in DOMAIN l.at :
              IF In(s) = {} THEN m.at[s] = l.at[s]
              ELSE /\ m.at[s].bucket = Bucket(Last(s))
                   /\ m.at[s].rows = IF l.at[s].bucket = Bucket(Last(s))
                                     THEN l.at[s].rows \cup Added(s) ELSE Added(s)
    <3>1. start = l.written + skipped
      OBVIOUS
    <3> HIDE DEF start
    <3>2. IsAdded(l, new, skipped, start)
      BY <2>2, <3>1, AddedBuckets
    <3> QED
      BY <3>2, Zenon DEF IsAdded
  <2>5. 0..(S - 1) = DOMAIN l.at
    BY <1>2
  <2> HIDE DEF m, S, B, Bucket, In, Last, Added, start
  <2> QED
    BY <2>1, <2>3, <2>4, <2>5
<1>4. \A place \in Nat : BucketOfRow(place, l) = B(place) /\ BucketOfRow(place, m) = B(place)
  BY <1>3 DEF BucketOfRow
<1>5. \A b : BucketAt(m, b) = m.at[b % S] /\ BucketAt(l, b) = l.at[b % S]
  BY <1>2, <1>3 DEF BucketAt
<1>6. /\ \A s, i : i \in In(s) <=> i \in 1..Len(new) /\ Bucket(i) % S = s
      /\ \A s, r : r \in Added(s) <=> \E i \in In(s) : r = new[i] /\ Bucket(i) = Bucket(Last(s))
      /\ \A s : In(s) # {} => Last(s) \in In(s) /\ \A j \in In(s) : Last(s) >= j
  <2>1. \A s, i : i \in In(s) <=> i \in 1..Len(new) /\ Bucket(i) % S = s
    BY DEF NewAt
  <2>2. \A s, r : r \in Added(s) <=> \E i \in In(s) : r = new[i] /\ Bucket(i) = Bucket(Last(s))
    BY DEF NewRows
  <2>3. ASSUME NEW s, In(s) # {} PROVE Last(s) \in In(s) /\ \A j \in In(s) : Last(s) >= j
    <3>1. In(s) \subseteq 1..(n - start)
      BY <1>1, <2>1
    <3>2. \E i \in In(s) : \A j \in In(s) : i >= j
      BY <1>1, <2>3, <3>1, GreatestOf
    <3> QED
      BY <3>2 DEF LastAt
  <2> QED
    BY <2>1, <2>2, <2>3
<1>7. \A x, y \in Nat : x <= y => B(x) \in Int /\ B(y) \in Int /\ B(x) <= B(y)
  <2> SUFFICES ASSUME NEW x \in Nat, NEW y \in Nat, x <= y
               PROVE  B(x) \in Int /\ B(y) \in Int /\ B(x) <= B(y)
    OBVIOUS
  <2>1. x - 1 \in Int /\ y - 1 \in Int /\ x - 1 <= y - 1
    OBVIOUS
  <2> QED
    BY <1>1, <2>1, Quotient, QuotientsInOrder
<1>8. \A i \in 1..Len(new) : start + i \in 1..n /\ new[i] = (w - n) + (start + i) /\ Bucket(i) = B(start + i)
  <2> SUFFICES ASSUME NEW i \in 1..Len(new)
               PROVE  start + i \in 1..n /\ new[i] = (w - n) + (start + i) /\ Bucket(i) = B(start + i)
    OBVIOUS
  <2>1. new[i] = (w - n) + start + i
    OBVIOUS
  <2> HIDE DEF start
  <2>2. i \in 1..(n - start) /\ start \in Nat /\ start <= n
    BY <1>1
  <2>3. start + i \in 1..n
    BY <2>2
  <2>4. (w - n) + start + i = (w - n) + (start + i) /\ start + i - 1 = (start + i) - 1
    BY <2>2
  <2> QED
    BY <2>1, <2>3, <2>4 DEF NewBucket
<1> HIDE DEF start, q, S, B, Bucket, In, Last, Added, m
<1>9. ASSUME NEW s \in 0..(S - 1), NEW row \in m.at[s].rows
      PROVE  row \in Int /\ row - (w - n) \in 1..n /\ B(row - (w - n)) = m.at[s].bucket
  <2>1. \A r \in l.at[s].rows : r \in Int /\ r - (w - n) \in 1..n /\ B(r - (w - n)) = l.at[s].bucket
    <3>1. \A r \in l.at[s].rows : r \in Int /\ r - (w - n) \in 1..l.written
                                  /\ BucketOfRow(r - (w - n), l) = l.at[s].bucket
      BY <1>2 DEF LodHolds
    <3>2. \A r \in 1..l.written : r \in 1..n /\ r \in Nat
      BY <1>1
    <3> QED
      BY <1>2, <1>4, <3>1, <3>2
  <2>2. CASE In(s) = {}
    BY <1>2, <1>3, <2>1, <2>2
  <2>3. CASE In(s) # {}
    <3>1. ASSUME NEW r \in Added(s) PROVE r \in Int /\ r - (w - n) \in 1..n /\ B(r - (w - n)) = Bucket(Last(s))
      <4>1. PICK i \in In(s) : r = new[i] /\ Bucket(i) = Bucket(Last(s))
        BY <1>6
      <4>2. i \in 1..Len(new)
        BY <1>6, <4>1
      <4>3. r \in Int /\ r - (w - n) = start + i /\ start + i \in 1..n
        BY <1>8, <4>1, <4>2
      <4> QED
        BY <1>8, <4>1, <4>2, <4>3
    <3>2. /\ m.at[s].bucket = Bucket(Last(s))
          /\ row \in Added(s) \/ (row \in l.at[s].rows /\ l.at[s].bucket = Bucket(Last(s)))
      BY <1>2, <1>3, <2>3
    <3> QED
      BY <2>1, <3>1, <3>2
  <2> QED
    BY <2>2, <2>3
<1>10. ASSUME NEW place \in 1..n, place > n - k, B(place) + S > B(n)
       PROVE  /\ m.at[B(place) % S].bucket = B(place)
              /\ (w - n) + place \in m.at[B(place) % S].rows
  <2> DEFINE s == B(place) % S
  <2>1. B(place) \in Int /\ B(n) \in Int /\ B(place) <= B(n)
    BY <1>7
  <2>2. s \in 0..(S - 1)
    BY <1>1, <1>2, <2>1, Quotient
  <2>3. ASSUME In(s) # {}, place <= start + Last(s) PROVE Bucket(Last(s)) = B(place)
    <3>1. Last(s) \in 1..Len(new) /\ Bucket(Last(s)) % S = B(place) % S
      BY <1>6, <2>3
    <3>2. start + Last(s) \in Nat /\ start + Last(s) <= n /\ n \in Nat /\ place \in Nat
      BY <1>8, <3>1
    <3>3. Bucket(Last(s)) \in Int /\ B(place) <= Bucket(Last(s)) /\ Bucket(Last(s)) <= B(n)
      BY <1>7, <1>8, <2>3, <3>1, <3>2
    <3> DEFINE x == Bucket(Last(s))
    <3> HIDE DEF x
    <3>4. x \in Int /\ B(place) <= x /\ x < B(place) + S /\ x % S = B(place) % S
      BY <1>1, <1>2, <1>10, <2>1, <3>1, <3>3 DEF x
    <3>5. B(place) = x
      BY <1>1, <1>2, <2>1, <3>4, SameRemainder
    <3> QED
      BY <3>5 DEF x
  <2>4. CASE place <= l.written
    <3>1. l.at[s].bucket = B(place) /\ (w - n) + place \in l.at[s].rows
      <4>1. place \in 1..l.written /\ place \in Nat /\ l.written \in Nat /\ l.written <= n
        BY <1>1, <1>2, <2>4
      <4>2. B(l.written) \in Int /\ B(l.written) <= B(n)
        BY <1>7, <4>1
      <4>3. BucketOfRow(place, l) + Slots(c) > BucketOfRow(l.written, l)
        <5>1. B(place) + S > B(l.written)
          BY <1>2, <1>10, <2>1, <4>2
        <5> QED
          BY <1>2, <1>4, <4>1, <5>1
      <4>4. /\ BucketAt(l, BucketOfRow(place, l)).bucket = BucketOfRow(place, l)
            /\ (w - n) + place \in BucketAt(l, BucketOfRow(place, l)).rows
        BY <1>10, <4>1, <4>3 DEF LodHolds
      <4> QED
        BY <1>2, <1>4, <1>5, <4>1, <4>4
    <3>2. CASE In(s) = {}
      BY <1>2, <1>3, <2>2, <3>1, <3>2
    <3>3. CASE In(s) # {}
      <4>1. Last(s) \in 1..Len(new)
        BY <1>6, <3>3
      <4>2. place <= start + Last(s)
        <5>1. start + Last(s) \in 1..n /\ Last(s) \in Nat /\ Last(s) >= 1
          BY <1>8, <4>1
        <5> QED
          BY <1>1, <2>4, <5>1
      <4>3. Bucket(Last(s)) = B(place)
        BY <2>3, <3>3, <4>2
      <4> QED
        BY <1>2, <1>3, <2>2, <3>1, <3>3, <4>3
    <3> QED
      BY <3>2, <3>3
  <2>5. CASE place > l.written
    <3>1. place > start
      BY <1>1, <1>2, <1>10, <2>5 DEF GreaterOf
    <3> DEFINE i == place - start
    <3>2. i \in 1..Len(new) /\ start + i = place
      <4>1. place \in Nat /\ start \in Nat /\ place <= n
        BY <1>1
      <4>2. i \in 1..(n - start) /\ start + i = place
        BY <3>1, <4>1
      <4> QED
        BY <1>1, <4>2
    <3> HIDE DEF i
    <3>3. i \in In(s)
      BY <1>6, <1>8, <3>2
    <3>4. Last(s) \in In(s) /\ Last(s) >= i /\ In(s) # {}
      BY <1>6, <3>3
    <3>5. place <= start + Last(s)
      <4>1. Last(s) \in 1..Len(new)
        BY <1>6, <3>4
      <4> QED
        BY <1>1, <1>2, <1>8, <3>2, <3>4, <4>1
    <3>6. Bucket(Last(s)) = B(place)
      BY <2>3, <3>4, <3>5
    <3>7. new[i] \in Added(s) /\ new[i] = (w - n) + place
      BY <1>6, <1>8, <3>2, <3>3, <3>6
    <3> QED
      BY <1>2, <1>3, <2>2, <3>4, <3>6, <3>7
  <2> QED
    BY <1>1, <1>2, <2>4, <2>5
<1>11. LodHolds(m, c, k, n, w)
  <2>1. DOMAIN m.at = 0..(Slots(c) - 1)
    BY <1>2, <1>3
  <2>2. m.k = BucketRows(c) /\ m.written \in 0..n
    BY <1>3 DEF LodHolds, q
  <2>3. \A s \in 0..(Slots(c) - 1) : \A row \in m.at[s].rows :
          /\ row \in Int /\ row - (w - n) \in 1..m.written
          /\ BucketOfRow(row - (w - n), m) = m.at[s].bucket
    BY <1>2, <1>3, <1>4, <1>9 
  <2>4. \A place \in 1..m.written :
          place > n - k /\ BucketOfRow(place, m) + Slots(c) > BucketOfRow(m.written, m) =>
             /\ BucketAt(m, BucketOfRow(place, m)).bucket = BucketOfRow(place, m)
             /\ (w - n) + place \in BucketAt(m, BucketOfRow(place, m)).rows
    <3> SUFFICES ASSUME NEW place \in 1..m.written, place > n - k,
                        BucketOfRow(place, m) + Slots(c) > BucketOfRow(m.written, m)
                 PROVE  /\ BucketAt(m, BucketOfRow(place, m)).bucket = BucketOfRow(place, m)
                        /\ (w - n) + place \in BucketAt(m, BucketOfRow(place, m)).rows
      OBVIOUS
    <3>1. place \in 1..n /\ place \in Nat /\ n \in Nat
      BY <1>3
    <3>2. B(place) + S > B(n)
      BY <1>2, <1>3, <1>4, <3>1 
    <3>3. /\ m.at[B(place) % S].bucket = B(place)
          /\ (w - n) + place \in m.at[B(place) % S].rows
      BY <1>10, <3>1, <3>2
    <3>4. BucketOfRow(place, m) = B(place) /\ BucketAt(m, B(place)) = m.at[B(place) % S]
      BY <1>4, <1>5, <3>1
    <3> QED
      BY <3>3, <3>4
  <2> QED
    BY <1>2, <1>3, <2>1, <2>2, <2>3, <2>4, Zenon DEF LodHolds
<1> QED
  BY <1>2, <1>3, <1>11 DEF m

\* The buckets of the store there is.
LodInv == LodHolds(lod, cap, count, rows, written)

\* _sync_lod_locked: afterwards all rows that are still there have been put into the buckets.
LEMMA SyncedHolds ==
  ASSUME Inv, LodInv
  PROVE  LodHolds(Synced, cap, count, rows, written) /\ Synced.written = rows
<1> DEFINE oldest == rows - count
           start == GreaterOf(lod.written, oldest)
           skipped == start - lod.written
           new == SubSeq(Window, start - oldest + 1, count)
<1>1. /\ cap \in Capacities /\ count \in Nat /\ rows \in Nat /\ written \in Nat
      /\ count <= rows /\ rows <= written /\ lod.written \in 0..rows
  BY CapType DEF Inv, LodInv, LodHolds
<1>2. /\ oldest \in 0..rows /\ start \in Nat /\ start <= rows /\ oldest <= start
      /\ skipped \in Nat /\ lod.written + skipped = start
  BY <1>1 DEF GreaterOf
<1>3. CASE lod.written = rows
  BY <1>3 DEF Synced, LodInv
<1>4. CASE lod.written # rows
  <2>1. Synced = AddToLod(lod, new, skipped)
    BY <1>4 DEF Synced
  <2>2. /\ Len(new) = rows - start
        /\ \A i \in 1..(rows - start) : new[i] = (written - rows) + start + i
    <3>1. \A i \in 1..count : Window[i] = written - count + i
      BY WindowByNumber
    <3>2. start - oldest + 1 \in Int /\ count \in Int /\ start - oldest \in Nat
      BY <1>1, <1>2
    <3>3. \A i \in (start - oldest + 1)..count : Window[i] \in Nat
      <4> SUFFICES ASSUME NEW i \in (start - oldest + 1)..count PROVE Window[i] \in Nat
        OBVIOUS
      <4>1. i \in 1..count
        BY <1>1, <3>2
      <4> QED
        BY <1>1, <3>1, <4>1
    <3> DEFINE a == start - oldest + 1
    <3>4. /\ Len(new) = IF a <= count THEN count - a + 1 ELSE 0
          /\ \A i \in 1..(count - a + 1) : new[i] = Window[a + i - 1]
      <4>1. a \in Int
        BY <3>2
      <4> HIDE DEF a, oldest, start
      <4> QED
        BY <1>1, <3>3, <4>1, SubSeqProperties DEF a
    <3>5. count - a + 1 = rows - start /\ a \in Nat /\ a >= 1
      BY <1>1, <1>2
    <3>6. Len(new) = rows - start
      <4> HIDE DEF a, oldest, start, new
      <4> QED
        BY <1>1, <1>2, <3>4, <3>5
    <3>7. ASSUME NEW i \in 1..(rows - start) PROVE new[i] = (written - rows) + start + i
      <4>1. new[i] = Window[a + i - 1]
        BY <3>4, <3>5, <3>7
      <4>2. a + i - 1 \in 1..count /\ a + i - 1 = (start - oldest) + i
        BY <1>1, <1>2, <3>7
      <4>3. new[i] = written - count + (a + i - 1)
        BY <3>1, <4>1, <4>2
      <4>4. written - count + (a + i - 1) = (written - rows) + start + i
        BY <1>1, <1>2
      <4> QED
        BY <4>3, <4>4
    <3> QED
      BY <3>6, <3>7
  <2> HIDE DEF new, skipped
  <2>3. LodHolds(lod, cap, count, rows, written) /\ lod.written + skipped = GreaterOf(lod.written, rows - count)
    BY <1>2 DEF LodInv
  <2>4. LodHolds(AddToLod(lod, new, skipped), cap, count, rows, written)
        /\ AddToLod(lod, new, skipped).written = rows
    <3>1. Len(new) = rows - (lod.written + skipped)
          /\ \A i \in 1..Len(new) : new[i] = (written - rows) + (lod.written + skipped) + i
      BY <1>2, <2>2
    <3> HIDE DEF oldest, start
    <3> QED
      BY <1>1, <1>2, <2>3, <3>1, AddHolds
  <2> QED
    BY <2>1, <2>4
<1> QED
  BY <1>3, <1>4

\* Every step keeps the buckets: rows written since the last frame are put into them with the
\* next one, and they start again when the rows are renumbered.
LEMMA StepKeepsLod ==
  ASSUME Inv, LodInv, [Next]_vars
  PROVE  LodInv'
<1>1. /\ cap \in Capacities /\ count \in Nat /\ rows \in Nat /\ written \in Nat /\ cap \in Nat \ {0}
      /\ count <= rows /\ rows <= written /\ LodHolds(lod, cap, count, rows, written)
  BY CapType DEF Inv, LodInv
<1>2. ASSUME NEW b \in Batches, Store(b[1], b[2]) PROVE LodInv'
  <2> DEFINE n == b[1] + b[2]
             fits == Fitting(n)
             kept == LesserOf(count + fits, cap)
  <2>1. b[1] \in Nat \ {0} /\ b[2] \in Nat
    BY StoreAssumption
  <2>2. n \in Nat
    BY <2>1
  <2>3. /\ rows' = rows + n /\ written' = written + n /\ count' = kept
        /\ UNCHANGED <<lod, cap>>
    BY <1>2 DEF Store
  <2> HIDE DEF n
  <2>4. fits \in Nat /\ fits <= n
    BY <1>1, <2>2 DEF Fitting, LesserOf
  <2> HIDE DEF fits
  <2>5. kept \in Nat /\ kept <= count + n
    BY <1>1, <2>2, <2>4 DEF LesserOf
  <2> HIDE DEF kept
  <2> DEFINE r == rows + n
             w == written + n
  <2>6. r \in Nat /\ w \in Nat /\ r - kept >= rows - count /\ r >= rows /\ w - r = written - rows
    BY <1>1, <2>2, <2>5
  <2> HIDE DEF r, w
  <2>7. LodHolds(lod, cap, kept, r, w)
    BY <1>1, <2>5, <2>6, LodOutlasts
  <2> QED
    BY <2>3, <2>7, Zenon DEF LodInv, r, w
<1>3. CASE Clear
  <2>1. rows' = 0 /\ count' = 0 /\ lod' = EmptyLod(cap) /\ UNCHANGED <<cap, written>>
    BY <1>3 DEF Clear
  <2>2. LodHolds(EmptyLod(cap), cap, 0, 0, written)
    BY <1>1, EmptyLodHolds
  <2> QED
    BY <2>1, <2>2, Zenon DEF LodInv
<1>4. ASSUME NEW c \in Capacities, Resize(c) PROVE LodInv'
  <2> DEFINE keep == LesserOf(count, c)
  <2>1. /\ rows' = keep /\ count' = keep /\ lod' = EmptyLod(c) /\ cap' = c /\ UNCHANGED written
    BY <1>4 DEF Resize
  <2>2. keep \in Nat
    BY <1>1, StoreAssumption DEF LesserOf
  <2> HIDE DEF keep
  <2>3. LodHolds(EmptyLod(c), c, keep, keep, written)
    BY <1>1, <2>2, EmptyLodHolds
  <2> QED
    BY <2>1, <2>3, Zenon DEF LodInv
<1>5. CASE Feed
  <2>1. UNCHANGED <<cap, count, rows, written>> /\ (lod' = lod \/ lod' = Synced)
    BY <1>5 DEF Feed, Tick, Snapshot, ringVars
  <2>2. LodHolds(Synced, cap, count, rows, written)
    BY SyncedHolds
  <2> QED
    BY <1>1, <2>1, <2>2, Zenon DEF LodInv
<1>6. CASE (\E s \in Scales : SetTimeScale(s)) \/ Invalidate \/ Arm \/ Poll \/ UNCHANGED vars
  <2>1. UNCHANGED <<cap, count, rows, written, lod>>
    BY <1>6 DEF SetTimeScale, Invalidate, Arm, Poll, vars, ringVars
  <2> QED
    BY <2>1, Zenon DEF LodInv
<1> QED
  BY <1>2, <1>3, <1>4, <1>5, <1>6 DEF Next

\* A bucket drawn is where a row that is still there has its place.
LEMMA BucketsAreFilled ==
  ASSUME NEW q \in Nat \ {0}, NEW n \in Nat, NEW k \in Nat \ {0}, k <= n, NEW c \in Nat, k <= c,
         NEW b \in ((n - k) \div q)..((n - 1) \div q)
  PROVE  /\ \E place \in 1..n : place > n - k /\ (place - 1) \div q = b
         /\ b + (c \div q + 2) > (n - 1) \div q
<1> DEFINE x == (n - k) \div q
           y == (n - 1) \div q
           place == GreaterOf(q * b, n - k) + 1
<1>1. n - k \in Int /\ n - 1 \in Int /\ n - k <= n - 1 /\ (n - 1) - (n - k) < c /\ c \div q \in Int
  BY Quotient
<1>2. /\ x \in Int /\ q * x <= n - k /\ n - k < q * x + q
      /\ y \in Int /\ q * y <= n - 1 /\ n - 1 < q * y + q
  BY <1>1, Quotient
<1>3. y <= x + c \div q + 1
  BY <1>1, QuotientsInOrder
<1> HIDE DEF x, y
<1>4. b \in Int /\ x <= b /\ b <= y
  BY <1>2 DEF x, y
<1>5. q * b \in Int /\ q * x <= q * b /\ q * b <= q * y /\ q * x \in Int /\ q * y \in Int
  BY <1>2, <1>4, Products
<1>6. place \in 1..n /\ place > n - k /\ q * b <= place - 1 /\ place - 1 < q * b + q /\ place - 1 \in Int
  <2>1. n - k \in Nat
    BY <1>1
  <2> DEFINE m == q * b
  <2>2. m \in Int /\ m <= n - 1 /\ n - k < m + q
    BY <1>2, <1>5
  <2> HIDE DEF m
  <2>3. GreaterOf(m, n - k) + 1 \in 1..n /\ GreaterOf(m, n - k) + 1 > n - k
        /\ m <= (GreaterOf(m, n - k) + 1) - 1 /\ (GreaterOf(m, n - k) + 1) - 1 < m + q
        /\ (GreaterOf(m, n - k) + 1) - 1 \in Int
    BY <2>1, <2>2 DEF GreaterOf
  <2> QED
    BY <2>3 DEF m
<1> HIDE DEF place
<1>7. (place - 1) \div q = b
  BY <1>4, <1>6, QuotientIs
<1>8. b + (c \div q + 2) > y
  BY <1>1, <1>2, <1>3, <1>4
<1> QED
  BY <1>6, <1>7, <1>8 DEF y

\* What would be drawn is the window.
LEMMA LodShowsWindow ==
  ASSUME Inv, LodInv
  PROVE  OverviewIsTheWindow
<1> DEFINE l == Synced
           BucketOf(row) == (row - written + rows - 1) \div l.k
           kept(b) == {Window[i] : i \in {j \in 1..count : BucketOf(Window[j]) = b}}
<1> SUFFICES ASSUME count > 0, NEW b \in FirstBucket(l)..LastBucket(l)
             PROVE  /\ BucketAt(l, b).bucket = b /\ kept(b) \subseteq BucketAt(l, b).rows
                    /\ b # FirstBucket(l) => BucketAt(l, b).rows = kept(b)
                    /\ \A row \in BucketAt(l, b).rows : row <= written /\ BucketOf(row) = b
  BY DEF OverviewIsTheWindow
<1>1. LodHolds(l, cap, count, rows, written) /\ l.written = rows
  BY SyncedHolds
<1>2. /\ cap \in Capacities /\ cap \in Nat \ {0} /\ count \in Nat \ {0} /\ rows \in Nat \ {0}
      /\ written \in Nat /\ count <= rows /\ rows <= written /\ count <= cap
  BY CapType DEF Inv
<1>3. /\ l.k \in Nat \ {0} /\ Slots(cap) = cap \div l.k + 2 /\ Slots(cap) \in Nat \ {0}
      /\ DOMAIN l.at = 0..(Slots(cap) - 1)
  BY <1>1, <1>2, BucketSizes DEF LodHolds, Slots
<1>4. \A d : BucketAt(l, d) = l.at[d % Slots(cap)]
  <2>1. Cardinality(DOMAIN l.at) = Slots(cap)
    BY <1>3, SlotsOf
  <2> QED
    BY <2>1 DEF BucketAt
<1>5. FirstBucket(l) = (rows - count) \div l.k /\ LastBucket(l) = (rows - 1) \div l.k
  BY <1>1 DEF FirstBucket, LastBucket
<1>6. \A i \in 1..count : Window[i] = written - count + i
  BY WindowByNumber
<1>7. \A row \in Int : BucketOf(row) = BucketOfRow(row - (written - rows), l)
  <2> SUFFICES ASSUME NEW row \in Int PROVE BucketOf(row) = BucketOfRow(row - (written - rows), l)
    OBVIOUS
  <2>1. row - written + rows - 1 = (row - (written - rows)) - 1
    BY <1>2
  <2> QED
    BY <2>1, Zenon DEF BucketOfRow
<1>8. /\ \E place \in 1..rows : place > rows - count /\ BucketOfRow(place, l) = b
      /\ b + Slots(cap) > BucketOfRow(rows, l)
  <2>1. b \in ((rows - count) \div l.k)..((rows - 1) \div l.k)
    BY <1>5
  <2> DEFINE q == l.k
  <2> HIDE DEF l, q
  <2>2. q \in Nat \ {0} /\ b \in ((rows - count) \div q)..((rows - 1) \div q)
        /\ Slots(cap) = cap \div q + 2
    BY <1>3, <2>1 DEF q
  <2>3. /\ \E place \in 1..rows : place > rows - count /\ (place - 1) \div q = b
        /\ b + (cap \div q + 2) > (rows - 1) \div q
    BY <1>2, <2>2, BucketsAreFilled
  <2> QED
    BY <2>2, <2>3 DEF BucketOfRow, q
<1> HIDE DEF l, BucketOf, kept
<1>9. ASSUME NEW place \in 1..rows, place > rows - count, BucketOfRow(place, l) = b
      PROVE  BucketAt(l, b).bucket = b /\ (written - rows) + place \in BucketAt(l, b).rows
  BY <1>1, <1>8, <1>9 DEF LodHolds
<1>10. BucketAt(l, b).bucket = b
  BY <1>8, <1>9
<1>11. ASSUME NEW i \in 1..count, BucketOf(Window[i]) = b PROVE Window[i] \in BucketAt(l, b).rows
  <2> DEFINE place == rows - count + i
  <2>1. place \in 1..rows /\ place > rows - count /\ Window[i] = (written - rows) + place
        /\ Window[i] \in Int /\ Window[i] - (written - rows) = place
    BY <1>2, <1>6
  <2> HIDE DEF place
  <2>2. BucketOfRow(place, l) = b
    BY <1>7, <1>11, <2>1
  <2> QED
    BY <1>9, <2>1, <2>2
<1>12. ASSUME NEW row \in BucketAt(l, b).rows
       PROVE  row \in Int /\ row - (written - rows) \in 1..rows /\ BucketOf(row) = b
  <2>1. b \in Int
    BY <1>2, <1>3, <1>5, Quotient
  <2>2. b % Slots(cap) \in 0..(Slots(cap) - 1)
    BY <1>3, <2>1, Quotient
  <2>3. row \in Int /\ row - (written - rows) \in 1..rows /\ BucketOfRow(row - (written - rows), l) = b
    BY <1>1, <1>4, <1>10, <1>12, <2>2 DEF LodHolds
  <2> QED
    BY <1>7, <2>3
<1>13. ASSUME NEW row \in BucketAt(l, b).rows, b # FirstBucket(l) PROVE row \in kept(b)
  <2> DEFINE place == row - (written - rows)
             i == place - (rows - count)
  <2>1. place \in 1..rows /\ BucketOf(row) = b /\ row \in Int
    BY <1>12, <1>13
  <2>2. place > rows - count
    <3> SUFFICES ASSUME place <= rows - count PROVE FALSE
      BY <1>2, <2>1
    <3> DEFINE q == l.k
    <3>1. q \in Nat \ {0} /\ (place - 1) \div q = b /\ b \in ((rows - count) \div q)..((rows - 1) \div q)
          /\ b # (rows - count) \div q
      BY <1>3, <1>5, <1>7, <1>13, <2>1 DEF BucketOfRow
    <3> HIDE DEF q, place
    <3>2. place - 1 \in Int /\ rows - count \in Int /\ place - 1 <= rows - count
      BY <1>2, <2>1
    <3>3. (place - 1) \div q <= (rows - count) \div q
      BY <3>1, <3>2, QuotientsInOrder
    <3>4. (rows - count) \div q \in Int
      BY <3>1, <3>2, Quotient
    <3> QED
      BY <3>1, <3>3, <3>4
  <2>3. i \in 1..count /\ Window[i] = row
    BY <1>2, <1>6, <2>1, <2>2
  <2> QED
    BY <2>1, <2>3 DEF kept
<1>14. kept(b) \subseteq BucketAt(l, b).rows
  BY <1>11 DEF kept
<1>15. \A row \in BucketAt(l, b).rows : row <= written /\ BucketOf(row) = b
  BY <1>2, <1>12
<1> QED
  BY <1>10, <1>13, <1>14, <1>15

\* A store begins with empty buckets.
LEMMA InitLod == Init => LodInv
<1> SUFFICES ASSUME Init PROVE LodInv
  OBVIOUS
<1>1. lod = EmptyLod(cap) /\ cap \in Capacities /\ count = 0 /\ rows = 0 /\ written = 0
  BY DEF Init
<1>2. LodHolds(EmptyLod(cap), cap, 0, 0, 0)
  BY <1>1, EmptyLodHolds
<1> QED
  BY <1>1, <1>2 DEF LodInv

\* overview, MinMaxLod: for every capacity, target and batches, however rows are written or
\* overrun between two frames and wherever the store is cleared or resized, the buckets a frame
\* is drawn from have every row of the window, each in its own bucket and none twice, and
\* but for the oldest bucket no row that is gone.
THEOREM OverviewIsComplete == Spec => []OverviewIsTheWindow
<1>1. Init => Inv /\ LodInv
  BY InitStore, InitLod DEF StoreInv
<1>2. Inv /\ LodInv /\ [Next]_vars => Inv' /\ LodInv'
  BY StepRefines, StepKeepsLod
<1>3. Inv /\ LodInv => OverviewIsTheWindow
  BY LodShowsWindow
<1> QED
  BY <1>1, <1>2, <1>3, PTL DEF Spec

----------------------------------------------------------------------------
(* The trigger. *)

\* The flags are flags, and the panel shows the watcher's state.
PanelInv ==
    /\ state \in {"idle", "armed", "fired", "done"}
    /\ button \in BOOLEAN /\ capturing \in BOOLEAN /\ gone \in BOOLEAN /\ reselected \in BOOLEAN
    /\ missed \in BOOLEAN /\ retimed \in BOOLEAN /\ resized \in BOOLEAN
    /\ capturing => state = "done"
    /\ PanelShowsTheTrigger

\* Of w rows, the newest k go back to s or further.
ReachBack(w, k, s) == w - k <= s

\* Where the watcher is in the rows: it has compared, each with the next, all rows from
\* where it was armed to the last one seen, unless some were gone before.
PollInv ==
    /\ armedAt \in 0..seenTo /\ before \in Nat /\ (before # NoRow => armedAt < before /\ before <= seenTo)
    /\ state # "idle" => cursor # NoCursor
    /\ state = "armed" /\ ~missed =>
        /\ ~resized /\ ReachBack(written, count, seenTo)
        /\ IF before = NoRow THEN seenTo = armedAt ELSE before = seenTo
        /\ \A row \in (armedAt + 2)..seenTo : ~Crosses(row - 1, row)

\* What it has fired on, and that it was the first to fire on.
CrossingInv ==
    state \in {"fired", "done"} =>
        /\ crossed \in Seq(Nat) /\ Len(crossed) = 2
        /\ armedAt < crossed[1] /\ crossed[1] < crossed[2] /\ crossed[2] <= seenTo
        /\ Crosses(crossed[1], crossed[2])
        /\ ~missed => /\ crossed[2] = crossed[1] + 1
                      /\ \A row \in (armedAt + 2)..crossed[1] : ~Crosses(row - 1, row)

\* The watcher's numbers.
WatcherTypes ==
    /\ began \in 0..written /\ scale \in Scales /\ beforeTime \in Int /\ trigTime \in Int
    /\ state # "idle" => spec \in Specs
    /\ \A row \in capture : row \in Nat /\ row <= written

\* Is a row in the capture just when it should be?
Shown(row) == row \in capture <=> InCapture(row)

\* While the times of the session's rows stay what they were, the trigger's is between those
\* of the two rows; once done, all rows to come are behind the window, and those of the
\* window that are still there were cut.
CaptureInv ==
    ~retimed =>
        /\ before > began => beforeTime = TimeOf(before)
        /\ state \in {"fired", "done"} /\ crossed[1] > began =>
              TimeOf(crossed[1]) <= trigTime /\ trigTime <= TimeOf(crossed[2])
        /\ state = "done" /\ crossed[1] > began => trigTime + spec.post <= TimeOf(seenTo)
        /\ state = "done" /\ ~capturing /\ ~gone /\ crossed[1] > began =>
              \A row \in Nat \ {0} :
                 row <= written /\ ReachBack(written, count, row - 1) => Shown(row)

TriggerInv ==
    StoreInv /\ PanelInv /\ PollInv /\ CrossingInv /\ WatcherTypes /\ CaptureInv

\* find_crossing: the first hit is one, and the first.
LEMMA FirstHitIsOne ==
  ASSUME NEW rs \in Seq(Nat), Hits(rs) # {}
  PROVE  FirstHit(rs) \in Hits(rs) /\ \A j \in Hits(rs) : FirstHit(rs) <= j
<1>1. Hits(rs) \subseteq Nat
  BY DEF Hits
<1>2. \E i \in Hits(rs) : \A j \in Hits(rs) : i <= j
  BY <1>1, LeastOf
<1> QED
  BY <1>2 DEF FirstHit

\* What the store's steps are to the trigger, and the trigger's to the store.
LEMMA StepIsOfStore == [TNext]_tvars => [Next]_vars
BY DEF TNext, tvars, Stores, Clears, Resizes, Rescales, Draws, ArmTrigger, Disarm, Reselect,
       PollTrigger, EmitCapture, Next

\* The rows there are after a step are none that were gone before it.
LEMMA WindowMovesOn ==
  ASSUME StoreInv, [Next]_vars
  PROVE  /\ written' >= written
         /\ \A s \in Nat : ReachBack(written', count', s) => ReachBack(written, count, s)
<1> DEFINE MovesOn == /\ written' >= written
                      /\ \A s \in Nat : ReachBack(written', count', s) => ReachBack(written, count, s)
<1>1. /\ count \in Nat /\ rows \in Nat /\ written \in Nat /\ cap \in Nat \ {0} /\ count <= cap
  BY CapType DEF Inv, StoreInv
<1>2. ASSUME NEW b \in Batches, Store(b[1], b[2]) PROVE MovesOn
  <2> DEFINE n == b[1] + b[2]
             fits == Fitting(n)
  <2>1. b[1] \in Nat \ {0} /\ b[2] \in Nat
    OBVIOUS
  <2>2. n \in Nat
    BY <2>1
  <2>3. written' = written + n /\ count' = LesserOf(count + fits, cap)
    BY <1>2 DEF Store
  <2> HIDE DEF n
  <2>4. fits \in Nat /\ fits <= n
    BY <1>1, <2>2 DEF Fitting, LesserOf
  <2> HIDE DEF fits
  <2> QED
    BY <1>1, <2>2, <2>3, <2>4 DEF LesserOf, ReachBack
<1>3. CASE Clear
  BY <1>1, <1>3 DEF Clear, ReachBack
<1>4. ASSUME NEW c \in Capacities, Resize(c) PROVE MovesOn
  BY <1>1, <1>4 DEF Resize, LesserOf, ReachBack
<1>5. CASE \/ \E s \in Scales : SetTimeScale(s)
           \/ Feed \/ Invalidate \/ Arm \/ Poll \/ UNCHANGED vars
  BY <1>1, <1>5, ReadersChangeNothing DEF ringVars
<1> HIDE DEF MovesOn
<1>6. MovesOn
  <2>1. CASE (\E s \in Scales : SetTimeScale(s)) \/ Feed \/ Invalidate \/ Arm \/ Poll \/ UNCHANGED vars
    BY <1>5, <2>1 DEF MovesOn
  <2>2. CASE Clear
    BY <1>3, <2>2 DEF MovesOn
  <2> QED
    BY <1>2, <1>4, <2>1, <2>2 DEF Next
<1> QED
  BY <1>6 DEF MovesOn

\* A ring whose window has all rows from some place on has none missing there.
LEMMA AllThere ==
  \A c \in Capacities, n, w, s \in Nat : \A h \in 0..(c - 1), k \in 0..c : \A r :
     /\ k <= n /\ n <= w /\ Holds(r, h, c, k, w)
     /\ \A row \in (s + 1)..w : \E i \in 1..k : WindowOf(r, h, c, k)[i] = row
     => ReachBack(w, k, s)
<1> TAKE c \in Capacities, n, w, s \in Nat
<1> TAKE h \in 0..(c - 1), k \in 0..c
<1> TAKE r
<1> HAVE /\ k <= n /\ n <= w /\ Holds(r, h, c, k, w)
         /\ \A row \in (s + 1)..w : \E i \in 1..k : WindowOf(r, h, c, k)[i] = row
<1>1. c \in Nat \ {0} /\ k \in Nat /\ k <= w /\ w - (w - k) = k
  OBVIOUS
<1>2. WindowOf(r, h, c, k) = Log!Rows(w - k, w)
  BY <1>1, WindowOfRing
<1>3. \A i \in 1..k : WindowOf(r, h, c, k)[i] = w - k + i
  BY <1>1, <1>2 DEF Log!Rows
<1> SUFFICES ASSUME s < w - k PROVE FALSE
  BY <1>1 DEF ReachBack
<1>4. PICK i \in 1..k : WindowOf(r, h, c, k)[i] = s + 1
  BY <1>1
<1> QED
  BY <1>1, <1>3, <1>4

\* While no row is missed, all that is not seen is in the window.
LEMMA UnmissedIsThere ==
  ASSUME StoreInv, StoreStep, Inv', UNCHANGED seenTo, state = "armed", ~missed'
  PROVE  ~resized' /\ ~missed /\ ReachBack(written', count', seenTo')
<1>1. /\ ~resized' /\ ~missed
      /\ \A row \in (seenTo + 1)..written' : \E i \in 1..count' : Window'[i] = row
  BY DEF StoreStep
<1>2. /\ cap' \in Capacities /\ head' \in 0..(cap' - 1) /\ count' \in 0..cap' /\ written' \in Nat
      /\ count' <= rows' /\ rows' <= written' /\ rows' \in Nat
      /\ Holds(ring', head', cap', count', written')
  BY DEF Inv
<1>3. Window' = WindowOf(ring', head', cap', count')
  BY DEF Window
<1>4. seenTo \in Nat
  BY DEF StoreInv, CursorInv, Inv
<1>5. \A row \in (seenTo + 1)..written' : \E i \in 1..count' : WindowOf(ring', head', cap', count')[i] = row
  BY <1>1, <1>3, Zenon
<1>6. ReachBack(written', count', seenTo)
  BY <1>2, <1>4, <1>5, AllThere, Zenon
<1> QED
  BY <1>1, <1>6, Zenon

\* show_state: each step of the trigger that the panel waits for tells it.
LEMMA StepKeepsPanel ==
  ASSUME PanelInv, [TNext]_tvars
  PROVE  PanelInv'
<1> USE DEF PanelInv, PanelShowsTheTrigger
<1>1. CASE Stores \/ Clears \/ Resizes \/ Rescales
  <2>1. UNCHANGED <<state, panelVars, gone, reselected>> /\ missed' \in BOOLEAN
    BY <1>1, Zenon DEF Stores, Clears, Resizes, Rescales, StoreStep, watcherVars
  <2>3. retimed' \in BOOLEAN
    BY <1>1, Zenon DEF Stores, Clears, Resizes, Rescales
  <2>4. resized' \in BOOLEAN
    BY <1>1 DEF Stores, Clears, Resizes, Rescales, Store, Clear, Resize, SetTimeScale, triggerVars
  <2> QED
    BY <2>1, <2>3, <2>4, Zenon DEF panelVars
<1>2. CASE Draws \/ UNCHANGED tvars
  <2>1. UNCHANGED <<state, panelVars, histVars, resized>>
    BY <1>2 DEF Draws, Feed, Tick, Snapshot, Invalidate, triggerVars, tvars, vars, watcherVars
  <2> QED
    BY <2>1, Zenon DEF panelVars, histVars
<1>3. CASE ArmTrigger
  <2>1. /\ state' = "armed" /\ ui' = "armed" /\ button' = TRUE /\ UNCHANGED capturing /\ ~capturing
        /\ missed' = FALSE /\ retimed' = FALSE /\ gone' = FALSE /\ reselected' = FALSE
        /\ resized' = FALSE
    BY <1>3 DEF ArmTrigger, Arm
  <2> QED
    BY <2>1
<1>4. CASE Disarm
  <2>1. /\ state' = "idle" /\ ~capturing /\ UNCHANGED <<capturing, histVars, resized>>
        /\ IF state \in {"armed", "fired"} THEN ui' = "idle" /\ button' = FALSE
           ELSE ui' = ui /\ button' \in {FALSE, button}
    BY <1>4 DEF Disarm, vars, triggerVars
  <2>2. button' \in BOOLEAN /\ (button' => button)
    BY <2>1
  <2>3. UNCHANGED <<missed, retimed, gone, reselected>>
    BY <2>1 DEF histVars
  <2> QED
    BY <2>1, <2>2, <2>3
<1>5. CASE Reselect
  <2>1. /\ button' = FALSE /\ reselected' = TRUE
        /\ UNCHANGED <<state, capturing, ui, missed, retimed, gone, resized>>
    BY <1>5 DEF Reselect, vars, triggerVars, watcherVars
  <2> QED
    BY <2>1
<1>6. CASE PollTrigger
  <2>1. /\ ~capturing /\ state \in {"armed", "fired"} /\ resized' = FALSE
        /\ UNCHANGED <<missed, retimed, gone, reselected>>
    BY <1>6 DEF PollTrigger, Poll, histVars
  <2>2. \/ state' = "done" /\ capturing' = TRUE
        \/ state' \in {"armed", "fired"} /\ UNCHANGED capturing
    BY <1>6, Zenon DEF PollTrigger
  <2>3. \/ state' = "fired" /\ ui' = "fired" /\ button' = TRUE
        \/ UNCHANGED <<ui, button>> /\ (state' = "done" \/ state' = state)
    BY <1>6, Zenon DEF PollTrigger
  <2>4. button' \in BOOLEAN /\ capturing' \in BOOLEAN
    BY <2>2, <2>3, Zenon
  <2>5. PanelShowsTheTrigger'
    BY <2>1, <2>2, <2>3, <2>4
  <2> QED
    BY <2>1, <2>2, <2>4, <2>5
<1>7. CASE EmitCapture
  <2>1. /\ capturing /\ capturing' = FALSE
        /\ UNCHANGED <<state, missed, retimed, reselected, resized>>
        /\ \/ gone' = TRUE /\ UNCHANGED <<ui, button>>
           \/ gone' = gone /\ ui' = "idle" /\ button' = FALSE
    BY <1>7 DEF EmitCapture, TellIdle, vars, triggerVars, watcherVars
  <2>2. CASE gone' = TRUE /\ UNCHANGED <<ui, button>>
    BY <2>1, <2>2
  <2>3. CASE gone' = gone /\ ui' = "idle" /\ button' = FALSE
    BY <2>1, <2>3
  <2> QED
    BY <2>1, <2>2, <2>3
<1> QED
  BY <1>1, <1>2, <1>3, <1>4, <1>5, <1>6, <1>7 DEF TNext

\* The rows a poll compares are in order, and are all since the trigger was armed; while none
\* was missed, they are the last one compared before and each one since.
LEMMA ComparedRows ==
  ASSUME StoreInv, PollInv, state \in {"armed", "fired"},
         NEW new, new = Since(cursor), NEW rs, rs = Compared(new)
  PROVE  /\ new \in Seq(Nat) /\ rs \in Seq(Nat)
         /\ \A i \in 1..Len(rs) : armedAt < rs[i] /\ rs[i] <= written
         /\ \A i \in 2..Len(rs) : rs[i - 1] < rs[i]
         /\ new # <<>> => new[Len(new)] = written /\ written > seenTo
         /\ state = "armed" /\ ~missed =>
               /\ new = <<>> => seenTo = written
               /\ \E f \in Nat : /\ (f = armedAt /\ seenTo = armedAt) \/ f + 1 = seenTo
                                 /\ f <= written /\ Len(rs) = written - f
                                 /\ \A i \in 1..(written - f) : rs[i] = f + i
<1>1. /\ written \in Nat /\ count \in Nat /\ count <= written /\ seenTo \in 0..written
      /\ armedAt \in 0..seenTo /\ before \in Nat /\ (before # 0 => armedAt < before /\ before <= seenTo)
      /\ cursor # NoCursor
  BY DEF StoreInv, Inv, CursorInv, PollInv, NoRow
<1>2. PICK from \in Nat :
         /\ new = Log!Rows(from, written) /\ seenTo <= from /\ from <= written
         /\ ~resized => from = GreaterOf(seenTo, written - count)
  BY <1>1, SinceIsARun DEF StoreInv
<1>3. /\ new \in Seq(Nat) /\ Len(new) = written - from
      /\ \A i \in 1..(written - from) : new[i] = from + i
  <2>1. written \in Nat /\ from <= written /\ new = Log!Rows(from, written)
    BY <1>1, <1>2
  <2> HIDE StoreAssumption
  <2> QED
    BY <2>1, RowsAreRows
<1>4. state = "armed" /\ ~missed =>
         from = seenTo /\ IF before = 0 THEN seenTo = armedAt ELSE before = seenTo
  BY <1>1, <1>2 DEF PollInv, ReachBack, GreaterOf, NoRow
<1>5. new # <<>> => Len(new) > 0 /\ new[Len(new)] = written /\ written > seenTo
  <2> SUFFICES ASSUME new # <<>> PROVE Len(new) > 0 /\ new[Len(new)] = written /\ written > seenTo
    OBVIOUS
  <2>1. Len(new) > 0
    BY <1>3
  <2>2. Len(new) \in 1..(written - from)
    BY <1>3, <2>1
  <2> QED
    BY <1>1, <1>2, <1>3, <2>1, <2>2
<1>6. new = <<>> => from = written
  BY <1>1, <1>2, <1>3
<1>7. CASE before = 0
  <2>1. rs = new
    BY <1>7 DEF Compared, NoRow
  <2>2. \A i \in 1..Len(rs) : armedAt < rs[i] /\ rs[i] <= written
    BY <1>1, <1>2, <1>3, <2>1
  <2>3. \A i \in 2..Len(rs) : rs[i - 1] < rs[i]
    <3> SUFFICES ASSUME NEW i \in 2..Len(rs) PROVE rs[i - 1] < rs[i]
      OBVIOUS
    <3>1. i \in 1..(written - from) /\ i - 1 \in 1..(written - from)
      BY <1>3, <2>1
    <3> QED
      BY <1>3, <2>1, <3>1
  <2>4. state = "armed" /\ ~missed =>
           /\ seenTo = armedAt /\ armedAt <= written /\ Len(rs) = written - armedAt
           /\ \A i \in 1..(written - armedAt) : rs[i] = armedAt + i
    BY <1>1, <1>3, <1>4, <1>7, <2>1
  <2> QED
    BY <1>1, <1>3, <1>4, <1>5, <1>6, <2>1, <2>2, <2>3, <2>4
<1>8. CASE before # 0
  <2> DEFINE n == written - from
  <2>1. rs = <<before>> \o new /\ <<before>> \in Seq(Nat) /\ Len(<<before>>) = 1 /\ <<before>>[1] = before
    BY <1>1, <1>8 DEF Compared, NoRow
  <2>2. /\ rs \in Seq(Nat) /\ Len(rs) = n + 1 /\ rs[1] = before /\ n \in Nat
        /\ \A i \in 2..(n + 1) : rs[i] = from + i - 1
    <3>1. /\ rs \in Seq(Nat) /\ Len(rs) = Len(<<before>>) + Len(new)
          /\ \A i \in 1..(Len(<<before>>) + Len(new)) :
                rs[i] = IF i <= Len(<<before>>) THEN <<before>>[i] ELSE new[i - Len(<<before>>)]
      BY <1>3, <2>1, ConcatProperties
    <3>2. n \in Nat /\ Len(new) = n
      BY <1>1, <1>2, <1>3
    <3>3. \A i \in 1..(n + 1) : rs[i] = IF i <= 1 THEN before ELSE new[i - 1]
      BY <2>1, <3>1, <3>2
    <3>4. ASSUME NEW i \in 2..(n + 1) PROVE rs[i] = from + i - 1
      <4>1. i - 1 \in 1..(written - from) /\ i \in 1..(n + 1) /\ ~(i <= 1)
        BY <3>2
      <4>2. new[i - 1] = from + (i - 1)
        BY <1>3, <4>1
      <4> QED
        BY <3>3, <4>1, <4>2
    <3>5. rs[1] = before /\ Len(rs) = n + 1
      BY <2>1, <3>1, <3>2, <3>3
    <3> QED
      BY <3>1, <3>2, <3>4, <3>5
  <2> HIDE DEF n
  <2>3. \A i \in 1..Len(rs) : armedAt < rs[i] /\ rs[i] <= written
    <3> SUFFICES ASSUME NEW i \in 1..Len(rs) PROVE armedAt < rs[i] /\ rs[i] <= written
      OBVIOUS
    <3>1. i = 1 \/ i \in 2..(n + 1)
      BY <2>2
    <3> QED
      BY <1>1, <1>2, <1>8, <2>2, <3>1 DEF n
  <2>4. \A i \in 2..Len(rs) : rs[i - 1] < rs[i]
    <3> SUFFICES ASSUME NEW i \in 2..Len(rs) PROVE rs[i - 1] < rs[i]
      OBVIOUS
    <3>1. i \in 2..(n + 1) /\ (i - 1 = 1 \/ i - 1 \in 2..(n + 1))
      BY <2>2
    <3> QED
      BY <1>1, <1>2, <1>8, <2>2, <3>1
  <2>5. state = "armed" /\ ~missed =>
           /\ before = seenTo /\ from = seenTo
           /\ \A i \in 1..(written - (before - 1)) : rs[i] = before - 1 + i
    <3> SUFFICES ASSUME state = "armed", ~missed
                 PROVE  /\ before = seenTo /\ from = seenTo
                        /\ \A i \in 1..(written - (before - 1)) : rs[i] = before - 1 + i
      OBVIOUS
    <3>1. before = seenTo /\ from = seenTo
      BY <1>4, <1>8
    <3>2. ASSUME NEW i \in 1..(written - (before - 1)) PROVE rs[i] = before - 1 + i
      <4>1. i = 1 \/ i \in 2..(n + 1)
        BY <1>1, <3>1 DEF n
      <4> QED
        BY <1>1, <2>2, <3>1, <4>1
    <3> QED
      BY <3>1, <3>2
  <2>6. state = "armed" /\ ~missed =>
           \E f \in Nat : /\ f + 1 = seenTo /\ f <= written /\ Len(rs) = written - f
                          /\ \A i \in 1..(written - f) : rs[i] = f + i
    <3>1. before - 1 \in Nat /\ before - 1 <= written
      BY <1>1, <1>8
    <3>2. state = "armed" /\ ~missed => (before - 1) + 1 = seenTo /\ Len(rs) = written - (before - 1)
      BY <1>1, <2>2, <2>5 DEF n
    <3> QED
      BY <2>5, <3>1, <3>2
  <2> QED
    BY <1>3, <1>4, <1>5, <1>6, <2>2, <2>3, <2>4, <2>6
<1> QED
  BY <1>7, <1>8

\* Where rows next to each other are compared without a hit, the signal did not cross.
LEMMA NoHitNoCrossing ==
  ASSUME NEW f \in Nat, NEW n \in Nat, NEW rs \in Seq(Nat), n <= Len(rs),
         \A i \in 1..n : rs[i] = f + i, \A i \in Hits(rs) : n < i
  PROVE  \A row \in (f + 2)..(f + n) : ~Crosses(row - 1, row)
<1> SUFFICES ASSUME NEW row \in (f + 2)..(f + n) PROVE ~Crosses(row - 1, row)
  OBVIOUS
<1>1. row - f \in 2..Len(rs) /\ row - f \in 1..n /\ (row - f) - 1 \in 1..n
  OBVIOUS
<1>2. rs[row - f] = row /\ rs[(row - f) - 1] = row - 1
  BY <1>1
<1>3. row - f \notin Hits(rs)
  BY <1>1
<1>4. ~Crosses(rs[(row - f) - 1], rs[row - f])
  BY <1>1, <1>3 DEF Hits
<1> QED
  BY <1>2, <1>4

\* The invariants of the watcher's data, together.
WatcherInv == PollInv /\ CrossingInv /\ WatcherTypes /\ CaptureInv

\* The rows it has fired on.
LEMMA CrossedRows ==
  ASSUME StoreInv, WatcherInv, state \in {"fired", "done"}
  PROVE  /\ crossed[1] \in Nat /\ crossed[2] \in Nat
         /\ armedAt < crossed[1] /\ crossed[1] < crossed[2] /\ crossed[2] <= seenTo /\ seenTo <= written
<1>1. crossed \in Seq(Nat) /\ Len(crossed) = 2 /\ armedAt < crossed[1] /\ crossed[1] < crossed[2]
      /\ crossed[2] <= seenTo
  BY DEF WatcherInv, CrossingInv
<1>2. seenTo <= written
  BY DEF StoreInv, CursorInv, Inv
<1>3. crossed[1] \in Nat /\ crossed[2] \in Nat
  BY <1>1
<1> QED
  BY <1>1, <1>2, <1>3

\* Later rows have later times.
LEMMA TimesGrow ==
  ASSUME began \in Nat, scale \in Scales, NEW a \in Nat, NEW b \in Nat
  PROVE  /\ TimeOf(a) \in Int /\ TimeOf(b) \in Int
         /\ a <= b => TimeOf(a) <= TimeOf(b)
         /\ a < b => TimeOf(a) < TimeOf(b)
<1>1. scale \in Nat \ {0} /\ a - began \in Int /\ b - began \in Int
  BY TriggerAssumption
<1>2. \A s \in Nat \ {0}, m, n \in Int :
         s * m \in Int /\ (m <= n => s * m <= s * n) /\ (m < n => s * m < s * n)
  OBVIOUS
<1>3. (a <= b => a - began <= b - began) /\ (a < b => a - began < b - began)
  BY <1>1
<1> QED
  BY <1>1, <1>2, <1>3 DEF TimeOf

\* The rows behind one that is behind the window are not in it.
LEMMA LaterRowsAreOutside ==
  ASSUME began \in Nat, scale \in Scales, spec \in Specs, trigTime \in Int,
         NEW seen \in Nat, NEW row \in Nat, seen < row, trigTime + spec.post <= TimeOf(seen)
  PROVE  ~InCapture(row)
<1>1. spec.post \in Nat
  BY TriggerAssumption
<1>2. TimeOf(seen) \in Int /\ TimeOf(row) \in Int /\ TimeOf(seen) < TimeOf(row)
  BY TimesGrow
<1> QED
  BY <1>1, <1>2 DEF InCapture

\* The store's steps leave what the watcher has compared and captured.
LEMMA StoreKeepsWatcher ==
  ASSUME StoreInv, WatcherInv, Stores \/ Clears \/ Resizes \/ Rescales
  PROVE  WatcherInv'
<1>1. [Next]_vars
  BY StepIsOfStore DEF TNext
<1>2. StoreInv' /\ Inv'
  BY <1>1, StepStore DEF StoreInv
<1>3. /\ StoreStep /\ UNCHANGED <<cursor, seenTo>>
      /\ UNCHANGED <<spec, state, before, beforeTime, crossed, trigTime, capturing, capture, armedAt, gone>>
  BY DEF Stores, Clears, Resizes, Rescales, StoreStep, Store, Clear, Resize, SetTimeScale, watcherVars,
         panelVars, triggerVars
<1>4. \A a, b : Crosses(a, b)' <=> Crosses(a, b)
  BY <1>3 DEF Crosses, Rises, Falls, Value
<1>5. PollInv'
  <2>1. state = "armed" /\ ~missed' => ~resized' /\ ~missed /\ ReachBack(written', count', seenTo')
    BY <1>2, <1>3, UnmissedIsThere
  <2> QED
    BY <1>3, <1>4, <2>1 DEF WatcherInv, PollInv
<1>6. CrossingInv'
  <2>1. ~missed' => ~missed
    BY <1>3 DEF StoreStep
  <2> QED
    BY <1>3, <1>4, <2>1 DEF WatcherInv, CrossingInv
<1>7. /\ written \in Nat /\ written' \in Nat /\ written <= written' /\ began \in 0..written
      /\ before \in Nat /\ (before # 0 => before <= seenTo) /\ seenTo \in 0..written
      /\ \A s \in Nat : ReachBack(written', count', s) => ReachBack(written, count, s)
  BY <1>1, <1>2, WindowMovesOn DEF StoreInv, Inv, CursorInv, WatcherInv, WatcherTypes, PollInv, NoRow
<1>8. \/ retimed' = TRUE /\ UNCHANGED began
      \/ began' = written /\ UNCHANGED <<scale, retimed>>
      \/ UNCHANGED <<began, scale, retimed>>
  BY DEF Stores, Clears, Resizes, Rescales, Store, Clear, Resize, SetTimeScale, metaVars
<1>9. WatcherTypes'
  <2>1. scale' \in Scales
    BY <1>8 DEF Stores, Clears, Resizes, Rescales, SetTimeScale, Store, Clear, Resize, WatcherInv, WatcherTypes
  <2>2. began' \in 0..written'
    BY <1>7, <1>8
  <2>3. \A row \in capture' : row \in Nat /\ row <= written'
    BY <1>3, <1>7 DEF WatcherInv, WatcherTypes
  <2> QED
    BY <1>3, <2>1, <2>2, <2>3 DEF WatcherInv, WatcherTypes
<1>10. CaptureInv'
  <2>1. CASE retimed' = TRUE
    BY <2>1 DEF CaptureInv
  <2>2. CASE began' = written
    <3>1. ~(before' > began') /\ (state' \in {"fired", "done"} => ~(crossed'[1] > began'))
      BY <1>3, <1>7, <2>2, CrossedRows
    <3> QED
      BY <3>1 DEF CaptureInv
  <2>3. CASE UNCHANGED <<began, scale, retimed>>
    <3>1. \A row : TimeOf(row)' = TimeOf(row)
      BY <2>3 DEF TimeOf
    <3>2. \A row : Shown(row)' <=> Shown(row)
      BY <1>3, <3>1 DEF Shown, InCapture
    <3>3. ASSUME ~retimed', state' = "done", ~capturing', ~gone', crossed'[1] > began',
                 NEW row \in Nat \ {0}, row <= written', ReachBack(written', count', row - 1)
          PROVE  Shown(row)
      <4>1. CASE row <= written
        <5>1. row - 1 \in Nat
          OBVIOUS
        <5>2. ReachBack(written, count, row - 1)
          BY <1>7, <3>3, <5>1
        <5> QED
          BY <1>3, <2>3, <3>3, <4>1, <5>2 DEF WatcherInv, CaptureInv
      <4>2. CASE ~(row <= written)
        <5>1. trigTime + spec.post <= TimeOf(seenTo) /\ spec \in Specs /\ trigTime \in Int /\ scale \in Scales
          BY <1>3, <2>3, <3>3 DEF WatcherInv, CaptureInv, WatcherTypes
        <5>2. seenTo < row /\ seenTo \in Nat /\ began \in Nat
          BY <1>7, <4>2
        <5>3. ~InCapture(row)
          BY <5>1, <5>2, LaterRowsAreOutside
        <5>4. row \notin capture
          BY <4>2 DEF WatcherInv, WatcherTypes
        <5> QED
          BY <5>3, <5>4 DEF Shown
      <4> QED
        BY <4>1, <4>2
    <3>4. TimeOf(before)' = TimeOf(before) /\ TimeOf(seenTo)' = TimeOf(seenTo)
          /\ TimeOf(crossed[1])' = TimeOf(crossed[1]) /\ TimeOf(crossed[2])' = TimeOf(crossed[2])
      BY <1>3, <2>3 DEF TimeOf
    <3>5. ASSUME ~retimed'
          PROVE  /\ before' > began' => beforeTime' = TimeOf(before)'
                 /\ state' \in {"fired", "done"} /\ crossed'[1] > began' =>
                       TimeOf(crossed[1])' <= trigTime' /\ trigTime' <= TimeOf(crossed[2])'
                 /\ state' = "done" /\ crossed'[1] > began' => trigTime' + spec'.post <= TimeOf(seenTo)'
      BY <1>3, <2>3, <3>4, <3>5 DEF WatcherInv, CaptureInv
    <3> QED
      BY <3>2, <3>3, <3>5 DEF CaptureInv
  <2> QED
    BY <1>8, <2>1, <2>2, <2>3
<1> QED
  BY <1>5, <1>6, <1>9, <1>10 DEF WatcherInv

\* Arming starts over, from the newest row; what has been shown stays.
LEMMA ArmKeepsWatcher ==
  ASSUME StoreInv, WatcherInv, ArmTrigger
  PROVE  WatcherInv'
<1>1. /\ count \in Nat /\ rows \in Nat /\ written \in Nat /\ count <= rows /\ rows <= written
      /\ (rows > 0 => count > 0) /\ generation \in Nat
  BY DEF StoreInv, Inv, CursorInv
<1>2. /\ state' = "armed" /\ before' = NoRow /\ armedAt' = seenTo' /\ resized' = FALSE
      /\ cursor' = <<generation, ArmedAt>> /\ UNCHANGED <<began, scale, written, count, capture>>
      /\ spec' \in Specs /\ beforeTime' = 0 /\ trigTime' = 0
      /\ seenTo' = IF rows = 0 THEN written ELSE written - 1
  BY DEF ArmTrigger, Arm, ringVars, metaVars
<1>3. seenTo' \in Nat /\ ReachBack(written', count', seenTo')
  BY <1>1, <1>2 DEF ReachBack
<1>4. PollInv'
  <2>1. cursor' # NoCursor
    BY <1>1, <1>2 DEF NoCursor
  <2>2. armedAt' \in 0..seenTo' /\ \A row \in (armedAt' + 2)..seenTo' : FALSE
    <3>1. \A n \in Nat : n \in 0..n /\ \A row \in (n + 2)..n : FALSE
      OBVIOUS
    <3> QED
      BY <1>2, <1>3, <3>1, Zenon
  <2> QED
    BY <1>2, <1>3, <2>1, <2>2 DEF PollInv, NoRow
<1>5. began \in Nat
  BY <1>1 DEF WatcherInv, WatcherTypes
<1>6. CrossingInv' /\ WatcherTypes' /\ CaptureInv'
  BY <1>1, <1>2, <1>5 DEF WatcherInv, CrossingInv, WatcherTypes, CaptureInv, NoRow
<1> QED
  BY <1>4, <1>6 DEF WatcherInv

\* A signal's values are numbers.
LEMMA ValuesAreNumbers ==
  ASSUME spec \in Specs
  PROVE  \A row \in Nat : Value(row) \in Int
<1>1. spec.signal \in Seq(Int) /\ spec.signal # <<>>
  BY TriggerAssumption
<1>2. Len(spec.signal) \in Nat \ {0}
  BY <1>1
<1>3. \A r \in Nat, n \in Nat \ {0} : (r % n) + 1 \in 1..n
  OBVIOUS
<1>4. ASSUME NEW row \in Nat PROVE spec.signal[(row % Len(spec.signal)) + 1] \in Int
  BY <1>1, <1>2, <1>3, ElementOfSeq
<1> QED
  BY <1>4 DEF Value

\* n of d parts of k, rounded down, is at most k.
LEMMA PartIsLess ==
  ASSUME NEW n \in Nat, NEW d \in Nat \ {0}, NEW k \in Nat, n <= d
  PROVE  (n * k) \div d \in 0..k
<1> DEFINE m == n * k
<1>1. m <= d * k /\ m \in Nat
  OBVIOUS
<1>2. m \div d \in Int /\ d * (m \div d) <= m /\ m < d * (m \div d) + d
  BY <1>1
<1> DEFINE q == m \div d
<1> HIDE DEF m
<1>3. q >= 0
  <2> SUFFICES ASSUME q <= -1 PROVE FALSE
    BY <1>2
  <2>1. d * q + d <= 0
    BY <1>2
  <2> QED
    BY <1>1, <1>2, <2>1 DEF m
<1>4. q <= k
  <2> SUFFICES ASSUME q >= k + 1 PROVE FALSE
    BY <1>2
  <2>1. d * q >= d * k + d
    BY <1>2
  <2> QED
    BY <1>1, <1>2, <2>1 DEF m
<1> QED
  BY <1>2, <1>3, <1>4 DEF m

\* find_crossing: what is interpolated is between the times of the two samples.
LEMMA InterpolatedBetween ==
  ASSUME spec \in Specs, NEW a \in Nat, NEW b \in Nat, Crosses(a, b),
         TimeAt(a) \in Int, TimeOf(b) \in Int
  PROVE  /\ Interpolated(a, b) \in Int
         /\ TimeAt(a) <= TimeOf(b) =>
               TimeAt(a) <= Interpolated(a, b) /\ Interpolated(a, b) <= TimeOf(b)
<1> DEFINE n == Apart(Value(a), spec.level)
           d == Apart(Value(a), Value(b))
           k == TimeOf(b) - TimeAt(a)
<1>1. Value(a) \in Int /\ Value(b) \in Int /\ spec.level \in Int
  BY ValuesAreNumbers, TriggerAssumption
<1>2. n \in Nat /\ d \in Nat \ {0} /\ n <= d
  BY <1>1 DEF Crosses, Rises, Falls, Apart
<1>3. k \in Int /\ TimeOf(b) = TimeAt(a) + k /\ Interpolated(a, b) = TimeAt(a) + (n * k) \div d
  BY DEF Interpolated
<1> HIDE DEF n, d, k
<1>4. (n * k) \div d \in Int
  <2>1. n * k \in Int
    BY <1>2, <1>3
  <2> QED
    BY <1>2, <2>1
<1>5. k >= 0 => (n * k) \div d \in 0..k
  BY <1>2, <1>3, PartIsLess
<1> DEFINE x == (n * k) \div d
<1>6. x \in Int /\ (k >= 0 => 0 <= x /\ x <= k)
  BY <1>3, <1>4, <1>5
<1> HIDE DEF x
<1>7. Interpolated(a, b) = TimeAt(a) + x
  BY <1>3 DEF x
<1> QED
  BY <1>3, <1>6, <1>7

\* poll, TriggerWatcher.feed: fires on the first crossing among the rows compared.
LEMMA PollKeepsWatcher ==
  ASSUME StoreInv, WatcherInv, PollTrigger
  PROVE  WatcherInv'
<1> DEFINE new == Since(cursor)
           rs == Compared(new)
           hit == state = "armed" /\ Hits(rs) # {}
           i == FirstHit(rs)
           trig == IF hit THEN Interpolated(rs[i - 1], rs[i]) ELSE trigTime
           fired == hit \/ state = "fired"
<1>1. /\ written \in Nat /\ count \in Nat /\ count <= written /\ seenTo \in 0..written
      /\ armedAt \in 0..seenTo /\ before \in Nat /\ (before # 0 => armedAt < before /\ before <= seenTo)
      /\ generation \in Nat
  BY DEF StoreInv, Inv, CursorInv, WatcherInv, PollInv, NoRow
<1>2. /\ state \in {"armed", "fired"} /\ cursor' = <<generation, rows>> /\ seenTo' = written
      /\ resized' = FALSE
      /\ UNCHANGED <<spec, began, scale, written, count, armedAt, missed, retimed, gone, capture>>
  BY DEF PollTrigger, Poll, ringVars, metaVars, histVars
<1>3. /\ crossed' = (IF hit THEN <<rs[i - 1], rs[i]>> ELSE crossed) /\ trigTime' = trig
      /\ \/ new = <<>> /\ UNCHANGED <<before, beforeTime>>
         \/ new # <<>> /\ before' = new[Len(new)] /\ beforeTime' = TimeOf(new[Len(new)])
      /\ \/ fired /\ Complete(new, trig) /\ state' = "done" /\ capturing' = TRUE
         \/ state' = IF fired THEN "fired" ELSE "armed"
  BY DEF PollTrigger
<1>4. /\ new \in Seq(Nat) /\ rs \in Seq(Nat)
      /\ \A j \in 1..Len(rs) : armedAt < rs[j] /\ rs[j] <= written
      /\ \A j \in 2..Len(rs) : rs[j - 1] < rs[j]
      /\ new # <<>> => new[Len(new)] = written /\ written > seenTo
      /\ state = "armed" /\ ~missed =>
            /\ new = <<>> => seenTo = written
            /\ \E f \in Nat : /\ (f = armedAt /\ seenTo = armedAt) \/ f + 1 = seenTo
                              /\ f <= written /\ Len(rs) = written - f
                              /\ \A j \in 1..(written - f) : rs[j] = f + j
  <2> HIDE DEF new, rs
  <2> QED
    BY <1>2, ComparedRows DEF WatcherInv, new, rs
<1>5. hit => /\ i \in 2..Len(rs) /\ Crosses(rs[i - 1], rs[i])
             /\ \A j \in Hits(rs) : i <= j
  <2> HIDE DEF new, rs
  <2>1. hit => i \in Hits(rs) /\ \A j \in Hits(rs) : i <= j
    BY <1>4, FirstHitIsOne
  <2> QED
    BY <2>1 DEF Hits
<1>C. \A m, n : Crosses(m, n)' <=> Crosses(m, n)
  BY <1>2 DEF Crosses, Rises, Falls, Value
<1> HIDE DEF new, rs, i
<1>6. PollInv'
  <2>1. cursor' # NoCursor
    BY <1>1, <1>2 DEF NoCursor
  <2>2. /\ armedAt' \in 0..seenTo' /\ before' \in Nat
        /\ (before' # NoRow => armedAt' < before' /\ before' <= seenTo')
    BY <1>1, <1>2, <1>3, <1>4 DEF NoRow
  <2>3. ASSUME state' = "armed", ~missed'
        PROVE  /\ ~resized' /\ ReachBack(written', count', seenTo')
               /\ IF before' = NoRow THEN seenTo' = armedAt' ELSE before' = seenTo'
               /\ \A row \in (armedAt' + 2)..seenTo' : ~Crosses(row - 1, row)'
    <3>1. state = "armed" /\ ~missed /\ Hits(rs) = {}
      BY <1>2, <1>3, <2>3
    <3>2. /\ IF before = 0 THEN seenTo = armedAt ELSE before = seenTo
          /\ \A row \in (armedAt + 2)..seenTo : ~Crosses(row - 1, row)
      BY <3>1 DEF WatcherInv, PollInv, NoRow
    <3>3. PICK f \in Nat : /\ (f = armedAt /\ seenTo = armedAt) \/ f + 1 = seenTo
                           /\ f <= written /\ Len(rs) = written - f
                           /\ \A j \in 1..(written - f) : rs[j] = f + j
      BY <1>4, <3>1
    <3>4. \A row \in (f + 2)..written : ~Crosses(row - 1, row)
      <4> DEFINE n == written - f
      <4>1. n \in Nat /\ f + n = written /\ n <= Len(rs) /\ \A j \in Hits(rs) : n < j
        BY <1>1, <3>1, <3>3
      <4>2. \A j \in 1..n : rs[j] = f + j
        BY <3>3
      <4> HIDE DEF n
      <4>3. \A row \in (f + 2)..(f + n) : ~Crosses(row - 1, row)
        BY <1>4, <4>1, <4>2, NoHitNoCrossing
      <4> QED
        BY <4>1, <4>3
    <3>5. \A row \in (armedAt + 2)..written : ~Crosses(row - 1, row)
      BY <1>1, <3>2, <3>3, <3>4
    <3>6. \A row \in (armedAt + 2)..written : ~Crosses(row - 1, row)'
      BY <1>C, <3>5
    <3>7. ReachBack(written', count', seenTo')
      BY <1>1, <1>2 DEF ReachBack
    <3>8. IF before' = NoRow THEN seenTo' = armedAt' ELSE before' = seenTo'
      BY <1>1, <1>2, <1>3, <1>4, <3>1, <3>2 DEF NoRow
    <3> QED
      BY <1>2, <3>6, <3>7, <3>8
  <2> QED
    BY <2>1, <2>2, <2>3 DEF PollInv
<1>7. CrossingInv'
  <2>1. CASE hit
    <3>1. crossed' = <<rs[i - 1], rs[i]>>
      BY <1>3, <2>1
    <3>2. i \in 1..Len(rs) /\ i - 1 \in 1..Len(rs) /\ i \in 2..Len(rs) /\ Crosses(rs[i - 1], rs[i])
      BY <1>4, <1>5, <2>1
    <3>3. /\ rs[i - 1] \in Nat /\ rs[i] \in Nat /\ armedAt < rs[i - 1] /\ rs[i - 1] < rs[i]
          /\ rs[i] <= written
      BY <1>4, <3>2
    <3>4. crossed' \in Seq(Nat) /\ Len(crossed') = 2 /\ crossed'[1] = rs[i - 1] /\ crossed'[2] = rs[i]
      BY <3>1, <3>3
    <3>5. ASSUME ~missed
          PROVE  /\ rs[i] = rs[i - 1] + 1
                 /\ \A row \in (armedAt + 2)..(rs[i - 1]) : ~Crosses(row - 1, row)
      <4>1. PICK f \in Nat : /\ (f = armedAt /\ seenTo = armedAt) \/ f + 1 = seenTo
                             /\ f <= written /\ Len(rs) = written - f
                             /\ \A j \in 1..(written - f) : rs[j] = f + j
        BY <1>4, <2>1, <3>5
      <4>2. \A row \in (armedAt + 2)..seenTo : ~Crosses(row - 1, row)
        BY <2>1, <3>5 DEF WatcherInv, PollInv
      <4>3. i \in 1..(written - f) /\ i - 1 \in 1..(written - f)
        BY <3>2, <4>1
      <4>4. rs[i] = f + i /\ rs[i - 1] = f + (i - 1) /\ i - 1 \in Nat /\ i - 1 <= Len(rs)
        BY <3>2, <4>1, <4>3
      <4>5. (\A j \in 1..(i - 1) : rs[j] = f + j) /\ \A j \in Hits(rs) : i - 1 < j
        <5>1. Hits(rs) \subseteq Int /\ i \in Int
          BY <3>2 DEF Hits
        <5>2. \A j \in Hits(rs) : i - 1 < j
          BY <1>5, <2>1, <5>1
        <5>3. \A j \in 1..(i - 1) : j \in 1..(written - f)
          BY <1>1, <4>1, <4>3
        <5> QED
          BY <4>1, <5>2, <5>3
      <4>6. \A row \in (f + 2)..(f + (i - 1)) : ~Crosses(row - 1, row)
        BY <1>4, <4>4, <4>5, NoHitNoCrossing
      <4>7. \A row \in (armedAt + 2)..(f + (i - 1)) : ~Crosses(row - 1, row)
        BY <1>1, <4>1, <4>2, <4>6
      <4>8. f + i = (f + (i - 1)) + 1
        BY <4>3
      <4> QED
        BY <4>4, <4>7, <4>8
    <3> QED
      BY <1>2, <1>C, <3>2, <3>3, <3>4, <3>5 DEF CrossingInv
  <2>2. CASE ~hit /\ state = "fired"
    <3>1. /\ crossed \in Seq(Nat) /\ Len(crossed) = 2
          /\ armedAt < crossed[1] /\ crossed[1] < crossed[2] /\ crossed[2] <= seenTo
          /\ Crosses(crossed[1], crossed[2])
          /\ ~missed => /\ crossed[2] = crossed[1] + 1
                        /\ \A row \in (armedAt + 2)..crossed[1] : ~Crosses(row - 1, row)
      BY <2>2 DEF WatcherInv, CrossingInv
    <3>2. crossed[2] \in Nat
      BY <3>1
    <3>3. crossed' = crossed /\ crossed[2] <= seenTo'
      BY <1>1, <1>2, <1>3, <2>2, <3>1, <3>2
    <3> QED
      BY <1>2, <1>C, <3>1, <3>3 DEF CrossingInv
  <2>3. CASE ~hit /\ state = "armed"
    BY <1>3, <2>3 DEF CrossingInv
  <2> QED
    BY <1>2, <2>1, <2>2, <2>3
<1>8. /\ began \in Nat /\ began \in 0..written /\ scale \in Scales /\ spec \in Specs
      /\ beforeTime \in Int /\ trigTime \in Int /\ \A row \in capture : row \in Nat /\ row <= written
  BY <1>1, <1>2 DEF WatcherInv, WatcherTypes
<1>9. \A row \in Nat : TimeOf(row) \in Int
  BY <1>8, TimesGrow
<1>10. hit => /\ rs[i - 1] \in Nat /\ rs[i] \in Nat /\ rs[i - 1] # 0 /\ rs[i - 1] <= rs[i]
              /\ TimeAt(rs[i - 1]) \in Int
  <2>1. hit => i \in 1..Len(rs) /\ i - 1 \in 1..Len(rs)
    BY <1>4, <1>5
  <2>2. hit => rs[i - 1] \in Nat /\ rs[i] \in Nat /\ rs[i - 1] < rs[i] /\ armedAt < rs[i - 1]
    BY <1>4, <1>5, <2>1
  <2>3. hit => rs[i - 1] # 0 /\ rs[i - 1] <= rs[i]
    BY <1>1, <2>2
  <2> QED
    BY <1>8, <1>9, <2>2, <2>3 DEF TimeAt
<1>11. hit => /\ trig \in Int
              /\ TimeAt(rs[i - 1]) <= TimeOf(rs[i]) => TimeAt(rs[i - 1]) <= trig /\ trig <= TimeOf(rs[i])
  <2> SUFFICES ASSUME hit
               PROVE  LET t == Interpolated(rs[i - 1], rs[i])
                      IN  /\ t \in Int
                          /\ TimeAt(rs[i - 1]) <= TimeOf(rs[i]) => TimeAt(rs[i - 1]) <= t /\ t <= TimeOf(rs[i])
    OBVIOUS
  <2>1. TimeOf(rs[i]) \in Int
    BY <1>9, <1>10
  <2> QED
    BY <1>5, <1>8, <1>10, <2>1, InterpolatedBetween
<1>12. WatcherTypes'
  <2>1. trigTime' \in Int
    BY <1>3, <1>8, <1>11
  <2>2. beforeTime' \in Int
    BY <1>1, <1>3, <1>4, <1>8, <1>9
  <2> QED
    BY <1>2, <1>8, <2>1, <2>2 DEF WatcherTypes
<1>13. CaptureInv'
  <2>1. \A row : TimeOf(row)' = TimeOf(row)
    BY <1>2 DEF TimeOf
  <2>2. ASSUME before' > began', ~retimed PROVE beforeTime' = TimeOf(before)'
    <3>1. CASE new = <<>>
      <4>1. before' = before /\ beforeTime' = beforeTime /\ before > began
        BY <1>2, <1>3, <2>2, <3>1
      <4>2. beforeTime = TimeOf(before)
        BY <2>2, <4>1 DEF WatcherInv, CaptureInv
      <4> QED
        BY <1>2, <4>1, <4>2 DEF TimeOf
    <3>2. CASE new # <<>>
      <4>1. before' = written /\ beforeTime' = TimeOf(written)
        BY <1>3, <1>4, <3>2
      <4> QED
        BY <1>2, <4>1 DEF TimeOf
    <3> QED
      BY <3>1, <3>2
  <2>3. ASSUME ~retimed, state' \in {"fired", "done"}, crossed'[1] > began
        PROVE  TimeOf(crossed[1])' <= trigTime' /\ trigTime' <= TimeOf(crossed[2])'
    <3>1. CASE hit
      <4>1. crossed' = <<rs[i - 1], rs[i]>> /\ rs[i - 1] > began
        BY <1>3, <2>3, <3>1
      <4>2. TimeAt(rs[i - 1]) = TimeOf(rs[i - 1])
        <5>1. before > began => beforeTime = TimeOf(before)
          BY <2>3 DEF WatcherInv, CaptureInv
        <5> QED
          BY <4>1, <5>1 DEF TimeAt
      <4>3. TimeOf(rs[i - 1]) <= TimeOf(rs[i])
        BY <1>8, <1>10, <3>1, TimesGrow
      <4>4. TimeOf(rs[i - 1]) <= trig /\ trig <= TimeOf(rs[i])
        BY <1>11, <3>1, <4>2, <4>3
      <4>5. TimeOf(crossed[1])' = TimeOf(rs[i - 1]) /\ TimeOf(crossed[2])' = TimeOf(rs[i])
        BY <1>2, <4>1 DEF TimeOf
      <4> QED
        BY <1>3, <4>4, <4>5
    <3>2. CASE ~hit
      <4>1. state = "fired" /\ trigTime' = trigTime /\ crossed' = crossed
        BY <1>2, <1>3, <2>3, <3>2
      <4>2. TimeOf(crossed[1]) <= trigTime /\ trigTime <= TimeOf(crossed[2])
        BY <2>3, <4>1 DEF WatcherInv, CaptureInv
      <4> QED
        BY <1>2, <4>1, <4>2 DEF TimeOf
    <3> QED
      BY <3>1, <3>2
  <2>4. state' = "done" => capturing' /\ trigTime' + spec'.post <= TimeOf(seenTo)'
    <3> SUFFICES ASSUME state' = "done"
                 PROVE  capturing' /\ trigTime' + spec'.post <= TimeOf(seenTo)'
      OBVIOUS
    <3>1. capturing' /\ Complete(new, trig)
      BY <1>3
    <3>2. new[Len(new)] = written /\ TimeOf(written) >= trig + spec.post
      BY <1>4, <3>1 DEF Complete
    <3>3. TimeOf(seenTo)' = TimeOf(written) /\ trigTime' = trig /\ spec' = spec
      BY <1>2, <1>3 DEF TimeOf
    <3>4. trig \in Int /\ spec.post \in Int /\ TimeOf(written) \in Int
      BY <1>1, <1>8, <1>9, <1>11, TriggerAssumption
    <3> HIDE DEF trig
    <3> QED
      BY <3>1, <3>2, <3>3, <3>4
  <2> QED
    BY <1>2, <2>2, <2>3, <2>4, Zenon DEF CaptureInv
<1> QED
  BY <1>6, <1>7, <1>12, <1>13 DEF WatcherInv

\* _emit_capture: what is cut is what is in the window of what is still there.
LEMMA EmitKeepsWatcher ==
  ASSUME TriggerInv, EmitCapture
  PROVE  WatcherInv'
<1>1. /\ UNCHANGED <<ringVars, scale, written, cursor, seenTo, resized>>
      /\ UNCHANGED <<spec, began, state, before, beforeTime, crossed, trigTime>>
      /\ UNCHANGED <<armedAt, missed, retimed>>
      /\ state = "done"
  BY DEF EmitCapture, vars, metaVars, triggerVars, watcherVars, TriggerInv, PanelInv
<1>2. PollInv' /\ CrossingInv'
  BY <1>1 DEF TriggerInv, PollInv, CrossingInv, Crosses, Rises, Falls, Value, ReachBack, ringVars
<1>3. gone' \/ capture' = {row \in WindowRows : InCapture(row)}
  BY Zenon DEF EmitCapture
<1>4. /\ written \in Nat /\ count \in Nat /\ count <= written
      /\ WindowRows = (written - count + 1)..written
  BY WindowByNumber DEF TriggerInv, StoreInv, Inv
<1>5. WatcherTypes'
  <2>1. capture' = capture \/ capture' = {row \in WindowRows : InCapture(row)}
    BY Zenon DEF EmitCapture
  <2>2. \A row \in WindowRows : row \in Nat /\ row <= written
    BY <1>4
  <2>3. \A row \in capture' : row \in Nat /\ row <= written
    BY <2>1, <2>2 DEF TriggerInv, WatcherTypes
  <2> QED
    BY <1>1, <2>3 DEF TriggerInv, WatcherTypes
<1>6. ASSUME ~gone', NEW row \in Nat \ {0}, row <= written', ReachBack(written', count', row - 1)
      PROVE  Shown(row)'
  <2>1. row \in WindowRows
    BY <1>1, <1>4, <1>6 DEF ReachBack, ringVars
  <2>2. row \in capture' <=> InCapture(row)
    BY <1>3, <1>6, <2>1
  <2>3. InCapture(row)' <=> InCapture(row)
    BY <1>1 DEF InCapture, TimeOf
  <2> QED
    BY <2>2, <2>3 DEF Shown
<1>7. CaptureInv'
  <2>1. TimeOf(before)' = TimeOf(before) /\ TimeOf(crossed[1])' = TimeOf(crossed[1])
        /\ TimeOf(crossed[2])' = TimeOf(crossed[2]) /\ TimeOf(seenTo)' = TimeOf(seenTo)
    BY <1>1 DEF TimeOf
  <2>2. ~retimed' =>
           /\ before' > began' => beforeTime' = TimeOf(before)'
           /\ state' \in {"fired", "done"} /\ crossed'[1] > began' =>
                 TimeOf(crossed[1])' <= trigTime' /\ trigTime' <= TimeOf(crossed[2])'
           /\ state' = "done" /\ crossed'[1] > began' => trigTime' + spec'.post <= TimeOf(seenTo)'
    BY <1>1, <2>1 DEF TriggerInv, CaptureInv
  <2> QED
    BY <1>6, <2>2 DEF CaptureInv
<1> QED
  BY <1>2, <1>5, <1>7 DEF WatcherInv

\* The live view, the button and the stream selection leave the rows and the cursor.
LEMMA RestKeepsWatcher ==
  ASSUME TriggerInv, Draws \/ Disarm \/ Reselect \/ UNCHANGED tvars
  PROVE  WatcherInv'
<1>1. /\ UNCHANGED <<count, written, scale, cursor, seenTo, resized>>
      /\ UNCHANGED <<spec, began, before, beforeTime, crossed, trigTime, capturing, capture>>
      /\ UNCHANGED <<armedAt, missed, retimed, gone>>
      /\ (state' = state \/ state' = "idle")
  BY DEF Draws, Feed, Tick, Snapshot, Invalidate, Disarm, Reselect, tvars, vars, ringVars, metaVars,
         triggerVars, watcherVars, panelVars, histVars
<1>2. PollInv' /\ CrossingInv'
  BY <1>1 DEF TriggerInv, PollInv, CrossingInv, Crosses, Rises, Falls, Value, ReachBack
<1>3. WatcherTypes'
  BY <1>1 DEF TriggerInv, WatcherTypes
<1>4. CaptureInv'
  <2>1. TimeOf(before)' = TimeOf(before) /\ TimeOf(crossed[1])' = TimeOf(crossed[1])
        /\ TimeOf(crossed[2])' = TimeOf(crossed[2]) /\ TimeOf(seenTo)' = TimeOf(seenTo)
    BY <1>1 DEF TimeOf
  <2>2. \A row : Shown(row)' <=> Shown(row)
    BY <1>1 DEF Shown, InCapture, TimeOf
  <2> QED
    BY <1>1, <2>1, <2>2 DEF TriggerInv, CaptureInv, ReachBack
<1> QED
  BY <1>2, <1>3, <1>4 DEF WatcherInv

\* A trigger begins unarmed.
LEMMA InitTrigger == TInit => TriggerInv
<1> SUFFICES ASSUME TInit PROVE TriggerInv
  OBVIOUS
<1>1. StoreInv
  BY InitStore DEF TInit
<1>2. /\ state = "idle" /\ before = 0 /\ written = 0 /\ began = 0 /\ seenTo = 0 /\ armedAt = 0
      /\ scale \in Scales /\ beforeTime = 0 /\ trigTime = 0 /\ capture = {} /\ resized = FALSE
  BY DEF TInit, Init, NoRow
<1>3. PanelInv
  BY <1>2 DEF TInit, PanelInv, PanelShowsTheTrigger
<1>4. PollInv /\ CrossingInv /\ WatcherTypes /\ CaptureInv
  BY <1>2 DEF PollInv, CrossingInv, WatcherTypes, CaptureInv, NoRow
<1> QED
  BY <1>1, <1>3, <1>4 DEF TriggerInv

\* Every step of the store, the watcher and the panel keeps what is known of them.
LEMMA StepTrigger == TriggerInv /\ [TNext]_tvars => TriggerInv'
<1> SUFFICES ASSUME TriggerInv, [TNext]_tvars PROVE TriggerInv'
  OBVIOUS
<1>1. StoreInv'
  BY StepIsOfStore, StepStore DEF TriggerInv
<1>2. PanelInv'
  BY StepKeepsPanel DEF TriggerInv
<1>3. WatcherInv'
  <2>1. StoreInv /\ WatcherInv
    BY DEF TriggerInv, WatcherInv
  <2> QED
    BY <2>1, StoreKeepsWatcher, ArmKeepsWatcher, PollKeepsWatcher, EmitKeepsWatcher, RestKeepsWatcher
       DEF TNext
<1> QED
  BY <1>1, <1>2, <1>3 DEF TriggerInv, WatcherInv

\* The invariant says what the properties do.
LEMMA TriggerShows == TriggerInv => CrossingsAreCaptured /\ PanelShowsTheTrigger
<1> SUFFICES ASSUME TriggerInv PROVE CrossingsAreCaptured /\ PanelShowsTheTrigger
  OBVIOUS
<1>1. PanelShowsTheTrigger
  BY DEF TriggerInv, PanelInv
<1>2. FiresJustOnCrossings
  BY DEF TriggerInv, CrossingInv, PollInv, FiresJustOnCrossings
<1>3. CaptureIsTheWindow
  <2> SUFFICES ASSUME state = "done", ~capturing, ~gone, ~retimed, crossed[1] > began
               PROVE  /\ TimeOf(crossed[1]) <= trigTime /\ trigTime <= TimeOf(crossed[2])
                      /\ \A row \in WindowRows :
                           row \in capture <=> /\ trigTime - spec.pre <= TimeOf(row)
                                              /\ TimeOf(row) <= trigTime + spec.post
    BY DEF CaptureIsTheWindow
  <2>1. TimeOf(crossed[1]) <= trigTime /\ trigTime <= TimeOf(crossed[2])
    BY DEF TriggerInv, CaptureInv
  <2>2. ASSUME NEW row \in WindowRows PROVE Shown(row)
    <3>1. row \in (written - count + 1)..written /\ written \in Nat /\ count \in Nat /\ count <= written
      BY WindowByNumber DEF TriggerInv, StoreInv, Inv
    <3>2. row \in Nat \ {0} /\ row <= written /\ ReachBack(written, count, row - 1)
      BY <3>1 DEF ReachBack
    <3> QED
      BY <3>2 DEF TriggerInv, CaptureInv
  <2>3. ASSUME NEW row \in WindowRows
        PROVE  InCapture(row) <=> trigTime - spec.pre <= TimeOf(row) /\ TimeOf(row) <= trigTime + spec.post
    <3>1. row \in Nat
      BY WindowByNumber DEF TriggerInv, StoreInv, Inv
    <3>2. began \in Nat /\ scale \in Scales /\ spec \in Specs /\ trigTime \in Int
      BY DEF TriggerInv, WatcherTypes, StoreInv, Inv
    <3>3. TimeOf(row) \in Int /\ spec.pre \in Nat /\ spec.post \in Nat
      BY <3>1, <3>2, TimesGrow, TriggerAssumption
    <3> QED
      BY <3>2, <3>3 DEF InCapture
  <2> QED
    BY <2>1, <2>2, <2>3, Zenon DEF Shown
<1> QED
  BY <1>1, <1>2, <1>3 DEF CrossingsAreCaptured

\* TriggerWatcher and _emit_capture, for every signal, edge, level and window, empty sides
\* included, and every capacity, batch and scale of the store: the trigger fires only on two
\* samples the signal really crossed between, and on the first such ones since it was armed
\* unless rows were gone before a poll; its time is between theirs; and what is captured of
\* the rows still stored is what is in the window, however many were written since.
THEOREM TriggerCapturesCrossings == TSpec => []CrossingsAreCaptured
BY InitTrigger, StepTrigger, TriggerShows, PTL DEF TSpec

\* show_state, TellIdle: however polls, captures, clears, the button and the selection
\* interleave, the panel shows a trigger that waits as armed or fired, as it is; it shows one
\* that does not only after the store was empty when the capture was to be cut; and its
\* button differs from what it shows only then or after the stream was shown anew.
THEOREM PanelIsTold == TSpec => []PanelShowsTheTrigger
BY InitTrigger, StepTrigger, TriggerShows, PTL DEF TSpec

\* Whatever holds of the store by itself holds of the store with its trigger: a behaviour of
\* the two is one of the store.
THEOREM TriggerOnlyReads == TSpec => Spec
<1>1. TInit => Init
  BY DEF TInit
<1> QED
  BY <1>1, StepIsOfStore, PTL DEF TSpec, Spec
=============================================================================
