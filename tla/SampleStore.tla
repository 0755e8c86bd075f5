----------------------------- MODULE SampleStore -----------------------------
(***************************************************************************)
(* core/acquisition/storage.py: SampleStore, with the level of detail of   *)
(* lod.py, and the two that read it on the GUI thread: LiveFeed (the       *)
(* frames drawn) and TriggerController (every sample).                     *)
(*                                                                         *)
(* The reader thread appends, the engine thread clears, resizes and        *)
(* re-times, the GUI thread reads; each holds _lock, so each is one step,  *)
(* but for overview(), which takes the lock twice.  A row (a sample or a   *)
(* gap marker) is known by its number: `written` when it was written.      *)
(***************************************************************************)
EXTENDS Integers, Sequences, FiniteSets

CONSTANTS
    Capacities,    \* sizes the user may set
    Batches,       \* <<frames, gap markers>> that may be stored at once
    Scales,        \* seconds per tick
    Target,        \* TARGET_BUCKETS
    MaxVersion     \* bound: changes of the store

ASSUME StoreAssumption ==
    /\ Capacities \subseteq Nat \ {0} /\ Batches \subseteq (Nat \ {0}) \X Nat
    /\ Target \in Nat \ {0} /\ MaxVersion \in Nat

VARIABLES
    cap,        \* _capacity
    ring,       \* the rows, twice: at i and at i + cap
    head,       \* next write position
    count,      \* valid rows
    rows,       \* rows written since the last clear or resize
    generation, version, total, scale,
    lod,        \* the buckets of lod.py
    written,    \* rows ever written
    frame,      \* the live view: what it shows, and the version it has
    drawing,    \* is the feed between the two locks of overview()?
    cursor,     \* the trigger's, or NoCursor
    seenTo,     \* the last row the trigger has seen, or need not see
    resized     \* was the ring resized since its cursor was taken?

ringVars == <<cap, ring, head, count, rows>>
metaVars == <<generation, version, total, scale>>
feedVars == <<frame, drawing>>
triggerVars == <<cursor, seenTo, resized>>
vars == <<ringVars, metaVars, lod, written, feedVars, triggerVars>>

NoRow == 0
NoVersion == -1
NoCursor == <<-1, -1>>

LesserOf(a, b) == IF a < b THEN a ELSE b
GreaterOf(a, b) == IF a > b THEN a ELSE b

----------------------------------------------------------------------------
(* The ring. *)

\* _window_locked: oldest to newest, in one piece.
WindowOf(r, h, c, n) == [i \in 1..n |-> r[h + c - n + i - 1]]
Window == WindowOf(ring, head, cap, count)

EmptyRing(c) == [i \in 0..(2 * c - 1) |-> NoRow]

\* How far a place (of either copy) is after the head.
AfterHead(i, h, c) ==
    LET p == IF i < c THEN i ELSE i - c IN IF p >= h THEN p - h ELSE p - h + c

\* _write_locked: both copies of each row, up to the wrap point and on from there.
PutOnce(r, h, c, new) ==    \* mutant: the second copy is forgotten
    [i \in 0..(2 * c - 1) |->
        IF i < c /\ AfterHead(i, h, c) < Len(new) THEN new[AfterHead(i, h, c) + 1] ELSE r[i]]
Put(r, h, c, new) ==
    [i \in 0..(2 * c - 1) |->
        IF AfterHead(i, h, c) < Len(new) THEN new[AfterHead(i, h, c) + 1] ELSE r[i]]
Advance(h, c, n) == IF h + n >= c THEN h + n - c ELSE h + n

----------------------------------------------------------------------------
(* The buckets.  What one shows (its min, max, gap and time) is a function *)
(* of the set of rows put into it.                                         *)

BucketRows(c) == GreaterOf(1, c \div Target)
Slots(c) == c \div BucketRows(c) + 2

NoBucket == [bucket |-> -1, rows |-> {}]
EmptyLod(c) == [k |-> BucketRows(c), written |-> 0, at |-> [s \in 0..(Slots(c) - 1) |-> NoBucket]]

\* MinMaxLod.add: the rows `new`, after `skipped` that are gone.
AddToLod(l, new, skipped) ==
    LET first == l.written + skipped
        Bucket(i) == (first + i - 1) \div l.k
        In(s) == {i \in 1..Len(new) : Bucket(i) % Cardinality(DOMAIN l.at) = s}
        Filled(s) ==
            LET b == Bucket(CHOOSE i \in In(s) : \A j \in In(s) : i >= j)
                added == {new[i] : i \in {j \in In(s) : Bucket(j) = b}}
            IN  [bucket |-> b,
                 rows |-> IF l.at[s].bucket = b THEN l.at[s].rows \cup added ELSE added]
    IN  [l EXCEPT !.written = first + Len(new),
                  !.at = [s \in DOMAIN l.at |-> IF In(s) = {} THEN l.at[s] ELSE Filled(s)]]

\* _sync_lod_locked: the rows written since the last frame.
SyncedUnskipped ==    \* mutant: rows that are gone do not count
    LET start == GreaterOf(lod.written, rows - count)
    IN  IF lod.written = rows THEN lod
        ELSE AddToLod(lod, SubSeq(Window, start - (rows - count) + 1, count), 0)
Synced ==
    LET oldest == rows - count
        start == GreaterOf(lod.written, oldest)
    IN  IF lod.written = rows THEN lod
        ELSE AddToLod(lod, SubSeq(Window, start - oldest + 1, count), start - lod.written)

\* MinMaxLod.window
FirstBucket(l) == (l.written - count) \div l.k
LastBucket(l) == (l.written - 1) \div l.k
BucketAt(l, b) == l.at[b % Cardinality(DOMAIN l.at)]

----------------------------------------------------------------------------

Init ==
    /\ cap \in Capacities /\ ring = EmptyRing(cap) /\ head = 0 /\ count = 0 /\ rows = 0
    /\ generation = 0 /\ version = 0 /\ total = 0 /\ scale \in Scales
    /\ lod = EmptyLod(cap) /\ written = 0
    /\ frame = [version |-> NoVersion, rows |-> <<>>, scale |-> scale] /\ drawing = FALSE
    /\ cursor = NoCursor /\ seenTo = 0 /\ resized = FALSE

\* Every change a reader could see.
Changed == version < MaxVersion /\ version' = version + 1

\* append_records, _store: the batch with its gap markers, or as much of it as fits.
Fitting(n) == LesserOf(n, cap)

Store(frames, gaps) ==
    LET n == frames + gaps
        fits == Fitting(n)
    IN  /\ Changed
        /\ ring' = Put(ring, head, cap, [i \in 1..fits |-> written + n - fits + i])
        /\ head' = Advance(head, cap, fits)
        /\ count' = LesserOf(count + fits, cap)
        /\ rows' = rows + n /\ written' = written + n
        /\ total' = total + frames
        /\ UNCHANGED <<cap, generation, scale, lod, feedVars, triggerVars>>

\* clear, _reset_locked: a new session.  The time base starts again too.
NewGenerationForgotten == UNCHANGED generation    \* mutant
NewGeneration == generation' = generation + 1

Clear ==
    /\ Changed /\ NewGeneration
    /\ rows' = 0 /\ head' = 0 /\ count' = 0
    /\ lod' = EmptyLod(cap)
    /\ UNCHANGED <<cap, ring, total, scale, written, feedVars, triggerVars>>

\* resize: the newest rows that fit are written to new arrays.
Kept(keep) == SubSeq(Window, count - keep + 1, count)

Resize(c) ==
    LET keep == LesserOf(count, c) IN
    /\ c # cap /\ Changed
    /\ cap' = c
    /\ ring' = Put(EmptyRing(c), 0, c, Kept(keep))
    /\ head' = Advance(0, c, keep)
    /\ count' = keep /\ rows' = keep
    /\ lod' = EmptyLod(c) /\ resized' = TRUE
    /\ UNCHANGED <<generation, total, scale, written, feedVars, cursor, seenTo>>

\* set_time_scale
ScaleChangesNothing == version < MaxVersion /\ UNCHANGED version    \* mutant
ScaleChanges == Changed

SetTimeScale(s) ==
    /\ s # scale /\ scale' = s /\ ScaleChanges
    /\ UNCHANGED <<ringVars, generation, total, lod, written, feedVars, triggerVars>>

----------------------------------------------------------------------------
(* The GUI thread, while the live view is shown. *)

\* Why snapshot() and overview() return None.
Nothing == count < 2 \/ frame.version = version

\* What snapshot() copies, under one lock.
Show == frame' = [version |-> version, rows |-> Window, scale |-> scale]

\* LiveFeed.tick, overview: a window too small for buckets is left to snapshot().
Small == lod.k = 1 \/ count <= 3 * Target

Tick ==
    /\ ~drawing /\ ~Nothing
    /\ IF Small THEN drawing' = TRUE /\ UNCHANGED <<lod, frame>>
                ELSE Show /\ lod' = Synced /\ UNCHANGED drawing
    /\ UNCHANGED <<ringVars, metaVars, written, triggerVars>>

\* ... which takes the lock again, and asks again.
Snapshot ==
    /\ drawing /\ drawing' = FALSE
    /\ IF Nothing THEN UNCHANGED frame ELSE Show
    /\ UNCHANGED <<ringVars, metaVars, lod, written, triggerVars>>

\* Other signals are made visible: the next tick draws, whatever the version.
Invalidate ==
    /\ ~drawing /\ frame.version # NoVersion
    /\ frame' = [frame EXCEPT !.version = NoVersion]
    /\ UNCHANGED <<ringVars, metaVars, lod, written, drawing, triggerVars>>

\* read_since
StartOf(cur) ==
    LET oldest == rows - count
    IN  IF cur[1] # generation THEN oldest ELSE GreaterOf(cur[2], oldest)
Since(cur) == SubSeq(Window, StartOf(cur) - (rows - count) + 1, count)

\* TriggerController.arm: from the sample before on.
ArmedAt == GreaterOf(rows - 1, 0)

Arm ==
    /\ ~drawing
    /\ cursor' = <<generation, ArmedAt>>
    /\ seenTo' = IF rows = 0 THEN written ELSE written - 1
    /\ resized' = FALSE
    /\ UNCHANGED <<ringVars, metaVars, lod, written, feedVars>>

\* TriggerController.poll
Poll ==
    /\ ~drawing /\ cursor # NoCursor
    /\ cursor' = <<generation, rows>> /\ seenTo' = written /\ resized' = FALSE
    /\ UNCHANGED <<ringVars, metaVars, lod, written, feedVars>>

Feed == Tick \/ Snapshot

Next ==
    \/ \E b \in Batches : Store(b[1], b[2])
    \/ Clear
    \/ \E c \in Capacities : Resize(c)
    \/ \E s \in Scales : SetTimeScale(s)
    \/ Feed \/ Invalidate \/ Arm \/ Poll

Spec == Init /\ [][Next]_vars

----------------------------------------------------------------------------
(* Properties. *)

\* Every variable has its type, and the ring holds no more than was written.
TypeOK ==
    /\ cap \in Capacities /\ ring \in [0..(2 * cap - 1) -> 0..written]
    /\ head \in 0..(cap - 1) /\ count \in 0..cap /\ rows \in Nat /\ count <= rows
    /\ generation \in Nat /\ version \in 0..MaxVersion /\ total \in Nat /\ scale \in Scales
    /\ written \in Nat /\ rows <= written /\ total <= written

\* SampleStore, "the newest samples": wherever the ring wraps, however large a batch is
\* and whatever it is resized to, a reader's window is the newest rows in order.
Log == INSTANCE SampleLog WITH window <- Window, size <- cap
StoreIsALog == Log!Spec

\* overview, MinMaxLod: what a frame would be drawn from now: every row of the window is
\* in its bucket, and only the oldest bucket has rows that are not in the window.
OverviewIsTheWindow ==
    count > 0 =>
        LET l == Synced
            BucketOf(row) == (row - written + rows - 1) \div l.k
        IN  \A b \in FirstBucket(l)..LastBucket(l) :
                LET kept == {Window[i] : i \in {j \in 1..count : BucketOf(Window[j]) = b}}
                IN  /\ BucketAt(l, b).bucket = b /\ kept \subseteq BucketAt(l, b).rows
                    /\ b # FirstBucket(l) => BucketAt(l, b).rows = kept
                    /\ \A row \in BucketAt(l, b).rows : row <= written /\ BucketOf(row) = b

\* LiveFeed.tick, _version, "bumps on every change visible to readers": a frame that will
\* not be drawn again shows the rows there are, at the scale there is.
FrameIsCurrent ==
    frame.version = version => frame.rows = Window /\ frame.scale = scale

\* read_since, "every sample, gap markers included": the next poll gets every row not seen
\* yet that is still there, in order, none twice, across clears and overruns, if the ring
\* was not resized since the last.
UnseenRows == Log!Rows(GreaterOf(seenTo, written - count), written)

PollsSeeEverySample == cursor # NoCursor /\ ~resized => Since(cursor) = UnseenRows

\* The same as the comment has it, whatever happens between two polls.
PollsMissNothing == cursor # NoCursor => Since(cursor) = UnseenRows
=============================================================================
