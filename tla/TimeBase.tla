------------------------------ MODULE TimeBase ------------------------------
(***************************************************************************)
(* core/acquisition/timebase.py: TimeBase, which turns the values of a     *)
(* stream's time field into ticks that only grow, and what it is for: a    *)
(* device that counts, whose frames may be lost, which may restart, and    *)
(* whose counter may be missing from a line of text.                       *)
(*                                                                         *)
(* A batch of process() is a run of steps here, one per value: the loop    *)
(* carries nothing from one value to the next but the variables below.     *)
(***************************************************************************)
EXTENDS Integers, Sequences

CONSTANTS
    Modulus,       \* where the field wraps (2^bits), or 0 for a field that does not
    Step,          \* ticks from a frame to the next
    WrapWindow,    \* WRAP_WINDOW_FRAMES
    Advances,      \* ticks the device may count from one received frame to the next
    MaxFrames      \* bound: frames received

NoValue == -1

\* min(WRAP_WINDOW_FRAMES * step, modulus / 2), as a test.
InWindow(d) == d <= WrapWindow * Step /\ 2 * d <= Modulus

\* GAP_FACTOR * step is 1.5 * step.
IsGap(d) == 2 * d > 3 * Step

ASSUME TimeBaseAssumption ==
    /\ Modulus \in Nat /\ Step \in Nat \ {0} /\ WrapWindow \in Nat
    /\ Advances \subseteq Nat \ {0} /\ MaxFrames \in Nat
    \* An integer counter loses less than the window at once.
    /\ Modulus # 0 => \A j \in Advances : InWindow(j)

VARIABLES
    lastRaw, tick, resets, gaps,   \* TimeBase's own
    rows,       \* the rows the last value became: its sample, a gap marker before it
    dev,        \* the device's counter
    clock,      \* the ticks it has counted, from the first value received
    losses,     \* the times frames were lost
    restarts,   \* the times the device restarted
    missing,    \* the frames that lacked the field
    frames      \* frames received

base == <<lastRaw, tick, resets, gaps, rows>>
device == <<dev, clock, losses, restarts, missing, frames>>
vars == <<base, device>>

Sample(t) == [tick |-> t, gap |-> FALSE]
Gap(t) == [tick |-> t, gap |-> TRUE]

Init ==
    /\ lastRaw = NoValue /\ tick = 0 /\ resets = 0 /\ gaps = 0 /\ rows = <<>>
    /\ dev = 0 /\ clock = 0 /\ losses = 0 /\ restarts = 0 /\ missing = 0 /\ frames = 0

----------------------------------------------------------------------------
(* TimeBase: the body of process()'s loop. *)

\* The distance to a value, through the wrap if that is short.
ForwardUnwrapped(value) == value - lastRaw    \* mutant: no unwrapping
Forward(value) ==
    LET d == value - lastRaw IN
    IF d < 0 /\ Modulus # 0 /\ InWindow(d + Modulus) THEN d + Modulus ELSE d

First(value) ==
    /\ lastRaw = NoValue
    /\ tick' = value /\ rows' = <<Sample(value)>>
    /\ UNCHANGED <<resets, gaps>>

\* It went backwards: a new segment, after a gap marker.
SegmentStartsAtValue(value) ==    \* mutant: the segment keeps the field's own value
    tick' = value /\ rows' = <<Gap(tick + Step), Sample(value)>>
SegmentStarts(value) ==
    tick' = tick + 2 * Step /\ rows' = <<Gap(tick + Step), Sample(tick + 2 * Step)>>

Backwards(value) ==
    /\ lastRaw # NoValue /\ Forward(value) < 0
    /\ SegmentStarts(value)
    /\ resets' = resets + 1 /\ UNCHANGED gaps

\* Frames were lost: a gap marker.
FramesLost(value) ==
    /\ lastRaw # NoValue /\ IsGap(Forward(value))
    /\ tick' = tick + Forward(value)
    /\ rows' = <<Gap(tick + Step), Sample(tick + Forward(value))>>
    /\ gaps' = gaps + 1 /\ UNCHANGED resets

InStep(value) ==
    /\ lastRaw # NoValue /\ Forward(value) >= 0 /\ ~IsGap(Forward(value))
    /\ tick' = tick + Forward(value) /\ rows' = <<Sample(tick + Forward(value))>>
    /\ UNCHANGED <<resets, gaps>>

Receive(value) ==
    /\ First(value) \/ Backwards(value) \/ FramesLost(value) \/ InStep(value)
    /\ lastRaw' = value

\* NaN: the nominal step is assumed.
ReceiveNothing ==
    /\ tick' = tick + Step /\ rows' = <<Sample(tick + Step)>>
    /\ UNCHANGED <<lastRaw, resets, gaps>>

----------------------------------------------------------------------------
(* The device, and the session. *)

Count(j) == IF Modulus # 0 /\ dev + j >= Modulus THEN dev + j - Modulus ELSE dev + j

More == frames < MaxFrames /\ frames' = frames + 1

\* A frame arrives, j ticks after the last that did.
Frame(j) ==
    /\ More
    /\ dev' = Count(j) /\ Receive(Count(j))
    /\ clock' = IF lastRaw = NoValue THEN Count(j) ELSE clock + j
    /\ losses' = IF lastRaw # NoValue /\ IsGap(j) THEN losses + 1 ELSE losses
    /\ UNCHANGED <<restarts, missing>>

\* A frame arrives that has no value in the time field.
FrameWithout(j) ==
    /\ More
    /\ dev' = Count(j) /\ ReceiveNothing
    /\ clock' = clock + j /\ missing' = missing + 1
    /\ UNCHANGED <<losses, restarts>>

\* The device restarts; the first frame that arrives is j ticks later.
Restart(j) ==
    /\ More
    /\ dev' = j /\ Receive(j)
    /\ clock' = clock + j /\ restarts' = restarts + 1
    /\ UNCHANGED <<losses, missing>>

\* TimeBase.reset(): a new session; the device counts on.
Reset ==
    /\ lastRaw' = NoValue /\ tick' = 0 /\ resets' = 0 /\ gaps' = 0 /\ rows' = <<>>
    /\ clock' = 0 /\ losses' = 0 /\ restarts' = 0 /\ missing' = 0
    /\ UNCHANGED <<dev, frames>>

Next ==
    \/ \E j \in Advances : Frame(j) \/ FrameWithout(j)
    \/ \E j \in Advances \cup {0} : Restart(j)
    \/ Reset

Spec == Init /\ [][Next]_vars

----------------------------------------------------------------------------
(* Properties. *)

Rows == [tick : Int, gap : BOOLEAN]

\* Every variable has its type; an integer field's values are below its modulus.
TypeOK ==
    /\ lastRaw \in Nat \cup {NoValue} /\ tick \in Nat /\ resets \in Nat /\ gaps \in Nat
    /\ rows \in Seq(Rows) /\ dev \in Nat /\ clock \in Nat
    /\ losses \in Nat /\ restarts \in Nat /\ missing \in Nat /\ frames \in 0..MaxFrames
    /\ Modulus # 0 => dev < Modulus /\ lastRaw < Modulus

\* timebase.py, "Reset", "Gap"; storage.snapshot relies on it: once a value was
\* received, every row comes at or after the row before it, and a marker strictly
\* between its neighbours, until the next session.
TicksOnlyGrow ==
    [][lastRaw # NoValue /\ rows' # <<>> =>
         /\ tick' >= tick /\ rows'[Len(rows')] = Sample(tick')
         /\ Len(rows') = 2 => /\ rows'[1].gap
                              /\ tick < rows'[1].tick /\ rows'[1].tick < tick']_<<rows, frames>>

\* timebase.py, "Wrap": as long as the device runs and sends its counter, the ticks are
\* the ones it counted, through every wrap and every loss.
TicksAreTheDevices ==
    restarts = 0 /\ missing = 0 /\ lastRaw # NoValue => tick = clock /\ lastRaw = dev

\* TimeBase.gaps, "gap markers inserted for lost frames (resets excluded)", as far as it
\* holds: a missing value counts as a loss as well when the next one arrives.
GapsAreLosses == restarts = 0 /\ missing = 0 => gaps = losses

\* TimeBase.resets, "segments started because the field went backwards (device reset)":
\* no wrap and no loss is taken for a restart.
ResetsAreRestarts == missing = 0 => resets <= restarts

\* The three together: what a trace can be trusted with while every frame has its counter.
TimeIsTheDevices == TicksAreTheDevices /\ GapsAreLosses /\ ResetsAreRestarts
=============================================================================
