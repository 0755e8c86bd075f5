--------------------------- MODULE TimeBaseProofs ---------------------------
(***************************************************************************)
(* Proofs about TimeBase, for any modulus, step and window, any pattern of *)
(* losses, and any number of restarts and missing values.                  *)
(***************************************************************************)
EXTENDS TimeBase, TLAPS

USE TimeBaseAssumption DEF NoValue

\* The values the device sends are of its field's type.
LEMMA CountType ==
  ASSUME TypeOK, NEW j \in Advances
  PROVE  Count(j) \in Nat /\ (Modulus # 0 => Count(j) < Modulus)
BY DEF TypeOK, Count, InWindow

\* A value of the field, below the modulus if it has one.
IsValue(v) == v \in Nat /\ (Modulus # 0 => v < Modulus)

\* The loop body of process() keeps TimeBase's variables of their types.
LEMMA ReceiveType ==
  ASSUME TypeOK, NEW v \in Nat, Receive(v)
  PROVE  /\ lastRaw' = v /\ tick' \in Nat /\ resets' \in Nat /\ gaps' \in Nat
         /\ rows' \in Seq(Rows)
<1> USE DEF TypeOK
<1>1. Forward(v) \in Int
  BY DEF Forward
<1>2. \A t \in Int : Sample(t) \in Rows /\ Gap(t) \in Rows
  BY DEF Sample, Gap, Rows
<1>3. CASE First(v)
  BY <1>2, <1>3 DEF First, Receive
<1>4. CASE Backwards(v)
  <2>1. tick + Step \in Int /\ tick + 2 * Step \in Nat
    OBVIOUS
  <2> QED
    BY <1>2, <1>4, <2>1 DEF Backwards, SegmentStarts, Receive
<1>5. CASE FramesLost(v)
  <2>1. tick + Step \in Int /\ tick + Forward(v) \in Nat
    BY <1>1, <1>5 DEF FramesLost, IsGap
  <2> QED
    BY <1>2, <1>5, <2>1 DEF FramesLost, Receive
<1>6. CASE InStep(v)
  <2>1. tick + Forward(v) \in Nat
    BY <1>1, <1>6 DEF InStep
  <2> QED
    BY <1>2, <1>6, <2>1 DEF InStep, Receive
<1> QED
  BY <1>3, <1>4, <1>5, <1>6 DEF Receive

\* Each step of the device, and a new session, keeps every variable of its type.
LEMMA StepType == TypeOK /\ [Next]_vars => TypeOK'
<1> SUFFICES ASSUME TypeOK, [Next]_vars PROVE TypeOK'
  OBVIOUS
<1> USE DEF More
<1>1. ASSUME NEW j \in Advances, Frame(j) PROVE TypeOK'
  <2>1. IsValue(Count(j))
    BY CountType DEF IsValue
  <2>2. TypeOK /\ Receive(Count(j))
    BY <1>1 DEF Frame
  <2>3. /\ lastRaw' = Count(j) /\ tick' \in Nat /\ resets' \in Nat /\ gaps' \in Nat
        /\ rows' \in Seq(Rows)
    BY <2>1, <2>2, ReceiveType DEF IsValue
  <2>4. dev' = Count(j) /\ clock' \in Nat /\ losses' \in Nat /\ restarts' \in Nat
        /\ missing' \in Nat /\ frames' \in 0..MaxFrames
    BY <1>1, <2>1 DEF Frame, TypeOK, IsValue
  <2> QED
    BY <2>1, <2>3, <2>4 DEF TypeOK, IsValue
<1>2. ASSUME NEW j \in Advances, FrameWithout(j) PROVE TypeOK'
  <2>1. <<Sample(tick + Step)>> \in Seq(Rows)
    BY DEF Sample, Rows, TypeOK
  <2>2. dev' \in Nat /\ (Modulus # 0 => dev' < Modulus)
    BY <1>2, CountType DEF FrameWithout
  <2> QED
    BY <1>2, <2>1, <2>2 DEF FrameWithout, ReceiveNothing, TypeOK
<1>3. ASSUME NEW j \in Advances \cup {0}, Restart(j) PROVE TypeOK'
  <2>1. IsValue(j)
    BY DEF IsValue, InWindow
  <2>2. /\ lastRaw' = j /\ tick' \in Nat /\ resets' \in Nat /\ gaps' \in Nat
        /\ rows' \in Seq(Rows)
    BY <1>3, <2>1, ReceiveType DEF Restart, IsValue
  <2>3. dev' = j /\ clock' \in Nat /\ losses' \in Nat /\ restarts' \in Nat
        /\ missing' \in Nat /\ frames' \in 0..MaxFrames
    BY <1>3, <2>1 DEF Restart, TypeOK, IsValue
  <2> QED
    BY <2>1, <2>2, <2>3 DEF TypeOK, IsValue
<1>4. CASE Reset
  BY <1>4 DEF Reset, TypeOK
<1>5. CASE UNCHANGED vars
  BY <1>5 DEF vars, base, device, TypeOK
<1> QED
  BY <1>1, <1>2, <1>3, <1>4, <1>5 DEF Next

\* TimeBase keeps its types, whatever the device sends.
THEOREM TypeCorrect == Spec => []TypeOK
<1>1. Init => TypeOK
  BY DEF Init, TypeOK
<1> QED
  BY <1>1, StepType, PTL DEF Spec

----------------------------------------------------------------------------
(* Order. *)

\* The loop body: once a value was received, what it stores comes after what it stored.
LEMMA ReceiveGrows ==
  ASSUME TypeOK, NEW v \in Nat, Receive(v), lastRaw # NoValue
  PROVE  /\ tick' >= tick /\ rows'[Len(rows')] = Sample(tick')
         /\ Len(rows') = 2 => rows'[1].gap /\ tick < rows'[1].tick /\ rows'[1].tick < tick'
<1> USE DEF TypeOK
<1>1. Forward(v) \in Int
  BY DEF Forward
<1>2. CASE Backwards(v)
  BY <1>2 DEF Backwards, SegmentStarts, Sample, Gap
<1>3. CASE FramesLost(v)
  BY <1>1, <1>3 DEF FramesLost, IsGap, Sample, Gap
<1>4. CASE InStep(v)
  BY <1>1, <1>4 DEF InStep, Sample, Gap
<1> QED
  BY <1>2, <1>3, <1>4 DEF Receive, First

\* timebase.py, "so time never runs backwards": once a value was received, rows come in
\* order of time and every marker lies strictly between its neighbours, through wraps,
\* losses, restarts and missing values.
THEOREM Ordered == Spec => TicksOnlyGrow
<1> DEFINE A == lastRaw # NoValue /\ rows' # <<>> =>
         /\ tick' >= tick /\ rows'[Len(rows')] = Sample(tick')
         /\ Len(rows') = 2 => /\ rows'[1].gap
                              /\ tick < rows'[1].tick /\ rows'[1].tick < tick'
<1>1. TypeOK /\ [Next]_vars => [A]_<<rows, frames>>
  <2> SUFFICES ASSUME TypeOK, [Next]_vars, lastRaw # NoValue, rows' # <<>>,
                      <<rows, frames>>' # <<rows, frames>>
               PROVE  A
    OBVIOUS
  <2>1. ASSUME NEW j \in Advances, Frame(j) PROVE A
    <3>1. Count(j) \in Nat /\ Receive(Count(j))
      BY <2>1, CountType DEF Frame
    <3> QED
      BY <3>1, ReceiveGrows
  <2>2. ASSUME NEW j \in Advances, FrameWithout(j) PROVE A
    BY <2>2 DEF FrameWithout, ReceiveNothing, TypeOK
  <2>3. ASSUME NEW j \in Advances \cup {0}, Restart(j) PROVE A
    <3>1. j \in Nat /\ Receive(j)
      BY <2>3 DEF Restart
    <3> QED
      BY <3>1, ReceiveGrows
  <2>4. CASE Reset
    BY <2>4 DEF Reset
  <2> QED
    BY <2>1, <2>2, <2>3, <2>4 DEF Next, vars, base, device
<1> QED
  BY <1>1, TypeCorrect, PTL DEF Spec, TicksOnlyGrow

----------------------------------------------------------------------------
(***************************************************************************)
(* What TimeBase counts is what happened.  The last value is always where  *)
(* the device's counter is (Follows), so the distance to the next one is   *)
(* the one the device counted: never more than the window, and so never a  *)
(* reset.  A missing value breaks this, and what follows from it.          *)
(***************************************************************************)

Follows == missing = 0 /\ lastRaw # NoValue => lastRaw = dev

\* The unwrapping in process(): the distance it finds is the one the device counted.
LEMMA ForwardIsAdvance ==
  ASSUME TypeOK, Follows, missing = 0, lastRaw # NoValue, NEW j \in Advances
  PROVE  Forward(Count(j)) = j
BY DEF TypeOK, Follows, Forward, Count, InWindow

\* A frame that arrives moves the ticks as far as the device counted, and a marker goes
\* with a loss.
LEMMA FrameFollows ==
  ASSUME TypeOK, Follows, missing = 0, NEW j \in Advances, Frame(j)
  PROVE  /\ lastRaw' = dev' /\ resets' = resets
         /\ lastRaw # NoValue => tick' = tick + j
         /\ lastRaw = NoValue => tick' = clock'
         /\ gaps' - gaps = losses' - losses
<1>1. CASE lastRaw # NoValue
  <2>1. Forward(Count(j)) = j
    BY <1>1, ForwardIsAdvance
  <2> QED
    BY <1>1, <2>1 DEF Frame, Receive, First, Backwards, FramesLost, InStep, TypeOK, IsGap
<1>2. CASE lastRaw = NoValue
  BY <1>2 DEF Frame, Receive, First, Backwards, FramesLost, InStep, TypeOK
<1> QED
  BY <1>1, <1>2

\* A device that sends its counter in every frame is followed by every step.
LEMMA StepFollows == TypeOK /\ Follows /\ [Next]_vars => Follows'
<1> SUFFICES ASSUME TypeOK, Follows, [Next]_vars PROVE Follows'
  OBVIOUS
<1>1. ASSUME NEW j \in Advances, Frame(j) PROVE Follows'
  <2>1. missing' = missing
    BY <1>1 DEF Frame
  <2> QED
    BY <1>1, <2>1, FrameFollows DEF Follows
<1>2. ASSUME NEW j \in Advances \cup {0}, Restart(j) PROVE Follows'
  BY <1>2 DEF Restart, Receive, Follows
<1>3. ASSUME NEW j \in Advances, FrameWithout(j) PROVE Follows'
  BY <1>3 DEF FrameWithout, Follows, TypeOK
<1>4. CASE Reset
  BY <1>4 DEF Reset, Follows
<1>5. CASE UNCHANGED vars
  BY <1>5 DEF vars, base, device, Follows
<1> QED
  BY <1>1, <1>2, <1>3, <1>4, <1>5 DEF Next

\* timebase.py, "Reset": with a counter in every frame, no more segments are started than
\* the device restarted, however many frames were lost on the way.
THEOREM NoFalseReset == Spec => []ResetsAreRestarts
<1>1. Init => Follows /\ ResetsAreRestarts
  BY DEF Init, Follows, ResetsAreRestarts
<1>2. TypeOK /\ Follows /\ ResetsAreRestarts /\ [Next]_vars => ResetsAreRestarts'
  <2> SUFFICES ASSUME TypeOK, Follows, ResetsAreRestarts, [Next]_vars, missing' = 0
               PROVE  resets' <= restarts'
    BY DEF ResetsAreRestarts
  <2>1. ASSUME NEW j \in Advances, Frame(j) PROVE resets' <= restarts'
    <3>1. missing = 0 /\ restarts' = restarts
      BY <2>1 DEF Frame
    <3>2. resets' = resets
      BY <2>1, <3>1, FrameFollows
    <3> QED
      BY <3>1, <3>2 DEF ResetsAreRestarts
  <2>2. ASSUME NEW j \in Advances \cup {0}, Restart(j) PROVE resets' <= restarts'
    <3>1. restarts' = restarts + 1 /\ resets' \in {resets, resets + 1} /\ missing' = missing
      BY <2>2, Zenon DEF Restart, Receive, First, Backwards, FramesLost, InStep
    <3>2. resets <= restarts
      BY <3>1 DEF ResetsAreRestarts
    <3> QED
      BY <3>1, <3>2 DEF TypeOK
  <2>3. ASSUME NEW j \in Advances, FrameWithout(j) PROVE FALSE
    BY <2>3 DEF FrameWithout, TypeOK
  <2>4. ASSUME Reset \/ UNCHANGED vars PROVE resets' <= restarts'
    BY <2>4 DEF Reset, vars, base, device, ResetsAreRestarts
  <2> QED
    BY <2>1, <2>2, <2>3, <2>4 DEF Next
<1> QED
  BY <1>1, <1>2, StepFollows, TypeCorrect, PTL DEF Spec

\* timebase.py, "Wrap" and "Gap": with a counter in every frame and no restart, the ticks
\* are the device's own through every wrap and every loss, and the gap markers counted
\* are the losses, one each; and no more segments than restarts.
THEOREM DeviceIsFollowed == Spec => []TimeIsTheDevices
<1>1. Init => Follows /\ TicksAreTheDevices /\ GapsAreLosses
  BY DEF Init, Follows, TicksAreTheDevices, GapsAreLosses
<1>2. TypeOK /\ Follows /\ TicksAreTheDevices /\ GapsAreLosses /\ [Next]_vars
        => TicksAreTheDevices' /\ GapsAreLosses'
  <2> SUFFICES ASSUME TypeOK, Follows, TicksAreTheDevices, GapsAreLosses, [Next]_vars,
                      restarts' = 0, missing' = 0
               PROVE  TicksAreTheDevices' /\ GapsAreLosses'
    BY DEF TicksAreTheDevices, GapsAreLosses
  <2>1. ASSUME NEW j \in Advances, Frame(j) PROVE TicksAreTheDevices' /\ GapsAreLosses'
    <3>1. restarts = 0 /\ missing = 0
      BY <2>1 DEF Frame
    <3>2. lastRaw' = dev' /\ tick' = clock'
      <4>1. lastRaw # NoValue => clock' = clock + j
        BY <2>1 DEF Frame
      <4>2. lastRaw # NoValue => tick = clock
        BY <3>1 DEF TicksAreTheDevices
      <4> QED
        BY <2>1, <3>1, <4>1, <4>2, FrameFollows
    <3>3. gaps' - gaps = losses' - losses /\ gaps = losses
      BY <2>1, <3>1, FrameFollows DEF GapsAreLosses
    <3>4. gaps \in Nat /\ gaps' \in Nat /\ losses' \in Nat
      BY StepType DEF TypeOK
    <3>5. gaps' = losses'
      BY <3>3, <3>4
    <3> QED
      BY <3>2, <3>5 DEF TicksAreTheDevices, GapsAreLosses
  <2>2. ASSUME NEW j \in Advances, FrameWithout(j) PROVE FALSE
    BY <2>2 DEF FrameWithout, TypeOK
  <2>3. ASSUME NEW j \in Advances \cup {0}, Restart(j) PROVE FALSE
    BY <2>3 DEF Restart, TypeOK
  <2>4. CASE Reset
    BY <2>4 DEF Reset, TicksAreTheDevices, GapsAreLosses
  <2>5. CASE UNCHANGED vars
    BY <2>5 DEF vars, base, device, TicksAreTheDevices, GapsAreLosses
  <2> QED
    BY <2>1, <2>2, <2>3, <2>4, <2>5 DEF Next
<1> QED
  <2>1. TicksAreTheDevices /\ GapsAreLosses /\ ResetsAreRestarts <=> TimeIsTheDevices
    BY DEF TimeIsTheDevices
  <2> QED
    BY <1>1, <1>2, <2>1, StepFollows, TypeCorrect, NoFalseReset, PTL DEF Spec
=============================================================================
