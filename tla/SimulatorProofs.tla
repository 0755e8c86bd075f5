--------------------------- MODULE SimulatorProofs ---------------------------
(***************************************************************************)
(* What is accepted when a file is loaded can be pressed, for every file,  *)
(* the frames of the virtual device keep time, for all periods, and the    *)
(* device reads what was sent, for all types and layouts.                  *)
(***************************************************************************)
EXTENDS Simulator, WellFoundedInduction, TLAPS

\* A value that is None is no number (controls.py keeps them apart by type).
LEMMA NoneIsNoNumber == ASSUME NEW n \in Numbers PROVE n # None
  BY CommandAssumption

\* ButtonDef.column, PanelDef.column_keys: the column a field's parameter comes from is one
\* of the panel's, be it the field's own, the button's or the only one.
LEMMA ColumnIsThePanels ==
  ASSUME NEW panel, NEW commands, NEW b \in ToSet(panel.buttons), ButtonIsValid(b, panel, commands),
         NEW f \in Fields(commands[b.command]),
         f.name \notin DOMAIN b.values, f.value = None
  PROVE  /\ f.param # None /\ f.param \in DOMAIN panel.params
         /\ ColumnOf(f, ButtonColumn(b, panel)) \in ColumnKeys(panel)
<1>1. /\ f.param # None /\ f.param \in DOMAIN panel.params
      /\ panel.columns # <<>> => ColumnOf(f, b.column) # None
      /\ f.column # None => f.column \in ToSet(panel.columns)
      /\ b.column # None => b.column \in ToSet(panel.columns)
  BY DEF ButtonIsValid, FieldGetsAValue
<1>2. CASE panel.columns = <<>>
  <2>1. f.column = None
    BY <1>1, <1>2 DEF ToSet
  <2> QED
    BY <1>1, <1>2, <2>1 DEF ColumnOf, ButtonColumn, ColumnKeys
<1>3. CASE panel.columns # <<>>
  BY <1>1, <1>3 DEF ColumnOf, ButtonColumn, ColumnKeys
<1> QED
  BY <1>2, <1>3

\* resolve_values never raises for a button _button accepted and inputs a panel can hold.
LEMMA FieldIsNumber ==
  ASSUME NEW panel, NEW commands, NEW b \in ToSet(panel.buttons), ButtonIsValid(b, panel, commands),
         NEW v \in InputsOf(panel), NEW f \in Fields(commands[b.command]), f.value \in Numbers \cup {None}
  PROVE  Resolve(commands[b.command], v, ButtonColumn(b, panel), b.values)[f] \in Numbers
<1>1. CASE f.name \in DOMAIN b.values
  <2>1. b.values[f.name] \in Numbers
    BY <1>1 DEF ButtonIsValid, Range
  <2> QED
    BY <1>1, <2>1 DEF Resolve
<1>2. CASE f.name \notin DOMAIN b.values /\ f.value # None
  BY <1>2 DEF Resolve
<1>3. CASE f.name \notin DOMAIN b.values /\ f.value = None
  <2> DEFINE c == ColumnOf(f, ButtonColumn(b, panel))
  <2>1. f.param # None /\ f.param \in DOMAIN panel.params /\ c \in ColumnKeys(panel)
    BY <1>3, ColumnIsThePanels
  <2>2. v \in [ColumnKeys(panel) -> [DOMAIN panel.params -> Numbers]]
    BY DEF InputsOf
  <2>3. c \in DOMAIN v /\ f.param \in DOMAIN v[c] /\ v[c][f.param] \in Numbers
    BY <2>1, <2>2
  <2>4. Resolve(commands[b.command], v, ButtonColumn(b, panel), b.values)[f] = v[c][f.param]
    BY <1>3, <2>1, <2>3 DEF Resolve
  <2> QED
    BY <2>3, <2>4
<1> QED
  BY <1>1, <1>2, <1>3

\* The commands of a document are lists of fields, and valid.
LEMMA CommandsAre ==
  ASSUME NEW d \in DOMAIN Files, NEW key \in DOMAIN Commands[d]
  PROVE  /\ CommandIsValid(Commands[d][key])
         /\ Commands[d][key].fields \in Seq(Range(Commands[d][key].fields))
<1>1. Commands[d] = ParseCommands(Files[d].commands)
  BY DEF Commands
<1>2. /\ key \in DOMAIN Files[d].commands /\ CommandIsValid(Files[d].commands[key])
      /\ Commands[d][key] = Files[d].commands[key]
  BY <1>1, Zenon DEF ParseCommands
<1> QED
  BY <1>2, SimulatorAssumption, Zenon

\* A press sends the values of a command of its document, which are numbers.
LEMMA PressIs ==
  ASSUME NEW p \in Presses
  PROVE  /\ p.document \in DOMAIN Files
         /\ \E key \in DOMAIN Commands[p.document] : p.command = Commands[p.document][key]
         /\ p.vals \in [Fields(p.command) -> Numbers]
<1>1. PICK d \in DOMAIN Files : p \in UNION {PressesOf(d, panel) : panel \in Range(Panels[d])}
  BY DEF Presses
<1>2. PICK panel \in Range(Panels[d]) : p \in PressesOf(d, panel)
  BY <1>1
<1>3. PanelIsValid(panel, Commands[d])
  BY <1>2 DEF Panels, ParsePanels, Range
<1>4. PICK b \in ToSet(panel.buttons), v \in InputsOf(panel) :
        /\ p.document = d /\ p.command = Commands[d][b.command]
        /\ p.vals = Resolve(Commands[d][b.command], v, ButtonColumn(b, panel), b.values)
  BY <1>2 DEF PressesOf
<1>5. ButtonIsValid(b, panel, Commands[d])
  BY <1>3, <1>4 DEF PanelIsValid
<1>6. b.command \in DOMAIN Commands[d]
  BY <1>5 DEF ButtonIsValid
<1>7. \A f \in Fields(p.command) : f.value \in Numbers \cup {None}
  BY <1>4, <1>6, CommandsAre DEF CommandIsValid, FieldIsValid
<1>8. \A f \in Fields(p.command) : p.vals[f] \in Numbers
  BY <1>4, <1>5, <1>7, FieldIsNumber
<1>9. p.vals = [f \in Fields(p.command) |-> p.vals[f]]
  BY <1>4 DEF Resolve
<1>10. p.vals \in [Fields(p.command) -> Numbers]
  BY <1>8, <1>9
<1> QED
  BY <1>4, <1>6, <1>10

\* Every press of a button of a panel that parse_panels kept has its values.
LEMMA PressResolves == ASSUME NEW p \in Presses PROVE ~Unresolved(p)
<1>1. \A f \in DOMAIN p.vals : p.vals[f] \in Numbers
  BY PressIs
<1> QED
  BY <1>1, NoneIsNoNumber DEF Unresolved, Range

\* A button of a panel that was accepted can be pressed, whatever the file and its inputs
\* hold: no press fails for want of a value.
THEOREM PressesHaveValues == Spec => []EveryPressHasValues
<1>1. Init => EveryPressHasValues
  BY DEF Init, EveryPressHasValues
<1>2. EveryPressHasValues /\ [Next]_vars => EveryPressHasValues'
  <2> SUFFICES ASSUME EveryPressHasValues, [Next]_vars PROVE EveryPressHasValues'
    OBVIOUS
  <2>1. CASE UNCHANGED failed
    BY <2>1 DEF EveryPressHasValues
  <2>2. ASSUME NEW p \in Presses, Press(p) PROVE EveryPressHasValues'
    BY <2>2, PressResolves DEF Press, EveryPressHasValues
  <2>3. ASSUME NEW d \in DOMAIN Files, SaveConfig(d) PROVE UNCHANGED failed
    BY <2>3 DEF SaveConfig
  <2>4. ASSUME User PROVE UNCHANGED failed \/ \E p \in Presses : Press(p)
    BY <2>4, <2>3 DEF User, SendLine, SelectStream, Connect, Disconnect, StateReported,
              windowVars
  <2>5. ASSUME Slots \/ ReadAnswers \/ ReadFrames \/ Tick PROVE UNCHANGED failed
    BY <2>5 DEF Slots, ConfigureCommands, ConfigureStreams, Select, StartWorking, StopWorking, SendPacket, WriteLine,
                ReadAnswers, ReadFrames, Tick, windowVars
  <2> QED
    BY <2>1, <2>2, <2>4, <2>5 DEF Next, vars, windowVars
<1> QED
  BY <1>1, <1>2, PTL DEF Spec

----------------------------------------------------------------------------
(***************************************************************************)
(* FramesKeepTime.  Since the stream was set, the frames have never fallen *)
(* behind what was due at the last read; a call in the queue that selects  *)
(* a stream selects one there is.                                          *)
(***************************************************************************)

CallsMade ==
    {Selection(s) : s \in Streams}
        \cup [do : {"commands"}, document : DOMAIN Files]
        \cup [do : {"streams", "start", "stop"}]
        \cup [do : {"write"}, line : Nat, ended : BOOLEAN]
        \cup {[do |-> "send", id |-> p.command.id, payload |-> Pack(p.command, p.vals),
               vals |-> p.vals] : p \in Presses}

QueueOK ==
    /\ calls \in Seq(CallsMade) /\ sends \in Nat
    /\ shown \in Streams /\ active \in Streams /\ stream \in Streams

\* The number of frames due by the time t, of a stream set at `since` with frame `base` next.
DueBy(t) == base + (t - since) \div Periods[stream] + 1

TimeOK ==
    /\ now \in Nat /\ since \in 0..now /\ lastRead \in 0..now
    /\ base \in Nat /\ k \in Nat /\ k0 = base /\ t0 = since
    /\ base <= k
    /\ lastRead > since => DueBy(lastRead) <= k

\* What a division by a period gives.
LEMMA Division ==
  ASSUME NEW x \in Nat, NEW p \in Nat \ {0}
  PROVE  x \div p \in Nat /\ p * (x \div p) <= x /\ x < p * (x \div p) + p
BY SMT

\* Only as much time as a period takes lets one more frame be due.
LEMMA TimePasses ==
  ASSUME NEW x \in Nat, NEW y \in Nat, y <= x, NEW p \in Nat \ {0}, NEW m \in Nat,
         x \div p - y \div p > m
  PROVE  x - y >= m * p
<1> DEFINE a == x \div p
           b == y \div p
<1>1. a \in Nat /\ b \in Nat /\ p * a <= x /\ y < p * b + p
  BY Division
<1> HIDE DEF a, b
<1>2. a >= b + m + 1
  BY <1>1 DEF a, b
<1>3. p * a >= p * (b + m + 1)
  BY <1>1, <1>2, SMT
<1>4. p * (b + m + 1) = p * b + m * p + p
  BY <1>1, SMT
<1>5. p * a \in Nat /\ p * b \in Nat /\ m * p \in Nat
  BY <1>1, SMT
<1> QED
  BY <1>1, <1>3, <1>4, <1>5

\* As many whole periods as were counted have passed.
LEMMA PeriodsPass ==
  ASSUME NEW x \in Nat, NEW p \in Nat \ {0}, NEW m \in Nat, x \div p >= m
  PROVE  x >= m * p
BY SMT

\* Streams are only ever set to streams there are.
LEMMA StepQueue == QueueOK /\ [Next]_vars => QueueOK'
<1> SUFFICES ASSUME QueueOK, [Next]_vars PROVE QueueOK'
  OBVIOUS
<1> USE DEF QueueOK, Call, windowVars, engineVars, clockVars, deviceVars, histVars
<1>1. \A s \in Streams : Selection(s) \in CallsMade
  BY DEF CallsMade
<1>2. \A do \in {"streams", "start", "stop"} : [do |-> do] \in CallsMade
  BY DEF CallsMade
<1>3. ASSUME NEW p \in Presses, Press(p) PROVE QueueOK'
  <2> DEFINE c == [do |-> "send", id |-> p.command.id, payload |-> Pack(p.command, p.vals), vals |-> p.vals]
  <2>1. c \in CallsMade
    BY DEF CallsMade
  <2> HIDE DEF c
  <2>2. UNCHANGED calls \/ calls' = Append(calls, c)
    BY <1>3 DEF Press, c
  <2>3. UNCHANGED <<shown, active, stream>> /\ sends' = sends + 1
    BY <1>3 DEF Press
  <2> QED
    BY <2>1, <2>2, <2>3
<1>4. ASSUME NEW ended \in BOOLEAN, SendLine(ended) PROVE QueueOK'
  <2> DEFINE c == [do |-> "write", line |-> sends + 1, ended |-> ended]
  <2>1. c \in CallsMade
    BY DEF CallsMade
  <2> HIDE DEF c
  <2>2. calls' = Append(calls, c)
    BY <1>4 DEF SendLine, c
  <2>3. UNCHANGED <<shown, active, stream>> /\ sends' = sends + 1
    BY <1>4 DEF SendLine
  <2> QED
    BY <2>1, <2>2, <2>3
<1>5. ASSUME NEW d \in DOMAIN Files, SaveConfig(d) PROVE QueueOK'
  <2> DEFINE new == <<Selection(shown), [do |-> "commands", document |-> d], [do |-> "streams"]>>
  <2>1. new \in Seq(CallsMade)
    <3>1. [do |-> "commands", document |-> d] \in CallsMade
      BY DEF CallsMade
    <3> QED
      BY <1>1, <1>2, <3>1
  <2> HIDE DEF new
  <2>2. calls' = calls \o new /\ UNCHANGED <<shown, active, stream, sends>>
    BY <1>5 DEF SaveConfig, new
  <2> QED
    BY <2>1, <2>2
<1>6. ASSUME NEW s \in Streams, SelectStream(s) PROVE QueueOK'
  BY <1>1, <1>6 DEF SelectStream
<1>7. CASE Connect \/ Disconnect
  BY <1>2, <1>7, SMTT(20) DEF Connect, Disconnect
<1>8. CASE StateReported
  BY <1>8 DEF StateReported
<1>9. CASE Select
  <2>1. Head(calls) \in CallsMade /\ Head(calls).do = "select" /\ calls' \in Seq(CallsMade)
    BY <1>9 DEF Select, Slot
  <2>2. Head(calls).stream \in Streams
    BY <2>1 DEF CallsMade, Selection
  <2> QED
    BY <1>9, <2>1, <2>2 DEF Select, Slot, This, Apply, SetStream
<1>10. CASE ConfigureCommands \/ ConfigureStreams \/ StartWorking \/ StopWorking \/ SendPacket \/ WriteLine
  <2>1. calls' \in Seq(CallsMade)
    <3>1. calls # <<>> /\ calls' = Tail(calls)
      BY <1>10, Zenon DEF ConfigureCommands, ConfigureStreams, StartWorking, StopWorking, SendPacket,
         WriteLine, Slot
    <3> QED
      BY <3>1
  <2>2. UNCHANGED <<shown, active, sends>> /\ stream' \in {stream, active}
    BY <1>10 DEF ConfigureCommands, ConfigureStreams, StartWorking, StopWorking, SendPacket, WriteLine,
                 Apply, SetStream
  <2> QED
    BY <2>1, <2>2
<1>11. CASE ReadAnswers \/ ReadFrames \/ Tick
  BY <1>11 DEF ReadAnswers, ReadFrames, Tick
<1>12. CASE UNCHANGED vars
  BY <1>12 DEF vars
<1> QED
  BY <1>3, <1>4, <1>5, <1>6, <1>7, <1>8, <1>9, <1>10, <1>11, <1>12 DEF Next, User, Slots

\* Steps of the window and the queue leave the device's clock alone.
LEMMA TimeKept ==
  ASSUME TimeOK, UNCHANGED <<now, since, lastRead, base, k, k0, t0, stream>>
  PROVE  TimeOK'
BY DEF TimeOK, DueBy

\* set_stream, and a new simulator: the frames go on from the one that is next.
LEMMA RebasedTime ==
  ASSUME TimeOK, UNCHANGED now, since' = now, t0' = now, k0' = k', base' = k',
         \/ UNCHANGED <<k, lastRead>>
         \/ k' = 0 /\ lastRead' = now
  PROVE  TimeOK'
BY DEF TimeOK

\* read: every frame that is due is made.
LEMMA ReadTime ==
  ASSUME QueueOK, TimeOK, ReadFrames
  PROVE  TimeOK' /\ k' = DueBy(now)
<1>1. k' = k + DueNow /\ DueNow > 0 /\ lastRead' = now /\ UNCHANGED <<now, since, base, k0, t0, stream>>
  BY DEF ReadFrames, deviceVars
<1>2. now - since \in Nat /\ Periods[stream] \in Nat \ {0}
  BY SimulatorAssumption DEF TimeOK, QueueOK
<1> DEFINE q == (now - since) \div Periods[stream]
<1>3. q \in Nat
  BY <1>2, Division
<1>4. DueNow = base + q + 1 - k /\ DueBy(now) = base + q + 1
  BY DEF DueNow, DueBy, TimeOK
<1>5. DueBy(lastRead)' = DueBy(now)
  BY <1>1 DEF DueBy
<1> HIDE DEF q
<1>6. k' = base + q + 1
  BY <1>1, <1>3, <1>4 DEF TimeOK
<1> QED
  BY <1>1, <1>3, <1>4, <1>5, <1>6 DEF TimeOK

\* Every step keeps the device's clock.
LEMMA StepTime == QueueOK /\ TimeOK /\ [Next]_vars => TimeOK'
<1> SUFFICES ASSUME QueueOK, TimeOK, [Next]_vars PROVE TimeOK'
  OBVIOUS
<1> USE DEF engineVars, clockVars, deviceVars, histVars
<1>1. CASE User
  BY <1>1, TimeKept DEF User, Press, SendLine, SaveConfig, SelectStream, Connect, Disconnect, StateReported
<1>2. CASE ConfigureStreams \/ Select
  <2>1. CASE open
    BY <1>2, <2>1, RebasedTime DEF ConfigureStreams, Select, Apply, SetStream, Rebased, TimeOK
  <2>2. CASE ~open
    BY <1>2, <2>2, TimeKept DEF ConfigureStreams, Select, Apply
  <2> QED
    BY <2>1, <2>2
<1>3. CASE StartWorking
  <2>1. CASE open
    BY <1>3, <2>1, TimeKept DEF StartWorking
  <2>2. CASE ~open
    BY <1>3, <2>2, RebasedTime DEF StartWorking
  <2> QED
    BY <2>1, <2>2
<1>4. CASE ConfigureCommands \/ StopWorking \/ SendPacket \/ WriteLine \/ ReadAnswers
  BY <1>4, TimeKept DEF ConfigureCommands, StopWorking, SendPacket, WriteLine, ReadAnswers
<1>5. CASE ReadFrames
  BY <1>5, ReadTime
<1>6. CASE Tick
  <2>1. now' = now + 1 /\ UNCHANGED <<since, lastRead, base, k, k0, t0, stream>>
    BY <1>6 DEF Tick
  <2>2. DueBy(lastRead)' = DueBy(lastRead)
    BY <2>1 DEF DueBy
  <2> QED
    BY <2>1, <2>2 DEF TimeOK
<1>7. CASE UNCHANGED vars
  BY <1>7, TimeKept DEF vars
<1> QED
  BY <1>1, <1>2, <1>3, <1>4, <1>5, <1>6, <1>7 DEF Next, Slots

\* Frames are skipped only if the reader looked away for as long as those it can have take.
LEMMA SkippedOnlyWhenAway ==
  ASSUME QueueOK, TimeOK, DueNow > MaxFrames
  PROVE  now - Latest(since, lastRead) >= MaxFrames * Periods[stream]
<1>1. /\ now - since \in Nat /\ Periods[stream] \in Nat \ {0} /\ MaxFrames \in Nat
      /\ now \in Nat /\ since \in Nat /\ lastRead \in Nat
      /\ since <= now /\ lastRead <= now /\ base \in Nat /\ k \in Nat
  BY SimulatorAssumption DEF TimeOK, QueueOK
<1> DEFINE p == Periods[stream]
           q == (now - since) \div p
           r == (lastRead - since) \div p
<1>2. q \in Nat /\ base + q + 1 - k > MaxFrames
  BY <1>1, Division DEF DueNow, TimeOK
<1>3. CASE lastRead > since
  <2>1. lastRead - since \in Nat /\ lastRead - since <= now - since
    BY <1>1, <1>3
  <2>2. r \in Nat /\ base + r + 1 <= k
    BY <1>1, <1>3, <2>1, Division DEF TimeOK, DueBy
  <2> HIDE DEF q, r
  <2>3. q - r > MaxFrames
    BY <1>1, <1>2, <2>2
  <2> USE DEF q, r
  <2>4. (now - since) - (lastRead - since) >= MaxFrames * p
    BY <1>1, <2>1, <2>3, TimePasses
  <2>5. Latest(since, lastRead) = lastRead
    BY <1>1, <1>3 DEF Latest
  <2>6. (now - since) - (lastRead - since) = now - lastRead
    BY <1>1
  <2> QED
    BY <2>4, <2>5, <2>6
<1>4. CASE ~(lastRead > since)
  <2> HIDE DEF q
  <2>1. q >= MaxFrames
    BY <1>1, <1>2 DEF TimeOK
  <2> USE DEF q
  <2>2. now - since >= MaxFrames * p
    BY <1>1, <2>1, PeriodsPass
  <2>3. Latest(since, lastRead) = since
    BY <1>1, <1>4 DEF Latest
  <2> QED
    BY <2>2, <2>3
<1> QED
  BY <1>3, <1>4

\* SimTransport.read: for any streams and periods, whatever is selected and configured and
\* whenever the reader looks: a read leaves no frame that is due, makes none that is not,
\* and skips some only after a stall as long as the most a read makes take.
THEOREM FramesAreTimed == Spec => FramesKeepTime
<1> DEFINE Kept == k' # k /\ open /\ open' =>
        /\ k' = base + (now - since) \div Periods[stream] + 1
        /\ frames'.first + frames'.count = k'
        /\ frames'.first # k => /\ frames'.count = MaxFrames
                                 /\ now - Latest(since, lastRead) >= MaxFrames * Periods[stream]
<1>1. Init => QueueOK /\ TimeOK
  BY DEF Init, QueueOK, TimeOK, CallsMade
<1>2. QueueOK /\ TimeOK /\ [Next]_vars => [Kept]_vars
  <2> SUFFICES ASSUME QueueOK, TimeOK, Next, k' # k, open, open'
               PROVE  /\ k' = base + (now - since) \div Periods[stream] + 1
                      /\ frames'.first + frames'.count = k'
                      /\ frames'.first # k => /\ frames'.count = MaxFrames
                                              /\ now - Latest(since, lastRead) >= MaxFrames * Periods[stream]
    OBVIOUS
  <2>1. ReadFrames
    BY DEF Next, User, Slots, Press, SendLine, SaveConfig, SelectStream, Connect, Disconnect, StateReported,
           ConfigureCommands, ConfigureStreams, Select, StartWorking, StopWorking, SendPacket, WriteLine,
           ReadAnswers, Tick, clockVars, deviceVars
  <2>2. k' = DueBy(now)
    BY <2>1, ReadTime
  <2>3. /\ frames' = [first |-> k + Skipped(DueNow), count |-> DueNow - Skipped(DueNow)]
        /\ k' = k + DueNow /\ k \in Nat /\ k' \in Nat
    BY <2>1, ReadTime DEF ReadFrames, TimeOK
  <2>4. MaxFrames \in Nat
    BY SimulatorAssumption
  <2>5. DueNow \in Int
    <3>1. now - since \in Nat /\ Periods[stream] \in Nat \ {0}
      BY SimulatorAssumption DEF TimeOK, QueueOK
    <3>2. (now - since) \div Periods[stream] \in Nat
      BY <3>1, Division
    <3> QED
      BY <3>2 DEF DueNow, TimeOK
  <2> DEFINE due == DueNow
  <2> HIDE DEF due
  <2>6. due \in Int /\ k' = k + due /\ frames' = [first |-> k + Skipped(due), count |-> due - Skipped(due)]
    BY <2>3, <2>5 DEF due
  <2>7. CASE due > MaxFrames
    <3>1. Skipped(due) = due - MaxFrames
      BY <2>7 DEF Skipped
    <3>2. now - Latest(since, lastRead) >= MaxFrames * Periods[stream]
      BY <2>7, SkippedOnlyWhenAway DEF due
    <3> QED
      BY <2>2, <2>3, <2>4, <2>6, <3>1, <3>2 DEF DueBy
  <2>8. CASE ~(due > MaxFrames)
    <3>1. Skipped(due) = 0
      BY <2>8 DEF Skipped
    <3> QED
      BY <2>2, <2>3, <2>6, <3>1 DEF DueBy
  <2> QED
    BY <2>7, <2>8
<1> QED
  BY <1>1, <1>2, StepQueue, StepTime, PTL DEF Spec, FramesKeepTime

----------------------------------------------------------------------------
(***************************************************************************)
(* DeviceReadsWhatIsSent.  What is packed with a layout is read with it as *)
(* it was, for any base, types and fields; and the document a press was    *)
(* made with is the one the device has when it comes there.                *)
(*                                                                         *)
(* First of recursion: sequences of values, each made from the one before; *)
(* powers of the base; folds.                                              *)
(***************************************************************************)

\* A set of numbers that has 0, and with a number the next one, has all numbers up to N.
LEMMA Upto ==
  ASSUME NEW N \in Nat, NEW A, 0 \in A, \A m \in 0..(N - 1) : m \in A => m + 1 \in A
  PROVE  N \in A
<1> SUFFICES ASSUME N \notin A PROVE FALSE
  OBVIOUS
<1> DEFINE R == OpToRel(<, Nat)
           T == {n \in 0..N : n \notin A}
<1>1. IsWellFoundedOn(R, Nat)
  BY NatLessThanWellFounded
<1>2. \A x, y \in Nat : <<y, x>> \in R <=> y < x
  BY DEF OpToRel
<1>3. T \subseteq Nat /\ N \in T
  OBVIOUS
<1> HIDE DEF R
<1>4. PICK x \in T : \A y \in T : ~ (<<y, x>> \in R)
  BY <1>1, <1>3, WFMin
<1>5. x \in 1..N /\ x - 1 \in 0..(N - 1) /\ x - 1 + 1 = x
  BY <1>4
<1>6. x - 1 \notin A
  BY <1>4, <1>5
<1>7. x - 1 \in T
  BY <1>5, <1>6
<1>8. ~(<<x - 1, x>> \in R)
  BY <1>4, <1>7
<1>9. x \in Nat /\ x - 1 \in Nat /\ x - 1 < x
  BY <1>5
<1> QED
  BY <1>2, <1>8, <1>9

\* The first n values of a recursion, from v on.
Runs(r, n, v, step) == r = [i \in 0..n |-> IF i = 0 THEN v ELSE step[i][r[i - 1]]]

\* A run goes on for one more step.
LEMMA RunsFurther ==
  ASSUME NEW n \in Nat, NEW v, NEW step, NEW r, Runs(r, n, v, step)
  PROVE  \E q : Runs(q, n + 1, v, step) /\ \A i \in 0..n : q[i] = r[i]
<1> DEFINE q == [i \in 0..(n + 1) |-> IF i = n + 1 THEN step[n + 1][r[n]] ELSE r[i]]
<1>1. \A i \in 0..n : r[i] = IF i = 0 THEN v ELSE step[i][r[i - 1]]
  BY DEF Runs
<1>2. \A i \in 0..n : q[i] = r[i]
  OBVIOUS
<1>3. ASSUME NEW i \in 0..(n + 1) PROVE q[i] = IF i = 0 THEN v ELSE step[i][q[i - 1]]
  <2>1. CASE i = n + 1
    <3>1. i # 0 /\ i - 1 = n /\ n \in 0..n
      BY <2>1
    <3> QED
      BY <1>2, <2>1, <3>1
  <2>2. CASE i # n + 1 /\ i # 0
    <3>1. i \in 0..n /\ i - 1 \in 0..n
      BY <2>2
    <3> QED
      BY <1>1, <1>2, <2>2, <3>1
  <2>3. CASE i = 0
    <3>1. i \in 0..n
      BY <2>3
    <3> QED
      BY <1>1, <1>2, <2>3, <3>1
  <2> QED
    BY <2>1, <2>2, <2>3
<1>4. q = [i \in 0..(n + 1) |-> q[i]]
  OBVIOUS
<1> HIDE DEF q
<1>5. q = [i \in 0..(n + 1) |-> IF i = 0 THEN v ELSE step[i][q[i - 1]]]
  BY <1>3, <1>4
<1> QED
  BY <1>2, <1>5 DEF Runs

\* There is a run of any length.
LEMMA RunExists == ASSUME NEW N \in Nat, NEW v, NEW step PROVE \E r : Runs(r, N, v, step)
<1> DEFINE A == {n \in Nat : \E r : Runs(r, n, v, step)}
<1>1. 0 \in A
  <2> DEFINE r == [i \in 0..0 |-> v]
  <2>1. r = [i \in 0..0 |-> IF i = 0 THEN v ELSE step[i][r[i - 1]]]
    OBVIOUS
  <2> QED
    BY <2>1 DEF Runs
<1>2. \A n \in 0..(N - 1) : n \in A => n + 1 \in A
  BY RunsFurther
<1> HIDE DEF A
<1>3. N \in A
  BY <1>1, <1>2, Upto
<1> QED
  BY <1>3 DEF A

\* Two runs of the same steps have the same values.
LEMMA RunsAgree ==
  ASSUME NEW n \in Nat, NEW m \in Nat, NEW v, NEW step, NEW r, Runs(r, n, v, step), NEW q, Runs(q, m, v, step),
         NEW i \in Nat, i <= n, i <= m
  PROVE  r[i] = q[i]
<1> DEFINE A == {j \in Nat : j <= n /\ j <= m => r[j] = q[j]}
<1>1. \A j \in 0..n : r[j] = IF j = 0 THEN v ELSE step[j][r[j - 1]]
  BY DEF Runs
<1>2. \A j \in 0..m : q[j] = IF j = 0 THEN v ELSE step[j][q[j - 1]]
  BY DEF Runs
<1>3. 0 \in A
  BY <1>1, <1>2
<1>4. ASSUME NEW j \in 0..(i - 1), j \in A PROVE j + 1 \in A
  <2>1. j \in Nat /\ j + 1 \in 0..n /\ j + 1 \in 0..m /\ j + 1 # 0 /\ j + 1 - 1 = j /\ j <= n /\ j <= m
    OBVIOUS
  <2>2. r[j] = q[j]
    BY <1>4, <2>1
  <2>3. r[j + 1] = q[j + 1]
    BY <1>1, <1>2, <2>1, <2>2
  <2> QED
    BY <2>1, <2>3
<1> HIDE DEF A
<1>5. i \in A
  BY <1>3, <1>4, Upto
<1> QED
  BY <1>5 DEF A

\* Power is defined, for every number.
LEMMA PowerIs ==
  /\ Power[0] = 1 /\ \A n \in Nat : Power[n + 1] = Base * Power[n]
<1> DEFINE step == [i \in Nat |-> [v \in Int |-> Base * v]]
           To(n) == CHOOSE r : Runs(r, n, 1, step)
           f == [n \in Nat |-> To(n)[n]]
<1>1. \A n \in Nat : Runs(To(n), n, 1, step)
  BY RunExists
<1> HIDE DEF To
<1>2. \A n \in Nat : f[n] = To(n)[n]
  OBVIOUS
<1>3. ASSUME NEW n \in Nat PROVE f[n] = IF n = 0 THEN 1 ELSE step[n][f[n - 1]]
  <2>1. \A i \in 0..n : To(n)[i] = IF i = 0 THEN 1 ELSE step[i][To(n)[i - 1]]
    BY <1>1 DEF Runs
  <2>2. n \in 0..n
    OBVIOUS
  <2>3. CASE n = 0
    BY <1>2, <2>1, <2>2, <2>3
  <2>4. CASE n # 0
    <3>1. n - 1 \in Nat /\ n - 1 <= n /\ n - 1 <= n - 1
      BY <2>4
    <3>2. To(n)[n - 1] = To(n - 1)[n - 1]
      <4>1. PICK m \in Nat : m = n - 1
        BY <3>1
      <4>2. Runs(To(n), n, 1, step) /\ Runs(To(m), m, 1, step) /\ m <= n /\ m <= m
        BY <1>1, <3>1, <4>1
      <4> HIDE DEF step
      <4>3. To(n)[m] = To(m)[m]
        BY <4>2, RunsAgree
      <4> QED
        BY <4>1, <4>3
    <3> QED
      BY <1>2, <2>1, <2>2, <2>4, <3>1, <3>2
  <2> QED
    BY <2>3, <2>4
<1> HIDE DEF f
<1>4. ASSUME NEW n \in Nat PROVE f[n] \in Int
  <2> DEFINE A == {i \in Nat : f[i] \in Int}
  <2>1. 0 \in A
    <3>1. 0 \in Nat /\ f[0] = 1
      BY <1>3, Zenon
    <3> QED
      BY <3>1
  <2>2. ASSUME NEW i \in 0..(n - 1), i \in A PROVE i + 1 \in A
    <3>1. i + 1 \in Nat /\ i + 1 # 0 /\ i + 1 - 1 = i /\ i \in Nat
      OBVIOUS
    <3>2. f[i + 1] = step[i + 1][f[i]]
      BY <1>3, <3>1
    <3>3. f[i] \in Int
      BY <2>2
    <3>4. f[i + 1] = Base * f[i]
      BY <3>1, <3>2, <3>3
    <3> QED
      BY <3>1, <3>3, <3>4, CommandAssumption
  <2> HIDE DEF A
  <2>3. n \in A
    BY <2>1, <2>2, Upto
  <2> QED
    BY <2>3 DEF A
<1>5. \A n \in Nat : f[n] = IF n = 0 THEN 1 ELSE Base * f[n - 1]
  <2> TAKE n \in Nat
  <2>1. CASE n = 0
    BY <1>3, <2>1
  <2>2. CASE n # 0
    <3>1. n - 1 \in Nat
      BY <2>2
    <3> QED
      BY <1>3, <1>4, <2>2, <3>1
  <2> QED
    BY <2>1, <2>2
<1>6. f = [n \in Nat |-> IF n = 0 THEN 1 ELSE Base * f[n - 1]]
  <2>1. f = [n \in Nat |-> f[n]]
    BY DEF f
  <2> QED
    BY <1>5, <2>1
<1>7. Power = [n \in Nat |-> IF n = 0 THEN 1 ELSE Base * Power[n - 1]]
  BY <1>6, Zenon DEF Power
<1>8. \A n \in Nat : Power[n] = IF n = 0 THEN 1 ELSE Base * Power[n - 1]
  BY <1>7
<1>9. ASSUME NEW n \in Nat PROVE Power[n + 1] = Base * Power[n]
  <2>1. n + 1 \in Nat /\ n + 1 # 0 /\ n + 1 - 1 = n
    OBVIOUS
  <2> QED
    BY <1>8, <2>1
<1> QED
  BY <1>8, <1>9

\* A power of the base is a number above 0.
LEMMA PowerIsNumber == ASSUME NEW n \in Nat PROVE Power[n] \in Nat \ {0}
<1> DEFINE A == {i \in Nat : Power[i] \in Nat \ {0}}
<1>1. 0 \in A
  BY PowerIs
<1>2. ASSUME NEW i \in 0..(n - 1), i \in A PROVE i + 1 \in A
  <2>1. i \in Nat /\ i + 1 \in Nat /\ Power[i] \in Nat \ {0} /\ Power[i + 1] = Base * Power[i]
    BY <1>2, PowerIs
  <2>2. \A a, b \in Nat \ {0} : a * b \in Nat \ {0}
    OBVIOUS
  <2> QED
    BY <2>1, <2>2, CommandAssumption
<1> HIDE DEF A
<1>3. n \in A
  BY <1>1, <1>2, Upto
<1> QED
  BY <1>3 DEF A

----------------------------------------------------------------------------
(* Folds over sequences. *)

\* What FoldLeft computes for the sets of places, when step says what op does.
Folding(it, n, v, step) ==
    it = [S \in SUBSET (1..n) |-> IF S = {} THEN v ELSE step[Max(S)][it[S \ {Max(S)}]]]

\* A fold over more places, from one over fewer.
LEMMA FoldingFurther ==
  ASSUME NEW n \in Nat, NEW v, NEW step, NEW g, Folding(g, n, v, step)
  PROVE  \E h : Folding(h, n + 1, v, step)
<1> DEFINE L == n + 1
           h == [S \in SUBSET (1..L) |-> IF L \in S THEN step[L][g[S \ {L}]] ELSE g[S]]
<1>1. \A S \in SUBSET (1..n) : g[S] = IF S = {} THEN v ELSE step[Max(S)][g[S \ {Max(S)}]]
  BY DEF Folding
<1>2. L \in Nat /\ L \in 1..L /\ 1..n = (1..L) \ {L} /\ \A y \in 1..L : L >= y /\ (y >= L => y = L)
  OBVIOUS
<1> HIDE DEF L
<1>3. ASSUME NEW S \in SUBSET (1..L)
      PROVE  h[S] = IF S = {} THEN v ELSE step[Max(S)][h[S \ {Max(S)}]]
  <2>1. CASE L \in S
    <3>1. Max(S) = L
      <4>1. \A y \in S : L >= y
        BY <1>2
      <4>2. \A x \in S : (\A y \in S : x >= y) => x = L
        BY <1>2, <2>1
      <4> QED
        BY <2>1, <4>1, <4>2 DEF Max
    <3>2. S \ {L} \in SUBSET (1..L) /\ L \notin S \ {L} /\ S # {}
      BY <2>1
    <3>3. h[S \ {L}] = g[S \ {L}]
      BY <3>2
    <3> QED
      BY <2>1, <3>1, <3>2, <3>3
  <2>2. CASE L \notin S /\ S # {}
    <3>1. S \in SUBSET (1..n) /\ S \ {Max(S)} \in SUBSET (1..L) /\ L \notin S \ {Max(S)}
      BY <1>2, <2>2
    <3>2. h[S \ {Max(S)}] = g[S \ {Max(S)}] /\ h[S] = g[S]
      BY <2>2, <3>1
    <3> QED
      BY <1>1, <2>2, <3>1, <3>2
  <2>3. CASE S = {}
    <3>1. {} \in SUBSET (1..n) /\ L \notin {}
      OBVIOUS
    <3>2. g[{}] = v
      BY <1>1, <3>1
    <3> QED
      BY <2>3, <3>2
  <2> QED
    BY <2>1, <2>2, <2>3
<1>4. h = [S \in SUBSET (1..L) |-> IF S = {} THEN v ELSE step[Max(S)][h[S \ {Max(S)}]]]
  <2>1. h = [S \in SUBSET (1..L) |-> h[S]]
    OBVIOUS
  <2> HIDE DEF h
  <2> QED
    BY <1>3, <2>1
<1> HIDE DEF h
<1> QED
  BY <1>4 DEF Folding, L

\* There is a fold over any number of places.
LEMMA FoldingExists == ASSUME NEW N \in Nat, NEW v, NEW step PROVE \E it : Folding(it, N, v, step)
<1> DEFINE A == {n \in Nat : \E it : Folding(it, n, v, step)}
<1>1. 0 \in A
  <2> DEFINE it == [S \in {{}} |-> v]
  <2>1. SUBSET (1..0) = {{}}
    OBVIOUS
  <2>2. it = [S \in SUBSET (1..0) |-> IF S = {} THEN v ELSE step[Max(S)][it[S \ {Max(S)}]]]
    BY <2>1
  <2> QED
    BY <2>2 DEF Folding
<1>2. \A n \in 0..(N - 1) : n \in A => n + 1 \in A
  BY FoldingFurther
<1> HIDE DEF A
<1>3. N \in A
  BY <1>1, <1>2, Upto
<1> QED
  BY <1>3 DEF A

\* The values stay in V; the greatest of a set of places is one of them.
LEMMA MaxIn ==
  ASSUME NEW n \in Nat, NEW S \in SUBSET (1..n), S # {}
  PROVE  Max(S) \in S /\ \A y \in S : Max(S) >= y
<1> DEFINE A == {m \in 0..n : S \cap (1..m) # {} => \E x \in S : \A y \in S \cap (1..m) : x >= y}
<1>1. 0 \in A
  OBVIOUS
<1>2. ASSUME NEW m \in 0..(n - 1), m \in A PROVE m + 1 \in A
  <2>1. m \in Nat /\ m + 1 \in 0..n /\ \A y \in 1..(m + 1) : m + 1 >= y /\ (y \in 1..m \/ y = m + 1)
    OBVIOUS
  <2>2. CASE m + 1 \in S
    BY <2>1, <2>2
  <2>3. CASE m + 1 \notin S
    <3>1. S \cap (1..(m + 1)) = S \cap (1..m)
      BY <2>1, <2>3
    <3> QED
      BY <1>2, <2>1, <3>1
  <2> QED
    BY <2>2, <2>3
<1> HIDE DEF A
<1>3. n \in A
  BY <1>1, <1>2, Upto
<1>4. S \cap (1..n) = S
  OBVIOUS
<1>5. \E x \in S : \A y \in S : x >= y
  BY <1>3, <1>4 DEF A
<1> QED
  BY <1>5 DEF Max

\* Steps that stay in V keep a fold in V.
LEMMA FoldingStays ==
  ASSUME NEW n \in Nat, NEW V, NEW v \in V, NEW step \in [1..n -> [V -> V]], NEW it, Folding(it, n, v, step)
  PROVE  \A S \in SUBSET (1..n) : it[S] \in V
<1> DEFINE A == {m \in 0..n : \A S \in SUBSET (1..m) : it[S] \in V}
<1>1. \A S \in SUBSET (1..n) : it[S] = IF S = {} THEN v ELSE step[Max(S)][it[S \ {Max(S)}]]
  BY DEF Folding
<1>2. 0 \in A
  <2>1. \A S \in SUBSET (1..0) : S = {}
    OBVIOUS
  <2>2. {} \in SUBSET (1..n) /\ 0 \in 0..n
    OBVIOUS
  <2>3. it[{}] = v
    BY <1>1, <2>2
  <2> QED
    BY <2>1, <2>2, <2>3
<1>3. ASSUME NEW m \in 0..(n - 1), m \in A PROVE m + 1 \in A
  <2>1. ASSUME NEW S \in SUBSET (1..(m + 1)) PROVE it[S] \in V
    <3>1. S \in SUBSET (1..n) /\ m + 1 \in Nat /\ m \in Nat
      OBVIOUS
    <3>2. CASE S # {}
      <4>1. PICK x : x = Max(S)
        OBVIOUS
      <4>2. x \in S /\ \A y \in S : x >= y
        BY <3>1, <3>2, <4>1, MaxIn
      <4>3. S \ {x} \in SUBSET (1..m)
        BY <4>2
      <4>4. it[S \ {x}] \in V /\ x \in 1..n
        BY <1>3, <3>1, <4>2, <4>3
      <4> QED
        BY <1>1, <3>1, <3>2, <4>1, <4>4
    <3>3. CASE S = {}
      BY <1>1, <3>1, <3>3
    <3> QED
      BY <3>2, <3>3
  <2>2. m + 1 \in 0..n
    OBVIOUS
  <2> QED
    BY <2>1, <2>2
<1> HIDE DEF A
<1>4. n \in A
  BY <1>2, <1>3, Upto
<1> QED
  BY <1>4 DEF A

\* A fold over the first places, one after the other, is a run.
LEMMA FoldingRuns ==
  ASSUME NEW n \in Nat, NEW v, NEW step, NEW it, Folding(it, n, v, step)
  PROVE  Runs([m \in 0..n |-> it[1..m]], n, v, step)
<1> DEFINE r == [m \in 0..n |-> it[1..m]]
<1>1. \A S \in SUBSET (1..n) : it[S] = IF S = {} THEN v ELSE step[Max(S)][it[S \ {Max(S)}]]
  BY DEF Folding
<1>2. ASSUME NEW m \in 0..n PROVE r[m] = IF m = 0 THEN v ELSE step[m][r[m - 1]]
  <2>1. CASE m = 0
    <3>1. 1..m = {} /\ {} \in SUBSET (1..n)
      BY <2>1
    <3> QED
      BY <1>1, <2>1, <3>1
  <2>2. CASE m # 0
    <3>1. 1..m \in SUBSET (1..n) /\ m \in 1..m /\ (1..m) \ {m} = 1..(m - 1) /\ m - 1 \in 0..n
      BY <2>2
    <3>2. Max(1..m) = m
      <4>1. \A y \in 1..m : m >= y /\ (y >= m => y = m)
        OBVIOUS
      <4> QED
        BY <3>1, <4>1 DEF Max
    <3>3. r[m - 1] = it[1..(m - 1)] /\ r[m] = it[1..m]
      BY <3>1
    <3> HIDE DEF r
    <3> QED
      BY <1>1, <2>2, <3>1, <3>2, <3>3
  <2> QED
    BY <2>1, <2>2
<1>3. r = [m \in 0..n |-> r[m]]
  OBVIOUS
<1> HIDE DEF r
<1>4. r = [m \in 0..n |-> IF m = 0 THEN v ELSE step[m][r[m - 1]]]
  BY <1>2, <1>3
<1>5. Runs(r, n, v, step)
  BY <1>4 DEF Runs
<1> QED
  BY <1>5 DEF r

Steps(r, n, V, v, step) ==
    r \in [0..n -> V] /\ r[0] = v /\ \A i \in 1..n : i - 1 \in 0..n /\ r[i] = step[i][r[i - 1]]

\* Steps that stay in V keep a run in V.
LEMMA RunsStay ==
  ASSUME NEW n \in Nat, NEW V, NEW v \in V, NEW step \in [1..n -> [V -> V]], NEW r, Runs(r, n, v, step)
  PROVE  Steps(r, n, V, v, step)
<1> DEFINE A == {m \in 0..n : r[m] \in V}
<1>1. r = [i \in 0..n |-> IF i = 0 THEN v ELSE step[i][r[i - 1]]]
  BY DEF Runs
<1>2. DOMAIN r = 0..n /\ \A i \in 0..n : r[i] = IF i = 0 THEN v ELSE step[i][r[i - 1]]
  BY <1>1
<1>3. \A i \in 1..n : i - 1 \in 0..n /\ i \in 0..n /\ i # 0
  OBVIOUS
<1>4. r[0] = v /\ \A i \in 1..n : r[i] = step[i][r[i - 1]]
  BY <1>2, <1>3
<1>5. 0 \in A
  BY <1>4
<1>6. ASSUME NEW m \in 0..(n - 1), m \in A PROVE m + 1 \in A
  <2>1. m + 1 \in 1..n /\ m + 1 - 1 = m /\ m + 1 \in 0..n
    OBVIOUS
  <2> QED
    BY <1>4, <1>6, <2>1
<1>7. ASSUME NEW i \in 0..n PROVE r[i] \in V
  <2> HIDE DEF A
  <2>1. i \in Nat /\ \A m \in 0..(i - 1) : m \in 0..(n - 1)
    OBVIOUS
  <2>2. i \in A
    BY <1>5, <1>6, <2>1, Upto
  <2> QED
    BY <2>2 DEF A
<1> QED
  BY <1>1, <1>3, <1>4, <1>7 DEF Steps

\* A function that makes the same steps as long as its values are in V is the fold.
Repeats(f, F, n, V, v, step) ==
    /\ f = [S \in SUBSET (1..n) |-> IF S = {} THEN v ELSE F[S]]
    /\ \A S \in SUBSET (1..n) : S # {} /\ f[S \ {Max(S)}] \in V => F[S] = step[Max(S)][f[S \ {Max(S)}]]

\* What repeats the steps is the fold, for its values are in V.
LEMMA FoldingSettles ==
  ASSUME NEW n \in Nat, NEW V, NEW v \in V, NEW step \in [1..n -> [V -> V]], NEW F,
         NEW f, Repeats(f, F, n, V, v, step)
  PROVE  Folding(f, n, v, step)
<1>0. /\ f = [S \in SUBSET (1..n) |-> IF S = {} THEN v ELSE F[S]]
      /\ \A S \in SUBSET (1..n) : S # {} /\ f[S \ {Max(S)}] \in V => F[S] = step[Max(S)][f[S \ {Max(S)}]]
  BY DEF Repeats
<1> DEFINE A == {m \in 0..n : \A S \in SUBSET (1..m) : f[S] \in V}
<1>1. \A S \in SUBSET (1..n) : f[S] = IF S = {} THEN v ELSE F[S]
  BY <1>0
<1>2. \A S \in SUBSET (1..n) : S # {} => Max(S) \in S /\ Max(S) \in 1..n /\ \A y \in S : Max(S) >= y
  BY MaxIn
<1>3. 0 \in A
  <2>1. \A S \in SUBSET (1..0) : S = {}
    OBVIOUS
  <2>2. {} \in SUBSET (1..n) /\ 0 \in 0..n
    OBVIOUS
  <2>3. f[{}] = v
    BY <1>1, <2>2
  <2> QED
    BY <2>1, <2>2, <2>3
<1>4. ASSUME NEW m \in 0..(n - 1), m \in A PROVE m + 1 \in A
  <2>1. ASSUME NEW S \in SUBSET (1..(m + 1)) PROVE f[S] \in V
    <3>1. S \in SUBSET (1..n) /\ m + 1 \in Nat /\ m \in Nat
      OBVIOUS
    <3>2. CASE S # {}
      <4>1. PICK x : x = Max(S)
        OBVIOUS
      <4>2. x \in S /\ x \in 1..n /\ \A y \in S : x >= y
        BY <1>2, <3>1, <3>2, <4>1
      <4>3. S \ {x} \in SUBSET (1..m)
        BY <4>2
      <4>4. f[S \ {x}] \in V
        BY <1>4, <4>3
      <4>5. F[S] = step[x][f[S \ {x}]]
        BY <1>0, <3>1, <3>2, <4>1, <4>4
      <4>6. step[x][f[S \ {x}]] \in V
        BY <4>2, <4>4
      <4> QED
        BY <1>1, <3>1, <3>2, <4>5, <4>6
    <3>3. CASE S = {}
      BY <1>1, <3>1, <3>3
    <3> QED
      BY <3>2, <3>3
  <2>2. m + 1 \in 0..n
    OBVIOUS
  <2> QED
    BY <2>1, <2>2
<1> HIDE DEF A
<1>5. n \in A
  BY <1>3, <1>4, Upto
<1>6. \A S \in SUBSET (1..n) : f[S] \in V
  BY <1>5 DEF A
<1>7. ASSUME NEW S \in SUBSET (1..n) PROVE f[S] = IF S = {} THEN v ELSE step[Max(S)][f[S \ {Max(S)}]]
  <2>1. S \ {Max(S)} \in SUBSET (1..n)
    OBVIOUS
  <2> QED
    BY <1>0, <1>1, <1>6, <2>1
<1>8. f = [S \in SUBSET (1..n) |-> f[S]]
  BY <1>0
<1>9. f = [S \in SUBSET (1..n) |-> IF S = {} THEN v ELSE step[Max(S)][f[S \ {Max(S)}]]]
  BY <1>7, <1>8, Zenon
<1> QED
  BY <1>9 DEF Folding

\* Digits' steps: from the most significant on.
Digit(ds) == [i \in 1..Len(ds) |-> [v \in Int |-> v * Base + ds[Len(ds) - i + 1]]]
Horner(it, n, R) == it = [S \in SUBSET (1..n) |-> IF S = {} THEN 0 ELSE it[S \ {Max(S)}] * Base + R[Max(S)]]

\* NumberOf makes these steps.
LEMMA NumberRuns ==
  ASSUME NEW ds \in Seq(Int)
  PROVE  /\ \E r : Runs(r, Len(ds), 0, Digit(ds)) /\ NumberOf(ds) = r[Len(ds)]
         /\ Digit(ds) \in [1..Len(ds) -> [Int -> Int]]
<1> DEFINE n == Len(ds)
           R == Reverse(ds)
           it == CHOOSE it_1 : Horner(it_1, n, R)
<1>1. n \in Nat /\ DOMAIN R = 1..n /\ \A i \in 1..n : R[i] = ds[n - i + 1] /\ R[i] \in Int
  BY DEF Reverse
<1>2. NumberOf(ds) = it[1..n]
  <2> HIDE DEF n, R
  <2> QED
    BY <1>1, Zenon DEF NumberOf, FoldLeft, MapThenFoldSet, R, Horner
<1> HIDE DEF R, n, it
<1>3. Digit(ds) = [i \in 1..n |-> [v \in Int |-> v * Base + R[i]]]
  BY <1>1 DEF Digit, n
<1>4. \A i \in 1..n : \A v \in Int : v * Base + R[i] \in Int
  BY <1>1, CommandAssumption
<1>5. Digit(ds) \in [1..n -> [Int -> Int]]
  BY <1>3, <1>4
<1>6. \A i \in 1..n : \A v \in Int : Digit(ds)[i][v] = v * Base + R[i]
  BY <1>3
<1>7. PICK g : Folding(g, n, 0, Digit(ds))
  BY <1>1, FoldingExists
<1>8. \A S \in SUBSET (1..n) : g[S] \in Int
  <2>1. 0 \in Int
    OBVIOUS
  <2> QED
    BY <1>1, <1>5, <1>7, <2>1, FoldingStays
<1>9. \A S \in SUBSET (1..n) : S # {} => Max(S) \in 1..n /\ S \ {Max(S)} \in SUBSET (1..n)
  BY <1>1, MaxIn
<1>10. \E f : Horner(f, n, R)
  <2>1. g = [S \in SUBSET (1..n) |-> IF S = {} THEN 0 ELSE g[S \ {Max(S)}] * Base + R[Max(S)]]
    <3>1. \A S \in SUBSET (1..n) : (IF S = {} THEN 0 ELSE Digit(ds)[Max(S)][g[S \ {Max(S)}]])
                                 = (IF S = {} THEN 0 ELSE g[S \ {Max(S)}] * Base + R[Max(S)])
      BY <1>6, <1>8, <1>9, Zenon
    <3> QED
      BY <1>7, <3>1, Zenon DEF Folding
  <2> QED
    BY <2>1 DEF Horner
<1>11. Horner(it, n, R)
  BY <1>10 DEF it
<1>12. Folding(it, n, 0, Digit(ds))
  <2> DEFINE F == [S \in SUBSET (1..n) |-> it[S \ {Max(S)}] * Base + R[Max(S)]]
  <2>1. \A S \in SUBSET (1..n) : F[S] = it[S \ {Max(S)}] * Base + R[Max(S)]
    BY Zenon
  <2> HIDE DEF F
  <2>2. it = [S \in SUBSET (1..n) |-> IF S = {} THEN 0 ELSE F[S]]
    BY <1>11, <2>1, Zenon DEF Horner
  <2>3. \A S \in SUBSET (1..n) : S # {} /\ it[S \ {Max(S)}] \in Int => F[S] = Digit(ds)[Max(S)][it[S \ {Max(S)}]]
    BY <1>6, <1>9, <2>1, Zenon
  <2>4. 0 \in Int
    OBVIOUS
  <2> QED
    <3>1. Repeats(it, F, n, Int, 0, Digit(ds))
      BY <2>2, <2>3 DEF Repeats
    <3> QED
      BY <1>1, <1>5, <2>4, <3>1, FoldingSettles
<1> DEFINE r == [m \in 0..n |-> it[1..m]]
<1>13. Runs(r, n, 0, Digit(ds))
  BY <1>1, <1>12, FoldingRuns
<1>14. r[n] = NumberOf(ds)
  BY <1>1, <1>2
<1> HIDE DEF r
<1> QED
  BY <1>5, <1>13, <1>14 DEF n

----------------------------------------------------------------------------
(* Numbers and their digits. *)

\* (Division is by a number above 0.)
LEMMA Divided ==
  \A n \in Int, p \in Nat \ {0} :
      n \div p \in Int /\ n % p \in 0..(p - 1) /\ n = (n \div p) * p + (n % p)
OBVIOUS

\* Dividing twice is dividing by the product.
LEMMA DividedTwice ==
  \A n \in Int, p \in Nat \ {0}, b \in Nat \ {0} : (n \div p) \div b = n \div (b * p)
OBVIOUS

\* A number's digits are those of the number, from the most significant on.
LEMMA DigitsBack ==
  ASSUME NEW size \in Nat, NEW N \in 0..(Power[size] - 1)
  PROVE  Digits(N, size) \in Seq(Int) /\ Len(Digits(N, size)) = size /\ NumberOf(Digits(N, size)) = N
<1> DEFINE ds == Digits(N, size)
           Q(i) == N \div Power[i]
<1>1. \A i \in Nat : Power[i] \in Nat \ {0} /\ Q(i) \in Int
  BY PowerIsNumber, PowerIs
<1>2. Power[0] = 1 /\ \A i \in Nat : Power[i + 1] = Base * Power[i]
  BY PowerIs
<1>3. ds = [i \in 1..size |-> Q(i - 1) % Base] /\ \A i \in 1..size : Q(i - 1) % Base \in Int
  <2>1. \A i \in 1..size : i - 1 \in Nat
    OBVIOUS
  <2>2. \A i \in 1..size : Q(i - 1) \in Int
    BY <1>1, <2>1
  <2> HIDE DEF Q
  <2>3. \A i \in 1..size : Q(i - 1) % Base \in Int
    BY <2>2, CommandAssumption
  <2> QED
    BY <2>3 DEF Digits, Q
<1>0. \A j \in 1..size : ds[j] = Q(j - 1) % Base
  BY <1>3
<1> HIDE DEF ds
<1>4. ds \in Seq(Int) /\ Len(ds) = size
  BY <1>3
<1>5. PICK r : Runs(r, size, 0, Digit(ds)) /\ NumberOf(ds) = r[size]
  BY <1>4, NumberRuns
<1>6. Digit(ds) \in [1..size -> [Int -> Int]]
  <2>1. Digit(ds) \in [1..Len(ds) -> [Int -> Int]]
    BY <1>4, NumberRuns
  <2> QED
    BY <1>4, <2>1
<1>7. r \in [0..size -> Int] /\ r[0] = 0 /\ \A i \in 1..size : i - 1 \in 0..size /\ r[i] = Digit(ds)[i][r[i - 1]]
  <2>1. 0 \in Int
    OBVIOUS
  <2> QED
    <3>1. Steps(r, size, Int, 0, Digit(ds))
      BY <1>5, <1>6, <2>1, RunsStay
    <3> QED
      BY <3>1 DEF Steps
<1>8. ASSUME NEW i \in 1..size PROVE r[i] = r[i - 1] * Base + (Q(size - i) % Base)
  <2>1. i - 1 \in 0..size /\ r[i - 1] \in Int /\ size - i + 1 \in 1..size /\ size - i + 1 - 1 = size - i
    BY <1>7
  <2>2. Digit(ds)[i][r[i - 1]] = r[i - 1] * Base + ds[size - i + 1]
    BY <1>4, <2>1 DEF Digit
  <2>3. ds[size - i + 1] = Q(size - i) % Base
    BY <1>0, <2>1
  <2> QED
    BY <1>7, <2>2, <2>3
<1>9. ASSUME NEW i \in Nat PROVE Q(i) = Q(i + 1) * Base + (Q(i) % Base)
  <2>1. Power[i] \in Nat \ {0} /\ Base \in Nat \ {0} /\ N \in Int /\ Power[i + 1] = Base * Power[i]
    BY <1>1, <1>2, CommandAssumption, PowerIsNumber
  <2>2. Q(i + 1) = Q(i) \div Base
    BY <2>1, DividedTwice
  <2>3. Q(i) \in Int
    BY <1>1
  <2> HIDE DEF Q
  <2> QED
    BY <2>1, <2>2, <2>3, Divided
<1> DEFINE A == {m \in 0..size : r[m] = Q(size - m)}
<1>10. 0 \in A
  <2>1. size - 0 = size /\ 0 \in 0..size
    OBVIOUS
  <2>2. Q(size) = 0
    BY <1>1
  <2> HIDE DEF Q
  <2> QED
    BY <1>7, <2>1, <2>2
<1> HIDE DEF Q
<1>11. ASSUME NEW m \in 0..(size - 1), m \in A PROVE m + 1 \in A
  <2>1. PICK i \in Nat : i = size - (m + 1)
    OBVIOUS
  <2>2. m + 1 \in 1..size /\ m + 1 \in 0..size /\ m + 1 - 1 = m /\ i + 1 = size - m
    BY <2>1
  <2>3. r[m] = Q(i + 1)
    BY <1>11, <2>2
  <2>4. r[m + 1] = r[m] * Base + (Q(i) % Base)
    BY <1>8, <2>1, <2>2
  <2>5. r[m + 1] = Q(i)
    BY <1>9, <2>3, <2>4
  <2> QED
    BY <2>1, <2>2, <2>5
<1> HIDE DEF A
<1>12. size \in A
  BY <1>10, <1>11, Upto
<1>13. r[size] = Q(0)
  <2>1. size - size = 0
    OBVIOUS
  <2> QED
    BY <1>12, <2>1 DEF A
<1>14. Q(0) = N
  BY <1>2 DEF Q
<1> QED
  BY <1>4, <1>5, <1>13, <1>14 DEF ds

\* A type has bytes, and as many values below 0 as others.
LEMMA TypesAre ==
  ASSUME NEW type \in DOMAIN Types
  PROVE  /\ SizeOf(type) \in Nat \ {0} /\ Types[type].signed \in BOOLEAN /\ Types[type].whole \in BOOLEAN
         /\ Span(type) \in Nat \ {0} /\ Span(type) % 2 = 0
<1>1. SizeOf(type) \in Nat \ {0} /\ Types[type].signed \in BOOLEAN /\ Types[type].whole \in BOOLEAN
  BY CommandAssumption DEF SizeOf
<1>2. PICK m \in Nat : SizeOf(type) = m + 1
  <2>1. SizeOf(type) - 1 \in Nat /\ SizeOf(type) = (SizeOf(type) - 1) + 1
    BY <1>1
  <2> QED
    BY <2>1
<1>3. Span(type) = Base * Power[m] /\ Power[m] \in Nat
  BY <1>2, PowerIs, PowerIsNumber DEF Span
<1>4. Span(type) \in Nat \ {0}
  BY <1>1, PowerIsNumber DEF Span
<1>5. PICK c \in Nat : Base = 2 * c
  <2>1. Base \div 2 \in Nat /\ Base = 2 * (Base \div 2)
    BY CommandAssumption
  <2> QED
    BY <2>1
<1>6. Span(type) = 2 * (c * Power[m]) /\ c * Power[m] \in Nat
  BY <1>3, <1>5
<1>7. \A x \in Nat : (2 * x) % 2 = 0
  OBVIOUS
<1> QED
  BY <1>1, <1>4, <1>6, <1>7

\* A field's bytes: what is left is what a byte each can hold.
Piece(type, n, big) == InOrder(Digits(Number(type, n) % Span(type), SizeOf(type)), big)

\* Bytes put in their order twice are as they were.
LEMMA InOrderTwice ==
  ASSUME NEW ds \in Seq(Int), NEW big
  PROVE  /\ InOrder(ds, big) \in Seq(Int) /\ Len(InOrder(ds, big)) = Len(ds)
         /\ InOrder(InOrder(ds, big), big) = ds
<1>1. Reverse(ds) \in Seq(Int) /\ Len(Reverse(ds)) = Len(ds)
  BY DEF Reverse
<1>2. Reverse(Reverse(ds)) = ds
  <2>1. \A i \in 1..Len(ds) : Len(ds) - i + 1 \in 1..Len(ds) /\ Len(ds) - (Len(ds) - i + 1) + 1 = i
    OBVIOUS
  <2>2. \A i \in 1..Len(ds) : Reverse(ds)[i] = ds[Len(ds) - i + 1]
    BY DEF Reverse
  <2>3. Reverse(Reverse(ds)) = [i \in 1..Len(ds) |-> Reverse(ds)[Len(ds) - i + 1]]
    BY <1>1 DEF Reverse
  <2>4. \A i \in 1..Len(ds) : Reverse(ds)[Len(ds) - i + 1] = ds[i]
    BY <2>1, <2>2
  <2>5. ds = [i \in 1..Len(ds) |-> ds[i]]
    OBVIOUS
  <2> QED
    BY <2>3, <2>4, <2>5
<1>3. CASE big
  BY <1>1, <1>2, <1>3 DEF InOrder
<1>4. CASE ~big
  BY <1>4 DEF InOrder
<1> QED
  BY <1>3, <1>4

\* What the device reads of a field is what was entered, whole or not, signed or not.
LEMMA PieceBack ==
  ASSUME NEW type \in DOMAIN Types, NEW n \in Int, FitsIn(type, n), NEW big
  PROVE  /\ Piece(type, n, big) \in Seq(Int) /\ Len(Piece(type, n, big)) = SizeOf(type)
         /\ Read(type, InOrder(Piece(type, n, big), big)) = n
<1>1. PICK S \in Nat \ {0}, N \in Int : S = Span(type) /\ N = Number(type, n)
  BY TypesAre DEF Number
<1>2. SizeOf(type) \in Nat /\ S = Power[SizeOf(type)] /\ S % 2 = 0
  BY <1>1, TypesAre DEF Span
<1>3. N % S \in 0..(S - 1)
  BY <1>1, Divided
<1>4. PICK ds : ds = Digits(N % S, SizeOf(type))
  OBVIOUS
<1>5. ds \in Seq(Int) /\ Len(ds) = SizeOf(type) /\ NumberOf(ds) = N % S
  BY <1>2, <1>3, <1>4, DigitsBack
<1>6. Piece(type, n, big) = InOrder(ds, big)
  BY <1>1, <1>4 DEF Piece
<1>7. InOrder(Piece(type, n, big), big) = ds
  BY <1>5, <1>6, InOrderTwice
<1>8. PICK s : s = IF Types[type].signed /\ N % S >= S \div 2 THEN (N % S) - S ELSE N % S
  OBVIOUS
<1>9. s = N
  <2>1. PICK h \in Nat \ {0} : S = 2 * h /\ S \div 2 = h
    BY <1>1, <1>2
  <2>2. CASE Types[type].signed
    <3>1. N \in (0 - h)..(h - 1)
      <4>1. Least(type) = 0 - h
        BY <1>1, <2>1, <2>2 DEF Least
      <4> QED
        BY <1>1, <2>1, <4>1 DEF FitsIn
    <3>2. CASE N >= 0
      <4>1. N % S = N
        BY <1>1, <2>1, <3>1, <3>2
      <4> QED
        BY <1>8, <2>1, <3>1, <4>1
    <3>3. CASE N < 0
      <4>1. N % S = N + S
        BY <1>1, <2>1, <3>1, <3>3
      <4> QED
        BY <1>8, <2>1, <2>2, <3>1, <4>1
    <3> QED
      BY <1>1, <3>2, <3>3
  <2>3. CASE ~Types[type].signed
    <3>1. Least(type) = 0
      BY <2>3 DEF Least
    <3>2. N \in 0..(S - 1)
      BY <1>1, <3>1 DEF FitsIn
    <3>3. N % S = N
      BY <1>1, <3>2
    <3> QED
      BY <1>8, <2>3, <3>3
  <2> QED
    BY <2>2, <2>3
<1>10. Read(type, ds) = IF Types[type].whole THEN 2 * s ELSE s
  BY <1>1, <1>5, <1>8 DEF Read
<1>11. (IF Types[type].whole THEN 2 * N ELSE N) = n
  <2>1. CASE Types[type].whole
    <3>1. n % 2 = 0 /\ N = n \div 2
      BY <1>1, <2>1 DEF FitsIn, Number
    <3>2. 2 * (n \div 2) = n
      BY <3>1
    <3> QED
      BY <2>1, <3>1, <3>2
  <2>2. CASE ~Types[type].whole
    BY <1>1, <2>2 DEF Number
  <2> QED
    BY <2>1, <2>2
<1> QED
  BY <1>5, <1>6, <1>7, <1>9, <1>10, <1>11, InOrderTwice

----------------------------------------------------------------------------
(* The bytes of a command: the fields one behind the other. *)

Sizes(fs) == [i \in 1..Len(fs) |-> [x \in Nat |-> x + SizeOf(fs[i].type)]]
Sizing(it, n, v, fs) ==
    it = [S \in SUBSET (1..n) |-> IF S = {} THEN v ELSE it[S \ {Max(S)}] + SizeOf(fs[Max(S)].type)]
Pieces(fs, vals, big) ==
    [i \in 1..Len(fs) |-> [x \in Seq(Int) |-> x \o Piece(fs[i].type, vals[fs[i]], big)]]
Packing(it, n, fs, vals, big) ==
    it = [S \in SUBSET (1..n) |-> IF S = {} THEN <<>>
                                  ELSE it[S \ {Max(S)}] \o Piece(fs[Max(S)].type, vals[fs[Max(S)]], big)]

\* A payload's size, and a field's start: the sizes of the fields before, summed.
Summed(v, fs) == FoldLeft(LAMBDA m, f : m + SizeOf(f.type), v, fs)

\* A sum of sizes is a run of such steps.
LEMMA SizesRun ==
  ASSUME NEW fs, NEW X, fs \in Seq(X), \A i \in 1..Len(fs) : fs[i].type \in DOMAIN Types, NEW v \in Nat
  PROVE  \E r : Steps(r, Len(fs), Nat, v, Sizes(fs)) /\ Summed(v, fs) = r[Len(fs)]
<1> DEFINE n == Len(fs)
           it == CHOOSE it_1 : Sizing(it_1, n, v, fs)
<1>1. n \in Nat /\ DOMAIN fs = 1..n
  OBVIOUS
<1>2. Summed(v, fs) = it[1..n]
  <2> HIDE DEF n
  <2> QED
    BY <1>1, Zenon DEF Summed, FoldLeft, MapThenFoldSet, Sizing
<1> HIDE DEF n, it
<1>3. Sizes(fs) = [i \in 1..n |-> [x \in Nat |-> x + SizeOf(fs[i].type)]]
  BY DEF Sizes, n
<1>4. \A i \in 1..n : \A x \in Nat : x + SizeOf(fs[i].type) \in Nat
  BY TypesAre DEF n
<1>5. Sizes(fs) \in [1..n -> [Nat -> Nat]]
  <2>1. \A i \in 1..n : [x \in Nat |-> x + SizeOf(fs[i].type)] \in [Nat -> Nat]
    BY <1>4
  <2> QED
    BY <1>3, <2>1
<1>6. \A i \in 1..n : \A x \in Nat : Sizes(fs)[i][x] = x + SizeOf(fs[i].type)
  BY <1>3
<1>7. PICK g : Folding(g, n, v, Sizes(fs))
  BY <1>1, FoldingExists
<1>8. v \in Nat
  OBVIOUS
<1>9. \A S \in SUBSET (1..n) : g[S] \in Nat
  BY <1>1, <1>5, <1>7, <1>8, FoldingStays
<1>10. \A S \in SUBSET (1..n) : S # {} => Max(S) \in 1..n /\ S \ {Max(S)} \in SUBSET (1..n)
  BY <1>1, MaxIn
<1>11. \E f : Sizing(f, n, v, fs)
  <2>1. \A S \in SUBSET (1..n) : (IF S = {} THEN v ELSE Sizes(fs)[Max(S)][g[S \ {Max(S)}]])
                               = (IF S = {} THEN v ELSE g[S \ {Max(S)}] + SizeOf(fs[Max(S)].type))
    BY <1>6, <1>9, <1>10, Zenon
  <2>2. g = [S \in SUBSET (1..n) |-> IF S = {} THEN v ELSE g[S \ {Max(S)}] + SizeOf(fs[Max(S)].type)]
    BY <1>7, <2>1, Zenon DEF Folding
  <2> QED
    BY <2>2 DEF Sizing
<1>12. Sizing(it, n, v, fs)
  BY <1>11 DEF it
<1>13. Folding(it, n, v, Sizes(fs))
  <2> DEFINE F == [S \in SUBSET (1..n) |-> it[S \ {Max(S)}] + SizeOf(fs[Max(S)].type)]
  <2>1. \A S \in SUBSET (1..n) : F[S] = it[S \ {Max(S)}] + SizeOf(fs[Max(S)].type)
    BY Zenon
  <2> HIDE DEF F
  <2>2. it = [S \in SUBSET (1..n) |-> IF S = {} THEN v ELSE F[S]]
    BY <1>12, <2>1, Zenon DEF Sizing
  <2>3. \A S \in SUBSET (1..n) : S # {} /\ it[S \ {Max(S)}] \in Nat => F[S] = Sizes(fs)[Max(S)][it[S \ {Max(S)}]]
    BY <1>6, <1>10, <2>1, Zenon
  <2>4. Repeats(it, F, n, Nat, v, Sizes(fs))
    BY <2>2, <2>3 DEF Repeats
  <2> QED
    BY <1>1, <1>5, <1>8, <2>4, FoldingSettles
<1> DEFINE r == [m \in 0..n |-> it[1..m]]
<1>14. Runs(r, n, v, Sizes(fs))
  BY <1>1, <1>13, FoldingRuns
<1>15. r[n] = Summed(v, fs)
  <2>1. r[n] = it[1..n]
    BY <1>1
  <2> HIDE DEF r
  <2> QED
    BY <1>2, <2>1, Zenon
<1> HIDE DEF r
<1>16. Steps(r, n, Nat, v, Sizes(fs))
  BY <1>1, <1>5, <1>8, <1>14, RunsStay
<1> QED
  BY <1>15, <1>16 DEF n

\* The packed bytes.
LEMMA PiecesRun ==
  ASSUME NEW command, NEW fs, fs = command.fields, NEW big, big = command.big, NEW X, fs \in Seq(X), NEW vals,
         \A i \in 1..Len(fs) : Piece(fs[i].type, vals[fs[i]], big) \in Seq(Int)
  PROVE  \E r : Steps(r, Len(fs), Seq(Int), <<>>, Pieces(fs, vals, big)) /\ Pack(command, vals) = r[Len(fs)]
<1> DEFINE n == Len(fs)
           it == CHOOSE it_1 : Packing(it_1, n, fs, vals, big)
<1>1. n \in Nat /\ DOMAIN fs = 1..n
  OBVIOUS
<1>2. Pack(command, vals) = it[1..n]
  <2> HIDE DEF n
  <2> QED
    BY <1>1, Zenon DEF Pack, Piece, FoldLeft, MapThenFoldSet, Packing
<1> HIDE DEF n, it
<1>3. Pieces(fs, vals, big) = [i \in 1..n |-> [x \in Seq(Int) |-> x \o Piece(fs[i].type, vals[fs[i]], big)]]
  BY DEF Pieces, n
<1>4. \A i \in 1..n : \A x \in Seq(Int) : x \o Piece(fs[i].type, vals[fs[i]], big) \in Seq(Int)
  BY DEF n
<1>5. Pieces(fs, vals, big) \in [1..n -> [Seq(Int) -> Seq(Int)]]
  BY <1>3, <1>4
<1>6. \A i \in 1..n : \A x \in Seq(Int) : Pieces(fs, vals, big)[i][x] = x \o Piece(fs[i].type, vals[fs[i]], big)
  BY <1>3
<1>7. PICK g : Folding(g, n, <<>>, Pieces(fs, vals, big))
  BY <1>1, FoldingExists
<1>8. <<>> \in Seq(Int)
  OBVIOUS
<1>9. \A S \in SUBSET (1..n) : g[S] \in Seq(Int)
  BY <1>1, <1>5, <1>7, <1>8, FoldingStays
<1>10. \A S \in SUBSET (1..n) : S # {} => Max(S) \in 1..n /\ S \ {Max(S)} \in SUBSET (1..n)
  BY <1>1, MaxIn
<1>11. \E f : Packing(f, n, fs, vals, big)
  <2>1. \A S \in SUBSET (1..n) : (IF S = {} THEN <<>> ELSE Pieces(fs, vals, big)[Max(S)][g[S \ {Max(S)}]])
                               = (IF S = {} THEN <<>> ELSE g[S \ {Max(S)}] \o Piece(fs[Max(S)].type, vals[fs[Max(S)]], big))
    BY <1>6, <1>9, <1>10, Zenon
  <2>2. g = [S \in SUBSET (1..n) |-> IF S = {} THEN <<>> ELSE g[S \ {Max(S)}] \o Piece(fs[Max(S)].type, vals[fs[Max(S)]], big)]
    BY <1>7, <2>1, Zenon DEF Folding
  <2> QED
    BY <2>2 DEF Packing
<1>12. Packing(it, n, fs, vals, big)
  BY <1>11 DEF it
<1>13. Folding(it, n, <<>>, Pieces(fs, vals, big))
  <2> DEFINE F == [S \in SUBSET (1..n) |-> it[S \ {Max(S)}] \o Piece(fs[Max(S)].type, vals[fs[Max(S)]], big)]
  <2>1. \A S \in SUBSET (1..n) : F[S] = it[S \ {Max(S)}] \o Piece(fs[Max(S)].type, vals[fs[Max(S)]], big)
    BY Zenon
  <2> HIDE DEF F
  <2>2. it = [S \in SUBSET (1..n) |-> IF S = {} THEN <<>> ELSE F[S]]
    BY <1>12, <2>1, Zenon DEF Packing
  <2>3. \A S \in SUBSET (1..n) : S # {} /\ it[S \ {Max(S)}] \in Seq(Int) => F[S] = Pieces(fs, vals, big)[Max(S)][it[S \ {Max(S)}]]
    BY <1>6, <1>10, <2>1, Zenon
  <2>4. Repeats(it, F, n, Seq(Int), <<>>, Pieces(fs, vals, big))
    BY <2>2, <2>3 DEF Repeats
  <2> QED
    BY <1>1, <1>5, <1>8, <2>4, FoldingSettles
<1> DEFINE r == [m \in 0..n |-> it[1..m]]
<1>14. Runs(r, n, <<>>, Pieces(fs, vals, big))
  BY <1>1, <1>13, FoldingRuns
<1>15. r[n] = Pack(command, vals)
  <2>1. r[n] = it[1..n]
    BY <1>1
  <2> HIDE DEF r
  <2> QED
    BY <1>2, <2>1, Zenon
<1> HIDE DEF r
<1>16. Steps(r, n, Seq(Int), <<>>, Pieces(fs, vals, big))
  BY <1>1, <1>5, <1>8, <1>14, RunsStay
<1> QED
  BY <1>15, <1>16 DEF n

\* q is in u behind the first a.
Holds(u, a, q) == a + Len(q) <= Len(u) /\ \A j \in 1..Len(q) : u[a + j] = q[j]

\* What is held is the part there.
LEMMA HeldPart ==
  ASSUME NEW u \in Seq(Int), NEW a \in Nat, NEW q \in Seq(Int), Holds(u, a, q)
  PROVE  SubSeq(u, 1 + a, 1 + a + Len(q) - 1) = q
<1>0. PICK z \in Nat : z = Len(q)
  OBVIOUS
<1>1. PICK p : p = SubSeq(u, 1 + a, 1 + a + z - 1)
  OBVIOUS
<1>2. a + z <= Len(u) /\ \A j \in 1..z : u[a + j] = q[j]
  BY <1>0 DEF Holds
<1>3. p \in Seq(Int) /\ Len(p) = z /\ \A j \in 1..z : p[j] = u[a + j]
  BY <1>1, <1>2
<1>4. \A j \in 1..z : p[j] = q[j]
  BY <1>2, <1>3
<1>5. p = q
  BY <1>0, <1>3, <1>4
<1> QED
  BY <1>0, <1>1, <1>5

\* A sequence put behind another holds what the other does, and is held.
LEMMA ConcatHolds ==
  ASSUME NEW u \in Seq(Int), NEW w \in Seq(Int)
  PROVE  /\ u \o w \in Seq(Int) /\ Len(u \o w) = Len(u) + Len(w) /\ Holds(u \o w, Len(u), w)
         /\ \A a \in Nat, q \in Seq(Int) : Holds(u, a, q) => Holds(u \o w, a, q)
<1>1. PICK c : c = u \o w
  OBVIOUS
<1>2. /\ c \in Seq(Int) /\ Len(c) = Len(u) + Len(w)
      /\ \A j \in 1..Len(u) : c[j] = u[j]
      /\ \A j \in 1..Len(w) : c[Len(u) + j] = w[j]
  BY <1>1
<1>3. Holds(c, Len(u), w)
  BY <1>2 DEF Holds
<1>4. ASSUME NEW a \in Nat, NEW q \in Seq(Int), Holds(u, a, q) PROVE Holds(c, a, q)
  <2>1. PICK z \in Nat, l \in Nat, m \in Nat : z = Len(q) /\ l = Len(u) /\ m = Len(w)
    OBVIOUS
  <2>2. a + z <= l /\ \A j \in 1..z : u[a + j] = q[j]
    BY <1>4, <2>1 DEF Holds
  <2>3. a + z <= Len(c)
    BY <1>2, <2>1, <2>2
  <2>4. ASSUME NEW j \in 1..z PROVE c[a + j] = q[j]
    <3>1. a + j \in 1..l
      BY <2>2
    <3> QED
      BY <1>2, <2>1, <2>2, <3>1
  <2> QED
    BY <2>1, <2>3, <2>4 DEF Holds
<1> QED
  BY <1>1, <1>2, <1>3, <1>4

\* The pieces p, one behind the other; s are the sizes so far.
Builds(r, s, p, n) ==
    /\ r \in [0..n -> Seq(Int)] /\ r[0] = <<>> /\ s \in [0..n -> Nat] /\ s[0] = 0
    /\ p \in [1..n -> Seq(Int)]
    /\ \A i \in 1..n : r[i] = r[i - 1] \o p[i]
    /\ \A i \in 1..n : s[i] = s[i - 1] + Len(p[i])

BuiltAt(r, s, p, m) ==
    /\ r[m] \in Seq(Int) /\ p[m + 1] \in Seq(Int) /\ r[m + 1] = r[m] \o p[m + 1]
    /\ s[m] \in Nat /\ s[m + 1] = s[m] + Len(p[m + 1])

\* The next piece.
LEMMA BuiltNext ==
  ASSUME NEW n \in Nat, NEW r, NEW s, NEW p, Builds(r, s, p, n), NEW m \in Nat, m < n
  PROVE  BuiltAt(r, s, p, m)
<1>1. m \in 0..n /\ m + 1 \in 1..n /\ m + 1 - 1 = m
  OBVIOUS
<1>2. r[m + 1] = r[m] \o p[m + 1]
  <2>1. \A i \in 1..n : i = m + 1 => r[i] = r[i - 1] \o p[i]
    BY DEF Builds
  <2>2. \A i \in 1..n : i = m + 1 => r[i] = r[m] \o p[i]
    <3>1. \A i \in 1..n : i = m + 1 => i - 1 = m
      OBVIOUS
    <3> QED
      BY <2>1, <3>1, Zenon
  <2> QED
    BY <1>1, <2>2, Zenon
<1>3. s[m + 1] = s[m + 1 - 1] + Len(p[m + 1])
  BY <1>1 DEF Builds
<1>4. r[m] \in Seq(Int) /\ p[m + 1] \in Seq(Int) /\ s[m] \in Nat
  BY <1>1 DEF Builds
<1> QED
  BY <1>1, <1>2, <1>3, <1>4 DEF BuiltAt

Sized(r, s, m) == r[m] \in Seq(Int) /\ s[m] \in Nat /\ Len(r[m]) = s[m]

\* What is built of the first pieces is as long as they are.
LEMMA BuiltLen ==
  ASSUME NEW n \in Nat, NEW r, NEW s, NEW p, Builds(r, s, p, n), NEW m \in Nat, m <= n
  PROVE  Sized(r, s, m)
<1> DEFINE A == {i \in Nat : i <= n => Sized(r, s, i)}
<1>1. 0 \in A
  BY DEF Builds, Sized
<1>2. ASSUME NEW i \in 0..(m - 1), i \in A PROVE i + 1 \in A
  <2>1. i \in Nat /\ i < n /\ i + 1 \in Nat /\ Sized(r, s, i)
    BY <1>2
  <2>2. BuiltAt(r, s, p, i)
    BY <2>1, BuiltNext, Zenon
  <2>3. PICK u \in Seq(Int), w \in Seq(Int) : u = r[i] /\ w = p[i + 1] /\ r[i + 1] = u \o w
    BY <2>2, Zenon DEF BuiltAt
  <2>4. u \o w \in Seq(Int) /\ Len(u \o w) = Len(u) + Len(w) /\ Len(w) \in Nat
    OBVIOUS
  <2>5. s[i] \in Nat /\ s[i + 1] = s[i] + Len(w) /\ Len(u) = s[i]
    BY <2>1, <2>2, <2>3 DEF BuiltAt, Sized
  <2>6. r[i + 1] \in Seq(Int) /\ Len(r[i + 1]) = Len(u) + Len(w)
    BY <2>3, <2>4, Zenon
  <2>7. s[i + 1] \in Nat /\ Len(r[i + 1]) = s[i + 1]
    BY <2>4, <2>5, <2>6
  <2>8. Sized(r, s, i + 1)
    BY <2>6, <2>7 DEF Sized
  <2> QED
    BY <2>1, <2>8
<1> HIDE DEF A
<1>3. m \in A
  BY <1>1, <1>2, Upto
<1> QED
  BY <1>3 DEF A

\* A piece is where the sizes before it say.
LEMMA BuiltHolds ==
  ASSUME NEW n \in Nat, NEW r, NEW s, NEW p, Builds(r, s, p, n), NEW m \in Nat, m < n
  PROVE  Holds(r[n], s[m], p[m + 1])
<1>1. BuiltAt(r, s, p, m)
  BY BuiltNext, Zenon
<1>2. PICK a \in Nat, u \in Seq(Int), q \in Seq(Int) : a = s[m] /\ q = p[m + 1] /\ u = r[m] /\ r[m + 1] = u \o q
  BY <1>1, Zenon DEF BuiltAt
<1>3. Len(u) = a
  BY <1>2, BuiltLen DEF Sized
<1>4. Holds(r[m + 1], a, q)
  <2>1. Holds(u \o q, Len(u), q)
    BY ConcatHolds, Zenon
  <2> QED
    BY <1>2, <1>3, <2>1, Zenon
<1> DEFINE A == {d \in Nat : m + 1 + d <= n => Holds(r[m + 1 + d], a, q)}
<1>5. 0 \in A
  <2>1. m + 1 + 0 = m + 1
    OBVIOUS
  <2> QED
    BY <1>4, <2>1
<1>6. ASSUME NEW d \in Nat, d \in A PROVE d + 1 \in A
  <2>1. PICK l \in Nat : l = m + 1 + d /\ m + 1 + (d + 1) = l + 1
    OBVIOUS
  <2>2. l <= n => Holds(r[l], a, q)
    BY <1>6, <2>1
  <2>3. ASSUME l + 1 <= n PROVE Holds(r[l + 1], a, q)
    <3>1. l < n /\ l <= n
      BY <2>3
    <3>2. BuiltAt(r, s, p, l)
      BY <3>1, BuiltNext, Zenon
    <3>3. PICK x \in Seq(Int), w \in Seq(Int) : x = r[l] /\ r[l + 1] = x \o w
      BY <3>2, Zenon DEF BuiltAt
    <3>4. Holds(x, a, q)
      BY <2>2, <3>1, <3>3
    <3>5. Holds(x \o w, a, q)
      BY <3>4, ConcatHolds, Zenon
    <3> QED
      BY <3>3, <3>5, Zenon
  <2> QED
    BY <2>1, <2>3
<1> HIDE DEF A
<1>7. PICK e \in Nat : n = m + 1 + e
  <2>1. n - (m + 1) \in Nat /\ n = m + 1 + (n - (m + 1))
    OBVIOUS
  <2> QED
    BY <2>1
<1>8. \A d \in 0..(e - 1) : d \in A => d + 1 \in A
  BY <1>6
<1>9. e \in A
  BY <1>5, <1>8, Upto
<1>10. Holds(r[n], a, q)
  BY <1>7, <1>9 DEF A
<1> QED
  BY <1>2, <1>10, Zenon

\* Where a field starts is a sum.
LEMMA StartSums ==
  \A command, i : Start(command, i) = Summed(1, SubSeq(command.fields, 1, i - 1))
BY Zenon DEF Start, Summed

\* A field starts behind the fields before it.
LEMMA StartIs ==
  ASSUME NEW command, NEW fs, fs = command.fields, NEW X, fs \in Seq(X),
         \A i \in 1..Len(fs) : fs[i].type \in DOMAIN Types,
         NEW s, Steps(s, Len(fs), Nat, 0, Sizes(fs)), NEW m \in Nat, m < Len(fs)
  PROVE  s[m] \in Nat /\ Start(command, m + 1) = 1 + s[m]
<1> DEFINE g == SubSeq(fs, 1, m + 1 - 1)
<1>1. g \in Seq(X) /\ Len(g) = m /\ \A j \in 1..m : g[j] = fs[j] /\ j \in 1..Len(fs)
  OBVIOUS
<1> HIDE DEF g
<1>2. \A j \in 1..Len(g) : g[j].type \in DOMAIN Types
  BY <1>1
<1>3. Start(command, m + 1) = Summed(1, g)
  <2>1. Start(command, m + 1) = Summed(1, SubSeq(command.fields, 1, m + 1 - 1))
    <3>1. ASSUME NEW i PROVE Start(command, i) = Summed(1, SubSeq(command.fields, 1, i - 1))
      BY StartSums, Zenon
    <3> QED
      BY <3>1
  <2> QED
    BY <2>1, Zenon DEF g
<1>4. PICK q : Steps(q, Len(g), Nat, 1, Sizes(g)) /\ Summed(1, g) = q[Len(g)]
  <2>1. 1 \in Nat
    OBVIOUS
  <2> QED
    BY <1>1, <1>2, <2>1, SizesRun
<1>5. \A j \in 1..m : SizeOf(fs[j].type) \in Nat
  BY <1>1, TypesAre
<1>6. /\ q \in [0..m -> Nat] /\ q[0] = 1
      /\ \A j \in 1..m : j - 1 \in 0..m /\ q[j] = q[j - 1] + SizeOf(fs[j].type)
  <2>1. /\ q \in [0..m -> Nat] /\ q[0] = 1
        /\ \A j \in 1..m : j - 1 \in 0..m /\ q[j] = Sizes(g)[j][q[j - 1]]
    BY <1>1, <1>4 DEF Steps
  <2>2. \A j \in 1..m : \A x \in Nat : Sizes(g)[j][x] = x + SizeOf(fs[j].type)
    BY <1>1 DEF Sizes
  <2> QED
    BY <2>1, <2>2
<1>7. /\ s[0] = 0 /\ \A j \in 0..m : s[j] \in Nat
      /\ \A j \in 1..m : s[j] = s[j - 1] + SizeOf(fs[j].type)
  <2>1. /\ s \in [0..Len(fs) -> Nat] /\ s[0] = 0
        /\ \A j \in 1..Len(fs) : j - 1 \in 0..Len(fs) /\ s[j] = Sizes(fs)[j][s[j - 1]]
    BY DEF Steps
  <2>2. \A j \in 1..Len(fs) : \A x \in Nat : Sizes(fs)[j][x] = x + SizeOf(fs[j].type)
    BY DEF Sizes
  <2>3. \A j \in 1..Len(fs) : s[j] = s[j - 1] + SizeOf(fs[j].type)
    BY <2>1, <2>2
  <2>4. \A j \in 0..m : j \in 0..Len(fs)
    OBVIOUS
  <2> QED
    BY <1>1, <2>1, <2>3, <2>4
<1> DEFINE B == {j \in 0..m : q[j] = 1 + s[j]}
<1>8. 0 \in B
  BY <1>6, <1>7
<1>9. ASSUME NEW j \in 0..(m - 1), j \in B PROVE j + 1 \in B
  <2>1. j + 1 \in 1..m /\ j + 1 \in 0..m /\ j + 1 - 1 = j /\ j \in 0..m
    OBVIOUS
  <2>2. q[j + 1] = q[j + 1 - 1] + SizeOf(fs[j + 1].type)
    BY <1>6, <2>1
  <2>3. s[j + 1] = s[j + 1 - 1] + SizeOf(fs[j + 1].type)
    BY <1>7, <2>1
  <2>4. q[j] = 1 + s[j] /\ s[j] \in Nat /\ SizeOf(fs[j + 1].type) \in Nat
    BY <1>5, <1>7, <1>9, <2>1
  <2>5. q[j + 1] = 1 + s[j + 1]
    BY <2>1, <2>2, <2>3, <2>4
  <2> QED
    BY <2>1, <2>5
<1> HIDE DEF B
<1>10. m \in B
  BY <1>8, <1>9, Upto
<1>11. q[m] = 1 + s[m]
  BY <1>10 DEF B
<1> QED
  BY <1>1, <1>3, <1>4, <1>7, <1>11

\* The bytes of a field are those from its start.
Laid(command, vals, fs, big, p, X) ==
    /\ fs = command.fields /\ big = command.big /\ fs \in Seq(X)
    /\ \A i \in 1..Len(fs) : fs[i].type \in DOMAIN Types
    /\ p = [i \in 1..Len(fs) |-> Piece(fs[i].type, vals[fs[i]], big)]
    /\ \A i \in 1..Len(fs) : p[i] \in Seq(Int) /\ Len(p[i]) = SizeOf(fs[i].type)
PackedAs(command, vals, fs, p) ==
    /\ Len(Pack(command, vals)) = PayloadSize(command)
    /\ \A i \in 1..Len(fs) :
         SubSeq(Pack(command, vals), Start(command, i), Start(command, i) + SizeOf(fs[i].type) - 1) = p[i]

\* The packed fields are as long as a payload, and each is where it is read.
LEMMA PackedAt ==
  ASSUME NEW command, NEW vals, NEW fs, NEW big, NEW p, NEW X, Laid(command, vals, fs, big, p, X)
  PROVE  PackedAs(command, vals, fs, p)
<1>0. /\ fs = command.fields /\ big = command.big /\ fs \in Seq(X)
      /\ \A i \in 1..Len(fs) : fs[i].type \in DOMAIN Types
      /\ p = [i \in 1..Len(fs) |-> Piece(fs[i].type, vals[fs[i]], big)]
      /\ \A i \in 1..Len(fs) : p[i] \in Seq(Int) /\ Len(p[i]) = SizeOf(fs[i].type)
  BY DEF Laid
<1> USE <1>0
<1>1. PICK n \in Nat : n = Len(fs)
  OBVIOUS
<1>2. PICK r : Steps(r, n, Seq(Int), <<>>, Pieces(fs, vals, big)) /\ Pack(command, vals) = r[n]
  <2>1. \A i \in 1..Len(fs) : Piece(fs[i].type, vals[fs[i]], big) \in Seq(Int)
    OBVIOUS
  <2> QED
    <3>1. \E r : Steps(r, Len(fs), Seq(Int), <<>>, Pieces(fs, vals, big)) /\ Pack(command, vals) = r[Len(fs)]
      BY <2>1, PiecesRun, SMTT(20)
    <3> QED
      BY <1>1, <3>1, Zenon
<1>3. PICK s : Steps(s, Len(fs), Nat, 0, Sizes(fs)) /\ PayloadSize(command) = s[n]
  <2>1. 0 \in Nat /\ PayloadSize(command) = Summed(0, fs)
    <3>1. PayloadSize(command) = Summed(0, command.fields)
      BY Zenon DEF PayloadSize, Summed, FoldLeft, MapThenFoldSet
    <3> QED
      BY <3>1
  <2> QED
    <3>1. \E s : Steps(s, Len(fs), Nat, 0, Sizes(fs)) /\ Summed(0, fs) = s[Len(fs)]
      BY <2>1, SizesRun
    <3> QED
      BY <1>1, <2>1, <3>1, Zenon
<1>4. Builds(r, s, p, n)
  <2>1. /\ r \in [0..n -> Seq(Int)] /\ r[0] = <<>>
        /\ \A i \in 1..n : i - 1 \in 0..n /\ r[i] = Pieces(fs, vals, big)[i][r[i - 1]]
    BY <1>2 DEF Steps
  <2>2. \A i \in 1..n : \A x \in Seq(Int) : Pieces(fs, vals, big)[i][x] = x \o p[i]
    BY <1>1 DEF Pieces
  <2>3. /\ s \in [0..n -> Nat] /\ s[0] = 0
        /\ \A i \in 1..n : i - 1 \in 0..n /\ s[i] = Sizes(fs)[i][s[i - 1]]
    BY <1>1, <1>3 DEF Steps
  <2>4. \A i \in 1..n : \A x \in Nat : Sizes(fs)[i][x] = x + Len(p[i])
    BY <1>1 DEF Sizes
  <2>5. \A i \in 1..n : r[i] = r[i - 1] \o p[i]
    BY <2>1, <2>2
  <2>6. \A i \in 1..n : s[i] = s[i - 1] + Len(p[i])
    BY <2>3, <2>4
  <2>7. p \in [1..n -> Seq(Int)]
    BY <1>1
  <2> QED
    BY <2>1, <2>3, <2>5, <2>6, <2>7 DEF Builds
<1>5. r[n] \in Seq(Int) /\ Len(r[n]) = s[n]
  BY <1>4, BuiltLen DEF Sized
<1>6. ASSUME NEW i \in 1..n
      PROVE  SubSeq(r[n], Start(command, i), Start(command, i) + SizeOf(fs[i].type) - 1) = p[i]
  <2>1. PICK m \in Nat : i = m + 1 /\ m < n
    <3>1. i - 1 \in Nat /\ i = (i - 1) + 1 /\ i - 1 < n
      OBVIOUS
    <3> QED
      BY <3>1
  <2>2. s[m] \in Nat /\ Start(command, i) = 1 + s[m]
    BY <1>1, <1>3, <2>1, StartIs
  <2>3. Holds(r[n], s[m], p[i])
    BY <1>4, <2>1, BuiltHolds
  <2>4. p[i] \in Seq(Int) /\ Len(p[i]) = SizeOf(fs[i].type)
    BY <1>1
  <2>5. SubSeq(r[n], 1 + s[m], 1 + s[m] + Len(p[i]) - 1) = p[i]
    BY <1>5, <2>2, <2>3, <2>4, HeldPart
  <2> QED
    BY <2>2, <2>4, <2>5
<1> QED
  BY <1>1, <1>2, <1>3, <1>5, <1>6 DEF PackedAs

----------------------------------------------------------------------------
(* What is packed is read back. *)

Place(command, f) == SelectInSeq(command.fields, LAMBDA x : x = f)
ReadField(command, payload, f) ==
    Read(f.type, InOrder(SubSeq(payload, Start(command, Place(command, f)),
                                Start(command, Place(command, f)) + SizeOf(f.type) - 1), command.big))

\* decode_command reads each field.
LEMMA UnpackReads ==
  \A command, payload : Unpack(command, payload) = [f \in Fields(command) |-> ReadField(command, payload, f)]
BY Zenon DEF Unpack, ReadField, Place

\* A field is found at its place: names are unique.
LEMMA PlaceIs ==
  ASSUME NEW command, NEW X, command.fields \in Seq(X),
         \A i, j \in DOMAIN command.fields : command.fields[i].name = command.fields[j].name => i = j,
         NEW i \in 1..Len(command.fields)
  PROVE  Place(command, command.fields[i]) = i
<1> DEFINE I == {j \in 1..Len(command.fields) : command.fields[j] = command.fields[i]}
<1>1. I = {i}
  BY DOMAIN command.fields = 1..Len(command.fields)
<1>2. Min({i}) = i
  BY DEF Min
<1>3. Place(command, command.fields[i]) = IF I # {} THEN Min(I) ELSE 0
  BY Zenon DEF Place, SelectInSeq
<1> HIDE DEF I
<1> QED
  BY <1>1, <1>2, <1>3

\* What is packed with the layout it is read with is what was packed.
LEMMA RoundTrip ==
  ASSUME NEW command, NEW X, command.fields \in Seq(X), CommandIsValid(command),
         NEW vals \in [Fields(command) -> Int], Encodes(command, vals)
  PROVE  Len(Pack(command, vals)) = PayloadSize(command) /\ Unpack(command, Pack(command, vals)) = vals
<1>1. PICK fs, big : fs = command.fields /\ big = command.big
  OBVIOUS
<1>2. fs \in Seq(X) /\ DOMAIN fs = 1..Len(fs) /\ Len(fs) \in Nat
  BY <1>1
<1>3. \A i \in 1..Len(fs) : fs[i] \in Fields(command)
  BY <1>1, <1>2 DEF Fields, ToSet
<1>4. \A i \in 1..Len(fs) : fs[i].type \in DOMAIN Types
  BY <1>3 DEF CommandIsValid, FieldIsValid
<1>5. \A i \in 1..Len(fs) : vals[fs[i]] \in Int /\ FitsIn(fs[i].type, vals[fs[i]])
  BY <1>3 DEF Encodes
<1> DEFINE p == [i \in 1..Len(fs) |-> Piece(fs[i].type, vals[fs[i]], big)]
<1>6. \A i \in 1..Len(fs) :
        /\ Piece(fs[i].type, vals[fs[i]], big) \in Seq(Int)
        /\ Len(Piece(fs[i].type, vals[fs[i]], big)) = SizeOf(fs[i].type)
        /\ Read(fs[i].type, InOrder(Piece(fs[i].type, vals[fs[i]], big), big)) = vals[fs[i]]
  BY <1>4, <1>5, PieceBack
<1>7. \A i \in 1..Len(fs) :
        /\ p[i] \in Seq(Int) /\ Len(p[i]) = SizeOf(fs[i].type)
        /\ Read(fs[i].type, InOrder(p[i], big)) = vals[fs[i]]
  BY <1>6
<1>8. PICK q : q = p
  OBVIOUS
<1>9. q = [i \in 1..Len(fs) |-> Piece(fs[i].type, vals[fs[i]], big)]
  BY <1>8
<1>10. \A i \in 1..Len(fs) : q[i] \in Seq(Int) /\ Len(q[i]) = SizeOf(fs[i].type)
  BY <1>7, <1>8
<1> HIDE DEF p
<1>11. /\ Len(Pack(command, vals)) = PayloadSize(command)
       /\ \A i \in 1..Len(fs) :
            SubSeq(Pack(command, vals), Start(command, i), Start(command, i) + SizeOf(fs[i].type) - 1) = q[i]
  <2>1. Laid(command, vals, fs, big, q, X)
    BY <1>1, <1>2, <1>4, <1>9, <1>10 DEF Laid
  <2>2. PackedAs(command, vals, fs, q)
    BY <2>1, PackedAt, Zenon
  <2> QED
    BY <1>1, <2>2, Zenon DEF PackedAs
<1>12. ASSUME NEW f \in Fields(command) PROVE ReadField(command, Pack(command, vals), f) = vals[f]
  <2>1. PICK i \in 1..Len(fs) : f = fs[i]
    BY <1>1, <1>2 DEF Fields, ToSet
  <2>2. Place(command, f) = i
    BY <1>1, <1>2, <2>1, PlaceIs DEF CommandIsValid
  <2>3. ReadField(command, Pack(command, vals), f) = Read(fs[i].type, InOrder(q[i], big))
    BY <1>1, <1>11, <2>1, <2>2, Zenon DEF ReadField
  <2> QED
    BY <1>7, <1>8, <2>1, <2>3
<1>13. Unpack(command, Pack(command, vals)) = [f \in Fields(command) |-> vals[f]]
  <2>1. Unpack(command, Pack(command, vals))
          = [f \in Fields(command) |-> ReadField(command, Pack(command, vals), f)]
    BY UnpackReads, Zenon
  <2> QED
    BY <1>12, <2>1, Zenon
<1> QED
  BY <1>11, <1>13

----------------------------------------------------------------------------
(* Lines one behind the other. *)

Glue(seqs) == [i \in 1..Len(seqs) |-> [x \in Seq(Int) |-> x \o seqs[i]]]
Flattens(f, seqs) == f = [i \in 1..Len(seqs) |-> IF i = 1 THEN seqs[i] ELSE f[i - 1] \o seqs[i]]
Glued(r, seqs) ==
    /\ r \in [0..Len(seqs) -> Seq(Int)] /\ r[0] = <<>>
    /\ \A i \in 1..Len(seqs) : i - 1 \in 0..Len(seqs) /\ r[i] = r[i - 1] \o seqs[i]

\* Nothing in front or behind changes nothing.
LEMMA Unit == \A u \in Seq(Int) : <<>> \o u = u /\ u \o <<>> = u
OBVIOUS

\* A sequence of length 0 is the empty one.
LEMMA NoneIsEmpty == ASSUME NEW X, NEW q \in Seq(X), Len(q) = 0 PROVE q = <<>>
OBVIOUS

\* There is a gluing of any sequence of sequences.
LEMMA GluedExists == ASSUME NEW seqs \in Seq(Seq(Int)) PROVE \E r : Glued(r, seqs)
<1>1. PICK n \in Nat : n = Len(seqs)
  OBVIOUS
<1>2. \A i \in 1..n : seqs[i] \in Seq(Int)
  BY <1>1
<1>3. \A i \in 1..n : \A x \in Seq(Int) : x \o seqs[i] \in Seq(Int)
  BY <1>2
<1>4. Glue(seqs) = [i \in 1..n |-> [x \in Seq(Int) |-> x \o seqs[i]]]
  BY <1>1 DEF Glue
<1>5. Glue(seqs) \in [1..n -> [Seq(Int) -> Seq(Int)]]
  BY <1>3, <1>4
<1>6. \A i \in 1..n : \A x \in Seq(Int) : Glue(seqs)[i][x] = x \o seqs[i]
  <2>1. ASSUME NEW i \in 1..n, NEW x \in Seq(Int) PROVE Glue(seqs)[i][x] = x \o seqs[i]
    <3>1. Glue(seqs)[i] = [y \in Seq(Int) |-> y \o seqs[i]]
      BY <1>4, Zenon
    <3> QED
      BY <3>1, Zenon
  <2> QED
    BY <2>1, Zenon
<1>7. <<>> \in Seq(Int)
  OBVIOUS
<1>8. PICK r : Runs(r, n, <<>>, Glue(seqs))
  BY RunExists
<1>9. Steps(r, n, Seq(Int), <<>>, Glue(seqs))
  BY <1>5, <1>7, <1>8, RunsStay
<1>10. /\ r \in [0..n -> Seq(Int)] /\ r[0] = <<>>
       /\ \A i \in 1..n : i - 1 \in 0..n /\ r[i] = Glue(seqs)[i][r[i - 1]]
  BY <1>9 DEF Steps
<1>11. \A i \in 1..n : r[i] = r[i - 1] \o seqs[i]
  BY <1>6, <1>10
<1>12. Glued(r, seqs)
  BY <1>1, <1>10, <1>11 DEF Glued
<1> QED
  BY <1>12

\* FlattenSeq glues.
LEMMA FlattenIs ==
  ASSUME NEW seqs \in Seq(Seq(Int)), NEW r, Glued(r, seqs)
  PROVE  FlattenSeq(seqs) = r[Len(seqs)]
<1>1. PICK n \in Nat : n = Len(seqs)
  OBVIOUS
<1>2. /\ r \in [0..n -> Seq(Int)] /\ r[0] = <<>>
      /\ \A i \in 1..n : i - 1 \in 0..n /\ r[i] = r[i - 1] \o seqs[i]
  BY <1>1 DEF Glued
<1>3. CASE n = 0
  <2>1. Len(seqs) = 0 /\ seqs = <<>>
    BY <1>1, <1>3, NoneIsEmpty
  <2>2. FlattenSeq(seqs) = seqs
    BY <2>1, Zenon DEF FlattenSeq
  <2> QED
    BY <1>2, <2>1, <2>2, Zenon
<1>4. CASE n # 0
  <2> DEFINE g == [i \in 1..n |-> r[i]]
             f == CHOOSE f_1 : Flattens(f_1, seqs)
  <2>1. \A i \in 1..n : r[i] = IF i = 1 THEN seqs[i] ELSE r[i - 1] \o seqs[i]
    <3>1. \A i \in 1..n : i = 1 => r[i - 1] = <<>> /\ seqs[i] \in Seq(Int)
      BY <1>1, <1>2
    <3>2. \A i \in 1..n : i = 1 => r[i] = seqs[i]
      BY <1>2, <3>1, Unit
    <3> QED
      BY <1>2, <3>2, Zenon
  <2>2. \A i \in 1..n : g[i] = IF i = 1 THEN seqs[i] ELSE g[i - 1] \o seqs[i]
    <3>1. \A i \in 1..n : g[i] = r[i] /\ (i # 1 => g[i - 1] = r[i - 1])
      OBVIOUS
    <3> QED
      BY <2>1, <3>1, Zenon
  <2>3. g = [i \in 1..n |-> g[i]]
    OBVIOUS
  <2> HIDE DEF g
  <2>4. Flattens(g, seqs)
    <3>1. g = [i \in 1..n |-> IF i = 1 THEN seqs[i] ELSE g[i - 1] \o seqs[i]]
      BY <2>2, <2>3, Zenon
    <3> QED
      BY <1>1, <3>1, Zenon DEF Flattens
  <2>5. FlattenSeq(seqs) = f[n]
    BY <1>1, <1>4, Zenon DEF FlattenSeq, Flattens
  <2>6. Flattens(f, seqs)
    BY <2>4, Zenon
  <2> HIDE DEF f
  <2>7. \A i \in 1..n : f[i] = IF i = 1 THEN seqs[i] ELSE f[i - 1] \o seqs[i]
    <3>1. f = [i \in 1..n |-> IF i = 1 THEN seqs[i] ELSE f[i - 1] \o seqs[i]]
      BY <1>1, <2>6, Zenon DEF Flattens
    <3> QED
      BY <3>1, Zenon
  <2> DEFINE A == {i \in Nat : i \in 1..n => f[i] = r[i]}
  <2>8. 0 \in A
    OBVIOUS
  <2>9. ASSUME NEW i \in 0..(n - 1), i \in A PROVE i + 1 \in A
    <3>1. PICK l \in 1..n : l = i + 1 /\ (l # 1 => l - 1 = i /\ i \in 1..n)
      OBVIOUS
    <3>2. l # 1 => f[l - 1] = r[l - 1]
      BY <2>9, <3>1
    <3>3. f[l] = r[l]
      BY <2>1, <2>7, <3>2, Zenon
    <3> QED
      BY <3>1, <3>3
  <2> HIDE DEF A
  <2>10. n \in A
    BY <2>8, <2>9, Upto
  <2>11. f[n] = r[n]
    BY <1>4, <2>10 DEF A
  <2> QED
    BY <1>1, <2>5, <2>11, Zenon
<1> QED
  BY <1>3, <1>4

\* It does not matter which two are put together first.
LEMMA Assoc == \A u, w, x \in Seq(Int) : (u \o w) \o x = u \o (w \o x)
OBVIOUS

\* Two sequences of numbers make one.
LEMMA Joined == \A u, w \in Seq(Int) : u \o w \in Seq(Int)
OBVIOUS

\* u in front of what b is glued to.
Behind(rc, u, rb, n, i) == rc[n + i] = u \o rb[i]

\* Flattening two halves flattens the whole.
LEMMA FlattenConcat ==
  ASSUME NEW a \in Seq(Seq(Int)), NEW b \in Seq(Seq(Int))
  PROVE  /\ FlattenSeq(a) \in Seq(Int) /\ FlattenSeq(b) \in Seq(Int)
         /\ FlattenSeq(a \o b) = FlattenSeq(a) \o FlattenSeq(b)
<1>0. PICK n \in Nat, m \in Nat : n = Len(a) /\ m = Len(b)
  OBVIOUS
<1>a. PICK c : c = a \o b
  OBVIOUS
<1>1. n = Len(a) /\ m = Len(b) /\ c = a \o b
  BY <1>0, <1>a
<1>2. /\ c \in Seq(Seq(Int)) /\ Len(c) = n + m
      /\ \A i \in 1..n : c[i] = a[i] /\ a[i] \in Seq(Int)
      /\ \A i \in 1..m : c[n + i] = b[i] /\ b[i] \in Seq(Int)
  BY <1>1
<1>3. PICK ra : Glued(ra, a)
  BY GluedExists
<1>4. PICK rb : Glued(rb, b)
  BY GluedExists
<1>5. PICK rc : Glued(rc, c)
  BY <1>2, GluedExists
<1>6. /\ ra \in [0..n -> Seq(Int)] /\ ra[0] = <<>>
      /\ \A i \in 1..n : i - 1 \in 0..n /\ ra[i] = ra[i - 1] \o a[i]
  BY <1>1, <1>3 DEF Glued
<1>7. /\ rb \in [0..m -> Seq(Int)] /\ rb[0] = <<>>
      /\ \A i \in 1..m : i - 1 \in 0..m /\ rb[i] = rb[i - 1] \o b[i]
  BY <1>1, <1>4 DEF Glued
<1>8. rc[0] = <<>> /\ \A i \in 1..(n + m) : rc[i] = rc[i - 1] \o c[i]
  BY <1>2, <1>5 DEF Glued
<1> DEFINE A == {i \in Nat : i <= n => rc[i] = ra[i]}
<1>9. 0 \in A
  BY <1>6, <1>8
<1>10. ASSUME NEW i \in 0..(n - 1), i \in A PROVE i + 1 \in A
  <2>1. PICK l \in 1..n : l = i + 1 /\ l - 1 = i /\ l \in 1..(n + m)
    OBVIOUS
  <2>2. rc[l - 1] = ra[l - 1]
    BY <1>10, <2>1
  <2>3. rc[l] = ra[l]
    BY <1>2, <1>6, <1>8, <2>1, <2>2, Zenon
  <2> QED
    BY <2>1, <2>3
<1> HIDE DEF A
<1>11. rc[n] = ra[n]
  <2>1. n \in A
    BY <1>9, <1>10, Upto
  <2> QED
    BY <2>1 DEF A
<1>12. PICK u \in Seq(Int) : u = ra[n]
  BY <1>6
<1> DEFINE B == {i \in Nat : i <= m => Behind(rc, u, rb, n, i)}
<1>13. 0 \in B
  <2>1. n + 0 = n
    OBVIOUS
  <2>2. rc[n + 0] = u \o rb[0]
    BY <1>7, <1>11, <1>12, <2>1, Unit, Zenon
  <2>3. Behind(rc, u, rb, n, 0)
    BY <2>2, Zenon DEF Behind
  <2> QED
    BY <2>3
<1>14. ASSUME NEW i \in 0..(m - 1), i \in B PROVE i + 1 \in B
  <2>1. PICK l \in 1..m : l = i + 1 /\ l - 1 = i /\ i <= m
    OBVIOUS
  <2>2. Behind(rc, u, rb, n, i)
    BY <1>14, <2>1
  <2>3. PICK x \in Seq(Int), y \in Seq(Int) : x = rb[i] /\ y = b[l]
    BY <1>2, <1>7, <2>1
  <2>4. rc[n + i] = u \o x
    BY <2>2, <2>3, Zenon DEF Behind
  <2>5. rb[l] = x \o y
    BY <1>7, <2>1, <2>3, Zenon
  <2>6. PICK h \in 1..(n + m) : h = n + l /\ h - 1 = n + i
    BY <2>1
  <2>7. rc[h] = rc[h - 1] \o c[h]
    BY <1>8, Zenon
  <2>8. c[n + l] = y
    BY <1>2, <2>3, Zenon
  <2>9. rc[n + l] = (u \o x) \o y
    BY <2>4, <2>6, <2>7, <2>8, Zenon
  <2>10. rc[n + l] = u \o rb[l]
    <3>1. (u \o x) \o y = u \o (x \o y)
      BY Assoc, Zenon
    <3> QED
      BY <2>5, <2>9, <3>1, Zenon
  <2>11. Behind(rc, u, rb, n, l)
    BY <2>10, Zenon DEF Behind
  <2> QED
    BY <2>1, <2>11
<1> HIDE DEF B
<1>15. rc[n + m] = u \o rb[m]
  <2>1. m \in B
    BY <1>13, <1>14, Upto
  <2>2. Behind(rc, u, rb, n, m)
    BY <2>1 DEF B
  <2> QED
    BY <2>2, Zenon DEF Behind
<1>16. FlattenSeq(a) = ra[n] /\ FlattenSeq(b) = rb[m]
  BY <1>1, <1>3, <1>4, FlattenIs, Zenon
<1>17. FlattenSeq(c) = rc[n + m]
  BY <1>2, <1>5, FlattenIs, Zenon
<1>18. ra[n] \in Seq(Int) /\ rb[m] \in Seq(Int)
  BY <1>6, <1>7
<1> QED
  BY <1>1, <1>12, <1>15, <1>16, <1>17, <1>18, Zenon

\* Of nothing, nothing.
LEMMA FlattenNone == FlattenSeq(<<>>) = <<>>
<1>1. Len(<<>>) = 0
  OBVIOUS
<1> QED
  BY <1>1, Zenon DEF FlattenSeq

\* Of one, that one.
LEMMA FlattenOne == ASSUME NEW x \in Seq(Int) PROVE FlattenSeq(<<x>>) = x
<1>0. PICK seqs : seqs = <<x>>
  OBVIOUS
<1>1. seqs \in Seq(Seq(Int)) /\ seqs = <<x>> /\ Len(seqs) = 1 /\ seqs[1] = x
  BY <1>0
<1>2. PICK r : Glued(r, seqs)
  BY <1>1, GluedExists, Zenon
<1>3. r[0] = <<>> /\ \A i \in 1..1 : r[i] = r[i - 1] \o seqs[i]
  BY <1>1, <1>2 DEF Glued
<1>4. 1 \in 1..1 /\ 1 - 1 = 0
  OBVIOUS
<1>5. r[1] = r[1 - 1] \o seqs[1]
  BY <1>3, <1>4, Zenon
<1>6. r[1] = <<>> \o x
  BY <1>1, <1>3, <1>4, <1>5, Zenon
<1>7. FlattenSeq(seqs) = r[1]
  BY <1>1, <1>2, FlattenIs, Zenon
<1> QED
  BY <1>1, <1>6, <1>7, Unit, Zenon

----------------------------------------------------------------------------
(* The document a call is made with is the one the engine has when it is handled. *)

\* The document known behind a call, and what a send was made of.
Told(c, d) == IF c.do = "commands" THEN c.document ELSE d
MadeOf(c, command) ==
    /\ c.id = command.id /\ c.vals \in [Fields(command) -> Int] /\ Encodes(command, c.vals)
    /\ c.payload = Pack(command, c.vals)
PressedIn(c, d) == \E key \in DOMAIN Commands[d] : MadeOf(c, Commands[d][key])

\* f[i] is the document known before the ith call.
Follows(f, q, a) ==
    /\ f \in [1..(Len(q) + 1) -> DOMAIN Files] /\ f[1] = a
    /\ \A i \in 1..Len(q) : f[i + 1] = Told(q[i], f[i]) /\ (q[i].do = "send" => PressedIn(q[i], f[i]))
Reaches(q, a, b) == \E f : Follows(f, q, a) /\ f[Len(q) + 1] = b

\* One more call, made with the document the queue leads to.
LEMMA ReachesAppend ==
  ASSUME NEW X, NEW q \in Seq(X), NEW c \in X, NEW a, NEW b, Reaches(q, a, b),
         c.do = "send" => PressedIn(c, b), Told(c, b) \in DOMAIN Files
  PROVE  Reaches(Append(q, c), a, Told(c, b))
<1>1. PICK f : Follows(f, q, a) /\ f[Len(q) + 1] = b
  BY DEF Reaches
<1>2. PICK n \in Nat : n = Len(q)
  OBVIOUS
<1>3. PICK e, r : e = Told(c, b) /\ r = Append(q, c)
  OBVIOUS
<1>4. Len(r) = n + 1 /\ r[n + 1] = c /\ \A i \in 1..n : r[i] = q[i]
  BY <1>2, <1>3
<1>5. /\ f \in [1..(n + 1) -> DOMAIN Files] /\ f[1] = a /\ f[n + 1] = b
      /\ \A i \in 1..n : f[i + 1] = Told(q[i], f[i]) /\ (q[i].do = "send" => PressedIn(q[i], f[i]))
  BY <1>1, <1>2 DEF Follows
<1> DEFINE g == [i \in 1..(n + 2) |-> IF i = n + 2 THEN e ELSE f[i]]
<1>6. /\ g \in [1..(n + 2) -> DOMAIN Files] /\ g[n + 2] = e /\ g[1] = a /\ g[n + 1] = b
      /\ \A i \in 1..n : g[i] = f[i] /\ g[i + 1] = f[i + 1]
  BY <1>3, <1>5
<1> HIDE DEF g
<1>7. ASSUME NEW i \in 1..(n + 1)
      PROVE  g[i + 1] = Told(r[i], g[i]) /\ (r[i].do = "send" => PressedIn(r[i], g[i]))
  <2>1. CASE i = n + 1
    <3>1. g[i + 1] = e /\ r[i] = c /\ g[i] = b
      BY <1>4, <1>6, <2>1
    <3> QED
      BY <1>3, <3>1
  <2>2. CASE i \in 1..n
    <3>1. g[i] = f[i] /\ g[i + 1] = f[i + 1] /\ r[i] = q[i]
      BY <1>4, <1>6, <2>2
    <3> QED
      BY <1>5, <2>2, <3>1
  <2> QED
    BY <2>1, <2>2
<1>8. Follows(g, r, a)
  <2>1. Len(r) + 1 = n + 2
    BY <1>4
  <2> QED
    BY <1>4, <1>6, <1>7, <2>1, Zenon DEF Follows
<1>9. g[Len(r) + 1] = e
  BY <1>4, <1>6
<1>10. Reaches(r, a, e)
  BY <1>8, <1>9 DEF Reaches
<1> QED
  BY <1>3, <1>10

\* The first call is handled with the document it was made with.
LEMMA ReachesTail ==
  ASSUME NEW X, NEW q \in Seq(X), q # <<>>, NEW a, NEW b, Reaches(q, a, b)
  PROVE  /\ a \in DOMAIN Files /\ Told(Head(q), a) \in DOMAIN Files
         /\ Reaches(Tail(q), Told(Head(q), a), b)
         /\ Head(q).do = "send" => PressedIn(Head(q), a)
<1>1. PICK f : Follows(f, q, a) /\ f[Len(q) + 1] = b
  BY DEF Reaches
<1>2. PICK n \in Nat \ {0} : n = Len(q)
  OBVIOUS
<1>3. PICK c, r : c = Head(q) /\ r = Tail(q)
  OBVIOUS
<1>4. Len(r) + 1 = n /\ Len(r) = n - 1 /\ c = q[1] /\ \A i \in 1..(n - 1) : r[i] = q[i + 1]
  BY <1>2, <1>3
<1>5. /\ f \in [1..(n + 1) -> DOMAIN Files] /\ f[1] = a /\ f[n + 1] = b
      /\ \A i \in 1..n : f[i + 1] = Told(q[i], f[i]) /\ (q[i].do = "send" => PressedIn(q[i], f[i]))
  BY <1>1, <1>2 DEF Follows
<1> DEFINE g == [i \in 1..n |-> f[i + 1]]
<1>6. g \in [1..n -> DOMAIN Files] /\ g[1] = f[2] /\ g[n] = b /\ \A i \in 1..n : g[i] = f[i + 1]
  BY <1>5
<1> HIDE DEF g
<1>7. 1 \in 1..n /\ 1 + 1 = 2 /\ 1 \in 1..(n + 1) /\ 2 \in 1..(n + 1)
  OBVIOUS
<1>8. f[2] = Told(c, a) /\ (c.do = "send" => PressedIn(c, a)) /\ a \in DOMAIN Files /\ f[2] \in DOMAIN Files
  BY <1>4, <1>5, <1>7
<1>9. ASSUME NEW i \in 1..(n - 1)
      PROVE  g[i + 1] = Told(r[i], g[i]) /\ (r[i].do = "send" => PressedIn(r[i], g[i]))
  <2>1. PICK h \in 1..n : h = i + 1 /\ i \in 1..n
    OBVIOUS
  <2>2. g[h] = f[h + 1] /\ g[i] = f[h] /\ r[i] = q[h]
    BY <1>4, <1>6, <2>1
  <2> QED
    BY <1>5, <2>1, <2>2
<1>10. Follows(g, r, Told(c, a))
  BY <1>4, <1>6, <1>8, <1>9, Zenon DEF Follows
<1>11. Reaches(r, Told(c, a), b)
  BY <1>4, <1>6, <1>10, Zenon DEF Reaches
<1> QED
  BY <1>3, <1>8, <1>11

----------------------------------------------------------------------------
(* Every press that is sent can be read with the document it was made with. *)

\* What the device makes of a send, with the document it was pressed in.
LEMMA DeviceReads ==
  ASSUME NEW d \in DOMAIN Files, NEW c, PressedIn(c, d), NEW key, TakenBy(Commands[d], c.id, c.payload) = {key}
  PROVE  Unpack(Commands[d][key], c.payload) = c.vals
<1>1. PICK own \in DOMAIN Commands[d] : MadeOf(c, Commands[d][own])
  BY DEF PressedIn
<1>2. PICK command : command = Commands[d][own]
  OBVIOUS
<1>3. CommandIsValid(command) /\ command.fields \in Seq(Range(command.fields))
  BY <1>2, CommandsAre, Zenon
<1>4. /\ c.id = command.id /\ c.vals \in [Fields(command) -> Int] /\ Encodes(command, c.vals)
      /\ c.payload = Pack(command, c.vals)
  BY <1>1, <1>2, Zenon DEF MadeOf
<1>5. Len(c.payload) = PayloadSize(command) /\ Unpack(command, c.payload) = c.vals
  BY <1>3, <1>4, RoundTrip
<1>6. own \in TakenBy(Commands[d], c.id, c.payload)
  BY <1>2, <1>4, <1>5, Zenon DEF TakenBy
<1>7. own = key
  BY <1>6
<1> QED
  BY <1>2, <1>5, <1>7, Zenon

----------------------------------------------------------------------------
(* The window's document, through the queue, is the device's. *)

CallsOK ==
    /\ Reaches(calls, known, document)
    /\ open => layouts = known
    /\ meant.read = meant.sent
LinesOK ==
    /\ replies \in Seq(Seq(Int)) /\ answers \in Seq(Seq(Int)) /\ typed \in Seq(Int) /\ written \in Seq(Int)
    /\ FlattenSeq(replies) \o FlattenSeq(answers) \o typed = written

\* _send_command: a press is made with the document the queue leads to.
LEMMA PressFollows ==
  ASSUME QueueOK, CallsOK, NEW p \in Presses, Press(p)
  PROVE  Reaches(calls', known, document)
<1>1. calls \in Seq(CallsMade) /\ Reaches(calls, known, document)
  BY DEF QueueOK, CallsOK
<1>2. CASE UNCHANGED calls
  BY <1>1, <1>2
<1>3. CASE ~(UNCHANGED calls)
  <2>1. PICK c : c = [do |-> "send", id |-> p.command.id, payload |-> Pack(p.command, p.vals), vals |-> p.vals]
    OBVIOUS
  <2>2. calls' = Append(calls, c) /\ p.document = document /\ Encodes(p.command, p.vals)
    BY <1>3, <2>1 DEF Press, Call
  <2>3. c \in CallsMade
    BY <2>1 DEF CallsMade
  <2>4. PICK key \in DOMAIN Commands[document] : p.command = Commands[document][key]
    BY <2>2, PressIs
  <2>5. document \in DOMAIN Files /\ p.vals \in [Fields(p.command) -> Int]
    BY <2>2, PressIs, CommandAssumption
  <2>6. /\ c.do = "send" /\ c.id = p.command.id /\ c.vals = p.vals
        /\ c.payload = Pack(p.command, p.vals)
    BY <2>1
  <2>7. MadeOf(c, p.command)
    BY <2>2, <2>5, <2>6, Zenon DEF MadeOf
  <2>8. PressedIn(c, document)
    BY <2>4, <2>7, Zenon DEF PressedIn
  <2>9. Told(c, document) = document
    BY <2>6 DEF Told
  <2>10. Reaches(Append(calls, c), known, Told(c, document))
    BY <1>1, <2>3, <2>5, <2>8, <2>9, ReachesAppend, Zenon
  <2> QED
    BY <2>2, <2>9, <2>10, Zenon
<1> QED
  BY <1>2, <1>3

\* A call that is no send and tells of no document changes neither.
LEMMA OtherFollows ==
  ASSUME NEW q \in Seq(CallsMade), NEW a, NEW d \in DOMAIN Files, Reaches(q, a, d),
         NEW c \in CallsMade, c.do # "send", c.do # "commands"
  PROVE  Reaches(Append(q, c), a, d)
<1>1. Told(c, d) = d
  BY DEF Told
<1>2. Reaches(Append(q, c), a, Told(c, d))
  BY <1>1, ReachesAppend, Zenon
<1> QED
  BY <1>1, <1>2, Zenon

\* _reload_configuration: behind what it queues, the engine knows the new document.
LEMMA SaveFollows ==
  ASSUME QueueOK, CallsOK, document \in DOMAIN Files, NEW d \in DOMAIN Files, SaveConfig(d)
  PROVE  Reaches(calls', known, d)
<1>1. calls \in Seq(CallsMade) /\ Reaches(calls, known, document) /\ shown \in Streams
  BY DEF QueueOK, CallsOK
<1>2. PICK x, y, z : x = Selection(shown) /\ y = [do |-> "commands", document |-> d] /\ z = [do |-> "streams"]
  OBVIOUS
<1>3. x \in CallsMade /\ y \in CallsMade /\ z \in CallsMade
  BY <1>1, <1>2 DEF CallsMade
<1>4. x.do = "select" /\ y.do = "commands" /\ y.document = d /\ z.do = "streams"
  BY <1>2 DEF Selection
<1>5. calls' = Append(Append(Append(calls, x), y), z)
  <2>1. calls' = calls \o <<x, y, z>>
    BY <1>2 DEF SaveConfig
  <2> QED
    BY <1>1, <1>3, <2>1
<1>6. Append(calls, x) \in Seq(CallsMade) /\ Append(Append(calls, x), y) \in Seq(CallsMade)
  BY <1>1, <1>3
<1>7. Reaches(Append(calls, x), known, document)
  BY <1>1, <1>3, <1>4, OtherFollows
<1>8. Told(y, document) = d
  BY <1>4 DEF Told
<1>9. Reaches(Append(Append(calls, x), y), known, Told(y, document))
  BY <1>3, <1>4, <1>6, <1>7, <1>8, ReachesAppend, Zenon
<1>10. Reaches(Append(Append(Append(calls, x), y), z), known, d)
  BY <1>3, <1>4, <1>6, <1>8, <1>9, OtherFollows, Zenon
<1> QED
  BY <1>5, <1>10, Zenon

\* What a call taken from the queue leaves there.
LEMMA TakenFollows ==
  ASSUME QueueOK, CallsOK, NEW do, Slot(do)
  PROVE  /\ Head(calls) \in CallsMade /\ Head(calls).do = do /\ known \in DOMAIN Files
         /\ Reaches(calls', Told(Head(calls), known), document)
         /\ do # "commands" => Reaches(calls', known, document)
         /\ do = "send" => PressedIn(Head(calls), known)
<1>1. calls \in Seq(CallsMade) /\ Reaches(calls, known, document) /\ calls # <<>>
      /\ Head(calls).do = do /\ calls' = Tail(calls)
  BY DEF QueueOK, CallsOK, Slot
<1>2. Head(calls) \in CallsMade
  BY <1>1
<1>3. /\ known \in DOMAIN Files /\ Reaches(Tail(calls), Told(Head(calls), known), document)
      /\ Head(calls).do = "send" => PressedIn(Head(calls), known)
  BY <1>1, ReachesTail
<1>4. do # "commands" => Told(Head(calls), known) = known
  BY <1>1 DEF Told
<1> QED
  BY <1>1, <1>2, <1>3, <1>4

\* The window has a document of the files.
LEMMA DocumentIs == ASSUME CallsOK, QueueOK PROVE document \in DOMAIN Files
<1>1. PICK f : Follows(f, calls, known) /\ f[Len(calls) + 1] = document
  BY DEF CallsOK, Reaches
<1>2. f \in [1..(Len(calls) + 1) -> DOMAIN Files] /\ Len(calls) + 1 \in 1..(Len(calls) + 1)
  BY <1>1 DEF Follows, QueueOK
<1> QED
  BY <1>1, <1>2

\* Every step keeps the documents in order, and what is read what was sent.
LEMMA StepCalls == QueueOK /\ CallsOK /\ [Next]_vars => CallsOK'
<1> SUFFICES ASSUME QueueOK, CallsOK, [Next]_vars PROVE CallsOK'
  OBVIOUS
<1> USE DEF windowVars, engineVars, clockVars, deviceVars, histVars
<1>1. /\ calls \in Seq(CallsMade) /\ Reaches(calls, known, document) /\ document \in DOMAIN Files
      /\ open => layouts = known
      /\ meant.read = meant.sent
  BY DocumentIs DEF QueueOK, CallsOK
<1>2. ASSUME NEW p \in Presses, Press(p) PROVE CallsOK'
  <2>1. Reaches(calls', known, document) /\ UNCHANGED <<known, document, open, layouts, meant>>
    BY <1>2, PressFollows DEF Press
  <2> QED
    BY <1>1, <2>1 DEF CallsOK
<1>3. ASSUME NEW c \in CallsMade, c.do \notin {"send", "commands"}, calls' = Append(calls, c),
             UNCHANGED <<known, document, open, layouts, meant>>
      PROVE  CallsOK'
  <2>1. Reaches(Append(calls, c), known, document)
    BY <1>1, <1>3, OtherFollows
  <2> QED
    BY <1>1, <1>3, <2>1 DEF CallsOK
<1>4. ASSUME NEW ended \in BOOLEAN, SendLine(ended) PROVE CallsOK'
  <2>1. PICK c : c = [do |-> "write", line |-> sends + 1, ended |-> ended]
    OBVIOUS
  <2>2. c \in CallsMade /\ c.do = "write"
    BY <2>1 DEF CallsMade, QueueOK
  <2>3. calls' = Append(calls, c) /\ UNCHANGED <<known, document, open, layouts, meant>>
    BY <1>4, <2>1 DEF SendLine, Call
  <2> QED
    BY <1>3, <2>2, <2>3
<1>5. ASSUME NEW d \in DOMAIN Files, SaveConfig(d) PROVE CallsOK'
  <2>1. Reaches(calls', known, d) /\ document' = d /\ UNCHANGED <<known, open, layouts, meant>>
    BY <1>1, <1>5, SaveFollows DEF SaveConfig
  <2> QED
    BY <1>1, <2>1 DEF CallsOK
<1>6. ASSUME NEW s \in Streams, SelectStream(s) PROVE CallsOK'
  <2>1. Selection(s) \in CallsMade /\ Selection(s).do = "select"
    BY DEF CallsMade, Selection
  <2>2. calls' = Append(calls, Selection(s)) /\ UNCHANGED <<known, document, open, layouts, meant>>
    BY <1>6 DEF SelectStream, Call
  <2> QED
    BY <1>3, <2>1, <2>2
<1>7. CASE Connect \/ Disconnect
  <2>1. PICK c \in {[do |-> "start"], [do |-> "stop"]} :
          calls' = Append(calls, c) /\ UNCHANGED <<known, document, open, layouts, meant>>
    BY <1>7 DEF Connect, Disconnect, Call
  <2>2. c \in CallsMade /\ c.do \in {"start", "stop"}
    BY DEF CallsMade
  <2> QED
    BY <1>3, <2>1, <2>2
<1>8. CASE StateReported \/ ReadAnswers \/ ReadFrames \/ Tick \/ UNCHANGED vars
  <2>1. UNCHANGED <<calls, known, document, open, layouts, meant>>
    BY <1>8 DEF StateReported, ReadAnswers, ReadFrames, Tick, vars
  <2> QED
    BY <1>1, <2>1 DEF CallsOK
<1>9. CASE ConfigureCommands
  <2>1. /\ Slot("commands") /\ known' = Head(calls).document
        /\ document' = document /\ meant' = meant /\ (open' => layouts' = known')
    BY <1>9 DEF ConfigureCommands, This
  <2>2. Head(calls).do = "commands" /\ Reaches(calls', Told(Head(calls), known), document)
    BY <2>1, TakenFollows, Zenon
  <2>3. Told(Head(calls), known) = known'
    BY <2>1, <2>2, Zenon DEF Told
  <2>4. Reaches(calls', known', document')
    BY <2>1, <2>2, <2>3, Zenon
  <2> QED
    BY <1>1, <2>1, <2>4 DEF CallsOK
<1>10. CASE ConfigureStreams \/ Select \/ StopWorking \/ WriteLine
  <2>1. UNCHANGED <<known, document, layouts, meant>> /\ (open' => open)
    <3>1. CASE ConfigureStreams
      BY <3>1 DEF ConfigureStreams
    <3>2. CASE Select
      BY <3>2 DEF Select
    <3>3. CASE StopWorking
      BY <3>3 DEF StopWorking
    <3>4. CASE WriteLine
      BY <3>4 DEF WriteLine
    <3> QED
      BY <1>10, <3>1, <3>2, <3>3, <3>4
  <2>2. Slot("streams") \/ Slot("select") \/ Slot("stop") \/ Slot("write")
    BY <1>10, Zenon DEF ConfigureStreams, Select, StopWorking, WriteLine
  <2>3. Reaches(calls', known, document)
    BY <2>2, TakenFollows
  <2> QED
    BY <1>1, <2>1, <2>3 DEF CallsOK
<1>11. CASE StartWorking
  <2>1. Slot("start") /\ UNCHANGED <<known, document, meant>> /\ layouts' \in {layouts, known}
        /\ (open \/ layouts' = known) /\ (open => layouts' = layouts)
    BY <1>11 DEF StartWorking
  <2>2. Reaches(calls', known, document)
    BY <2>1, TakenFollows
  <2> QED
    BY <1>1, <2>1, <2>2 DEF CallsOK
<1>12. CASE SendPacket
  <2>1. Slot("send") /\ UNCHANGED <<known, document, open, layouts>>
    BY <1>12 DEF SendPacket
  <2>2. Reaches(calls', known, document) /\ PressedIn(Head(calls), known) /\ known \in DOMAIN Files
    BY <2>1, TakenFollows
  <2>3. meant'.read = meant'.sent
    <3>1. CASE UNCHANGED meant
      BY <1>1, <3>1
    <3>2. CASE ~(UNCHANGED meant)
      <4>1. open /\ layouts = known
        BY <1>1, <1>12, <3>2 DEF SendPacket
      <4>2. PICK key : meant' = IF TakenBy(Commands[layouts], This.id, This.payload) = {key}
                                THEN [sent |-> This.vals, read |-> Unpack(Commands[layouts][key], This.payload)]
                                ELSE Unsent
        BY <1>12, <3>2, Zenon DEF SendPacket
      <4>3. CASE TakenBy(Commands[known], Head(calls).id, Head(calls).payload) = {key}
        <5>1. Unpack(Commands[known][key], Head(calls).payload) = Head(calls).vals
          BY <2>2, <4>3, DeviceReads, Zenon
        <5>2. meant' = [sent |-> Head(calls).vals, read |-> Unpack(Commands[known][key], Head(calls).payload)]
          BY <4>1, <4>2, <4>3, Zenon DEF This
        <5> QED
          BY <5>1, <5>2
      <4>4. CASE TakenBy(Commands[known], Head(calls).id, Head(calls).payload) # {key}
        <5>1. meant' = Unsent
          BY <4>1, <4>2, <4>4, Zenon DEF This
        <5> QED
          BY <5>1 DEF Unsent
      <4> QED
        BY <4>3, <4>4
    <3> QED
      BY <3>1, <3>2
  <2> QED
    BY <1>1, <2>1, <2>2, <2>3 DEF CallsOK
<1> QED
  BY <1>2, <1>4, <1>5, <1>6, <1>7, <1>8, <1>9, <1>10, <1>11, <1>12 DEF Next, User, Slots

\* A line more.
LEMMA AppendIs ==
  ASSUME NEW u \in Seq(Int), NEW e \in Int
  PROVE  Append(u, e) \in Seq(Int) /\ Append(u, e) = u \o <<e>> /\ <<e>> \in Seq(Int)
OBVIOUS

\* A sequence of one.
LEMMA OneIs == \A u \in Seq(Int) : <<u>> \in Seq(Seq(Int))
OBVIOUS

\* Every step keeps the lines whole, once and in their order.
LEMMA StepLines == QueueOK /\ LinesOK /\ [Next]_vars => LinesOK'
<1> SUFFICES ASSUME QueueOK, LinesOK, [Next]_vars PROVE LinesOK'
  OBVIOUS
<1> USE DEF windowVars, engineVars, clockVars, deviceVars, histVars
<1>1. /\ replies \in Seq(Seq(Int)) /\ answers \in Seq(Seq(Int)) /\ typed \in Seq(Int) /\ written \in Seq(Int)
      /\ FlattenSeq(replies) \o FlattenSeq(answers) \o typed = written
      /\ FlattenSeq(replies) \in Seq(Int) /\ FlattenSeq(answers) \in Seq(Int)
  BY FlattenConcat DEF LinesOK
<1>2. CASE UNCHANGED <<replies, answers, typed, written>>
  BY <1>1, <1>2 DEF LinesOK
<1>3. CASE StartWorking
  <2>1. CASE UNCHANGED <<replies, answers, typed, written>>
    BY <1>2, <2>1
  <2>2. CASE ~(UNCHANGED <<replies, answers, typed, written>>)
    <3>1. replies' = <<>> /\ answers' = <<>> /\ typed' = <<>> /\ written' = <<>>
      BY <1>3, <2>2 DEF StartWorking
    <3>2. <<>> \in Seq(Int) /\ <<>> \in Seq(Seq(Int))
      OBVIOUS
    <3>3. FlattenSeq(replies') \o FlattenSeq(answers') \o typed' = <<>>
      BY <3>1, <3>2, FlattenNone, Unit, Zenon
    <3> QED
      BY <3>1, <3>2, <3>3 DEF LinesOK
  <2> QED
    BY <2>1, <2>2
<1>4. CASE WriteLine
  <2>1. CASE UNCHANGED <<replies, answers, typed, written>>
    BY <1>2, <2>1
  <2>2. CASE ~(UNCHANGED <<replies, answers, typed, written>>)
    <3>1. PICK line : line = Head(calls).line
      OBVIOUS
    <3>2. Head(calls) \in CallsMade /\ Head(calls).do = "write"
      BY <1>4 DEF WriteLine, Slot, QueueOK
    <3>3. line \in Int
      BY <3>1, <3>2 DEF CallsMade, Selection
    <3>4. /\ replies' = replies /\ written' = Append(written, line)
          /\ \/ typed' = <<>> /\ answers' = answers \o <<Append(typed, line)>>
             \/ typed' = Append(typed, line) /\ answers' = answers
      BY <1>4, <2>2, <3>1 DEF WriteLine, This
    <3>5. PICK u \in Seq(Int), w \in Seq(Int) : u = FlattenSeq(replies) /\ w = FlattenSeq(answers)
      BY <1>1
    <3>6. PICK x : x = Append(typed, line)
      OBVIOUS
    <3>7. x \in Seq(Int) /\ <<x>> \in Seq(Seq(Int)) /\ x = typed \o <<line>> /\ <<line>> \in Seq(Int)
          /\ Append(written, line) = written \o <<line>> /\ Append(written, line) \in Seq(Int) /\ <<>> \in Seq(Int)
      <4>1. x \in Seq(Int) /\ x = typed \o <<line>> /\ <<line>> \in Seq(Int)
        BY <1>1, <3>3, <3>6, AppendIs, Zenon
      <4>2. Append(written, line) = written \o <<line>> /\ Append(written, line) \in Seq(Int)
        BY <1>1, <3>3, AppendIs, Zenon
      <4>3. <<>> \in Seq(Int)
        OBVIOUS
      <4> QED
        BY <4>1, <4>2, <4>3, OneIs, Zenon
    <3>8. (u \o w) \o x = Append(written, line)
      <4>1. (u \o w) \o (typed \o <<line>>) = ((u \o w) \o typed) \o <<line>>
        <5>1. PICK v, y : v = u \o w /\ y = <<line>>
          OBVIOUS
        <5>2. v \in Seq(Int) /\ y \in Seq(Int) /\ typed \in Seq(Int)
          BY <1>1, <3>7, <5>1, Joined, Zenon
        <5>3. (v \o typed) \o y = v \o (typed \o y)
          BY <5>2, Assoc, Zenon
        <5> QED
          BY <5>1, <5>3, Zenon
      <4> QED
        BY <1>1, <3>5, <3>7, <4>1, Zenon
    <3>9. CASE typed' = Append(typed, line) /\ answers' = answers
      <4>1. FlattenSeq(replies') \o FlattenSeq(answers') \o typed' = written'
        BY <3>4, <3>5, <3>6, <3>8, <3>9, Zenon
      <4> QED
        BY <1>1, <3>4, <3>6, <3>7, <3>9, <4>1 DEF LinesOK
    <3>10. CASE typed' = <<>> /\ answers' = answers \o <<x>>
      <4>1. FlattenSeq(answers \o <<x>>) = w \o x
        <5>1. FlattenSeq(<<x>>) = x
          BY <3>7, FlattenOne, Zenon
        <5>2. FlattenSeq(answers \o <<x>>) = FlattenSeq(answers) \o FlattenSeq(<<x>>)
          BY <1>1, <3>7, FlattenConcat, Zenon
        <5> QED
          BY <3>5, <5>1, <5>2, Zenon
      <4>2. (u \o (w \o x)) \o <<>> = (u \o w) \o x
        <5>1. u \o (w \o x) = (u \o w) \o x /\ u \o (w \o x) \in Seq(Int)
          <6>1. x \in Seq(Int)
            BY <3>7
          <6>2. (u \o w) \o x = u \o (w \o x)
            BY <6>1, Assoc, Zenon
          <6>3. u \o (w \o x) \in Seq(Int)
            BY <6>1, Joined, Zenon
          <6> QED
            BY <6>2, <6>3, Zenon
        <5> QED
          BY <5>1, Unit, Zenon
      <4>3. FlattenSeq(replies') \o FlattenSeq(answers') \o typed' = written'
        BY <3>4, <3>5, <3>8, <3>10, <4>1, <4>2, Zenon
      <4>4. answers' \in Seq(Seq(Int))
        BY <1>1, <3>7, <3>10
      <4> QED
        BY <1>1, <3>4, <3>7, <3>10, <4>3, <4>4 DEF LinesOK
    <3> QED
      BY <3>4, <3>6, <3>9, <3>10
  <2> QED
    BY <2>1, <2>2
<1>5. CASE ReadAnswers
  <2>1. replies' = replies \o answers /\ answers' = <<>> /\ UNCHANGED <<typed, written>>
    BY <1>5 DEF ReadAnswers
  <2>2. replies' \in Seq(Seq(Int)) /\ answers' \in Seq(Seq(Int))
    BY <1>1, <2>1
  <2>3. FlattenSeq(replies') = FlattenSeq(replies) \o FlattenSeq(answers)
    BY <1>1, <2>1, FlattenConcat, Zenon
  <2>4. FlattenSeq(replies') \o FlattenSeq(answers') = FlattenSeq(replies) \o FlattenSeq(answers)
    <3>1. FlattenSeq(replies') \in Seq(Int) /\ FlattenSeq(answers') = <<>>
      BY <2>1, <2>2, FlattenConcat, FlattenNone, Zenon
    <3>2. FlattenSeq(replies') \o <<>> = FlattenSeq(replies')
      BY <3>1, Unit, Zenon
    <3> QED
      BY <2>3, <3>1, <3>2, Zenon
  <2>5. FlattenSeq(replies') \o FlattenSeq(answers') \o typed' = written'
    BY <1>1, <2>1, <2>4, Zenon
  <2> QED
    BY <1>1, <2>1, <2>2, <2>5 DEF LinesOK
<1>6. CASE User \/ ConfigureCommands \/ ConfigureStreams \/ Select \/ StopWorking \/ SendPacket \/ ReadFrames \/ Tick
           \/ UNCHANGED vars
  BY <1>2, <1>6 DEF User, Press, SendLine, SaveConfig, SelectStream, Connect, Disconnect, StateReported,
                    ConfigureCommands, ConfigureStreams, Select, StopWorking, SendPacket, ReadFrames, Tick, vars
<1> QED
  BY <1>3, <1>4, <1>5, <1>6 DEF Next, Slots

\* The device reads the numbers that were entered, and answers the lines it was sent: for
\* any file, commands, types, byte and queue, though the file may have been replaced since.
THEOREM PressesAreRead == Spec => []DeviceReadsWhatIsSent
<1>1. Init => QueueOK /\ CallsOK /\ LinesOK
  <2> SUFFICES ASSUME Init PROVE QueueOK /\ CallsOK /\ LinesOK
    OBVIOUS
  <2>1. QueueOK
    BY DEF Init, QueueOK, CallsMade
  <2>2. /\ document \in DOMAIN Files /\ known = document /\ calls = <<>> /\ open = FALSE /\ meant = Unsent
        /\ replies = <<>> /\ answers = <<>> /\ typed = <<>> /\ written = <<>>
    BY DEF Init
  <2>3. Reaches(calls, known, document)
    <3>1. PICK f : f = [i \in 1..1 |-> document]
      OBVIOUS
    <3>2. f \in [1..1 -> DOMAIN Files] /\ f[1] = document /\ Len(<<>>) + 1 = 1 /\ 1..Len(<<>>) = {}
      BY <2>2, <3>1
    <3>3. Follows(f, <<>>, document) /\ f[Len(<<>>) + 1] = document
      BY <3>2 DEF Follows
    <3> QED
      BY <2>2, <3>3, Zenon DEF Reaches
  <2>4. CallsOK
    BY <2>2, <2>3 DEF CallsOK, Unsent
  <2>5. LinesOK
    <3>1. <<>> \in Seq(Int) /\ <<>> \in Seq(Seq(Int))
      OBVIOUS
    <3>2. FlattenSeq(replies) \o FlattenSeq(answers) \o typed = <<>>
      BY <2>2, <3>1, FlattenNone, Unit, Zenon
    <3> QED
      BY <2>2, <3>1, <3>2 DEF LinesOK
  <2> QED
    BY <2>1, <2>4, <2>5
<1>2. CallsOK /\ LinesOK => DeviceReadsWhatIsSent
  BY DEF CallsOK, LinesOK, DeviceReadsWhatIsSent
<1> QED
  BY <1>1, <1>2, StepQueue, StepCalls, StepLines, PTL DEF Spec
===============================================================================
