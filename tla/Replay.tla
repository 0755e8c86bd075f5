------------------------------- MODULE Replay -------------------------------
(***************************************************************************)
(* A recording and its replay: core/recording/sbtp.py and                  *)
(* core/transport/replay_transport.py.  The file is written by a session   *)
(* that ends in order or is killed; what is on the disk is then read by a  *)
(* reader thread, at a pace the engine thread changes, pauses and steps.   *)
(*                                                                         *)
(* Sizes are units: PREAMBLE for the file's header, HEAD for a chunk's.    *)
(* The clock is only ever compared with _wall0, so `elapsed` stands for    *)
(* both: how long ago the first chunk was due.                             *)
(***************************************************************************)
EXTENDS Integers, Sequences

CONSTANTS
    PREAMBLE, HEAD,
    Stamps, Lengths,    \* a chunk's host_ts_ns (which may be set back) and size
    Speeds,             \* 0 is as fast as possible
    MaxRead,            \* MAX_READ_BYTES
    Timeout,            \* of a read
    Far,                \* bound: later than any chunk is due
    MaxChunks, MaxControls    \* bounds

ASSUME ReplayAssumption ==
    /\ PREAMBLE \in Nat \ {0} /\ HEAD \in Nat \ {0}
    /\ Stamps \subseteq Nat /\ Lengths \subseteq Nat \ {0} /\ Speeds \subseteq Nat
    /\ MaxRead \in Nat \ {0} /\ Timeout \in Nat \ {0}
    /\ Far \in Nat /\ MaxChunks \in Nat /\ MaxControls \in Nat

\* A read is due at a quotient, which the code's floats come close to: here the unit of time
\* is one in which it is exact.
ASSUME PaceAssumption ==
    \A s, t \in Stamps : s - t <= Far /\ \A v \in Speeds \ {0} : (s - t) % v = 0

VARIABLES
    phase,      \* of the file, then of its replay
    written,    \* chunks given to the writer: [ts, at, len], at their offsets
    flushed,    \* this much is on the disk for certain
    size,       \* of the file
    pending,    \* the chunk to be played next, or None
    last,       \* the timestamp of the chunk played last
    truncated,  \* truncated_bytes
    speed, paused, steps, elapsed,
    left, asleep,    \* the reader: until its deadline, until it looks again
    played,     \* the chunks handed out
    place,      \* how far into the recording a tape of this pace would be
    changed,    \* was the speed changed?
    controls

fileVars == <<written, flushed, size>>
tapeVars == <<pending, last, truncated, played>>
paceVars == <<speed, paused, steps, elapsed, place, changed>>
readVars == <<left, asleep>>
vars == <<phase, fileVars, tapeVars, paceVars, readVars, controls>>

None == 0
LesserOf(a, b) == IF a < b THEN a ELSE b
EndOf(c) == c.at + HEAD + c.len
FileEnd == IF written = <<>> THEN PREAMBLE ELSE EndOf(written[Len(written)])

----------------------------------------------------------------------------
(* The recording. *)

Init ==
    /\ phase = "recording" /\ written = <<>> /\ flushed = 0 /\ size = 0
    /\ pending = None /\ last = 0 /\ truncated = 0
    /\ speed \in Speeds /\ paused = FALSE /\ steps = 0 /\ elapsed = 0
    /\ left = 0 /\ asleep = 0
    /\ played = <<>> /\ place = 0 /\ changed = FALSE
    /\ controls = 0

\* RecordingWriter.write, by the session's reader.
Write ==
    /\ phase = "recording" /\ Len(written) < MaxChunks
    /\ \E ts \in Stamps, n \in Lengths :
        written' = Append(written, [ts |-> ts, at |-> FileEnd, len |-> n])
    /\ UNCHANGED <<phase, flushed, size, tapeVars, paceVars, readVars, controls>>

\* RecordingWriter.flush, at each report of the engine's.
Flush ==
    /\ phase = "recording" /\ flushed # FileEnd /\ flushed' = FileEnd
    /\ UNCHANGED <<phase, written, size, tapeVars, paceVars, readVars, controls>>

\* RecordingWriter.close
CloseFile ==
    /\ phase = "recording" /\ phase' = "file" /\ size' = FileEnd
    /\ UNCHANGED <<written, flushed, tapeVars, paceVars, readVars, controls>>

\* The application is killed: any part of what was not flushed is on the disk.
Killed ==
    /\ phase = "recording" /\ phase' = "file" /\ size' \in flushed..FileEnd
    /\ UNCHANGED <<written, flushed, tapeVars, paceVars, readVars, controls>>

----------------------------------------------------------------------------
(* RecordingReader. *)

\* chunks: whether chunk i is wholly on the disk; if not, what there is of it is cut off.
Whole(i) == i <= Len(written) /\ EndOf(written[i]) <= size

LostAhead(i) == IF Whole(i + 1) THEN i + 1 ELSE None    \* mutant: read ahead, and lost
NextChunk(i) == IF Whole(i) THEN i ELSE None
CutOff(i) ==
    IF i <= Len(written) /\ ~Whole(i) /\ written[i].at < size THEN size - written[i].at ELSE 0

----------------------------------------------------------------------------
(* ReplayTransport. *)

\* RecordingReader.__init__ validates the header, and open() reads the first chunk.
Open ==
    /\ phase = "file"
    /\ IF size < PREAMBLE
       THEN phase' = "unreadable" /\ UNCHANGED <<pending, last, truncated, left>>
       ELSE /\ phase' = "open" /\ left' = Timeout
            /\ pending' = NextChunk(1) /\ truncated' = CutOff(1)
            /\ last' = IF Whole(1) THEN written[1].ts ELSE last
    /\ UNCHANGED <<fileVars, played, paceVars, asleep, controls>>

SinceFirst(ts) == IF Whole(1) THEN ts - written[1].ts ELSE 0

\* _rebase_locked: as if the chunk played last were due right now.
NotRebased == elapsed    \* mutant
Rebased == IF speed = 0 THEN elapsed ELSE SinceFirst(last) \div speed

\* _take_locked: the chunks from the pending one on, until there is enough.
Taken(n) == written[n].at - written[pending].at + HEAD + written[n].len
                - HEAD * (n - pending + 1)
TakenTo(n, enough) ==
    /\ Whole(n) /\ n >= pending
    /\ ~Whole(n + 1) \/ Taken(n) >= enough
    /\ \A m \in pending..(n - 1) : Taken(m) < enough

TakeUpTo(n) ==
    /\ played' = played \o [i \in 1..(n - pending + 1) |-> pending + i - 1]
    /\ last' = written[n].ts
    /\ pending' = NextChunk(n + 1) /\ truncated' = truncated + CutOff(n + 1)
    /\ left' = Timeout /\ asleep' = 0
TakeOne(n) == TakeUpTo(n)

Looks == phase = "open" /\ asleep = 0 /\ pending # None

\* While paused, one recorded read for each step.
StepOne ==
    /\ Looks /\ paused /\ steps > 0
    /\ TakeOne(pending)
    /\ steps' = steps - 1 /\ elapsed' = Rebased /\ place' = SinceFirst(last)
    /\ UNCHANGED <<phase, fileVars, speed, paused, changed, controls>>

\* As fast as the reader takes it.
PlayFast ==
    /\ Looks /\ ~paused /\ speed = 0
    /\ \E n \in 1..Len(written) : TakenTo(n, MaxRead) /\ TakeUpTo(n)
    /\ UNCHANGED <<phase, fileVars, paceVars, controls>>

\* How long until the pending chunk is due.
Wait == IF paused THEN Timeout ELSE SinceFirst(written[pending].ts) \div speed - elapsed

PlayDue ==
    /\ Looks /\ ~paused /\ speed # 0 /\ Wait <= 0
    /\ TakeUpTo(pending)
    /\ UNCHANGED <<phase, fileVars, paceVars, controls>>

\* Nothing is due: the reader sleeps, or its read times out and it reads again.
WaitForMore ==
    /\ Looks /\ IF paused THEN steps = 0 ELSE speed # 0 /\ Wait > 0
    /\ IF left = 0 THEN left' = Timeout /\ UNCHANGED asleep
                   ELSE asleep' = LesserOf(Wait, left) /\ UNCHANGED left
    /\ UNCHANGED <<phase, fileVars, tapeVars, paceVars, controls>>

\* ReplayEnded ends the reader's thread.
NeverEnds == FALSE    \* mutant: the end is one more read without data
AtTheEnd == phase = "open" /\ asleep = 0 /\ pending = None

End ==
    /\ AtTheEnd /\ phase' = "ended"
    /\ UNCHANGED <<fileVars, tapeVars, paceVars, readVars, controls>>

Read == StepOne \/ PlayFast \/ PlayDue \/ WaitForMore \/ End

\* Time passes.
Tick ==
    /\ phase = "open"
    /\ elapsed' = LesserOf(elapsed + 1, Far)
    /\ place' = IF paused THEN place ELSE LesserOf(place + speed, Far)
    /\ left' = IF left = 0 THEN 0 ELSE left - 1
    /\ asleep' = IF asleep = 0 THEN 0 ELSE asleep - 1
    /\ UNCHANGED <<phase, fileVars, tapeVars, speed, paused, steps, changed, controls>>

----------------------------------------------------------------------------
(* The controls, on the engine's thread. *)

Control ==
    /\ phase = "open" /\ controls < MaxControls /\ controls' = controls + 1
    /\ UNCHANGED <<phase, fileVars, tapeVars, readVars>>

\* set_speed: the clock is set with the speed there was.
SetSpeed ==
    /\ Control
    /\ \E s \in Speeds : s # speed /\ speed' = s
    /\ elapsed' = Rebased /\ place' = SinceFirst(last) /\ changed' = TRUE
    /\ UNCHANGED <<paused, steps>>

Pause ==
    /\ Control /\ ~paused /\ paused' = TRUE
    /\ UNCHANGED <<speed, steps, elapsed, place, changed>>

Unpause ==
    /\ Control /\ paused /\ paused' = FALSE
    /\ elapsed' = Rebased /\ place' = SinceFirst(last)
    /\ UNCHANGED <<speed, steps, changed>>

\* step: the menu offers it while the replay runs, too.
Step ==
    /\ Control /\ steps' = steps + 1
    /\ UNCHANGED <<speed, paused, elapsed, place, changed>>

\* The session is stopped.
Close ==
    /\ phase = "open" /\ phase' = "closed"
    /\ pending' = None
    /\ UNCHANGED <<fileVars, last, truncated, played, paceVars, readVars, controls>>

Next ==
    \/ Write \/ Flush \/ CloseFile \/ Killed
    \/ Open \/ Read \/ Tick
    \/ SetSpeed \/ Pause \/ Unpause \/ Step \/ Close

Spec == Init /\ [][Next]_vars

\* The reader's thread and the clock go on.
FairSpec == Spec /\ WF_vars(Read) /\ WF_vars(Tick)

----------------------------------------------------------------------------
(* Properties. *)

\* Every variable has its type, and the chunks lie in the file one after another.
TypeOK ==
    /\ phase \in {"recording", "file", "unreadable", "open", "ended", "closed"}
    /\ written \in Seq([ts : Stamps, at : Nat, len : Lengths])
    /\ flushed \in Nat /\ size \in Nat /\ size <= FileEnd
    /\ pending \in 0..Len(written) /\ played \in Seq(Nat)
    /\ steps \in Nat
    /\ paused \in BOOLEAN /\ speed \in Speeds

\* _take_locked, "a replay reproduces the original session": every read once, in order,
\* whatever is done to its pace, and none before it is on the disk.
PlaysOnceInOrder ==
    /\ \A i \in 1..Len(played) : played[i] = i /\ Whole(i)
    /\ pending # None => pending = Len(played) + 1

\* sbtp, "a crash loses at most about a second", "A reader tolerates a truncated last
\* chunk": a replay that ends has played every chunk that was flushed, and all but one
\* piece at the end of the file, which it has counted.
OnlyTheTailIsLost ==
    phase = "ended" =>
        LET n == Len(played) IN
        /\ \A i \in 1..Len(written) : EndOf(written[i]) <= flushed => i <= n
        /\ truncated = size - (IF n = 0 THEN PREAMBLE ELSE EndOf(written[n]))

\* The two together: a replay is the recording, but for what a crash cut off.
ReplayIsTheRecording == PlaysOnceInOrder /\ OnlyTheTailIsLost

\* read, "Pacing follows the recorded host timestamps divided by speed": through pauses and
\* steps no chunk is played before it is due.
OnTime == ~paused /\ ~paused' /\ speed # 0 /\ played' # played =>
    SinceFirst(written[Len(played')].ts) <= place
PlaysAtItsPace == [][~changed => OnTime]_vars

\* The same as set_speed has it, "Changes the pace from now on".
PaceFollowsSpeed == [][OnTime]_vars

\* step, "While paused: lets the next reads recorded reads through": a replay that runs
\* keeps no step for the next time it is paused.
PausedPlaysSteps == ~paused => steps = 0

\* A replay that is not left paused plays to its end, however often its pace changed.
PlaysToTheEnd == []<>(phase # "open" \/ paused)
=============================================================================
