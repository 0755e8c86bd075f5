----------------------------- MODULE WindowProofs -----------------------------
(***************************************************************************)
(* Proofs about Engine, about Window, which is an Engine with the thread   *)
(* of the window, and about Console, which is one with a dialog, for any   *)
(* stream sets, profiles and calls and however the threads mix.  First, of *)
(* the engine by itself:                                                   *)
(*                                                                         *)
(*   - type correctness, with one lemma per slot of its thread and per     *)
(*     step of a reader;                                                   *)
(*   - readers, recordings and listening end with their session;           *)
(*   - the decoder fits the session and the streams;                       *)
(*   - what is stored and recorded is an unbroken run of a session's reads,*)
(*     if stop() sees its reader end, and else has at most one read more   *)
(*     of each session before.                                             *)
(*                                                                         *)
(* The engine with a window keeps all of it (EngineIsKept); then:          *)
(*                                                                         *)
(*   - once the window is closed nothing runs any more;                    *)
(*   - with automatic recording every live session is recorded;            *)
(*   - once nothing is under way the window shows what the engine is.      *)
(*                                                                         *)
(* And with the editor's console dialog:                                   *)
(*                                                                         *)
(*   - a dialog that listens is answered.                                  *)
(***************************************************************************)
EXTENDS Window, Console, WellFoundedInduction, TLAPS

USE DEF None, Binary, Text, Unknown, AnyCfg, Sessions, Formats
USE BoundsAssumption, ConfigsAssumption

\* TelemetryEngine.__init__ gives every variable a value of its type.
LEMMA InitType == Init => TypeOK
<1> SUFFICES ASSUME Init PROVE TypeOK
  OBVIOUS
<1> USE DEF Init
<1>1. NoReader \in Readers
  BY DEF NoReader, Readers, ReaderPcs
<1>2. ReadersOK
  BY <1>1 DEF ReadersOK
<1>3. DataOK
  BY DEF Links, StoreStates, DataOK
<1>4. ThreadOK
  BY DEF NoJob, Jobs, JobFits, ThreadOK
<1>5. QueueOK /\ SessionOK
  BY DEF QueueOK, SessionOK
<1>6. heard \in BOOLEAN
  BY Zenon
<1>7. RecordingOK
  BY <1>6 DEF RecordingOK
<1> QED
  BY <1>2, <1>3, <1>4, <1>5, <1>7 DEF TypeOK

\* The event loop takes an event of the kind its slot is for, and the queue keeps its type.
LEMMA BeginType ==
  ASSUME TypeOK, NEW op, Begin(op)
  PROVE  /\ QueueOK' /\ at = "idle"
         /\ Head(inbox) \in Events /\ Head(inbox).op = op
BY DEF TypeOK, QueueOK, Begin

\* A slot that has returned leaves the engine thread in its event loop, with no job.
LEMMA DoneType == Done => ThreadOK'
BY DEF Done, Goto, ThreadOK, JobFits, NoJob, Jobs

\* _start is reached with the session to start: its kind, its number and its format.
LEMMA StartJobType ==
  ASSUME NEW pc \in {"reset", "open"},
         NEW kind \in {"serial", "sim", "replay"}, NEW id \in Sessions, NEW fmt \in Formats,
         Goto(pc, StartJob(kind, id, fmt))
  PROVE  ThreadOK'
<1>1. StartJob(kind, id, fmt) \in Jobs /\ StartJob(kind, id, fmt).op = "start"
  BY DEF Jobs, StartJob
<1> QED
  BY <1>1 DEF Goto, ThreadOK, JobFits

\* stores.clear() leaves stores that are stores: the rows gone, the layout and the total kept.
LEMMA ClearType == DataOK /\ ClearStores => stores' \in StoreStates
<1>1. <<>> \in Seq(Rows)
  OBVIOUS
<1> QED
  BY <1>1 DEF DataOK, ClearStores, StoreStates

\* _use_format makes a decoder of the format asked for, configured or empty.
LEMMA UseFormatType ==
  ASSUME DataOK, NEW fmt \in Formats, UseFormat(fmt)
  PROVE  link' \in Links
<1>1. CASE fmt = link.fmt
  BY <1>1 DEF DataOK, UseFormat
<1>2. CASE fmt # link.fmt /\ Accepts(fmt, streams)
  BY <1>2 DEF DataOK, UseFormat, Links
<1>3. CASE fmt # link.fmt /\ ~Accepts(fmt, streams)
  BY <1>3 DEF DataOK, UseFormat, Links
<1> QED
  BY <1>1, <1>2, <1>3

\* start_working keeps the types, whether it starts a session or reports why not.
LEMMA StartType == TypeOK /\ StartWorking => TypeOK'
<1> SUFFICES ASSUME TypeOK, StartWorking PROVE TypeOK'
  OBVIOUS
<1> USE DEF StartWorking
<1>1. QueueOK' /\ Head(inbox) \in Events /\ Head(inbox).op = "start"
  BY BeginType
<1>2. Head(inbox).kind \in {"serial", "sim", "replay"} /\ Head(inbox).id \in Sessions
  BY <1>1 DEF Events, Calls, Failures, RecFailures
<1>3. ThreadOK'
  BY <1>2, StartJobType, DoneType DEF TypeOK, DataOK
<1>4. link' \in Links
  BY UseFormatType DEF TypeOK, DataOK
<1>5. stores' \in StoreStates
  BY ClearType DEF TypeOK, DataOK
<1>6. DataOK'
  BY <1>4, <1>5 DEF TypeOK, DataOK, configVars
<1>7. SessionOK' /\ RecordingOK' /\ ReadersOK'
  BY DEF TypeOK, SessionOK, RecordingOK, ReadersOK, sessionVars, recVars
<1> QED
  BY <1>1, <1>3, <1>6, <1>7 DEF TypeOK

\* start_replay keeps the types, whether the file can be played or not.
LEMMA ReplayType == TypeOK /\ StartReplay => TypeOK'
<1> SUFFICES ASSUME TypeOK, StartReplay PROVE TypeOK'
  OBVIOUS
<1> USE DEF StartReplay
<1>1. QueueOK' /\ Head(inbox) \in Events /\ Head(inbox).op = "replay"
  BY BeginType
<1>2. Head(inbox).id \in Sessions
  BY <1>1 DEF Events, Calls, Failures, RecFailures
<1>3. ThreadOK'
  BY <1>2, StartJobType, DoneType DEF TypeOK, DataOK
<1>4. link' \in Links
  BY UseFormatType DEF TypeOK, DataOK
<1>5. stores' \in StoreStates
  BY ClearType DEF TypeOK, DataOK
<1>6. DataOK'
  BY <1>4, <1>5 DEF TypeOK, DataOK, configVars
<1>7. SessionOK' /\ RecordingOK' /\ ReadersOK'
  BY DEF TypeOK, SessionOK, RecordingOK, ReadersOK, sessionVars, recVars
<1> QED
  BY <1>1, <1>3, <1>6, <1>7 DEF TypeOK

\* The decoder reset in _start keeps the types.
LEMMA ResetType == TypeOK /\ ResetLink => TypeOK'
<1> SUFFICES ASSUME TypeOK, ResetLink PROVE TypeOK'
  OBVIOUS
<1> USE DEF ResetLink
<1>1. ThreadOK'
  BY DEF TypeOK, ThreadOK, JobFits, Goto
<1>2. DataOK'
  BY DEF TypeOK, DataOK, Links, StoreStates, configVars
<1>3. QueueOK' /\ SessionOK' /\ RecordingOK' /\ ReadersOK'
  BY DEF TypeOK, QueueOK, SessionOK, RecordingOK, ReadersOK, queueVars, sessionVars, recVars
<1> QED
  BY <1>1, <1>2, <1>3 DEF TypeOK

\* The end of _start keeps the types: a session and its reader, or a failed connection.
LEMMA OpenType == TypeOK /\ OpenTransport => TypeOK'
<1> SUFFICES ASSUME TypeOK, OpenTransport PROVE TypeOK'
  OBVIOUS
<1> USE DEF OpenTransport
<1>1. job \in [op : {"start"}, kind : {"serial", "sim", "replay"}, id : Sessions, fmt : Formats]
  BY DEF TypeOK, ThreadOK, JobFits, Jobs
<1>2. ThreadOK'
  BY DoneType
<1>3. NewReader(job.kind, job.fmt) \in Readers
  <2>1. NoReader \in Readers
    BY DEF NoReader, Readers, ReaderPcs
  <2> QED
    BY <1>1, <2>1 DEF NewReader, Readers, ReaderPcs
<1>4. ReadersOK'
  BY <1>1, <1>3 DEF TypeOK, ReadersOK
<1>5. SessionOK'
  <2>1. job.id \in 0..MaxCalls /\ job.id # 0
    BY <1>1
  <2>2. CASE UNCHANGED <<state, started, session>>
    BY <2>2 DEF TypeOK, SessionOK
  <2>3. CASE started' = job.id /\ session' = job.id /\ state' = "RUNNING"
    BY <2>1, <2>3 DEF SessionOK
  <2>4. \/ UNCHANGED <<state, started, session>>
        \/ started' = job.id /\ session' = job.id /\ state' = "RUNNING"
    BY DEF sessionVars
  <2> QED
    BY <2>2, <2>3, <2>4
<1>6. QueueOK' /\ DataOK' /\ RecordingOK'
  BY DEF TypeOK, QueueOK, DataOK, RecordingOK, queueVars, configVars, dataVars, recVars
<1> QED
  BY <1>2, <1>4, <1>5, <1>6 DEF TypeOK

\* The first half of stop_working leaves no session and a job for the second half.
LEMMA BeginStopType ==
  ASSUME TypeOK, state = "RUNNING", NEW why \in {"stop", "ended"}, BeginStop(why)
  PROVE  ThreadOK' /\ ReadersOK' /\ session' = None /\ state' = "CONFIGURED"
<1> USE DEF BeginStop
<1>1. session \in Sessions
  BY DEF TypeOK, SessionOK
<1>2. ReadersOK'
  BY <1>1 DEF TypeOK, ReadersOK, Readers
<1>3. [op |-> why, sess |-> session] \in Jobs
  BY <1>1 DEF Jobs
<1>4. ThreadOK'
  BY <1>3 DEF Goto, ThreadOK, JobFits
<1> QED
  BY <1>2, <1>4

\* stop_working and _on_reader_failed keep the types, with a session to stop and without.
LEMMA StopType ==
  TypeOK /\ (StopWorking \/ ReaderFailed) => TypeOK'
<1> SUFFICES ASSUME TypeOK, StopWorking \/ ReaderFailed PROVE TypeOK'
  OBVIOUS
<1> USE DEF StopWorking, ReaderFailed
<1>1. QueueOK'
  BY BeginType
<1>2. /\ ThreadOK' /\ ReadersOK'
      /\ \/ UNCHANGED <<state, session>>
         \/ session' = None /\ state' = "CONFIGURED"
  BY BeginStopType, DoneType DEF TypeOK, ReadersOK
<1>3. SessionOK'
  BY <1>2 DEF TypeOK, SessionOK
<1>4. DataOK' /\ RecordingOK'
  BY DEF TypeOK, DataOK, RecordingOK, configVars, dataVars, recVars
<1> QED
  BY <1>1, <1>2, <1>3, <1>4 DEF TypeOK

\* The end of the wait in ReaderThread.stop() keeps the types.
LEMMA JoinType == TypeOK /\ JoinReader => TypeOK'
BY DEF JoinReader, Goto, TypeOK, QueueOK, ThreadOK, JobFits, SessionOK, DataOK, RecordingOK,
   ReadersOK, queueVars, sessionVars, configVars, dataVars, recVars

\* stop_recording, with or without stop_listening, keeps the recorder and what is shown of it.
LEMMA StopRecordingType ==
  ASSUME TypeOK, StopRecording, UNCHANGED files, UNCHANGED heard \/ heard' = FALSE
  PROVE  RecordingOK'
<1>1. heard' \in BOOLEAN
  BY Zenon DEF TypeOK, RecordingOK
<1> QED
  BY <1>1 DEF TypeOK, RecordingOK, StopRecording

\* An OSError no slot catches leaves the types as they are.
LEMMA AbortType ==
  ASSUME TypeOK, Abort, UNCHANGED files
  PROVE  ThreadOK' /\ RecordingOK'
<1>1. ThreadOK'
  BY DEF Abort, Goto, ThreadOK, JobFits, NoJob, Jobs
<1>2. RecordingOK'
  BY DEF TypeOK, RecordingOK, Abort
<1> QED
  BY <1>1, <1>2

\* The second half of stop_working keeps the types.
LEMMA WrapUpType == TypeOK /\ WrapUp => TypeOK'
<1> SUFFICES ASSUME TypeOK, WrapUp PROVE TypeOK'
  OBVIOUS
<1> USE DEF WrapUp
<1>1. ThreadOK'
  BY DoneType, AbortType
<1>2. RecordingOK'
  BY StopRecordingType, AbortType
<1>3. QueueOK' /\ SessionOK' /\ DataOK' /\ ReadersOK'
  BY DEF TypeOK, QueueOK, SessionOK, DataOK, ReadersOK, queueVars, sessionVars, configVars,
     dataVars
<1> QED
  BY <1>1, <1>2, <1>3 DEF TypeOK

\* The decoder's half of configure_streams keeps the types.
LEMMA ConfigureType == TypeOK /\ ConfigureStreams => TypeOK'
<1> SUFFICES ASSUME TypeOK, ConfigureStreams PROVE TypeOK'
  OBVIOUS
<1> USE DEF ConfigureStreams
<1>1. QueueOK' /\ Head(inbox) \in Events /\ Head(inbox).op = "configure"
  BY BeginType
<1>2. Head(inbox) \in [op : {"configure"}, cfg : AnyCfg]
  BY <1>1 DEF Events, Calls, Failures, RecFailures
<1>3. Goto("stores", Head(inbox)) => ThreadOK'
  BY <1>2 DEF Goto, ThreadOK, JobFits, Jobs
<1>4. ThreadOK'
  BY <1>3, DoneType
<1>5. DataOK'
  BY <1>2 DEF TypeOK, DataOK, Links, configVars
<1>6. SessionOK' /\ RecordingOK' /\ ReadersOK'
  BY DEF TypeOK, SessionOK, RecordingOK, ReadersOK, sessionVars, recVars
<1> QED
  BY <1>1, <1>4, <1>5, <1>6 DEF TypeOK

\* The stores' half of configure_streams keeps the types, and ends IDLE.
LEMMA NewStoresType == TypeOK /\ ConfigureStores => TypeOK'
<1> SUFFICES ASSUME TypeOK, ConfigureStores PROVE TypeOK'
  OBVIOUS
<1> USE DEF ConfigureStores
<1>1. job.cfg \in AnyCfg
  BY DEF TypeOK, ThreadOK, JobFits, Jobs
<1>2. <<>> \in Seq(Rows)
  OBVIOUS
<1>3. DataOK'
  BY <1>1, <1>2 DEF TypeOK, DataOK, StoreStates
<1>4. ThreadOK'
  BY DoneType
<1>5. SessionOK'
  BY DEF TypeOK, SessionOK
<1>6. QueueOK' /\ RecordingOK' /\ ReadersOK'
  BY DEF TypeOK, QueueOK, RecordingOK, ReadersOK, queueVars, recVars
<1> QED
  BY <1>3, <1>4, <1>5, <1>6 DEF TypeOK

\* configure_profile keeps the types.
LEMMA ProfileType == TypeOK /\ ConfigureProfile => TypeOK'
<1> SUFFICES ASSUME TypeOK, ConfigureProfile PROVE TypeOK'
  OBVIOUS
<1> USE DEF ConfigureProfile
<1>1. QueueOK' /\ Head(inbox) \in Events /\ Head(inbox).op = "profile"
  BY BeginType
<1>2. Head(inbox).fmt \in Formats
  BY <1>1 DEF Events, Calls, Failures, RecFailures
<1>3. link' \in Links
  BY <1>2, UseFormatType DEF TypeOK, DataOK
<1>4. DataOK'
  BY <1>2, <1>3 DEF TypeOK, DataOK
<1>5. ThreadOK'
  BY DoneType
<1>6. SessionOK' /\ RecordingOK' /\ ReadersOK'
  BY DEF TypeOK, SessionOK, RecordingOK, ReadersOK, sessionVars, recVars
<1> QED
  BY <1>1, <1>4, <1>5, <1>6 DEF TypeOK

\* _emit_link_stats keeps the types.
LEMMA StatsType == TypeOK /\ EmitLinkStats => TypeOK'
<1> SUFFICES ASSUME TypeOK, EmitLinkStats PROVE TypeOK'
  OBVIOUS
<1> USE DEF EmitLinkStats
<1>1. ThreadOK' /\ RecordingOK'
  BY DoneType, AbortType DEF TypeOK, RecordingOK
<1>2. DataOK'
  BY DEF TypeOK, DataOK, StoreStates, configVars
<1>3. QueueOK' /\ SessionOK' /\ ReadersOK'
  BY DEF TypeOK, QueueOK, SessionOK, ReadersOK, queueVars, sessionVars
<1> QED
  BY <1>1, <1>2, <1>3 DEF TypeOK

\* start_recording, up to the new file, and stop_recording as a slot keep the types.
LEMMA RecordType == TypeOK /\ (StartRecording \/ EndRecording) => TypeOK'
<1> SUFFICES ASSUME TypeOK, StartRecording \/ EndRecording PROVE TypeOK'
  OBVIOUS
<1> USE DEF StartRecording, EndRecording
<1>1. /\ QueueOK' /\ Head(inbox) \in Events
      /\ StartRecording => Head(inbox).op = "record"
  BY BeginType
<1>2. StartRecording => Head(inbox) \in [op : {"none", "record"}]
  BY <1>1 DEF Events, Calls, Failures, RecFailures
<1>3. ASSUME StartRecording, Goto("newfile", Head(inbox)) PROVE ThreadOK'
  <2>1. Head(inbox) \in Jobs /\ Head(inbox).op = "record"
    BY <1>1, <1>2, <1>3 DEF Jobs
  <2> QED
    BY <2>1, <1>3 DEF Goto, ThreadOK, JobFits
<1>4. ThreadOK'
  BY <1>3, DoneType, AbortType
<1>5. RecordingOK'
  BY StopRecordingType, AbortType DEF TypeOK, RecordingOK
<1>6. SessionOK' /\ DataOK' /\ ReadersOK'
  BY DEF TypeOK, SessionOK, DataOK, ReadersOK, sessionVars, configVars, dataVars
<1> QED
  BY <1>1, <1>4, <1>5, <1>6 DEF TypeOK

\* The new file of start_recording, or its failure, keeps the types.
LEMMA NewFileType == TypeOK /\ NewFile => TypeOK'
<1> SUFFICES ASSUME TypeOK, NewFile PROVE TypeOK'
  OBVIOUS
<1> USE DEF NewFile
<1>1. <<>> \in Seq(Chunks)
  OBVIOUS
<1>2. RecordingOK'
  <2>1. heard' \in BOOLEAN
    BY Zenon DEF TypeOK, RecordingOK
  <2>2. CASE files' = Append(files, <<>>)
    <3>1. files' \in Seq(Seq(Chunks)) /\ Len(files') = Len(files) + 1 /\ Len(files) \in Nat
      BY <1>1, <2>2 DEF TypeOK, RecordingOK
    <3>2. recorder' \in 0..Len(files') /\ shownRec' \in 0..Len(files')
      BY <3>1 DEF TypeOK, RecordingOK
    <3> QED
      BY <2>1, <3>1, <3>2 DEF RecordingOK
  <2>3. CASE UNCHANGED files
    <3>1. recorder' \in 0..Len(files') /\ shownRec' \in 0..Len(files')
      BY <2>3 DEF TypeOK, RecordingOK
    <3> QED
      BY <2>1, <2>3, <3>1 DEF TypeOK, RecordingOK
  <2> QED
    BY <2>2, <2>3
<1>3. ThreadOK'
  BY DoneType
<1>4. QueueOK' /\ SessionOK' /\ DataOK' /\ ReadersOK'
  BY DEF TypeOK, QueueOK, SessionOK, DataOK, ReadersOK, queueVars, sessionVars, configVars,
     dataVars
<1> QED
  BY <1>2, <1>3, <1>4 DEF TypeOK

\* _on_recording_failed, listen_lines and stop_listening keep the types.
LEMMA ListenType ==
  TypeOK /\ (RecordingFailed \/ ListenLines \/ StopListening) => TypeOK'
<1> SUFFICES ASSUME TypeOK, RecordingFailed \/ ListenLines \/ StopListening
             PROVE  TypeOK'
  OBVIOUS
<1> USE DEF RecordingFailed, ListenLines, StopListening
<1>1. QueueOK'
  BY BeginType DEF TypeOK, QueueOK, queueVars
<1>2. heard' \in BOOLEAN
  BY Zenon DEF TypeOK, RecordingOK
<1>3. RecordingOK'
  BY <1>2 DEF TypeOK, RecordingOK
<1>4. ThreadOK'
  BY DoneType
<1>5. SessionOK' /\ DataOK' /\ ReadersOK'
  BY DEF TypeOK, SessionOK, DataOK, ReadersOK, sessionVars, configVars, dataVars
<1> QED
  BY <1>1, <1>3, <1>4, <1>5 DEF TypeOK

----------------------------------------------------------------------------
(* The reader threads. *)

\* A reader that only moves on in run() or _on_bytes() is still a reader.
LEMMA MoveType ==
  ASSUME ReadersOK, NEW s \in Sessions, NEW pc \in ReaderPcs, Move(s, pc)
  PROVE  ReadersOK'
BY DEF ReadersOK, Readers, Move

\* Each field a step of a reader assigns, with a value of its type.
LEMMA FieldTypes ==
  ASSUME NEW f \in [Sessions -> Readers], NEW s \in Sessions
  PROVE  /\ \A pc \in ReaderPcs : [f EXCEPT ![s].pc = pc] \in [Sessions -> Readers]
         /\ \A cfg \in AnyCfg : [f EXCEPT ![s].cfg = cfg] \in [Sessions -> Readers]
         /\ \A from \in SUBSET Sessions : [f EXCEPT ![s].from = from] \in [Sessions -> Readers]
         /\ \A gen \in Nat : [f EXCEPT ![s].gen = gen] \in [Sessions -> Readers]
         /\ f[s].n < MaxChunks => [f EXCEPT ![s].n = f[s].n + 1] \in [Sessions -> Readers]
<1>1. \A pc \in ReaderPcs : [f EXCEPT ![s].pc = pc] \in [Sessions -> Readers]
  BY DEF Readers
<1>2. \A cfg \in AnyCfg : [f EXCEPT ![s].cfg = cfg] \in [Sessions -> Readers]
  BY DEF Readers
<1>3. \A from \in SUBSET Sessions : [f EXCEPT ![s].from = from] \in [Sessions -> Readers]
  BY DEF Readers
<1>4. \A gen \in Nat : [f EXCEPT ![s].gen = gen] \in [Sessions -> Readers]
  BY DEF Readers
<1>5. ASSUME f[s].n < MaxChunks
      PROVE  [f EXCEPT ![s].n = f[s].n + 1] \in [Sessions -> Readers]
  <2>1. \A n \in 0..MaxChunks : [f EXCEPT ![s].n = n] \in [Sessions -> Readers]
    BY DEF Readers
  <2>2. f[s].n + 1 \in 0..MaxChunks
    BY <1>5 DEF Readers
  <2> QED
    BY <2>1, <2>2, Zenon
<1> QED
  BY <1>1, <1>2, <1>3, <1>4, <1>5

\* What every step of a reader leaves alone.
LEMMA ReaderFrame ==
  ASSUME TypeOK, NEW s \in Sessions, NEW pc, ReaderAt(s, pc)
  PROVE  /\ ThreadOK' /\ SessionOK' /\ UNCHANGED <<calls, heard, shownRec, profileFmt, streams,
                                                   statsPrev>>
         /\ heard' \in BOOLEAN
<1>1. heard' \in BOOLEAN
  BY Zenon DEF TypeOK, RecordingOK, ReaderAt
<1> QED
  BY <1>1 DEF TypeOK, ReaderAt, ThreadOK, JobFits, SessionOK, sessionVars, configVars

\* The tests of the stop event in ReaderThread.run() keep the types.
LEMMA CheckStopType ==
  ASSUME TypeOK, NEW s \in Sessions, CheckStop(s)
  PROVE  TypeOK'
<1> USE DEF CheckStop
<1>1. ReadersOK'
  BY MoveType DEF TypeOK, ReaderPcs
<1>2. ThreadOK' /\ SessionOK' /\ QueueOK' /\ DataOK' /\ RecordingOK'
  BY ReaderFrame DEF TypeOK, QueueOK, DataOK, RecordingOK
<1> QED
  BY <1>1, <1>2 DEF TypeOK

\* A read in ReaderThread.run(), whatever it gives, keeps the types.
LEMMA ReadType ==
  ASSUME TypeOK, NEW s \in Sessions, Read(s)
  PROVE  TypeOK'
<1> USE DEF Read
<1>1. ASSUME rd[s].n < MaxChunks, rd' = [rd EXCEPT ![s].n = @ + 1, ![s].pc = "got"]
      PROVE  ReadersOK'
  <2> DEFINE r == [rd EXCEPT ![s].n = rd[s].n + 1]
  <2>1. r \in [Sessions -> Readers]
    BY <1>1, FieldTypes, Zenon DEF TypeOK, ReadersOK
  <2>2. rd' = [r EXCEPT ![s].pc = "got"]
    BY <1>1, Zenon
  <2>3. "got" \in ReaderPcs
    BY DEF ReaderPcs
  <2> QED
    BY <2>1, <2>2, <2>3, FieldTypes, Zenon DEF ReadersOK
<1>2. Move(s, "top") \/ Move(s, "error") => ReadersOK'
  BY MoveType DEF TypeOK, ReaderPcs
<1>3. ThreadOK' /\ SessionOK' /\ QueueOK' /\ DataOK' /\ RecordingOK'
  BY ReaderFrame DEF TypeOK, QueueOK, DataOK, RecordingOK
<1> QED
  BY <1>1, <1>2, <1>3 DEF TypeOK

\* on_error in ReaderThread.run() posts an event and keeps the types.
LEMMA ReportFailureType ==
  ASSUME TypeOK, NEW s \in Sessions, ReportFailure(s)
  PROVE  TypeOK'
<1> USE DEF ReportFailure
<1>1. ReadersOK'
  BY MoveType DEF TypeOK, ReaderPcs
<1>2. [op |-> "failed", sess |-> s] \in Events
  BY DEF Events, Failures
<1>3. QueueOK'
  BY <1>2, ReaderFrame DEF TypeOK, QueueOK, Report
<1>4. ThreadOK' /\ SessionOK' /\ DataOK' /\ RecordingOK'
  BY ReaderFrame DEF TypeOK, DataOK, RecordingOK
<1> QED
  BY <1>1, <1>3, <1>4 DEF TypeOK

\* The recorder's part of _on_bytes keeps the types: a chunk more, or a failure posted.
LEMMA RecordChunkType ==
  ASSUME TypeOK, NEW s \in Sessions, RecordChunk(s)
  PROVE  TypeOK'
<1> USE DEF RecordChunk
<1>1. ReadersOK'
  BY MoveType DEF TypeOK, ReaderPcs
<1>2. QueueOK'
  <2>1. [op |-> "recfailed", file |-> recorder] \in Events
    BY DEF TypeOK, RecordingOK, Events, RecFailures
  <2>2. QueueOK /\ UNCHANGED calls
    BY ReaderFrame DEF TypeOK
  <2>3. CASE UNCHANGED inbox
    BY <2>2, <2>3 DEF QueueOK
  <2>4. CASE inbox' = Append(inbox, [op |-> "recfailed", file |-> recorder])
    BY <2>1, <2>2, <2>4 DEF QueueOK
  <2> QED
    BY <2>3, <2>4
<1>3. RecordingOK'
  <2>1. Chunk(s) \in Chunks
    BY DEF TypeOK, ReadersOK, Readers, Chunk, Chunks
  <2>2. CASE UNCHANGED files
    BY <2>2, ReaderFrame DEF TypeOK, RecordingOK
  <2>3. CASE /\ recorder # None /\ UNCHANGED recorder
             /\ files' = [files EXCEPT ![recorder] = Append(@, Chunk(s))]
    <3>1. recorder \in DOMAIN files /\ files[recorder] \in Seq(Chunks)
      BY <2>3 DEF TypeOK, RecordingOK
    <3>2. files' \in Seq(Seq(Chunks)) /\ Len(files') = Len(files)
      BY <2>1, <2>3, <3>1 DEF TypeOK, RecordingOK
    <3> QED
      BY <2>3, <3>2, ReaderFrame DEF TypeOK, RecordingOK
  <2> QED
    BY <2>2, <2>3
<1>4. ThreadOK' /\ SessionOK' /\ DataOK'
  BY ReaderFrame DEF TypeOK, DataOK
<1> QED
  BY <1>1, <1>2, <1>3, <1>4 DEF TypeOK

\* The decoder's part of _on_bytes keeps the types: a batch for the stores, or none.
LEMMA FeedLinkType ==
  ASSUME TypeOK, NEW s \in Sessions, FeedLink(s)
  PROVE  TypeOK'
<1> USE DEF FeedLink
<1>1. link' \in Links
  BY DEF TypeOK, DataOK, Links
<1>2. ReadersOK'
  <2>1. link.cfg \in AnyCfg /\ link'.seen \in SUBSET Sessions
    BY <1>1 DEF TypeOK, DataOK, Links
  <2> DEFINE pc == IF Decoding(link) THEN "get" ELSE "top"
             r == [rd EXCEPT ![s].pc = pc]
             q == [r EXCEPT ![s].cfg = link.cfg]
  <2>2. r \in [Sessions -> Readers]
    <3>1. pc \in ReaderPcs
      BY DEF ReaderPcs
    <3> QED
      BY <3>1, FieldTypes, Zenon DEF TypeOK, ReadersOK
  <2>3. q \in [Sessions -> Readers]
    BY <2>1, <2>2, FieldTypes, Zenon
  <2>4. rd' = [q EXCEPT ![s].from = link'.seen]
    BY Zenon
  <2> HIDE DEF q
  <2>5. [q EXCEPT ![s].from = link'.seen] \in [Sessions -> Readers]
    BY <2>1, <2>3, FieldTypes, Zenon
  <2> QED
    BY <2>4, <2>5, Zenon DEF ReadersOK
<1>3. DataOK'
  BY <1>1, ReaderFrame DEF TypeOK, DataOK
<1>4. ThreadOK' /\ SessionOK' /\ QueueOK' /\ RecordingOK'
  BY ReaderFrame DEF TypeOK, QueueOK, RecordingOK
<1> QED
  BY <1>2, <1>3, <1>4 DEF TypeOK

\* Looking up the store in _on_bytes keeps the types.
LEMMA GetStoreType ==
  ASSUME TypeOK, NEW s \in Sessions, GetStore(s)
  PROVE  TypeOK'
<1> USE DEF GetStore
<1>1. ReadersOK'
  <2> DEFINE pc == IF stores.cfg = NoCfg THEN "top" ELSE "append"
             r == [rd EXCEPT ![s].pc = pc]
  <2>1. r \in [Sessions -> Readers]
    <3>1. pc \in ReaderPcs
      BY DEF ReaderPcs
    <3> QED
      BY <3>1, FieldTypes, Zenon DEF TypeOK, ReadersOK
  <2>2. stores.gen \in Nat
    BY DEF TypeOK, DataOK, StoreStates
  <2>3. rd' = [r EXCEPT ![s].gen = stores.gen]
    BY Zenon
  <2> HIDE DEF r
  <2>4. [r EXCEPT ![s].gen = stores.gen] \in [Sessions -> Readers]
    BY <2>1, <2>2, FieldTypes, Zenon
  <2> QED
    BY <2>3, <2>4, Zenon DEF ReadersOK
<1>2. ThreadOK' /\ SessionOK' /\ QueueOK' /\ DataOK' /\ RecordingOK'
  BY ReaderFrame DEF TypeOK, QueueOK, DataOK, RecordingOK
<1> QED
  BY <1>1, <1>2 DEF TypeOK

\* append_records keeps the types, in the store looked up or in one replaced since.
LEMMA AppendType ==
  ASSUME TypeOK, NEW s \in Sessions, AppendRecords(s)
  PROVE  TypeOK'
<1>1. ReadersOK'
  BY MoveType DEF TypeOK, ReaderPcs, AppendRecords
<1>2. [sess |-> s, n |-> rd[s].n, cfg |-> rd[s].cfg, from |-> rd[s].from] \in Rows
  BY DEF TypeOK, ReadersOK, Readers, Rows
<1>3. stores' \in StoreStates
  <2> DEFINE row == [sess |-> s, n |-> rd[s].n, cfg |-> rd[s].cfg, from |-> rd[s].from]
             u == [stores EXCEPT !.total = @ + 1]
  <2>1. u \in StoreStates /\ u.rows = stores.rows
    BY DEF TypeOK, DataOK, StoreStates
  <2>2. \/ UNCHANGED stores
        \/ stores' = [u EXCEPT !.rows = Append(stores.rows, row)]
    BY Zenon DEF AppendRecords
  <2>3. row \in Rows
    BY <1>2
  <2> HIDE DEF u, row
  <2>4. CASE stores' = [u EXCEPT !.rows = Append(stores.rows, row)]
    <3>1. Append(stores.rows, row) \in Seq(Rows)
      BY <2>3 DEF TypeOK, DataOK, StoreStates
    <3> QED
      BY <2>1, <2>4, <3>1 DEF StoreStates
  <2> QED
    BY <2>2, <2>4 DEF TypeOK, DataOK
<1>4. DataOK'
  BY <1>3, ReaderFrame DEF TypeOK, DataOK, AppendRecords
<1>5. ThreadOK' /\ SessionOK' /\ QueueOK' /\ RecordingOK'
  BY ReaderFrame DEF TypeOK, QueueOK, RecordingOK, AppendRecords
<1> QED
  BY <1>1, <1>4, <1>5 DEF TypeOK

\* A call posted by the GUI is an event, with the number of its session filled in.
LEMMA PostType ==
  ASSUME TypeOK, NEW c \in UserCalls, Post(c)
  PROVE  TypeOK'
<1> USE DEF Post
<1>1. c \in Calls({0}) /\ calls' \in Sessions
  BY CallsAssumption DEF TypeOK, QueueOK
<1>2. ASSUME c.op \in {"start", "replay"} PROVE QueueOK'
  <2>1. \/ c \in [op : {"start"}, kind : {"serial", "sim"}, id : {0}]
        \/ c \in [op : {"replay"}, fmt : Formats \cup {Unknown}, id : {0}]
    BY <1>1, <1>2 DEF Calls
  <2>2. [c EXCEPT !.id = calls'] \in Events
    BY <1>1, <2>1 DEF Events, Calls
  <2> QED
    BY <1>2, <2>2 DEF TypeOK, QueueOK
<1>3. ASSUME c.op \notin {"start", "replay"} PROVE QueueOK'
  <2>1. c \in Events
    BY <1>1, <1>3 DEF Events, Calls
  <2> QED
    BY <1>3, <2>1 DEF TypeOK, QueueOK
<1>4. QueueOK'
  BY <1>2, <1>3
<1>5. ThreadOK' /\ SessionOK' /\ DataOK' /\ RecordingOK' /\ ReadersOK'
  BY DEF TypeOK, ThreadOK, JobFits, SessionOK, DataOK, RecordingOK, ReadersOK, sessionVars,
     configVars, dataVars, recVars
<1> QED
  BY <1>4, <1>5 DEF TypeOK

----------------------------------------------------------------------------
(* The theorems. *)

\* The types say nothing of `out`, and of no step.
LEMMA StutterType == TypeOK /\ UNCHANGED vars => TypeOK'
BY DEF TypeOK, QueueOK, ThreadOK, JobFits, SessionOK, DataOK, RecordingOK, ReadersOK, vars,
   queueVars, sessionVars, configVars, dataVars, recVars

\* Every slot of the engine thread, every step of a reader thread and every posted
\* call keeps the variables of their types.
LEMMA StepType == TypeOK /\ [Next]_vars => TypeOK'
<1> SUFFICES ASSUME TypeOK, [Next]_vars PROVE TypeOK'
  OBVIOUS
<1>1. CASE Slots
  BY <1>1, StartType, ReplayType, ResetType, OpenType, StopType, JoinType, WrapUpType,
     ConfigureType, NewStoresType, ProfileType, RecordType, NewFileType, ListenType DEF Slots
<1>2. CASE EmitLinkStats
  BY <1>2, StatsType
<1>3. CASE \E s \in Sessions : Reader(s)
  BY <1>3, CheckStopType, ReadType, ReportFailureType, RecordChunkType, FeedLinkType,
     GetStoreType, AppendType DEF Reader
<1>4. CASE \E c \in UserCalls : Post(c)
  BY <1>4, PostType
<1>5. CASE UNCHANGED vars
  BY <1>5, StutterType
<1> QED
  BY <1>1, <1>2, <1>3, <1>4, <1>5 DEF Next

\* Every variable of engine.py and of its readers keeps its type, and the engine is
\* RUNNING exactly while it has a session, whatever is called and however threads mix.
THEOREM TypeCorrect == Spec => []TypeOK
BY InitType, StepType, PTL DEF Spec

----------------------------------------------------------------------------
(***************************************************************************)
(* NoReaderOutlivesItsSession, when every reader ends before stop() gives  *)
(* up waiting for it.  By itself it is not inductive: OpenTransport would  *)
(* start a reader beside a running one if the engine could be RUNNING with *)
(* a session being started.  StateFits says that it cannot.                *)
(***************************************************************************)

StateFits ==
    /\ at \in {"reset", "open", "join", "wrapup"} => state = "CONFIGURED"
    /\ at = "newfile" => state = "RUNNING"

\* No slot of engine.py starts a session while one runs, or records without one.
LEMMA StepStateFits == TypeOK /\ StateFits /\ [Next]_vars => StateFits'
<1> SUFFICES ASSUME TypeOK, StateFits, [Next]_vars PROVE StateFits'
  OBVIOUS
<1> USE DEF StateFits, Done, Goto, sessionVars
<1>1. CASE StartWorking \/ StartReplay
  BY <1>1 DEF StartWorking, StartReplay, CanStart
<1>2. CASE ResetLink \/ OpenTransport
  BY <1>2 DEF ResetLink, OpenTransport
<1>3. CASE StopWorking \/ ReaderFailed
  BY <1>3 DEF StopWorking, ReaderFailed, BeginStop
<1>4. CASE JoinReader \/ WrapUp
  BY <1>4 DEF JoinReader, WrapUp, Abort
<1>5. CASE ConfigureStreams \/ ConfigureStores \/ ConfigureProfile
  BY <1>5 DEF ConfigureStreams, ConfigureStores, ConfigureProfile
<1>6. CASE StartRecording \/ NewFile \/ EndRecording \/ RecordingFailed
  BY <1>6 DEF StartRecording, NewFile, EndRecording, RecordingFailed, Abort
<1>7. CASE ListenLines \/ StopListening \/ EmitLinkStats
  BY <1>7 DEF ListenLines, StopListening, EmitLinkStats, Abort
<1>8. CASE \E s \in Sessions : Reader(s)
  BY <1>8 DEF Reader, CheckStop, Read, ReportFailure, RecordChunk, FeedLink, GetStore,
     AppendRecords, ReaderAt
<1>9. CASE \E c \in UserCalls : Post(c)
  BY <1>9 DEF Post
<1>10. CASE UNCHANGED vars
  BY <1>10 DEF vars
<1> QED
  BY <1>1, <1>2, <1>3, <1>4, <1>5, <1>6, <1>7, <1>8, <1>9, <1>10 DEF Next, Slots

\* A step of a reader never brings a reader to life, its own included.
LEMMA ReaderStaysDead ==
  ASSUME TypeOK, NEW s \in Sessions, Reader(s), NEW q \in Sessions, Alive(q)'
  PROVE  Alive(q) /\ UNCHANGED <<at, job, session>>
<1>1. rd[s].pc \notin {"none", "dead"} /\ UNCHANGED <<at, job, session>>
  BY DEF Reader, CheckStop, Read, ReportFailure, RecordChunk, FeedLink, GetStore,
     AppendRecords, ReaderAt, sessionVars
<1>2. q # s => rd'[q] = rd[q]
  BY Zenon DEF Reader, CheckStop, Read, ReportFailure, RecordChunk, FeedLink, GetStore,
     AppendRecords, Move, TypeOK, ReadersOK
<1> QED
  BY <1>1, <1>2 DEF Alive

\* Each step of engine.py and reader.py keeps every reader within its session.
LEMMA StepReaders ==
  ASSUME JoinTimesOut = FALSE
  PROVE  TypeOK /\ StateFits /\ NoReaderOutlivesItsSession /\ [Next]_vars
           => NoReaderOutlivesItsSession'
<1> SUFFICES ASSUME TypeOK, StateFits, NoReaderOutlivesItsSession, [Next]_vars,
                    NEW q \in Sessions, Alive(q)'
             PROVE  (q = session \/ (at = "join" /\ q = job.sess))'
  BY DEF NoReaderOutlivesItsSession
<1> USE DEF NoReaderOutlivesItsSession, Alive, Done, Goto, sessionVars
<1>1. CASE OpenTransport
  <2>1. session = None
    BY <1>1 DEF OpenTransport, StateFits, TypeOK, SessionOK
  <2>2. ~Alive(q)
    BY <1>1, <2>1 DEF OpenTransport
  <2>3. q = job.id /\ session' = job.id
    BY <1>1, <2>2 DEF OpenTransport, TypeOK, ReadersOK
  <2> QED
    BY <2>3
<1>2. CASE StopWorking \/ ReaderFailed
  <2>1. at = "idle" /\ (UNCHANGED rd \/ rd' = [rd EXCEPT ![session].stop = TRUE])
    BY <1>2 DEF StopWorking, ReaderFailed, BeginStop, Begin
  <2>2. q = session
    BY <2>1 DEF TypeOK, ReadersOK, Readers
  <2> QED
    BY <1>2, <2>2 DEF StopWorking, ReaderFailed, BeginStop
<1>3. CASE JoinReader
  <2>1. rd[job.sess].pc = "dead" /\ UNCHANGED <<rd, session>>
    BY <1>3 DEF JoinReader, Joined
  <2> QED
    BY <1>3, <2>1 DEF JoinReader
<1>4. CASE StartWorking \/ StartReplay \/ ResetLink \/ WrapUp \/ ConfigureStreams
            \/ ConfigureStores \/ ConfigureProfile \/ EmitLinkStats
  BY <1>4 DEF StartWorking, StartReplay, ResetLink, WrapUp, ConfigureStreams, ConfigureStores,
     ConfigureProfile, EmitLinkStats, Begin
<1>5. CASE StartRecording \/ NewFile \/ EndRecording \/ RecordingFailed \/ ListenLines
            \/ StopListening
  BY <1>5 DEF StartRecording, NewFile, EndRecording, RecordingFailed, ListenLines,
     StopListening, Begin
<1>6. CASE \E s \in Sessions : Reader(s)
  BY <1>6, ReaderStaysDead
<1>7. CASE \E c \in UserCalls : Post(c)
  BY <1>7 DEF Post
<1>8. CASE UNCHANGED vars
  BY <1>8 DEF vars
<1> QED
  BY <1>1, <1>2, <1>3, <1>4, <1>5, <1>6, <1>7, <1>8 DEF Next, Slots

\* reader.stop, engine._start: when every reader ends within the second stop() waits for
\* it, no reader thread outlives its session, so two never feed the decoder at once.
THEOREM ReadersEndWithTheirSessions ==
  ASSUME JoinTimesOut = FALSE
  PROVE  Spec => []NoReaderOutlivesItsSession
<1>1. Init => StateFits /\ NoReaderOutlivesItsSession
  BY DEF Init, StateFits, NoReaderOutlivesItsSession, Alive, NoReader
<1>2. TypeOK /\ StateFits /\ NoReaderOutlivesItsSession /\ [Next]_vars
        => StateFits' /\ NoReaderOutlivesItsSession'
  BY StepStateFits, StepReaders
<1> QED
  BY <1>1, <1>2, TypeCorrect, PTL DEF Spec

----------------------------------------------------------------------------
(***************************************************************************)
(* NothingOutlivesASession needs no bound on the join: what a late reader  *)
(* does to the recorder is only to drop it.  The strengthening covers the  *)
(* places between a slot's steps.                                          *)
(***************************************************************************)

RecordsOnlyWhileRunning ==
    state # "RUNNING" /\ at \notin {"join", "wrapup", "aborted"} => recorder = None /\ ~heard

\* Each step of engine.py and reader.py keeps the recorder within a session.
LEMMA StepRecords ==
  TypeOK /\ StateFits /\ RecordsOnlyWhileRunning /\ [Next]_vars => RecordsOnlyWhileRunning'
<1> SUFFICES ASSUME TypeOK, StateFits, RecordsOnlyWhileRunning, [Next]_vars
             PROVE  RecordsOnlyWhileRunning'
  OBVIOUS
<1> USE DEF RecordsOnlyWhileRunning, StateFits, Done, Goto, sessionVars, recVars
<1>1. CASE StartWorking \/ StartReplay \/ ResetLink \/ OpenTransport
  BY <1>1 DEF StartWorking, StartReplay, ResetLink, OpenTransport, Begin
<1>2. CASE StopWorking \/ ReaderFailed
  BY <1>2 DEF StopWorking, ReaderFailed, BeginStop, Begin
<1>3. CASE JoinReader \/ WrapUp
  BY <1>3 DEF JoinReader, WrapUp, Abort, StopRecording
<1>4. CASE ConfigureStreams \/ ConfigureStores \/ ConfigureProfile
  BY <1>4 DEF ConfigureStreams, ConfigureStores, ConfigureProfile, Begin, TypeOK, SessionOK
<1>5. CASE StartRecording \/ NewFile \/ EndRecording \/ RecordingFailed
  BY <1>5 DEF StartRecording, NewFile, EndRecording, RecordingFailed, Abort, StopRecording,
     Begin
<1>6. CASE ListenLines \/ StopListening \/ EmitLinkStats
  BY <1>6 DEF ListenLines, StopListening, EmitLinkStats, Abort, Begin
<1>7. CASE \E s \in Sessions : Reader(s)
  BY <1>7 DEF Reader, CheckStop, Read, ReportFailure, RecordChunk, FeedLink, GetStore,
     AppendRecords, ReaderAt
<1>8. CASE \E c \in UserCalls : Post(c)
  BY <1>8 DEF Post
<1>9. CASE UNCHANGED vars
  BY <1>9 DEF vars
<1> QED
  BY <1>1, <1>2, <1>3, <1>4, <1>5, <1>6, <1>7, <1>8, <1>9 DEF Next, Slots

\* engine.stop_working: between slots, an engine without a session neither records nor
\* collects lines, even if a reader missed the join.
THEOREM RecordingEndsWithTheSession == Spec => []NothingOutlivesASession
<1>1. Init => StateFits /\ RecordsOnlyWhileRunning
  BY DEF Init, StateFits, RecordsOnlyWhileRunning
<1>2. TypeOK /\ StateFits /\ RecordsOnlyWhileRunning /\ [Next]_vars
        => StateFits' /\ RecordsOnlyWhileRunning'
  BY StepStateFits, StepRecords
<1>3. RecordsOnlyWhileRunning => NothingOutlivesASession
  BY DEF RecordsOnlyWhileRunning, NothingOutlivesASession
<1> QED
  BY <1>1, <1>2, <1>3, TypeCorrect, PTL DEF Spec

----------------------------------------------------------------------------
(***************************************************************************)
(* DecoderFitsStores.  Between the two halves of configure_streams the     *)
(* decoder is already that of the streams to come.  A session gets the     *)
(* decoder of its format before it starts, in the first part of its slot.  *)
(***************************************************************************)

FitsAt(l, cfg) == l.cfg = IF Accepts(l.fmt, cfg) THEN cfg ELSE NoCfg

DecoderFits ==
    /\ at # "stores" => stores.cfg = streams /\ FitsAt(link, streams)
    /\ at = "stores" => link.cfg = job.cfg /\ Accepts(link.fmt, job.cfg)

FormatFits ==
    /\ at \in {"reset", "open"} => link.fmt = job.fmt
    /\ session # None => link.fmt = rd[session].fmt

\* _use_format: the decoder is one for the format asked for, set up for the streams if it
\* takes them.
LEMMA UseFormatFits ==
  ASSUME DataOK, NEW fmt \in Formats, UseFormat(fmt), FitsAt(link, streams)
  PROVE  FitsAt(link', streams) /\ link'.fmt = fmt
<1>1. CASE fmt = link.fmt
  BY <1>1 DEF UseFormat
<1>2. CASE fmt # link.fmt
  BY <1>2 DEF UseFormat, FitsAt
<1> QED
  BY <1>1, <1>2

\* Steps that change neither layouts nor formats, and are not inside configure_streams.
LEMMA FitsKept ==
  ASSUME DecoderFits, UNCHANGED streams, stores'.cfg = stores.cfg,
         link'.cfg = link.cfg, link'.fmt = link.fmt,
         (at' = "stores" \/ at = "stores") => UNCHANGED <<at, job>>
  PROVE  DecoderFits'
BY DEF DecoderFits, FitsAt

\* start_working, start_replay and configure_profile may change the decoder's format.
LEMMA SwitchFits ==
  TypeOK /\ DecoderFits /\ (StartWorking \/ StartReplay \/ ConfigureProfile) => DecoderFits'
<1> SUFFICES ASSUME TypeOK, DecoderFits, StartWorking \/ StartReplay \/ ConfigureProfile
             PROVE  DecoderFits'
  OBVIOUS
<1>1. at = "idle" /\ at' # "stores" /\ UNCHANGED streams
  BY DEF StartWorking, StartReplay, ConfigureProfile, Begin, Goto, Done, configVars
<1>2. stores'.cfg = stores.cfg
  BY DEF StartWorking, StartReplay, ConfigureProfile, ClearStores, TypeOK, DataOK, StoreStates
<1>3. UNCHANGED link \/ \E fmt \in Formats : UseFormat(fmt)
  <2>1. CASE StartWorking
    BY <2>1 DEF StartWorking, TypeOK, DataOK
  <2>2. CASE StartReplay
    BY <2>2 DEF StartReplay
  <2>3. CASE ConfigureProfile
    <3>1. Head(inbox) \in Events /\ Head(inbox).op = "profile"
      BY <2>3, BeginType DEF ConfigureProfile
    <3>2. Head(inbox).fmt \in Formats
      BY <3>1 DEF Events, Calls, Failures, RecFailures
    <3> QED
      BY <2>3, <3>2 DEF ConfigureProfile
  <2> QED
    BY <2>1, <2>2, <2>3
<1>4. FitsAt(link', streams)
  BY <1>1, <1>3, UseFormatFits DEF TypeOK, DecoderFits, FitsAt
<1> QED
  BY <1>1, <1>2, <1>4 DEF DecoderFits

\* The two halves of configure_streams.
LEMMA ConfigureFits ==
  TypeOK /\ DecoderFits /\ (ConfigureStreams \/ ConfigureStores) => DecoderFits'
<1> SUFFICES ASSUME TypeOK, DecoderFits, ConfigureStreams \/ ConfigureStores
             PROVE  DecoderFits'
  OBVIOUS
<1>1. CASE ConfigureStreams
  <2>1. at = "idle" /\ UNCHANGED <<streams, stores>>
    BY <1>1 DEF ConfigureStreams, Begin, configVars
  <2>2. CASE UNCHANGED link /\ Done
    BY <2>1, <2>2 DEF DecoderFits, Done, Goto, FitsAt
  <2>3. CASE /\ Accepts(link.fmt, Head(inbox).cfg)
              /\ link' = [link EXCEPT !.cfg = Head(inbox).cfg] /\ Goto("stores", Head(inbox))
    <3>1. link'.fmt = link.fmt /\ link'.cfg = Head(inbox).cfg
      BY <2>3 DEF TypeOK, DataOK, Links
    <3> QED
      BY <2>3, <3>1 DEF DecoderFits, Goto
  <2> QED
    BY <1>1, <2>2, <2>3 DEF ConfigureStreams
<1>2. CASE ConfigureStores
  BY <1>2 DEF ConfigureStores, DecoderFits, Done, Goto, FitsAt
<1> QED
  BY <1>1, <1>2

\* Every step keeps the decoder and the stores at the configured streams.
LEMMA StepFits == TypeOK /\ DecoderFits /\ [Next]_vars => DecoderFits'
<1> SUFFICES ASSUME TypeOK, DecoderFits, [Next]_vars PROVE DecoderFits'
  OBVIOUS
<1> USE DEF Done, Goto, configVars, dataVars
<1>1. CASE StartWorking \/ StartReplay \/ ConfigureProfile
  BY <1>1, SwitchFits
<1>2. CASE ConfigureStreams \/ ConfigureStores
  BY <1>2, ConfigureFits
<1>3. CASE ResetLink \/ OpenTransport
  BY <1>3, FitsKept DEF ResetLink, OpenTransport, TypeOK, DataOK, Links
<1>4. CASE StopWorking \/ ReaderFailed \/ JoinReader \/ WrapUp
  BY <1>4, FitsKept DEF StopWorking, ReaderFailed, BeginStop, JoinReader, WrapUp, Abort, Begin
<1>5. CASE StartRecording \/ NewFile \/ EndRecording \/ RecordingFailed
  BY <1>5, FitsKept DEF StartRecording, NewFile, EndRecording, RecordingFailed, Abort, Begin
<1>6. CASE ListenLines \/ StopListening \/ EmitLinkStats
  BY <1>6, FitsKept DEF ListenLines, StopListening, EmitLinkStats, Abort, Begin
<1>7. ASSUME NEW s \in Sessions, Reader(s) PROVE DecoderFits'
  <2>1. UNCHANGED <<at, job, streams>>
    BY <1>7 DEF Reader, CheckStop, Read, ReportFailure, RecordChunk, FeedLink, GetStore,
       AppendRecords, ReaderAt
  <2>2. stores'.cfg = stores.cfg
    BY <1>7 DEF Reader, CheckStop, Read, ReportFailure, RecordChunk, FeedLink, GetStore,
       AppendRecords, TypeOK, DataOK, StoreStates
  <2>3. link'.cfg = link.cfg /\ link'.fmt = link.fmt
    BY <1>7 DEF Reader, CheckStop, Read, ReportFailure, RecordChunk, FeedLink, GetStore,
       AppendRecords, TypeOK, DataOK, Links
  <2> QED
    BY <2>1, <2>2, <2>3, FitsKept
<1>8. CASE \E c \in UserCalls : Post(c)
  BY <1>8, FitsKept DEF Post
<1>9. CASE UNCHANGED vars
  BY <1>9, FitsKept DEF vars
<1> QED
  BY <1>1, <1>2, <1>3, <1>4, <1>5, <1>6, <1>7, <1>8, <1>9 DEF Next, Slots

\* start_working, start_replay: the decoder is of the session's format before the session
\* is, and without a session before it nobody reads with the decoder it replaces.
LEMMA StartFormat ==
  TypeOK /\ DecoderFits /\ FormatFits /\ (StartWorking \/ StartReplay) => FormatFits'
<1> SUFFICES ASSUME TypeOK, DecoderFits, FormatFits, StartWorking \/ StartReplay PROVE FormatFits'
  OBVIOUS
<1>1. at = "idle" /\ UNCHANGED <<session, rd>>
  BY DEF StartWorking, StartReplay, Begin, sessionVars
<1>2. CASE Done /\ UNCHANGED link
  BY <1>1, <1>2 DEF FormatFits, Done, Goto
<1>3. CASE CanStart
  <2>1. session = None
    BY <1>3 DEF CanStart, TypeOK, SessionOK
  <2>2. CASE Done
    BY <1>1, <2>1, <2>2 DEF FormatFits, Done, Goto
  <2>3. ASSUME NEW kind, NEW id, NEW fmt \in Formats, UseFormat(fmt),
               Goto("reset", StartJob(kind, id, fmt))
        PROVE  FormatFits'
    <3>1. link'.fmt = fmt
      BY <1>1, <2>3, UseFormatFits DEF TypeOK, DecoderFits
    <3> QED
      BY <1>1, <2>1, <2>3, <3>1 DEF FormatFits, Goto, StartJob
  <2> QED
    BY <1>3, <2>2, <2>3 DEF StartWorking, StartReplay, TypeOK, DataOK
<1> QED
  BY <1>2, <1>3 DEF StartWorking, StartReplay

\* Steps that leave the decoder's format, the session and its reader's format alone.
LEMMA FormatKept ==
  ASSUME FormatFits, link'.fmt = link.fmt, session' \in {session, None},
         session' # None => rd'[session].fmt = rd[session].fmt,
         at' \in {"reset", "open"} => at \in {"reset", "open"} /\ UNCHANGED job
  PROVE  FormatFits'
BY DEF FormatFits

\* Every step keeps the decoder of the session's format.
LEMMA StepFormat == TypeOK /\ DecoderFits /\ FormatFits /\ [Next]_vars => FormatFits'
<1> SUFFICES ASSUME TypeOK, DecoderFits, FormatFits, [Next]_vars PROVE FormatFits'
  OBVIOUS
<1> USE DEF Done, Goto, sessionVars, dataVars
<1>1. CASE StartWorking \/ StartReplay
  BY <1>1, StartFormat
<1>2. CASE ResetLink
  BY <1>2, FormatKept DEF ResetLink, TypeOK, DataOK, Links
<1>3. CASE OpenTransport
  <2>1. at' = "idle" /\ UNCHANGED link /\ at = "open"
    BY <1>3 DEF OpenTransport
  <2>2. CASE UNCHANGED <<session, rd>>
    BY <2>1, <2>2, FormatKept
  <2>3. CASE session' = job.id /\ rd' = [rd EXCEPT ![job.id] = NewReader(job.kind, job.fmt)]
    <3>1. job.id \in Sessions
      BY <2>1 DEF TypeOK, ThreadOK, JobFits, Jobs
    <3>2. rd'[job.id].fmt = job.fmt
      BY <2>3, <3>1 DEF TypeOK, ReadersOK, NewReader, NoReader
    <3> QED
      BY <2>1, <2>3, <3>2 DEF FormatFits
  <2> QED
    BY <1>3, <2>2, <2>3 DEF OpenTransport
<1>4. CASE StopWorking \/ ReaderFailed
  <2>1. \/ UNCHANGED <<session, rd>>
        \/ session' = None
    BY <1>4 DEF StopWorking, ReaderFailed, BeginStop
  <2> QED
    BY <1>4, <2>1, FormatKept DEF StopWorking, ReaderFailed, BeginStop
<1>5. CASE ConfigureProfile
  <2>1. at' = "idle" /\ UNCHANGED <<session, rd>>
    BY <1>5 DEF ConfigureProfile
  <2>2. CASE MaySwitchFormat
    BY <2>1, <2>2 DEF MaySwitchFormat, TypeOK, SessionOK, FormatFits
  <2>3. CASE ~MaySwitchFormat
    BY <1>5, <2>1, <2>3, FormatKept DEF ConfigureProfile
  <2> QED
    BY <2>2, <2>3
<1>6. CASE JoinReader \/ WrapUp \/ ConfigureStreams \/ ConfigureStores
  BY <1>6, FormatKept DEF JoinReader, WrapUp, Abort, ConfigureStreams, ConfigureStores,
     TypeOK, DataOK, Links
<1>7. CASE StartRecording \/ NewFile \/ EndRecording \/ RecordingFailed
  BY <1>7, FormatKept DEF StartRecording, NewFile, EndRecording, RecordingFailed, Abort
<1>8. CASE ListenLines \/ StopListening \/ EmitLinkStats
  BY <1>8, FormatKept DEF ListenLines, StopListening, EmitLinkStats, Abort
<1>9. ASSUME NEW s \in Sessions, Reader(s) PROVE FormatFits'
  <2>1. UNCHANGED <<at, job, session>>
    BY <1>9 DEF Reader, CheckStop, Read, ReportFailure, RecordChunk, FeedLink, GetStore,
       AppendRecords, ReaderAt
  <2>2. link'.fmt = link.fmt
    BY <1>9 DEF Reader, CheckStop, Read, ReportFailure, RecordChunk, FeedLink, GetStore,
       AppendRecords, TypeOK, DataOK, Links
  <2>3. ASSUME NEW q \in Sessions PROVE rd'[q].fmt = rd[q].fmt
    <3>1. rd \in [Sessions -> Readers] /\ rd[q] \in Readers
      BY DEF TypeOK, ReadersOK
    <3>2. CASE CheckStop(s) \/ Read(s) \/ ReportFailure(s)
      BY <3>1, <3>2 DEF CheckStop, Read, ReportFailure, Move, Readers
    <3>3. CASE RecordChunk(s) \/ AppendRecords(s)
      <4>1. PICK pc \in {"feed", "top"} : rd' = [rd EXCEPT ![s].pc = pc]
        BY <3>3 DEF RecordChunk, AppendRecords, Move
      <4> QED
        BY <3>1, <4>1 DEF Readers
    <3>4. CASE FeedLink(s)
      BY <3>1, <3>4 DEF FeedLink, Readers
    <3>5. CASE GetStore(s)
      BY <3>1, <3>5 DEF GetStore, Readers
    <3> QED
      BY <1>9, <3>2, <3>3, <3>4, <3>5 DEF Reader
  <2>4. session # None => session \in Sessions
    BY DEF TypeOK, SessionOK
  <2> QED
    BY <2>1, <2>2, <2>3, <2>4, FormatKept
<1>10. CASE \E c \in UserCalls : Post(c)
  BY <1>10, FormatKept DEF Post
<1>11. CASE UNCHANGED vars
  BY <1>11, FormatKept DEF vars
<1> QED
  BY <1>1, <1>2, <1>3, <1>4, <1>5, <1>6, <1>7, <1>8, <1>9, <1>10, <1>11 DEF Next, Slots

\* engine.configure_streams, _use_format: whatever is configured, started, replayed and
\* switched in whatever order, with a reader at any place, a session's decoder is one for
\* the format of its bytes, and between slots decoder and stores are those of the
\* configured streams, or the decoder is one that refuses them and decodes none.
THEOREM DecoderFollowsStreams == Spec => []DecoderFitsStores
<1>1. Init => DecoderFits /\ FormatFits
  BY DEF Init, DecoderFits, FormatFits, FitsAt, Accepts
<1>2. DecoderFits /\ FormatFits => DecoderFitsStores
  BY DEF DecoderFits, FormatFits, DecoderFitsStores, FitsAt
<1>3. TypeOK /\ DecoderFits /\ FormatFits /\ [Next]_vars => DecoderFits' /\ FormatFits'
  BY StepFits, StepFormat
<1> QED
  BY <1>1, <1>2, <1>3, TypeCorrect, PTL DEF Spec

----------------------------------------------------------------------------
(***************************************************************************)
(* StoresHoldARun, when every reader ends before stop() gives up waiting   *)
(* for it.  Only the last session has a reader, so the invariant says what *)
(* that reader has in hand at each place of run() and _on_bytes(): whose   *)
(* bytes, which store, and how far the stored rows have got.               *)
(***************************************************************************)

JobIsLast == at = "join" => job.sess = started

BytesFit ==
    /\ at = "open" => link.seen = {}
    /\ \A s \in Sessions : Alive(s) =>
         /\ link.seen \subseteq {s}
         /\ rd[s].pc \in {"get", "append"} => rd[s].from = {s}

\* A store that was looked up is the present one, or the present one is still empty.
StoresFit ==
    /\ stores.rows # <<>> => stores.cfg # NoCfg
    /\ at \in {"reset", "open"} => stores.rows = <<>>
    /\ \A s \in Sessions : rd[s].pc = "append" =>
         /\ rd[s].gen <= stores.gen
         /\ IF rd[s].gen = stores.gen THEN stores.cfg # NoCfg ELSE stores.rows = <<>>

\* The last read whose rows are stored, while the reader is one that stores what it reads.
Stored(s) ==
    IF rd[s].pc \in {"got", "record", "feed", "get", "append"} THEN rd[s].n - 1 ELSE rd[s].n
Stores(s) ==
    \/ rd[s].pc \in {"get", "append"}
    \/ Decoding(link) /\ ~(rd[s].pc = "top" /\ rd[s].stop)
LastFits ==
    at # "stores" /\ stores.rows # <<>> =>
        \A s \in Sessions : Alive(s) /\ Stores(s) => stores.rows[Len(stores.rows)].n = Stored(s)

DataInv == BytesFit /\ StoresFit /\ StoresHoldARun /\ LastFits
OneReader == StateFits /\ NoReaderOutlivesItsSession /\ JobIsLast

\* A reader that lives is that of the last session, which runs or is being stopped.
LEMMA OnlyTheLast ==
  ASSUME TypeOK, OneReader, NEW s \in Sessions, Alive(s)
  PROVE  s = started /\ (state = "RUNNING" \/ at = "join")
BY DEF TypeOK, SessionOK, OneReader, NoReaderOutlivesItsSession, JobIsLast

\* stop_working waits for the reader of the session it ends.
LEMMA StepOneReader ==
  ASSUME JoinTimesOut = FALSE
  PROVE  TypeOK /\ OneReader /\ [Next]_vars => OneReader'
<1> SUFFICES ASSUME TypeOK, OneReader, [Next]_vars PROVE OneReader'
  OBVIOUS
<1>1. StateFits' /\ NoReaderOutlivesItsSession'
  BY StepStateFits, StepReaders DEF OneReader
<1>2. JobIsLast'
  <2> SUFFICES ASSUME at' = "join" PROVE (job.sess)' = started'
    BY DEF JobIsLast
  <2> USE DEF Done, Goto, sessionVars
  <2>1. CASE StopWorking \/ ReaderFailed
    BY <2>1 DEF StopWorking, ReaderFailed, BeginStop, TypeOK, SessionOK
  <2>2. CASE JoinReader \/ WrapUp \/ EmitLinkStats
    BY <2>2 DEF JoinReader, WrapUp, EmitLinkStats, Abort
  <2>3. CASE StartWorking \/ StartReplay \/ ResetLink \/ OpenTransport
    BY <2>3 DEF StartWorking, StartReplay, ResetLink, OpenTransport
  <2>4. CASE ConfigureStreams \/ ConfigureStores \/ ConfigureProfile
    BY <2>4 DEF ConfigureStreams, ConfigureStores, ConfigureProfile
  <2>5. CASE StartRecording \/ NewFile \/ EndRecording \/ RecordingFailed
    BY <2>5 DEF StartRecording, NewFile, EndRecording, RecordingFailed, Abort
  <2>6. CASE ListenLines \/ StopListening
    BY <2>6 DEF ListenLines, StopListening
  <2>7. CASE \E s \in Sessions : Reader(s)
    BY <2>7 DEF Reader, CheckStop, Read, ReportFailure, RecordChunk, FeedLink, GetStore,
       AppendRecords, ReaderAt, OneReader, JobIsLast
  <2>8. CASE (\E c \in UserCalls : Post(c)) \/ UNCHANGED vars
    BY <2>8 DEF Post, vars, OneReader, JobIsLast
  <2> QED
    BY <2>1, <2>2, <2>3, <2>4, <2>5, <2>6, <2>7, <2>8 DEF Next, Slots
<1> QED
  BY <1>1, <1>2 DEF OneReader

\* Slots that touch no store and start no reader, the first half of configure_streams included.
SameReaders ==
    \A s \in Sessions :
        /\ rd'[s].pc = rd[s].pc /\ rd'[s].n = rd[s].n
        /\ rd'[s].from = rd[s].from /\ rd'[s].gen = rd[s].gen
        /\ rd[s].stop => rd'[s].stop

\* Setting the stop event of a reader changes nothing else of it.
LEMMA StoppedIsSame ==
  TypeOK /\ rd' = [rd EXCEPT ![session].stop = TRUE] => SameReaders
<1> SUFFICES ASSUME TypeOK, rd' = [rd EXCEPT ![session].stop = TRUE] PROVE SameReaders
  OBVIOUS
<1>1. ASSUME NEW s \in Sessions PROVE rd'[s] = rd[s] \/ rd'[s] = [rd[s] EXCEPT !.stop = TRUE]
  BY DEF TypeOK, ReadersOK
<1>2. \A s \in Sessions : rd[s] \in Readers
  BY DEF TypeOK, ReadersOK
<1>3. ASSUME NEW r \in Readers, NEW q, q = [r EXCEPT !.stop = TRUE]
      PROVE  q.pc = r.pc /\ q.n = r.n /\ q.from = r.from /\ q.gen = r.gen /\ q.stop
  BY <1>3 DEF Readers
<1> QED
  BY <1>1, <1>2, <1>3 DEF SameReaders

\* What such a slot leaves of the stores is what they held.
LEMMA DataKept ==
  ASSUME TypeOK, DataInv, SameReaders, UNCHANGED <<stores, started>>, link'.seen = link.seen,
         at' # "stores" => at # "stores" /\ UNCHANGED link,
         at' \in {"reset", "open"} => at' = at
  PROVE  DataInv'
<1>1. BytesFit'
  BY DEF DataInv, BytesFit, SameReaders, Alive
<1>2. StoresFit'
  BY DEF DataInv, StoresFit, SameReaders
<1>3. StoresHoldARun'
  BY DEF DataInv, StoresHoldARun
<1>4. LastFits'
  <2> SUFFICES ASSUME at' # "stores", stores.rows # <<>>, NEW s \in Sessions, Alive(s)', Stores(s)'
               PROVE  stores.rows[Len(stores.rows)].n = Stored(s)'
    BY DEF LastFits
  <2>1. Alive(s) /\ Stores(s) /\ Stored(s)' = Stored(s) /\ at # "stores"
    BY DEF SameReaders, Alive, Stores, Stored, Decoding
  <2> QED
    BY <2>1 DEF DataInv, LastFits
<1> QED
  BY <1>1, <1>2, <1>3, <1>4 DEF DataInv

\* Slots that run while there is no reader: what they leave of the rows is none, or as it was.
LEMMA DataWithoutReader ==
  ASSUME TypeOK, DataInv, UNCHANGED <<rd, started>>, \A s \in Sessions : ~Alive(s),
         stores'.cfg = stores.cfg, stores'.rows = stores.rows \/ stores'.rows = <<>>,
         at # "stores", at' = "open" => link'.seen = {},
         at' \in {"reset", "open"} => stores'.rows = <<>>
  PROVE  DataInv'
<1>1. \A s \in Sessions : ~Alive(s)' /\ rd[s].pc # "append"
  BY DEF Alive
<1>2. BytesFit' /\ LastFits'
  BY <1>1 DEF BytesFit, LastFits
<1>3. StoresFit'
  BY <1>1 DEF DataInv, StoresFit
<1>4. StoresHoldARun'
  BY DEF DataInv, StoresHoldARun
<1> QED
  BY <1>2, <1>3, <1>4 DEF DataInv

\* The second half of configure_streams: new stores, with no rows.
LEMMA ConfigureStoresData ==
  TypeOK /\ DataInv /\ ConfigureStores => DataInv'
<1> SUFFICES ASSUME TypeOK, DataInv, ConfigureStores PROVE DataInv'
  OBVIOUS
<1>1. /\ stores'.rows = <<>> /\ stores'.gen = stores.gen + 1 /\ stores.gen \in Nat
      /\ at' = "idle" /\ UNCHANGED <<rd, link, started>>
  BY DEF ConfigureStores, Done, Goto, TypeOK, DataOK, StoreStates
<1>2. BytesFit' /\ LastFits' /\ StoresHoldARun'
  BY <1>1 DEF DataInv, BytesFit, LastFits, StoresHoldARun, Alive
<1>3. StoresFit'
  <2> SUFFICES ASSUME NEW s \in Sessions, rd[s].pc = "append"
               PROVE  rd[s].gen <= stores.gen + 1 /\ rd[s].gen # stores.gen + 1
    BY <1>1 DEF StoresFit
  <2>1. rd[s].gen \in Nat /\ rd[s].gen <= stores.gen
    BY DEF DataInv, StoresFit, TypeOK, ReadersOK, Readers
  <2> QED
    BY <2>1, <1>1
<1> QED
  BY <1>2, <1>3 DEF DataInv

\* The end of _start: the new reader has read nothing, and there are no rows.
LEMMA OpenData ==
  TypeOK /\ OneReader /\ DataInv /\ OpenTransport => DataInv'
<1> SUFFICES ASSUME TypeOK, OneReader, DataInv, OpenTransport PROVE DataInv'
  OBVIOUS
<1>1. /\ at = "open" /\ at' = "idle" /\ UNCHANGED <<link, stores>>
      /\ link.seen = {} /\ stores.rows = <<>>
  BY DEF OpenTransport, Done, Goto, dataVars, DataInv, BytesFit, StoresFit
<1>2. \A s \in Sessions : ~Alive(s)
  BY <1>1, OnlyTheLast DEF OneReader, StateFits
<1>3. \A s \in Sessions : rd'[s].pc \in {"none", "dead", "top"}
  <2> SUFFICES ASSUME NEW s \in Sessions PROVE rd'[s].pc \in {"none", "dead", "top"}
    OBVIOUS
  <2>1. rd[s].pc \in {"none", "dead"}
    BY <1>2 DEF Alive
  <2>2. CASE UNCHANGED rd
    BY <2>1, <2>2
  <2>3. CASE rd' = [rd EXCEPT ![job.id] = NewReader(job.kind, job.fmt)]
    <3>1. NewReader(job.kind, job.fmt).pc = "top"
      BY DEF NewReader, NoReader
    <3> QED
      BY <2>1, <2>3, <3>1 DEF TypeOK, ReadersOK
  <2> QED
    BY <2>2, <2>3 DEF OpenTransport
<1>4. BytesFit' /\ StoresFit' /\ LastFits' /\ StoresHoldARun'
  BY <1>1, <1>3 DEF BytesFit, StoresFit, LastFits, StoresHoldARun, DataInv
<1> QED
  BY <1>4 DEF DataInv

\* Every slot of the engine thread keeps what the stores hold.
LEMMA SlotsData ==
  TypeOK /\ OneReader /\ DataInv /\ (Slots \/ EmitLinkStats) => DataInv'
<1> SUFFICES ASSUME TypeOK, OneReader, DataInv, Slots \/ EmitLinkStats PROVE DataInv'
  OBVIOUS
<1> USE DEF Done, Goto, sessionVars, dataVars
<1>1. UNCHANGED rd => SameReaders
  BY DEF SameReaders
<1>2. at \in {"idle", "reset"} /\ state # "RUNNING" => \A s \in Sessions : ~Alive(s)
  BY OnlyTheLast
<1>3. CASE StartWorking \/ StartReplay
  <2>1. at = "idle" /\ at' \in {"idle", "reset"} /\ UNCHANGED <<rd, started>>
    BY <1>3 DEF StartWorking, StartReplay, Begin
  <2>2. CASE state = "RUNNING"
    <3>1. at' = "idle" /\ UNCHANGED <<stores, link>>
      BY <1>3, <2>2 DEF StartWorking, StartReplay, CanStart
    <3> QED
      BY <1>1, <2>1, <3>1, DataKept
  <2>3. CASE state # "RUNNING"
    <3>1. stores'.cfg = stores.cfg
      BY <1>3 DEF StartWorking, StartReplay, ClearStores, TypeOK, DataOK, StoreStates
    <3>2. stores'.rows = <<>> \/ (stores' = stores /\ at' = "idle")
      BY <1>3 DEF StartWorking, StartReplay, ClearStores, TypeOK, DataOK, StoreStates
    <3> QED
      BY <1>2, <2>1, <2>3, <3>1, <3>2, DataWithoutReader
  <2> QED
    BY <2>2, <2>3
<1>4. CASE ResetLink
  <2>1. /\ at = "reset" /\ at' = "open" /\ UNCHANGED <<rd, started, stores>>
        /\ link'.seen = {} /\ state # "RUNNING" /\ stores.rows = <<>>
    BY <1>4 DEF ResetLink, TypeOK, DataOK, Links, OneReader, StateFits, DataInv, StoresFit
  <2> QED
    BY <1>2, <2>1, DataWithoutReader
<1>5. CASE OpenTransport
  BY <1>5, OpenData
<1>6. CASE StopWorking \/ ReaderFailed
  <2>1. at = "idle" /\ at' \in {"idle", "join"} /\ UNCHANGED <<stores, link, started>>
    BY <1>6 DEF StopWorking, ReaderFailed, BeginStop, Begin
  <2>2. UNCHANGED rd \/ rd' = [rd EXCEPT ![session].stop = TRUE]
    BY <1>6 DEF StopWorking, ReaderFailed, BeginStop
  <2>3. SameReaders
    BY <1>1, <2>2, StoppedIsSame
  <2> QED
    BY <2>1, <2>3, DataKept
<1>7. CASE JoinReader \/ WrapUp
  BY <1>1, <1>7, DataKept DEF JoinReader, WrapUp, Abort
<1>8. CASE ConfigureStreams
  <2>1. at = "idle" /\ at' \in {"idle", "stores"} /\ UNCHANGED <<rd, stores, started>>
    BY <1>8 DEF ConfigureStreams, Begin
  <2>2. link'.seen = link.seen /\ (at' = "idle" => UNCHANGED link)
    BY <1>8 DEF ConfigureStreams, TypeOK, DataOK, Links, Begin
  <2> QED
    BY <1>1, <2>1, <2>2, DataKept
<1>9. CASE ConfigureStores
  BY <1>9, ConfigureStoresData
<1>10. CASE ConfigureProfile
  <2>1. at = "idle" /\ at' = "idle" /\ UNCHANGED <<rd, stores, started>>
    BY <1>10 DEF ConfigureProfile, Begin
  <2>2. CASE state = "RUNNING"
    <3>1. UNCHANGED link
      BY <1>10, <2>2 DEF ConfigureProfile, MaySwitchFormat
    <3> QED
      BY <1>1, <2>1, <3>1, DataKept
  <2>3. CASE state # "RUNNING"
    BY <1>2, <2>1, <2>3, DataWithoutReader
  <2> QED
    BY <2>2, <2>3
<1>11. CASE StartRecording \/ NewFile \/ EndRecording \/ RecordingFailed
  BY <1>1, <1>11, DataKept DEF StartRecording, NewFile, EndRecording, RecordingFailed, Abort, Begin
<1>12. CASE ListenLines \/ StopListening \/ EmitLinkStats
  BY <1>1, <1>12, DataKept DEF ListenLines, StopListening, EmitLinkStats, Abort, Begin
<1> QED
  BY <1>3, <1>4, <1>5, <1>6, <1>7, <1>8, <1>9, <1>10, <1>11, <1>12 DEF Slots

\* A step of a reader moves that reader only, and while it lives.
LEMMA ReaderMoves ==
  ASSUME TypeOK, NEW s \in Sessions, Reader(s)
  PROVE  /\ Alive(s) /\ UNCHANGED <<at, started>> /\ rd'[s].stop = rd[s].stop
         /\ \A q \in Sessions : q # s => rd'[q] = rd[q]
<1>1. rd[s].pc \notin {"none", "dead"} /\ UNCHANGED <<at, started>>
  BY DEF Reader, CheckStop, Read, ReportFailure, RecordChunk, FeedLink, GetStore,
     AppendRecords, ReaderAt, sessionVars
<1>2. \A q \in Sessions : q # s => rd'[q] = rd[q]
  BY Zenon DEF Reader, CheckStop, Read, ReportFailure, RecordChunk, FeedLink, GetStore,
     AppendRecords, Move, TypeOK, ReadersOK
<1>3. rd'[s].stop = rd[s].stop
  BY DEF Reader, CheckStop, Read, ReportFailure, RecordChunk, FeedLink, GetStore,
     AppendRecords, Move, TypeOK, ReadersOK, Readers
<1> QED
  BY <1>1, <1>2, <1>3 DEF Alive

\* A step of the reader that adds no row: what it has in hand still follows the rows.
LEMMA NoRowAdded ==
  ASSUME TypeOK, OneReader, DataInv, NEW s \in Sessions, Reader(s), UNCHANGED stores,
         link'.seen \subseteq {s}, Decoding(link)' = Decoding(link),
         rd'[s].pc \in {"get", "append"} => rd'[s].from = {s},
         rd'[s].pc = "append" => rd'[s].gen = stores.gen /\ stores.cfg # NoCfg,
         stores.rows # <<>> /\ Alive(s)' /\ Stores(s)' => Stores(s) /\ Stored(s)' = Stored(s)
  PROVE  DataInv'
<1>1. /\ Alive(s) /\ s = started /\ UNCHANGED <<at, started>>
      /\ \A q \in Sessions : q # s => rd'[q] = rd[q] /\ ~Alive(q)
  BY ReaderMoves, OnlyTheLast
<1>2. at \notin {"reset", "open"}
  BY <1>1, OnlyTheLast DEF OneReader, StateFits
<1>3. \A q \in Sessions : q # s => ~Alive(q)' /\ rd'[q].pc # "append"
  BY <1>1 DEF Alive
<1>4. BytesFit'
  BY <1>1, <1>2, <1>3 DEF BytesFit
<1>5. stores.gen \in Nat
  BY DEF TypeOK, DataOK, StoreStates
<1>6. StoresFit'
  BY <1>1, <1>2, <1>3, <1>5 DEF StoresFit, DataInv
<1>7. StoresHoldARun'
  BY <1>1 DEF DataInv, StoresHoldARun
<1>8. LastFits'
  BY <1>1, <1>3 DEF DataInv, LastFits
<1> QED
  BY <1>4, <1>6, <1>7, <1>8 DEF DataInv

\* run() and the recorder's part of _on_bytes count the reads, and add no row.
LEMMA RunData ==
  ASSUME TypeOK, OneReader, DataInv, NEW s \in Sessions,
         CheckStop(s) \/ Read(s) \/ ReportFailure(s) \/ RecordChunk(s)
  PROVE  DataInv'
<1>1. Reader(s) /\ UNCHANGED <<stores, link>>
  BY DEF Reader, CheckStop, Read, ReportFailure, RecordChunk
<1>2. rd \in [Sessions -> Readers] /\ rd[s].n \in Nat
  BY DEF TypeOK, ReadersOK, Readers
<1>3. link'.seen \subseteq {s} /\ Decoding(link)' = Decoding(link)
  BY <1>1, ReaderMoves DEF DataInv, BytesFit, Decoding
<1> DEFINE from == rd[s].pc
           to == rd'[s].pc
<1>4. /\ rd'[s].stop = rd[s].stop
      /\ \/ rd'[s].n = rd[s].n + 1 /\ from = "read" /\ to = "got"
         \/ /\ rd'[s].n = rd[s].n
            /\ \/ from = "top" /\ to = IF rd[s].stop THEN "dead" ELSE "read"
               \/ from = "got" /\ to = IF rd[s].stop THEN "top" ELSE "record"
               \/ from = "error" /\ to \in {"dead", "report"}
               \/ from = "read" /\ to \in {"top", "error"}
               \/ from = "report" /\ to = "dead"
               \/ from = "record" /\ to = "feed"
  <2>1. CASE CheckStop(s)
    BY <1>2, <2>1 DEF CheckStop, ReaderAt, Move, Readers
  <2>2. CASE Read(s)
    BY <1>2, <2>2 DEF Read, ReaderAt, Move, Readers
  <2>3. CASE ReportFailure(s) \/ RecordChunk(s)
    BY <1>2, <2>3 DEF ReportFailure, RecordChunk, ReaderAt, Move, Readers
  <2> QED
    BY <2>1, <2>2, <2>3
<1>5. Alive(s)' /\ Stores(s)' => Stores(s) /\ Stored(s)' = Stored(s)
  BY <1>2, <1>3, <1>4 DEF Alive, Stores, Stored
<1> QED
  BY <1>1, <1>3, <1>4, <1>5, NoRowAdded

\* The decoder's part of _on_bytes: a record of this session's bytes, or none.
LEMMA FeedData ==
  ASSUME TypeOK, OneReader, DataInv, NEW s \in Sessions, FeedLink(s)
  PROVE  DataInv'
<1>1. Reader(s) /\ UNCHANGED stores /\ rd[s].pc = "feed"
  BY DEF Reader, FeedLink, ReaderAt
<1>2. link'.seen = link.seen \cup {s} /\ link'.cfg = link.cfg /\ link'.fmt = link.fmt
  BY DEF FeedLink, TypeOK, DataOK, Links
<1>3. link'.seen = {s} /\ Decoding(link)' = Decoding(link)
  BY <1>1, <1>2, ReaderMoves DEF DataInv, BytesFit, Decoding
<1>4. /\ rd'[s].pc = IF Decoding(link) THEN "get" ELSE "top"
      /\ rd'[s].from = link'.seen /\ rd'[s].n = rd[s].n
  BY DEF FeedLink, TypeOK, ReadersOK, Readers
<1>5. Alive(s)' /\ Stores(s)' => Stores(s) /\ Stored(s)' = Stored(s)
  BY <1>1, <1>3, <1>4 DEF Stores, Stored
<1> QED
  BY <1>1, <1>3, <1>4, <1>5, NoRowAdded

\* Looking up the store: the present one, or none, and then there are no rows.
LEMMA GetData ==
  ASSUME TypeOK, OneReader, DataInv, NEW s \in Sessions, GetStore(s)
  PROVE  DataInv'
<1>1. Reader(s) /\ UNCHANGED <<stores, link>> /\ rd[s].pc = "get"
  BY DEF Reader, GetStore, ReaderAt
<1>2. link'.seen \subseteq {s} /\ Decoding(link)' = Decoding(link) /\ rd[s].from = {s}
  BY <1>1, ReaderMoves DEF DataInv, BytesFit, Decoding
<1>3. /\ rd'[s].pc = IF stores.cfg = NoCfg THEN "top" ELSE "append"
      /\ rd'[s].from = rd[s].from /\ rd'[s].n = rd[s].n /\ rd'[s].gen = stores.gen
  BY DEF GetStore, TypeOK, ReadersOK, Readers
<1>4. stores.rows # <<>> => stores.cfg # NoCfg
  BY DEF DataInv, StoresFit
<1>5. stores.rows # <<>> /\ Alive(s)' /\ Stores(s)' => Stores(s) /\ Stored(s)' = Stored(s)
  BY <1>1, <1>3, <1>4 DEF Stores, Stored
<1> QED
  BY <1>1, <1>2, <1>3, <1>5, NoRowAdded

\* append_records: the row of the read behind the last one, in the store looked up.
LEMMA AppendData ==
  ASSUME TypeOK, OneReader, DataInv, NEW s \in Sessions, AppendRecords(s)
  PROVE  DataInv'
<1>1. Reader(s) /\ UNCHANGED link /\ rd[s].pc = "append" /\ rd[s].n \in Nat
  BY DEF Reader, AppendRecords, ReaderAt, TypeOK, ReadersOK, Readers
<1>2. link'.seen \subseteq {s} /\ Decoding(link)' = Decoding(link) /\ rd[s].from = {s}
  BY <1>1, ReaderMoves DEF DataInv, BytesFit, Decoding
<1>3. rd'[s].pc = "top" /\ rd'[s].n = rd[s].n
  BY DEF AppendRecords, Move, TypeOK, ReadersOK, Readers
<1>4. CASE rd[s].gen # stores.gen
  <2>1. UNCHANGED stores /\ stores.rows = <<>>
    BY <1>1, <1>4 DEF AppendRecords, DataInv, StoresFit
  <2> QED
    BY <1>1, <1>2, <1>3, <2>1, NoRowAdded
<1>5. CASE rd[s].gen = stores.gen
  <2> DEFINE row == [sess |-> s, n |-> rd[s].n, cfg |-> rd[s].cfg, from |-> rd[s].from]
             rows == stores.rows
             len == Len(stores.rows)
  <2>1. /\ stores'.rows = Append(rows, row) /\ stores'.cfg = stores.cfg
        /\ stores.cfg # NoCfg /\ rows \in Seq(Rows) /\ len \in Nat
    <3>1. stores \in StoreStates /\ stores.cfg # NoCfg
      BY <1>1, <1>5 DEF DataInv, StoresFit, TypeOK, DataOK
    <3>2. stores' = [stores EXCEPT !.total = @ + 1, !.rows = Append(@, row)]
      BY <1>5, Zenon DEF AppendRecords
    <3> HIDE DEF row
    <3> QED
      BY <3>1, <3>2 DEF StoreStates
  <2>2. /\ Alive(s) /\ s = started /\ UNCHANGED <<at, started>>
        /\ \A q \in Sessions : q # s => rd'[q] = rd[q] /\ ~Alive(q)
    BY <1>1, ReaderMoves, OnlyTheLast
  <2>3. row.sess = started /\ row.from = {started} /\ row.n = rd[s].n
    BY <1>2, <2>2
  <2> HIDE DEF row
  <2>4. /\ DOMAIN stores'.rows = 1..(len + 1) /\ DOMAIN rows = 1..len
        /\ Len(stores'.rows) = len + 1 /\ stores'.rows[len + 1] = row
        /\ \A i \in 1..len : stores'.rows[i] = rows[i]
    BY <2>1
  <2>5. \A i \in 1..len : rows[i].sess = started /\ rows[i].from = {started}
    BY <2>1 DEF DataInv, StoresHoldARun
  <2>6. ASSUME at # "stores", NEW i \in 1..(len + 1)
        PROVE  stores'.rows[i].n = stores'.rows[1].n + i - 1
    <3>1. CASE rows = <<>>
      BY <3>1, <2>3, <2>4, <1>1
    <3>2. CASE rows # <<>>
      <4>1. len \in 1..len /\ 1 \in 1..len
        BY <3>2, <2>1
      <4>2. rows[len].n = rd[s].n - 1
        BY <1>1, <2>2, <2>6, <3>2 DEF DataInv, LastFits, Stores, Stored
      <4>3. \A j \in 1..len : rows[j].n = rows[1].n + j - 1 /\ rows[j].n \in Nat
        <5>1. \A j \in 1..len : rows[j] \in Rows
          BY <2>1
        <5>2. \A j \in 1..len : rows[j].n = rows[1].n + j - 1
          BY <2>4, <2>6 DEF DataInv, StoresHoldARun
        <5> QED
          BY <5>1, <5>2 DEF Rows
      <4>4. CASE i = len + 1
        <5>1. rd[s].n - 1 = rows[1].n + len - 1 /\ rows[1].n \in Nat
          BY <4>1, <4>2, <4>3
        <5>2. stores'.rows[i].n = rd[s].n /\ stores'.rows[1].n = rows[1].n
          BY <4>1, <4>4, <2>3, <2>4
        <5>3. \A a, b, c \in Nat : a - 1 = b + c - 1 => a = b + (c + 1) - 1
          OBVIOUS
        <5>4. rd[s].n \in Nat /\ len \in Nat
          BY <1>1, <2>1
        <5>5. rd[s].n = rows[1].n + (len + 1) - 1
          BY <5>1, <5>3, <5>4
        <5> QED
          BY <5>2, <5>5, <4>4
      <4>5. CASE i # len + 1
        BY <4>1, <4>3, <4>5, <2>1, <2>4
      <4> QED
        BY <4>4, <4>5
    <3> QED
      BY <3>1, <3>2
  <2>7. ASSUME NEW i \in 1..(len + 1)
        PROVE  stores'.rows[i].sess = started /\ stores'.rows[i].from = {started}
    BY <2>1, <2>3, <2>4, <2>5
  <2>8. StoresHoldARun'
    BY <2>2, <2>4, <2>6, <2>7 DEF StoresHoldARun
  <2>9. \A q \in Sessions : (q # s => ~Alive(q)') /\ rd'[q].pc # "append"
    BY <1>3, <2>2 DEF Alive
  <2>10. at \notin {"reset", "open"}
    BY <2>2, OnlyTheLast DEF OneReader, StateFits
  <2>11. BytesFit' /\ StoresFit'
    BY <1>2, <1>3, <2>1, <2>2, <2>9, <2>10 DEF BytesFit, StoresFit
  <2>12. Stored(s)' = rd[s].n
    BY <1>3 DEF Stored
  <2>13. LastFits'
    BY <2>3, <2>4, <2>9, <2>12 DEF LastFits
  <2> QED
    BY <2>8, <2>11, <2>13 DEF DataInv
<1> QED
  BY <1>4, <1>5

\* engine._start, "Clear buffers to prevent time travel artifacts", _on_bytes: when every
\* reader ends within the second stop() waits for it, the stores hold an unbroken run of
\* the last session's reads, each once and in order, with no byte of an earlier session.
THEOREM StoresKeepTheRun ==
  ASSUME JoinTimesOut = FALSE
  PROVE  Spec => []StoresHoldARun
<1> DEFINE Inv == TypeOK /\ OneReader /\ DataInv
<1>1. Init => Inv
  <2> SUFFICES ASSUME Init PROVE OneReader /\ DataInv
    BY InitType
  <2>1. \A s \in Sessions : rd[s].pc = "none"
    BY DEF Init, NoReader
  <2>2. OneReader
    BY <2>1 DEF Init, OneReader, StateFits, NoReaderOutlivesItsSession, JobIsLast, Alive
  <2>3. BytesFit /\ StoresFit /\ StoresHoldARun /\ LastFits
    BY <2>1 DEF Init, BytesFit, StoresFit, StoresHoldARun, LastFits, Alive
  <2> QED
    BY <2>2, <2>3 DEF DataInv
<1>2. Inv /\ [Next]_vars => Inv'
  <2> SUFFICES ASSUME Inv, [Next]_vars PROVE Inv'
    OBVIOUS
  <2>1. TypeOK' /\ OneReader'
    BY StepType, StepOneReader
  <2>2. CASE Slots \/ EmitLinkStats
    BY <2>1, <2>2, SlotsData
  <2>3. ASSUME NEW s \in Sessions, Reader(s) PROVE DataInv'
    BY <2>3, RunData, FeedData, GetData, AppendData DEF Reader
  <2>4. CASE (\E c \in UserCalls : Post(c)) \/ UNCHANGED vars
    <3>1. UNCHANGED <<at, stores, link, started, rd>>
      BY <2>4 DEF Post, vars, sessionVars, dataVars
    <3>2. SameReaders
      BY <3>1 DEF SameReaders
    <3> QED
      BY <2>1, <3>1, <3>2, DataKept
  <2> QED
    BY <2>1, <2>2, <2>3, <2>4 DEF Next
<1>3. Inv => StoresHoldARun
  BY DEF DataInv
<1> QED
  BY <1>1, <1>2, <1>3, PTL DEF Spec

----------------------------------------------------------------------------
(***************************************************************************)
(* RecordingsAreComplete, under the same condition: the file being written *)
(* has the last read the session's reader has passed to the recorder,      *)
(* until the reader drops a read because it is told to stop.               *)
(***************************************************************************)

RunsFit ==
    \A f \in DOMAIN files : \A i \in DOMAIN files[f] :
        /\ files[f][i].sess = files[f][1].sess
        /\ files[f][i].n = files[f][1].n + i - 1

NotStopped == session # None => ~rd[session].stop

Recorded(s) == IF rd[s].pc \in {"got", "record"} THEN rd[s].n - 1 ELSE rd[s].n
Follows(s) ==
    /\ s = session \/ Alive(s)
    /\ ~(rd[s].stop /\ rd[s].pc \in {"top", "dead"})
LastChunk ==
    recorder # None /\ files[recorder] # <<>> =>
        LET last == files[recorder][Len(files[recorder])] IN
        \A s \in Sessions : Follows(s) => last.sess = s /\ last.n = Recorded(s)

RecInv == RunsFit /\ NotStopped /\ LastChunk

\* Slots that record nothing more: they may end the recording, the session, or both.
LEMMA RecKept ==
  ASSUME TypeOK, RecInv, SameReaders, UNCHANGED files, recorder' \in {recorder, None},
         session' \in {session, None}, session' # None => UNCHANGED rd
  PROVE  RecInv'
<1>1. RunsFit' /\ NotStopped'
  BY DEF RecInv, RunsFit, NotStopped
<1>2. \A s \in Sessions : Follows(s)' => Follows(s) /\ Recorded(s)' = Recorded(s)
  BY DEF SameReaders, Follows, Recorded, Alive
<1>3. LastChunk'
  BY <1>2 DEF RecInv, LastChunk
<1> QED
  BY <1>1, <1>3 DEF RecInv

\* start_recording: the new file is empty.
LEMMA NewFileRec ==
  TypeOK /\ RecInv /\ NewFile => RecInv'
<1> SUFFICES ASSUME TypeOK, RecInv, NewFile PROVE RecInv'
  OBVIOUS
<1>1. UNCHANGED <<rd, session>>
  BY DEF NewFile, sessionVars
<1>2. CASE UNCHANGED <<files, recorder>>
  <2>1. SameReaders
    BY <1>1 DEF SameReaders
  <2> QED
    BY <1>1, <1>2, <2>1, RecKept
<1>3. CASE files' = Append(files, <<>>) /\ recorder' = Len(files) + 1
  <2>1. /\ Len(files) \in Nat /\ files'[recorder'] = <<>>
        /\ DOMAIN files' = 1..(Len(files) + 1) /\ DOMAIN files = 1..Len(files)
        /\ \A f \in 1..Len(files) : files'[f] = files[f]
    BY <1>3 DEF TypeOK, RecordingOK
  <2>2. RunsFit'
    <3> SUFFICES ASSUME NEW f \in 1..(Len(files) + 1), NEW i \in DOMAIN files'[f]
                 PROVE  /\ files'[f][i].sess = files'[f][1].sess
                        /\ files'[f][i].n = files'[f][1].n + i - 1
      BY <2>1 DEF RunsFit
    <3>1. f \in 1..Len(files)
      BY <1>3, <2>1
    <3> QED
      BY <2>1, <3>1 DEF RecInv, RunsFit
  <2>3. NotStopped' /\ LastChunk'
    BY <1>1, <2>1 DEF RecInv, NotStopped, LastChunk
  <2> QED
    BY <2>2, <2>3 DEF RecInv
<1> QED
  BY <1>2, <1>3 DEF NewFile

\* The end of _start: nothing is recorded when a session begins.
LEMMA OpenRec ==
  TypeOK /\ StateFits /\ RecordsOnlyWhileRunning /\ RecInv /\ OpenTransport => RecInv'
<1> SUFFICES ASSUME TypeOK, StateFits, RecordsOnlyWhileRunning, RecInv, OpenTransport
             PROVE  RecInv'
  OBVIOUS
<1>1. recorder = None /\ UNCHANGED <<files, recorder>>
  BY DEF OpenTransport, StateFits, RecordsOnlyWhileRunning, recVars
<1>2. RunsFit' /\ LastChunk'
  BY <1>1 DEF RecInv, RunsFit, LastChunk
<1>3. NotStopped'
  <2>1. CASE UNCHANGED <<session, rd>>
    BY <2>1 DEF RecInv, NotStopped
  <2>2. CASE session' = job.id /\ rd' = [rd EXCEPT ![job.id] = NewReader(job.kind, job.fmt)]
    <3>1. job.id \in Sessions
      BY DEF TypeOK, ThreadOK, JobFits, Jobs, OpenTransport
    <3>2. rd'[job.id] = NewReader(job.kind, job.fmt)
      BY <2>2, <3>1 DEF TypeOK, ReadersOK
    <3>3. NewReader(job.kind, job.fmt).stop = FALSE
      BY DEF NewReader, NoReader
    <3> QED
      BY <2>2, <3>2, <3>3 DEF NotStopped
  <2> QED
    BY <2>1, <2>2 DEF OpenTransport, sessionVars
<1> QED
  BY <1>2, <1>3 DEF RecInv

\* Every slot of the engine thread keeps the recordings whole.
LEMMA SlotsRec ==
  TypeOK /\ StateFits /\ RecordsOnlyWhileRunning /\ RecInv /\ (Slots \/ EmitLinkStats)
    => RecInv'
<1> SUFFICES ASSUME TypeOK, StateFits, RecordsOnlyWhileRunning, RecInv, Slots \/ EmitLinkStats
             PROVE  RecInv'
  OBVIOUS
<1> USE DEF sessionVars, recVars
<1>1. UNCHANGED rd => SameReaders
  BY DEF SameReaders
<1>2. CASE NewFile
  BY <1>2, NewFileRec
<1>3. CASE OpenTransport
  BY <1>3, OpenRec
<1>4. CASE StopWorking \/ ReaderFailed
  <2>1. UNCHANGED <<files, recorder>>
    BY <1>4 DEF StopWorking, ReaderFailed
  <2>2. \/ UNCHANGED <<rd, session>>
        \/ rd' = [rd EXCEPT ![session].stop = TRUE] /\ session' = None
    BY <1>4 DEF StopWorking, ReaderFailed, BeginStop
  <2>3. SameReaders
    BY <1>1, <2>2, StoppedIsSame
  <2> QED
    BY <2>1, <2>2, <2>3, RecKept
<1>5. CASE StartWorking \/ StartReplay \/ ResetLink
  BY <1>1, <1>5, RecKept DEF StartWorking, StartReplay, ResetLink
<1>6. CASE JoinReader \/ WrapUp
  BY <1>1, <1>6, RecKept DEF JoinReader, WrapUp, StopRecording, Abort
<1>7. CASE ConfigureStreams \/ ConfigureStores \/ ConfigureProfile
  BY <1>1, <1>7, RecKept DEF ConfigureStreams, ConfigureStores, ConfigureProfile
<1>8. CASE StartRecording \/ EndRecording \/ RecordingFailed
  BY <1>1, <1>8, RecKept DEF StartRecording, EndRecording, RecordingFailed, StopRecording, Abort
<1>9. CASE ListenLines \/ StopListening \/ EmitLinkStats
  BY <1>1, <1>9, RecKept DEF ListenLines, StopListening, EmitLinkStats, Abort
<1> QED
  BY <1>2, <1>3, <1>4, <1>5, <1>6, <1>7, <1>8, <1>9 DEF Slots

\* The reader that lives is the only one the recordings know.
LEMMA OnlyFollower ==
  ASSUME TypeOK, OneReader, NEW s \in Sessions, Alive(s),
         NEW q \in Sessions, q = session \/ Alive(q)
  PROVE  q = s
BY OnlyTheLast DEF TypeOK, SessionOK, OneReader, NoReaderOutlivesItsSession, StateFits

\* A step of the reader that records nothing: it is as far behind the file as before.
LEMMA NothingRecorded ==
  ASSUME TypeOK, OneReader, RecInv, NEW s \in Sessions, Reader(s), UNCHANGED <<files, session>>,
         recorder' \in {recorder, None},
         recorder # None /\ recorder' # None /\ Follows(s)' => Follows(s) /\ Recorded(s)' = Recorded(s)
  PROVE  RecInv'
<1>1. RunsFit'
  BY DEF RecInv, RunsFit
<1>2. NotStopped'
  BY ReaderMoves DEF RecInv, NotStopped, TypeOK, SessionOK
<1>3. \A q \in Sessions : Follows(q)' => q = s
  <2> SUFFICES ASSUME NEW q \in Sessions, Follows(q)', q # s PROVE FALSE
    OBVIOUS
  <2>1. q = session \/ Alive(q)
    BY ReaderMoves DEF Follows, Alive
  <2> QED
    BY <2>1, ReaderMoves, OnlyFollower
<1>4. LastChunk'
  BY <1>3 DEF RecInv, LastChunk
<1> QED
  BY <1>1, <1>2, <1>4 DEF RecInv

\* run(), the decoder's and the stores' part of _on_bytes record nothing.
LEMMA RunRec ==
  ASSUME TypeOK, OneReader, RecInv, NEW s \in Sessions,
         CheckStop(s) \/ Read(s) \/ ReportFailure(s) \/ FeedLink(s) \/ GetStore(s) \/ AppendRecords(s)
  PROVE  RecInv'
<1>1. Reader(s) /\ UNCHANGED <<files, recorder, session>>
  BY DEF Reader, CheckStop, Read, ReportFailure, FeedLink, GetStore, AppendRecords, ReaderAt,
     sessionVars
<1>2. rd \in [Sessions -> Readers] /\ rd[s].n \in Nat
  BY DEF TypeOK, ReadersOK, Readers
<1> DEFINE from == rd[s].pc
           to == rd'[s].pc
<1>3. /\ rd'[s].stop = rd[s].stop
      /\ \/ rd'[s].n = rd[s].n + 1 /\ from = "read" /\ to = "got"
         \/ /\ rd'[s].n = rd[s].n
            /\ \/ from = "top" /\ to = IF rd[s].stop THEN "dead" ELSE "read"
               \/ from = "got" /\ to = IF rd[s].stop THEN "top" ELSE "record"
               \/ from = "error" /\ to = IF rd[s].stop THEN "dead" ELSE "report"
               \/ from = "read" /\ to \in {"top", "error"}
               \/ from = "report" /\ to = "dead"
               \/ from = "feed" /\ to \in {"get", "top"}
               \/ from = "get" /\ to \in {"append", "top"}
               \/ from = "append" /\ to = "top"
  <2>1. CASE CheckStop(s)
    BY <1>2, <2>1 DEF CheckStop, ReaderAt, Move, Readers
  <2>2. CASE Read(s)
    BY <1>2, <2>2 DEF Read, ReaderAt, Move, Readers
  <2>3. CASE ReportFailure(s) \/ AppendRecords(s)
    BY <1>2, <2>3 DEF ReportFailure, AppendRecords, ReaderAt, Move, Readers
  <2>4. CASE FeedLink(s)
    BY <1>2, <2>4 DEF FeedLink, ReaderAt, Readers
  <2>5. CASE GetStore(s)
    BY <1>2, <2>5 DEF GetStore, ReaderAt, Readers
  <2> QED
    BY <2>1, <2>2, <2>3, <2>4, <2>5
<1>4. Follows(s)' => Follows(s) /\ Recorded(s)' = Recorded(s)
  BY <1>1, <1>2, <1>3 DEF Follows, Recorded, Alive
<1> QED
  BY <1>1, <1>4, NothingRecorded

\* The recorder's part of _on_bytes: the read behind the last one, or the file given up.
LEMMA ChunkRec ==
  ASSUME TypeOK, OneReader, RecInv, NEW s \in Sessions, RecordChunk(s)
  PROVE  RecInv'
<1>1. Reader(s) /\ rd[s].pc = "record" /\ UNCHANGED session
  BY DEF Reader, RecordChunk, ReaderAt, sessionVars
<1>2. rd'[s].pc = "feed" /\ rd'[s].n = rd[s].n /\ rd[s].n \in Nat
  BY DEF RecordChunk, Move, TypeOK, ReadersOK, Readers
<1>3. CASE recorder = None \/ recorder' = None
  <2>1. UNCHANGED files /\ recorder' = None
    BY <1>3 DEF RecordChunk
  <2> QED
    BY <1>1, <2>1, NothingRecorded
<1>4. CASE recorder # None /\ recorder' # None
  <2> DEFINE file == files[recorder]
             len == Len(file)
             c == Chunk(s)
  <2>1. recorder' = recorder /\ files' = [files EXCEPT ![recorder] = Append(file, c)]
    BY <1>4 DEF RecordChunk
  <2>2. c.sess = s /\ c.n = rd[s].n
    BY DEF Chunk
  <2> HIDE DEF c
  <2>3. recorder \in DOMAIN files /\ file \in Seq(Chunks) /\ len \in Nat
    BY <1>4 DEF TypeOK, RecordingOK
  <2>4. /\ DOMAIN files' = DOMAIN files /\ files'[recorder] = Append(file, c)
        /\ \A f \in DOMAIN files : f # recorder => files'[f] = files[f]
    BY <2>1, <2>3 DEF TypeOK, RecordingOK
  <2> DEFINE new == files'[recorder]
  <2>5. /\ DOMAIN new = 1..(len + 1) /\ DOMAIN file = 1..len
        /\ Len(new) = len + 1 /\ new[len + 1] = c /\ \A i \in 1..len : new[i] = file[i]
    BY <2>3, <2>4
  <2>6. Follows(s) /\ Recorded(s) = rd[s].n - 1
    BY <1>1, ReaderMoves DEF Follows, Recorded
  <2>7. ASSUME file # <<>>
        PROVE  /\ 1 \in 1..len /\ file[1].sess = s
               /\ rd[s].n = file[1].n + (len + 1) - 1
    <3>1. len \in 1..len /\ 1 \in 1..len
      BY <2>3, <2>7
    <3>2. file[len].sess = s /\ file[len].n = rd[s].n - 1
      BY <1>4, <2>6, <2>7 DEF RecInv, LastChunk
    <3>3. file[len].sess = file[1].sess /\ file[len].n = file[1].n + len - 1
      BY <2>3, <2>5, <3>1 DEF RecInv, RunsFit
    <3>4. file[1].n \in Nat
      <4>1. file[1] \in Chunks
        BY <2>3, <3>1
      <4> QED
        BY <4>1 DEF Chunks
    <3>5. \A a, b, d \in Nat : a - 1 = b + d - 1 => a = b + (d + 1) - 1
      OBVIOUS
    <3>6. rd[s].n - 1 = file[1].n + len - 1
      BY <3>2, <3>3
    <3>7. rd[s].n \in Nat /\ len \in Nat
      BY <1>2, <2>3
    <3>8. rd[s].n = file[1].n + (len + 1) - 1
      BY <3>4, <3>5, <3>6, <3>7
    <3> QED
      BY <3>1, <3>2, <3>3, <3>8
  <2>8. ASSUME NEW i \in 1..(len + 1)
        PROVE  new[i].sess = new[1].sess /\ new[i].n = new[1].n + i - 1
    <3>1. CASE file = <<>>
      BY <1>2, <2>2, <2>5, <3>1
    <3>2. CASE file # <<>> /\ i = len + 1
      BY <2>2, <2>5, <2>7, <3>2
    <3>3. CASE file # <<>> /\ i # len + 1
      <4>1. i \in 1..len
        BY <2>3, <3>3
      <4> QED
        BY <2>3, <2>5, <2>7, <3>3, <4>1 DEF RecInv, RunsFit
    <3> QED
      BY <3>1, <3>2, <3>3
  <2> HIDE DEF new, file, len
  <2>9. RunsFit'
    <3> SUFFICES ASSUME NEW f \in DOMAIN files, NEW i \in DOMAIN files'[f]
                 PROVE  /\ files'[f][i].sess = files'[f][1].sess
                        /\ files'[f][i].n = files'[f][1].n + i - 1
      BY <2>4 DEF RunsFit
    <3>1. CASE f = recorder
      <4>1. i \in 1..(len + 1) /\ files'[f] = new
        BY <2>5, <3>1 DEF new
      <4> QED
        BY <2>8, <4>1
    <3>2. CASE f # recorder
      BY <2>4, <3>2 DEF RecInv, RunsFit
    <3> QED
      BY <3>1, <3>2
  <2>10. NotStopped'
    BY <1>1, ReaderMoves DEF RecInv, NotStopped, TypeOK, SessionOK
  <2>11. \A q \in Sessions : Follows(q)' => q = s
    <3> SUFFICES ASSUME NEW q \in Sessions, Follows(q)', q # s PROVE FALSE
      OBVIOUS
    <3>1. q = session \/ Alive(q)
      BY <1>1, ReaderMoves DEF Follows, Alive
    <3> QED
      BY <1>1, <3>1, ReaderMoves, OnlyFollower
  <2>12. Recorded(s)' = rd[s].n
    BY <1>2 DEF Recorded
  <2>13. LastChunk'
    BY <2>1, <2>2, <2>5, <2>11, <2>12 DEF LastChunk, new
  <2> QED
    BY <2>9, <2>10, <2>13 DEF RecInv
<1> QED
  BY <1>3, <1>4

\* engine._on_bytes, start_recording: when every reader ends within the second stop()
\* waits for it, a recording is an unbroken run of one session's reads, and the one being
\* written has every read passed to the recorder since its first, write errors included.
THEOREM RecordingsKeepTheRun ==
  ASSUME JoinTimesOut = FALSE
  PROVE  Spec => []RecordingsAreComplete
<1> DEFINE Inv == TypeOK /\ OneReader /\ RecordsOnlyWhileRunning /\ RecInv
<1>1. Init => Inv
  <2> SUFFICES ASSUME Init PROVE OneReader /\ RecordsOnlyWhileRunning /\ RecInv
    BY InitType
  <2>1. \A s \in Sessions : rd[s].pc = "none"
    BY DEF Init, NoReader
  <2>2. OneReader
    BY <2>1 DEF Init, OneReader, StateFits, NoReaderOutlivesItsSession, JobIsLast, Alive
  <2>3. RecordsOnlyWhileRunning /\ RecInv
    BY DEF Init, RecordsOnlyWhileRunning, RecInv, RunsFit, NotStopped, LastChunk
  <2> QED
    BY <2>2, <2>3
<1>2. Inv /\ [Next]_vars => Inv'
  <2> SUFFICES ASSUME Inv, [Next]_vars PROVE Inv'
    OBVIOUS
  <2>1. TypeOK' /\ OneReader'
    BY StepType, StepOneReader
  <2>2. RecordsOnlyWhileRunning'
    BY StepRecords DEF OneReader
  <2>3. RecInv'
    <3>1. CASE Slots \/ EmitLinkStats
      BY <3>1, SlotsRec DEF OneReader
    <3>2. ASSUME NEW s \in Sessions, Reader(s) PROVE RecInv'
      BY <3>2, RunRec, ChunkRec DEF Reader
    <3>3. CASE (\E c \in UserCalls : Post(c)) \/ UNCHANGED vars
      <4>1. UNCHANGED <<files, recorder, session, rd>>
        BY <3>3 DEF Post, vars, sessionVars, recVars
      <4>2. SameReaders
        BY <4>1 DEF SameReaders
      <4> QED
        BY <4>1, <4>2, RecKept
    <3> QED
      BY <3>1, <3>2, <3>3 DEF Next
  <2> QED
    BY <2>1, <2>2, <2>3
<1>3. Inv => RecordingsAreComplete
  <2> SUFFICES ASSUME Inv, recorder # None, files[recorder] # <<>>, session # None
               PROVE  LET last == files[recorder][Len(files[recorder])]
                      IN  last.sess = session /\ last.n = Recorded(session)
    BY DEF RecInv, RunsFit, RecordingsAreComplete, Recorded
  <2>1. session \in Sessions /\ Follows(session)
    BY DEF TypeOK, SessionOK, RecInv, NotStopped, Follows
  <2> QED
    BY <2>1 DEF RecInv, LastChunk
<1> QED
  BY <1>1, <1>2, <1>3, PTL DEF Spec

----------------------------------------------------------------------------
(***************************************************************************)
(* LateReadersAddOneRead needs no bound on the join.  A reader that has    *)
(* been told to stop may be inside _on_bytes (Midway), then it has added   *)
(* nothing to the present stores since they were cleared, nor, before the  *)
(* recorder's part, to the present file; or it is not, then it does not    *)
(* get there any more.  While a session is being started there is none     *)
(* that may add more than one row.                                         *)
(***************************************************************************)

NoneOf(s, chunks) == \A i \in DOMAIN chunks : chunks[i].sess # s
AtMostOne(s, chunks) ==
    \A i, j \in DOMAIN chunks : chunks[i].sess = s /\ chunks[j].sess = s => i = j

Midway == {"record", "feed", "get", "append"}
ToldToStop == \A s \in Sessions : Alive(s) => s = session \/ rd[s].stop

LateRows(s) ==
    AtMostOne(s, stores.rows) /\ (rd[s].pc \in Midway => NoneOf(s, stores.rows))
LateStores ==
    \A s \in Sessions : LateRows(s) \/ (s = started /\ at \notin {"reset", "open"})

LateChunks(s) ==
    AtMostOne(s, files[recorder]) /\ (rd[s].pc = "record" => NoneOf(s, files[recorder]))
LateFile ==
    recorder # None =>
        started \in Sessions /\ \A s \in Sessions : s = started \/ LateChunks(s)
LateFiles == \A f \in DOMAIN files : \E s \in Sessions : OnceButFor(s, files[f])

LateInv == ToldToStop /\ LateStores /\ LateFile /\ LateFiles

\* A sequence with one more chunk: its session is in it once if it was not in it before.
LEMMA OneMore ==
  ASSUME NEW D, NEW q \in Seq(D), NEW e \in D, NEW s
  PROVE  /\ AtMostOne(s, q) /\ (e.sess = s => NoneOf(s, q)) => AtMostOne(s, Append(q, e))
         /\ NoneOf(s, q) /\ e.sess # s => NoneOf(s, Append(q, e))
<1>1. /\ DOMAIN q = 1..Len(q) /\ DOMAIN Append(q, e) = 1..(Len(q) + 1) /\ Len(q) \in Nat
      /\ Append(q, e)[Len(q) + 1] = e /\ \A i \in 1..Len(q) : Append(q, e)[i] = q[i]
  OBVIOUS
<1>2. \A i \in DOMAIN Append(q, e) : i = Len(q) + 1 \/ i \in 1..Len(q)
  BY <1>1
<1>3. ASSUME AtMostOne(s, q), e.sess = s => NoneOf(s, q)
      PROVE  AtMostOne(s, Append(q, e))
  BY <1>1, <1>2, <1>3 DEF AtMostOne, NoneOf
<1>4. ASSUME NoneOf(s, q), e.sess # s PROVE NoneOf(s, Append(q, e))
  BY <1>1, <1>2, <1>4 DEF NoneOf
<1> QED
  BY <1>3, <1>4

\* Where every session but one has at most one chunk, all are there once but for that one.
LEMMA OnceIsAtMostOne ==
  ASSUME NEW last, NEW chunks, \A i \in DOMAIN chunks : chunks[i].sess \in Sessions,
         \A s \in Sessions : s = last \/ AtMostOne(s, chunks)
  PROVE  OnceButFor(last, chunks)
BY DEF OnceButFor, AtMostOne

\* A reader that was told to stop gets nowhere near _on_bytes again once it has left it.
LEMMA ToldMoves ==
  ASSUME TypeOK, NEW s \in Sessions, Reader(s), rd[s].stop
  PROVE  /\ rd'[s].pc \in Midway => rd[s].pc \in Midway
         /\ rd'[s].pc # "record"
<1>1. rd \in [Sessions -> Readers] /\ rd[s] \in Readers
  BY DEF TypeOK, ReadersOK
<1>2. CASE CheckStop(s) \/ Read(s) \/ ReportFailure(s)
  BY <1>1, <1>2 DEF CheckStop, Read, ReportFailure, ReaderAt, Move, Readers, Midway
<1>3. CASE RecordChunk(s) \/ FeedLink(s) \/ GetStore(s) \/ AppendRecords(s)
  BY <1>1, <1>3 DEF RecordChunk, FeedLink, GetStore, AppendRecords, ReaderAt, Move, Readers, Midway
<1> QED
  BY <1>2, <1>3 DEF Reader

\* run() and _on_bytes leave every reader told that was, and bring none to life.
LEMMA ReaderTold ==
  ASSUME TypeOK, ToldToStop, NEW s \in Sessions, Reader(s)
  PROVE  ToldToStop'
<1> SUFFICES ASSUME NEW q \in Sessions, Alive(q)' PROVE q = session' \/ rd'[q].stop
  BY DEF ToldToStop
<1>1. Alive(q) /\ UNCHANGED session
  BY ReaderStaysDead
<1>2. rd'[q].stop = rd[q].stop
  BY ReaderMoves
<1> QED
  BY <1>1, <1>2 DEF ToldToStop

\* A reader whose session is not the one that reads now has been told to stop.
LEMMA LateIsTold ==
  ASSUME TypeOK, StateFits, ToldToStop, NEW s \in Sessions, Alive(s),
         s # started \/ at \in {"reset", "open"}
  PROVE  rd[s].stop
BY DEF TypeOK, SessionOK, StateFits, ToldToStop

\* append_records: a late reader adds a row where it had none.
LEMMA ReaderStores ==
  ASSUME TypeOK, StateFits, ToldToStop, LateStores, NEW s \in Sessions, Reader(s)
  PROVE  LateStores'
<1> SUFFICES ASSUME NEW q \in Sessions, q # started \/ at \in {"reset", "open"}
             PROVE  LateRows(q)'
  BY ReaderMoves DEF LateStores
<1>1. LateRows(q)
  BY DEF LateStores
<1>2. rd'[q].pc \in Midway => rd[q].pc \in Midway
  BY ReaderMoves, LateIsTold, ToldMoves
<1>3. CASE stores'.rows = stores.rows
  BY <1>1, <1>2, <1>3 DEF LateRows
<1>4. CASE stores'.rows # stores.rows
  <2>1. AppendRecords(s) /\ rd[s].gen = stores.gen
    BY <1>4 DEF Reader, CheckStop, Read, ReportFailure, RecordChunk, FeedLink, GetStore, AppendRecords
  <2> DEFINE row == [sess |-> s, n |-> rd[s].n, cfg |-> rd[s].cfg, from |-> rd[s].from]
  <2>2. row \in Rows /\ row.sess = s
    BY DEF TypeOK, ReadersOK, Readers, Rows
  <2>3. stores'.rows = Append(stores.rows, row) /\ stores.rows \in Seq(Rows)
    <3>1. stores \in StoreStates
      BY DEF TypeOK, DataOK
    <3>2. stores' = [stores EXCEPT !.total = @ + 1, !.rows = Append(@, row)]
      BY <2>1, Zenon DEF AppendRecords
    <3> HIDE DEF row
    <3> QED
      BY <3>1, <3>2 DEF StoreStates
  <2>4. rd[s].pc = "append" /\ rd'[s].pc = "top"
    BY <2>1 DEF AppendRecords, ReaderAt, Move, TypeOK, ReadersOK, Readers
  <2> HIDE DEF row
  <2>5. s = q => NoneOf(q, stores.rows)
    BY <1>1, <2>4 DEF LateRows, Midway
  <2>6. AtMostOne(q, stores'.rows)
    BY <1>1, <2>2, <2>3, <2>5, OneMore DEF LateRows
  <2>7. s # q /\ NoneOf(q, stores.rows) => NoneOf(q, stores'.rows)
    BY <2>2, <2>3, OneMore
  <2> QED
    BY <1>1, <1>2, <2>4, <2>6, <2>7 DEF LateRows, Midway
<1> QED
  BY <1>3, <1>4

\* The recorder's part of _on_bytes: a late reader writes a chunk where it had none.
LEMMA ReaderFiles ==
  ASSUME TypeOK, StateFits, ToldToStop, LateFile, LateFiles, NEW s \in Sessions, Reader(s)
  PROVE  LateFile' /\ LateFiles'
<1>1. ASSUME NEW q \in Sessions, q # started PROVE rd'[q].pc = "record" => rd[q].pc = "record"
  BY <1>1, ReaderMoves, LateIsTold, ToldMoves
<1>2. CASE UNCHANGED files
  <2>1. recorder' \in {recorder, None} /\ UNCHANGED started
    BY <1>2, ReaderMoves DEF Reader, CheckStop, Read, ReportFailure, RecordChunk, FeedLink,
       GetStore, AppendRecords
  <2> QED
    BY <1>1, <1>2, <2>1 DEF LateFile, LateFiles, LateChunks
<1>3. CASE ~UNCHANGED files
  <2> DEFINE c == Chunk(s)
             file == files[recorder]
  <2>1. /\ recorder # None /\ UNCHANGED <<recorder, started>> /\ RecordChunk(s)
        /\ files' = [files EXCEPT ![recorder] = Append(file, c)]
    BY <1>3, ReaderMoves DEF Reader, CheckStop, Read, ReportFailure, RecordChunk, FeedLink,
       GetStore, AppendRecords
  <2>2. c \in Chunks /\ c.sess = s
    BY DEF Chunk, Chunks, TypeOK, ReadersOK, Readers
  <2> HIDE DEF c
  <2>3. recorder \in DOMAIN files /\ file \in Seq(Chunks)
    BY <2>1 DEF TypeOK, RecordingOK
  <2>4. /\ DOMAIN files' = DOMAIN files /\ files'[recorder] = Append(file, c)
        /\ \A f \in DOMAIN files : f # recorder => files'[f] = files[f]
    BY <2>1, <2>3 DEF TypeOK, RecordingOK
  <2>5. rd[s].pc = "record" /\ rd'[s].pc = "feed"
    BY <2>1 DEF RecordChunk, ReaderAt, Move, TypeOK, ReadersOK, Readers
  <2>6. started \in Sessions
    BY <2>1 DEF LateFile
  <2>7. ASSUME NEW q \in Sessions, q # started PROVE LateChunks(q)'
    <3>1. LateChunks(q)
      BY <2>1, <2>7 DEF LateFile
    <3>2. q = s => NoneOf(q, file)
      BY <2>5, <3>1 DEF LateChunks
    <3>3. AtMostOne(q, Append(file, c))
      BY <2>2, <2>3, <3>1, <3>2, OneMore DEF LateChunks
    <3>4. q # s /\ NoneOf(q, file) => NoneOf(q, Append(file, c))
      BY <2>2, <2>3, OneMore
    <3>5. rd'[q].pc = "record" => q # s /\ NoneOf(q, file)
      BY <1>1, <2>5, <2>7, <3>1 DEF LateChunks
    <3> QED
      BY <2>1, <2>4, <3>3, <3>4, <3>5 DEF LateChunks
  <2>8. LateFile'
    BY <2>1, <2>6, <2>7 DEF LateFile
  <2>9. OnceButFor(started, files'[recorder])
    <3>1. files'[recorder] \in Seq(Chunks)
      BY <2>2, <2>3, <2>4
    <3>2. ASSUME NEW i \in DOMAIN files'[recorder] PROVE files'[recorder][i].sess \in Sessions
      <4>1. files'[recorder][i] \in Chunks
        BY <3>1, <3>2
      <4> QED
        BY <4>1 DEF Chunks
    <3>3. \A q \in Sessions : q = started \/ AtMostOne(q, files'[recorder])
      BY <2>1, <2>7 DEF LateChunks
    <3> QED
      BY <3>2, <3>3, OnceIsAtMostOne
  <2>10. LateFiles'
    BY <2>4, <2>6, <2>9 DEF LateFiles
  <2> QED
    BY <2>8, <2>10
<1> QED
  BY <1>2, <1>3

\* Slots that start no reader and clear the stores or leave them: none gets more to add.
LEMMA LateKept ==
  ASSUME TypeOK, LateInv, SameReaders, UNCHANGED <<started, files>>,
         stores'.rows \in {stores.rows, <<>>}, recorder' \in {recorder, None},
         at' \in {"reset", "open"} => at \in {"reset", "open"} \/ stores'.rows = <<>>,
         session' = session \/ (session' = None /\ (session # None => rd'[session].stop))
  PROVE  LateInv'
<1> USE DEF LateInv
<1>1. ToldToStop'
  BY DEF ToldToStop, SameReaders, Alive
<1>2. LateStores'
  <2>1. ASSUME NEW s \in Sessions, LateRows(s) \/ stores'.rows = <<>> PROVE LateRows(s)'
    BY <2>1 DEF LateRows, SameReaders, AtMostOne, NoneOf
  <2> QED
    BY <2>1 DEF LateStores
<1>3. LateFile' /\ LateFiles'
  <2>1. \A s \in Sessions : recorder' # None /\ LateChunks(s) => LateChunks(s)'
    BY DEF LateChunks, SameReaders
  <2> QED
    BY <2>1 DEF LateFile, LateFiles
<1> QED
  BY <1>1, <1>2, <1>3

\* The end of _start: of every earlier session at most one row came in since the clear.
LEMMA OpenLate ==
  TypeOK /\ StateFits /\ RecordsOnlyWhileRunning /\ LateInv /\ OpenTransport => LateInv'
<1> SUFFICES ASSUME TypeOK, StateFits, RecordsOnlyWhileRunning, LateInv, OpenTransport PROVE LateInv'
  OBVIOUS
<1>1. /\ recorder = None /\ session = None /\ at = "open" /\ at' = "idle"
      /\ UNCHANGED <<files, recorder, stores>>
  BY DEF OpenTransport, StateFits, RecordsOnlyWhileRunning, recVars, dataVars, Done, Goto,
     TypeOK, SessionOK
<1>2. LateFile' /\ LateFiles'
  BY <1>1 DEF LateInv, LateFile, LateFiles
<1>3. \A s \in Sessions : LateRows(s)
  BY <1>1 DEF LateInv, LateStores
<1>4. CASE UNCHANGED <<started, session, rd>>
  BY <1>1, <1>2, <1>3, <1>4 DEF LateInv, ToldToStop, Alive, LateStores, LateRows
<1>5. CASE /\ started' = job.id /\ session' = job.id
           /\ rd' = [rd EXCEPT ![job.id] = NewReader(job.kind, job.fmt)]
  <2>1. \A s \in Sessions : s # job.id => rd'[s] = rd[s]
    BY <1>5 DEF TypeOK, ReadersOK
  <2>2. ToldToStop'
    BY <1>1, <1>5, <2>1 DEF LateInv, ToldToStop, Alive
  <2>3. LateStores'
    BY <1>1, <1>3, <1>5, <2>1 DEF LateStores, LateRows
  <2> QED
    BY <1>2, <2>2, <2>3 DEF LateInv
<1> QED
  BY <1>4, <1>5 DEF OpenTransport, sessionVars

\* start_recording: the new file has no chunk of anybody, and belongs to the last session.
LEMMA NewFileLate ==
  TypeOK /\ StateFits /\ LateInv /\ NewFile => LateInv'
<1> SUFFICES ASSUME TypeOK, StateFits, LateInv, NewFile PROVE LateInv'
  OBVIOUS
<1>1. UNCHANGED <<rd, session, started, stores>> /\ at = "newfile" /\ at' = "idle"
  BY DEF NewFile, sessionVars, dataVars, Done, Goto
<1>2. started \in Sessions
  BY <1>1 DEF StateFits, TypeOK, SessionOK
<1>3. ToldToStop' /\ LateStores'
  BY <1>1 DEF LateInv, ToldToStop, Alive, LateStores, LateRows
<1>4. CASE UNCHANGED <<files, recorder>>
  <2>1. SameReaders
    BY <1>1 DEF SameReaders
  <2> QED
    BY <1>1, <1>4, <2>1, LateKept
<1>5. CASE files' = Append(files, <<>>) /\ recorder' = Len(files) + 1
  <2>1. /\ files'[recorder'] = <<>> /\ DOMAIN files' = 1..(Len(files) + 1) /\ Len(files) \in Nat
        /\ DOMAIN files = 1..Len(files) /\ \A f \in 1..Len(files) : files'[f] = files[f]
    BY <1>5 DEF TypeOK, RecordingOK
  <2>2. LateFile'
    BY <1>1, <1>2, <2>1 DEF LateFile, LateChunks, AtMostOne, NoneOf
  <2>3. OnceButFor(started, files'[recorder'])
    BY <2>1 DEF OnceButFor
  <2>4. \A f \in 1..(Len(files) + 1) : f = recorder' \/ f \in 1..Len(files)
    BY <1>5, <2>1
  <2>5. LateFiles'
    BY <1>2, <2>1, <2>3, <2>4 DEF LateInv, LateFiles
  <2> QED
    BY <1>3, <2>2, <2>5 DEF LateInv
<1> QED
  BY <1>4, <1>5 DEF NewFile

\* Every step of engine.py and reader.py keeps late readers late, one read each.
LEMMA StepLate ==
  TypeOK /\ StateFits /\ RecordsOnlyWhileRunning /\ LateInv /\ [Next]_vars => LateInv'
<1> SUFFICES ASSUME TypeOK, StateFits, RecordsOnlyWhileRunning, LateInv, [Next]_vars PROVE LateInv'
  OBVIOUS
<1> USE DEF Done, Goto, sessionVars, recVars, dataVars
<1>1. UNCHANGED rd => SameReaders
  BY DEF SameReaders
<1>2. CASE StartWorking \/ StartReplay
  <2>1. stores'.rows = <<>> \/ (stores' = stores /\ at' = "idle")
    BY <1>2 DEF StartWorking, StartReplay, ClearStores, TypeOK, DataOK, StoreStates
  <2> QED
    BY <1>1, <1>2, <2>1, LateKept DEF StartWorking, StartReplay
<1>3. CASE ResetLink
  BY <1>1, <1>3, LateKept DEF ResetLink
<1>4. CASE OpenTransport
  BY <1>4, OpenLate
<1>5. CASE StopWorking \/ ReaderFailed
  <2>1. UNCHANGED <<files, recorder, stores, started>> /\ at' \in {"idle", "join"}
    BY <1>5 DEF StopWorking, ReaderFailed, BeginStop
  <2>2. \/ UNCHANGED <<rd, session>>
        \/ rd' = [rd EXCEPT ![session].stop = TRUE] /\ session' = None
    BY <1>5 DEF StopWorking, ReaderFailed, BeginStop
  <2>3. SameReaders
    BY <1>1, <2>2, StoppedIsSame
  <2>4. session # None /\ session' = None => rd'[session].stop
    BY <2>2 DEF TypeOK, SessionOK, ReadersOK, Readers
  <2> QED
    BY <2>1, <2>2, <2>3, <2>4, LateKept
<1>6. CASE JoinReader \/ WrapUp
  BY <1>1, <1>6, LateKept DEF JoinReader, WrapUp, StopRecording, Abort
<1>7. CASE ConfigureStreams \/ ConfigureStores \/ ConfigureProfile
  BY <1>1, <1>7, LateKept DEF ConfigureStreams, ConfigureStores, ConfigureProfile
<1>8. CASE StartRecording \/ EndRecording \/ RecordingFailed
  BY <1>1, <1>8, LateKept DEF StartRecording, EndRecording, RecordingFailed, StopRecording, Abort
<1>9. CASE NewFile
  BY <1>9, NewFileLate
<1>10. CASE ListenLines \/ StopListening \/ EmitLinkStats
  BY <1>1, <1>10, LateKept DEF ListenLines, StopListening, EmitLinkStats, Abort, TypeOK, DataOK,
     StoreStates
<1>11. ASSUME NEW s \in Sessions, Reader(s) PROVE LateInv'
  BY <1>11, ReaderTold, ReaderStores, ReaderFiles DEF LateInv
<1>12. CASE \E c \in UserCalls : Post(c)
  BY <1>1, <1>12, LateKept DEF Post
<1>13. CASE UNCHANGED vars
  BY <1>1, <1>13, LateKept DEF vars
<1> QED
  BY <1>2, <1>3, <1>4, <1>5, <1>6, <1>7, <1>8, <1>9, <1>10, <1>11, <1>12, <1>13 DEF Next, Slots

\* Of what is stored each session but the last has one row at most.
LEMMA LateIsOnce == TypeOK /\ LateInv => LateReadersAddOneRead
<1> SUFFICES ASSUME TypeOK, LateInv PROVE OnceButFor(started, stores.rows)
  BY DEF LateInv, ToldToStop, LateFiles, LateReadersAddOneRead
<1>1. ASSUME NEW i \in DOMAIN stores.rows PROVE stores.rows[i].sess \in Sessions
  <2>1. stores.rows \in Seq(Rows)
    BY DEF TypeOK, DataOK, StoreStates
  <2>2. stores.rows[i] \in Rows
    BY <1>1, <2>1
  <2> QED
    BY <2>2 DEF Rows
<1>2. \A s \in Sessions : s = started \/ AtMostOne(s, stores.rows)
  BY DEF LateInv, LateStores, LateRows
<1> QED
  BY <1>1, <1>2, OnceIsAtMostOne

\* An engine that has been started has stored and recorded nothing.
LEMMA LateInit == Init => LateInv
BY DEF Init, NoReader, LateInv, ToldToStop, Alive, LateStores, LateRows, AtMostOne, NoneOf,
   LateFile, LateFiles

\* reader.stop, reader.run: whether or not a reader ends within the second it is waited
\* for, it has been told to stop, and of an ended session no two reads get into the
\* stores of a later one, nor into a recording of a later one.
THEOREM LateReadersAreHarmless == Spec => []LateReadersAddOneRead
<1> DEFINE Inv == StateFits /\ RecordsOnlyWhileRunning /\ LateInv
<1>1. Init => Inv
  BY LateInit DEF Init, StateFits, RecordsOnlyWhileRunning
<1>2. TypeOK /\ Inv /\ [Next]_vars => Inv'
  BY StepStateFits, StepRecords, StepLate
<1>3. TypeOK /\ Inv => LateReadersAddOneRead
  BY LateIsOnce
<1> QED
  BY <1>1, <1>2, <1>3, TypeCorrect, PTL DEF Spec

----------------------------------------------------------------------------
(* The window's own steps post calls, and leave the engine as it is. *)

\* What the window's methods post are calls the engine takes.
LEMMA CallsAreEvents ==
  /\ Stop \in Events /\ Record \in Events /\ [op |-> "unrecord"] \in Events
  /\ \A cfg \in AnyCfg : ApplyProfile(cfg) \in Seq(Events)
  /\ \A id \in Sessions : /\ \A kind \in {"serial", "sim"} : [op |-> "start", kind |-> kind, id |-> id] \in Events
                          /\ \A fmt \in Formats \cup {Unknown} : [op |-> "replay", fmt |-> fmt, id |-> id] \in Events
<1>1. Stop \in Events /\ Record \in Events /\ [op |-> "unrecord"] \in Events
  BY DEF Stop, Record, Events, Calls
<1>2. ASSUME NEW cfg \in AnyCfg PROVE ApplyProfile(cfg) \in Seq(Events)
  <2>1. [op |-> "profile", fmt |-> FmtOf[cfg]] \in Events /\ [op |-> "configure", cfg |-> cfg] \in Events
    BY DEF Events, Calls
  <2> QED
    BY <2>1 DEF ApplyProfile
<1>3. ASSUME NEW id \in Sessions, NEW kind \in {"serial", "sim"}
      PROVE  [op |-> "start", kind |-> kind, id |-> id] \in Events
  BY DEF Events, Calls
<1>4. ASSUME NEW id \in Sessions, NEW fmt \in Formats \cup {Unknown}
      PROVE  [op |-> "replay", fmt |-> fmt, id |-> id] \in Events
  BY DEF Events, Calls
<1> QED
  BY <1>1, <1>2, <1>3, <1>4

\* What a step of the window leaves of the engine is what its invariants are about.
EngineInv == TypeOK /\ StateFits /\ RecordsOnlyWhileRunning

\* A method of the window that only posts calls disturbs nothing of the engine.
LEMMA WindowStepKeeps ==
  ASSUME EngineInv, QueueOK',
         UNCHANGED <<at, job, sessionVars, configVars, dataVars, recVars, rd>>
  PROVE  EngineInv'
<1> USE DEF sessionVars, configVars, dataVars, recVars
<1>1. TypeOK'
  BY DEF EngineInv, TypeOK, ThreadOK, JobFits, SessionOK, DataOK, RecordingOK, ReadersOK
<1>2. StateFits' /\ RecordsOnlyWhileRunning'
  BY DEF EngineInv, StateFits, RecordsOnlyWhileRunning
<1> QED
  BY <1>1, <1>2 DEF EngineInv

\* A queue that gets calls at its end is still one.
LEMMA PostedType ==
  ASSUME QueueOK, NEW new \in Seq(Events), inbox' = inbox \o new, calls' \in 0..MaxCalls
  PROVE  QueueOK'
BY DEF QueueOK

\* __init__, the user's calls and the slots of the engine's signals.
WindowStep == Construct \/ GuiStep \/ User

\* Each of them posts calls, of which the user has MaxCalls, and shows a profile there is.
LEMMA WindowStepQueue ==
  ASSUME EngineInv, profile \in Profiles, WindowStep
  PROVE  QueueOK' /\ profile' \in Profiles
<1> USE DEF Invoke, UserInvokes
<1>1. calls \in 0..MaxCalls /\ inbox \in Seq(Events) /\ QueueOK /\ Profiles \subseteq AnyCfg
  BY WindowAssumption DEF EngineInv, TypeOK, QueueOK
<1>2. calls + 1 <= MaxCalls => calls + 1 \in Sessions
  BY <1>1
<1>3. CASE Construct
  BY <1>1, <1>3, CallsAreEvents, PostedType DEF Construct
<1>4. CASE Connect
  <2>1. PICK kind \in Ports : UserInvokes(<<[op |-> "start", kind |-> kind, id |-> calls + 1]>>)
    BY <1>4 DEF Connect
  <2> DEFINE c == [op |-> "start", kind |-> kind, id |-> calls + 1]
  <2>2. calls + 1 <= MaxCalls /\ calls' = calls + 1 /\ inbox' = inbox \o <<c>>
    BY <2>1
  <2>3. c \in Events
    BY <1>2, <2>2, CallsAreEvents, WindowAssumption
  <2> HIDE DEF c
  <2>4. <<c>> \in Seq(Events) /\ calls' \in 0..MaxCalls
    BY <1>1, <2>2, <2>3
  <2> QED
    BY <1>1, <1>4, <2>2, <2>4, PostedType DEF Connect
<1>5. CASE Disconnect
  <2>1. <<Stop>> \in Seq(Events)
    BY CallsAreEvents
  <2>2. inbox' = inbox \o <<Stop>> /\ calls' \in 0..MaxCalls /\ profile' = profile
    BY <1>1, <1>5 DEF Disconnect
  <2> QED
    BY <1>1, <2>1, <2>2, PostedType
<1>6. CASE PlayRecording
  <2>1. PICK fmt \in ReplayFmts : UserInvokes(<<Stop, [op |-> "replay", fmt |-> fmt, id |-> calls + 1]>>)
    BY <1>6 DEF PlayRecording
  <2> DEFINE c == [op |-> "replay", fmt |-> fmt, id |-> calls + 1]
  <2>2. calls + 2 <= MaxCalls /\ calls' = calls + 2 /\ inbox' = inbox \o <<Stop, c>>
    BY <2>1
  <2>3. c \in Events
    <3>1. calls + 1 \in Sessions
      BY <1>1, <2>2
    <3>2. fmt \in Formats \cup {Unknown}
      BY WindowAssumption
    <3> QED
      BY <3>1, <3>2, CallsAreEvents
  <2> HIDE DEF c
  <2>4. <<Stop, c>> \in Seq(Events) /\ calls' \in 0..MaxCalls
    BY <1>1, <2>2, <2>3, CallsAreEvents
  <2> QED
    BY <1>1, <1>6, <2>2, <2>4, PostedType DEF PlayRecording
<1>7. CASE SwitchProfile \/ SaveConfiguration
  <2>1. PICK cfg \in Profiles : UserInvokes(ApplyProfile(cfg)) /\ profile' = cfg
    BY <1>7 DEF SwitchProfile, SaveConfiguration
  <2>2. ApplyProfile(cfg) \in Seq(Events) /\ Len(ApplyProfile(cfg)) = 2
    BY <1>1, CallsAreEvents DEF ApplyProfile
  <2>3. calls' \in 0..MaxCalls /\ inbox' = inbox \o ApplyProfile(cfg)
    BY <1>1, <2>1, <2>2
  <2> QED
    BY <1>1, <2>1, <2>2, <2>3, PostedType
<1>8. CASE ToggleRecording
  <2> DEFINE c == IF recChecked THEN [op |-> "unrecord"] ELSE Record
  <2>1. c \in Events
    BY CallsAreEvents
  <2>2. inbox' = inbox \o <<c>> /\ calls + 1 <= MaxCalls /\ calls' = calls + 1 /\ profile' = profile
    BY <1>8 DEF ToggleRecording
  <2> HIDE DEF c
  <2>3. <<c>> \in Seq(Events) /\ calls' \in 0..MaxCalls
    BY <1>1, <2>1, <2>2
  <2> QED
    BY <1>1, <2>2, <2>3, PostedType
<1>9. CASE Close
  <2>1. <<Stop>> \in Seq(Events)
    BY CallsAreEvents
  <2> QED
    BY <1>1, <1>9, <2>1, PostedType DEF Close
<1>10. CASE GuiStep
  <2>1. CASE Closed
    BY <1>1, <2>1 DEF Closed, engineVars, queueVars, QueueOK
  <2>2. CASE OnStateChanged \/ OnConnectionFailed \/ OnRecordingChanged \/ OnOther
    <3>1. calls' = calls /\ profile' = profile /\ (inbox' = inbox \o <<>> \/ inbox' = inbox \o <<Record>>)
      BY <2>2 DEF OnStateChanged, OnConnectionFailed, OnRecordingChanged, OnOther, Deliver
    <3>2. <<>> \in Seq(Events) /\ <<Record>> \in Seq(Events)
      BY CallsAreEvents
    <3> QED
      BY <1>1, <3>1, <3>2, PostedType
  <2> QED
    BY <1>10, <2>1, <2>2 DEF GuiStep
<1> QED
  BY <1>3, <1>4, <1>5, <1>6, <1>7, <1>8, <1>9, <1>10 DEF WindowStep, User

\* The window never changes the engine's state itself.
LEMMA WindowStepFrame ==
  WindowStep => UNCHANGED <<at, job, sessionVars, configVars, dataVars, recVars, rd>>
BY DEF WindowStep, Construct, GuiStep, User, Connect, Disconnect, PlayRecording, SwitchProfile,
   SaveConfiguration, ToggleRecording, Close, Closed, OnStateChanged, OnConnectionFailed,
   OnRecordingChanged, OnOther, UserInvokes, Invoke, engineVars

\* Every step, of either thread, keeps what is proved of the engine alone.
LEMMA StepEngine ==
  EngineInv /\ profile \in Profiles /\ [WNext]_wvars => EngineInv' /\ profile' \in Profiles
<1> SUFFICES ASSUME EngineInv, profile \in Profiles, [WNext]_wvars
             PROVE  EngineInv' /\ profile' \in Profiles
  OBVIOUS
<1>1. CASE EngineStep
  <2>1. Next /\ profile' = profile
    BY <1>1 DEF EngineStep, Next
  <2> QED
    BY <2>1, StepType, StepStateFits, StepRecords DEF EngineInv
<1>2. CASE WindowStep
  BY <1>2, WindowStepFrame, WindowStepQueue, WindowStepKeeps
<1>3. CASE UNCHANGED wvars
  BY <1>3, WindowStepKeeps DEF wvars, vars, EngineInv, TypeOK, QueueOK, queueVars
<1> QED
  BY <1>1, <1>2, <1>3 DEF WNext, WindowStep

\* WInit starts the engine as TelemetryEngine.__init__ leaves it.
LEMMA WInitEngine == WInit => EngineInv /\ profile \in Profiles
BY InitType DEF WInit, Init, EngineInv, StateFits, RecordsOnlyWhileRunning

\* What is proved of the engine holds of the engine with its window, by any thread's step.
LEMMA EngineIsKept == WSpec => []EngineInv
<1> DEFINE Inv == EngineInv /\ profile \in Profiles
<1>1. Inv /\ [WNext]_wvars => Inv'
  BY StepEngine
<1> QED
  BY <1>1, WInitEngine, PTL DEF WSpec

\* reader.stop, reader.run: the same holds with a window, whatever its user does: a reader
\* that misses the second it is waited for adds at most one read to what comes after.
THEOREM LateReadersAreHarmlessWithAWindow == WSpec => []LateReadersAddOneRead
<1>1. WInit => LateInv
  BY LateInit DEF WInit
<1>2. EngineInv /\ LateInv /\ [WNext]_wvars => LateInv'
  <2> SUFFICES ASSUME EngineInv, LateInv, [WNext]_wvars PROVE LateInv'
    OBVIOUS
  <2>1. CASE EngineStep
    <3>1. Next
      BY <2>1 DEF EngineStep, Next
    <3> QED
      BY <3>1, StepLate DEF EngineInv
  <2>2. CASE WindowStep \/ UNCHANGED wvars
    <3>1. UNCHANGED <<at, sessionVars, dataVars, recVars, rd>>
      BY <2>2, WindowStepFrame DEF wvars, vars
    <3>2. SameReaders
      BY <3>1 DEF SameReaders
    <3> QED
      BY <3>1, <3>2, LateKept DEF EngineInv, sessionVars, dataVars, recVars
  <2> QED
    BY <2>1, <2>2 DEF WNext, WindowStep
<1>3. EngineInv /\ LateInv => LateReadersAddOneRead
  BY LateIsOnce DEF EngineInv
<1> QED
  BY <1>1, <1>2, <1>3, EngineIsKept, PTL DEF WSpec

----------------------------------------------------------------------------
(***************************************************************************)
(* NothingRunsAfterClose, when every reader ends before stop() gives up    *)
(* waiting for it.  closeEvent posts a stop and blocks, so the stop is the *)
(* last call there will be: behind it come only the readers' failures.     *)
(***************************************************************************)

OnlyFailures(i) == \A j \in i..Len(inbox) : inbox[j].op \in {"failed", "recfailed"}

StopComes == \E i \in 1..Len(inbox) : inbox[i].op = "stop" /\ OnlyFailures(i + 1)
StopDone ==
    /\ state # "RUNNING" /\ at \in {"idle", "join", "wrapup", "aborted"}
    /\ OnlyFailures(1)

Closing == shut = "closing" => StopComes \/ StopDone

\* A reader's failure goes behind the stop, and neither undoes it.
LEMMA FailurePosted ==
  ASSUME TypeOK, StopComes \/ StopDone, UNCHANGED <<at, state>>,
         NEW e, e.op \in {"failed", "recfailed"}, UNCHANGED inbox \/ inbox' = Append(inbox, e)
  PROVE  (StopComes \/ StopDone)'
<1>1. CASE UNCHANGED inbox
  BY <1>1 DEF StopComes, StopDone, OnlyFailures
<1>2. CASE inbox' = Append(inbox, e)
  <2>1. /\ Len(inbox) \in Nat /\ Len(inbox') = Len(inbox) + 1 /\ inbox'[Len(inbox) + 1] = e
        /\ \A j \in 1..Len(inbox) : inbox'[j] = inbox[j]
    BY <1>2 DEF TypeOK, QueueOK
  <2>2. \A i \in 1..(Len(inbox) + 1) : OnlyFailures(i) => OnlyFailures(i)'
    BY <2>1 DEF OnlyFailures
  <2>3. CASE StopComes
    <3>1. PICK i \in 1..Len(inbox) : inbox[i].op = "stop" /\ OnlyFailures(i + 1)
      BY <2>3 DEF StopComes
    <3>2. i \in 1..Len(inbox') /\ inbox'[i].op = "stop" /\ OnlyFailures(i + 1)'
      BY <2>1, <2>2, <3>1
    <3> QED
      BY <3>2 DEF StopComes
  <2>4. CASE StopDone
    BY <2>1, <2>2, <2>4 DEF StopDone
  <2> QED
    BY <2>3, <2>4
<1> QED
  BY <1>1, <1>2

\* A slot takes the stop, or what is before it, or a failure once it is done.
LEMMA HeadTaken ==
  ASSUME TypeOK, StopComes \/ StopDone, NEW op, Begin(op)
  PROVE  \/ StopComes'
         \/ op = "stop" /\ OnlyFailures(1)'
         \/ StopDone /\ op \in {"failed", "recfailed"} /\ OnlyFailures(1)'
<1>1. /\ Len(inbox) \in Nat \ {0} /\ Len(inbox') = Len(inbox) - 1 /\ inbox[1].op = op
      /\ \A j \in 1..(Len(inbox) - 1) : inbox'[j] = inbox[j + 1]
  BY DEF Begin, TypeOK, QueueOK
<1>2. \A i \in 1..Len(inbox) : OnlyFailures(i + 1) => OnlyFailures(i)'
  <2> SUFFICES ASSUME NEW i \in 1..Len(inbox), OnlyFailures(i + 1), NEW j \in i..(Len(inbox) - 1)
               PROVE  inbox'[j].op \in {"failed", "recfailed"}
    BY <1>1 DEF OnlyFailures
  <2>1. j + 1 \in (i + 1)..Len(inbox) /\ j \in 1..(Len(inbox) - 1)
    BY <1>1
  <2> QED
    BY <1>1, <2>1 DEF OnlyFailures
<1>3. CASE StopComes
  <2>1. PICK i \in 1..Len(inbox) : inbox[i].op = "stop" /\ OnlyFailures(i + 1)
    BY <1>3 DEF StopComes
  <2>2. CASE i = 1
    BY <1>1, <1>2, <2>1, <2>2
  <2>3. CASE i # 1
    <3>1. i - 1 \in 1..Len(inbox') /\ inbox'[i - 1] = inbox[i] /\ OnlyFailures(i)'
      BY <1>1, <1>2, <2>1, <2>3
    <3>2. inbox'[i - 1].op = "stop" /\ OnlyFailures((i - 1) + 1)'
      BY <2>1, <3>1
    <3> QED
      BY <3>1, <3>2 DEF StopComes
  <2> QED
    BY <2>2, <2>3
<1>4. CASE StopDone
  <2>1. 1 \in 1..Len(inbox) /\ inbox[1].op \in {"failed", "recfailed"}
    BY <1>1, <1>4 DEF StopDone, OnlyFailures
  <2>2. OnlyFailures(1 + 1)
    BY <1>1, <1>4 DEF StopDone, OnlyFailures
  <2> QED
    BY <1>1, <1>2, <1>4, <2>1, <2>2
<1> QED
  BY <1>3, <1>4

\* The engine thread takes the stop: then it has no session, and starts none.
LEMMA SlotsClose ==
  ASSUME EngineInv, StopComes \/ StopDone, Slots
  PROVE  (StopComes \/ StopDone)'
<1> USE DEF Done, Goto
<1>1. TypeOK
  BY DEF EngineInv
<1>2. CASE StopWorking
  <2>1. StopComes' \/ OnlyFailures(1)'
    BY <1>1, <1>2, HeadTaken DEF StopWorking
  <2>2. state' # "RUNNING" /\ at' \in {"idle", "join"}
    BY <1>2 DEF StopWorking, BeginStop
  <2> QED
    BY <2>1, <2>2 DEF StopDone
<1>3. CASE ReaderFailed \/ RecordingFailed
  <2>1. StopComes' \/ (StopDone /\ OnlyFailures(1)')
    BY <1>1, <1>3, HeadTaken DEF ReaderFailed, RecordingFailed
  <2>2. state # "RUNNING" => at' = "idle" /\ state' = state
    BY <1>3 DEF ReaderFailed, RecordingFailed, sessionVars
  <2> QED
    BY <2>1, <2>2 DEF StopDone
<1>4. ASSUME NEW op \in {"start", "replay", "configure", "profile", "record", "unrecord", "listen", "unlisten"},
             Begin(op)
      PROVE  StopComes'
  BY <1>1, <1>4, HeadTaken
<1>5. CASE StartWorking \/ StartReplay \/ ConfigureStreams \/ ConfigureProfile \/ StartRecording
             \/ EndRecording \/ ListenLines
  BY <1>4, <1>5 DEF StartWorking, StartReplay, ConfigureStreams, ConfigureProfile, StartRecording,
     EndRecording, ListenLines
<1>6. CASE StopListening /\ Begin("unlisten")
  BY <1>4, <1>6
<1>7. ASSUME UNCHANGED <<inbox, state>>, at' \in {"idle", "wrapup", "aborted"} PROVE (StopComes \/ StopDone)'
  BY <1>7 DEF StopComes, StopDone, OnlyFailures
<1>8. CASE StopListening /\ ~Begin("unlisten")
  BY <1>7, <1>8 DEF StopListening, queueVars, sessionVars
<1>9. CASE JoinReader \/ WrapUp
  BY <1>7, <1>9 DEF JoinReader, WrapUp, Abort, queueVars, sessionVars
<1>10. CASE ResetLink \/ OpenTransport \/ ConfigureStores \/ NewFile
  <2>1. at \in {"reset", "open", "stores", "newfile"} /\ UNCHANGED inbox
    BY <1>10 DEF ResetLink, OpenTransport, ConfigureStores, NewFile, queueVars
  <2>2. StopComes
    BY <2>1 DEF StopDone
  <2> QED
    BY <2>1, <2>2 DEF StopComes, OnlyFailures
<1> QED
  BY <1>2, <1>3, <1>5, <1>6, <1>8, <1>9, <1>10 DEF Slots

\* Every step keeps a stop on its way while the window closes, or has seen it done.
LEMMA StepClosing ==
  EngineInv /\ Closing /\ [WNext]_wvars => Closing'
<1> SUFFICES ASSUME EngineInv, Closing, [WNext]_wvars, shut' = "closing" PROVE (StopComes \/ StopDone)'
  BY DEF Closing
<1>1. TypeOK
  BY DEF EngineInv
<1>2. CASE EngineStep /\ Slots
  BY <1>2, SlotsClose DEF EngineStep, Closing
<1>3. ASSUME EngineStep, NEW s \in Sessions, Reader(s) PROVE (StopComes \/ StopDone)'
  <2>1. UNCHANGED <<at, state>> /\ (StopComes \/ StopDone)
    BY <1>3 DEF EngineStep, Closing, Reader, CheckStop, Read, ReportFailure, RecordChunk, FeedLink,
       GetStore, AppendRecords, ReaderAt, sessionVars
  <2>2. \/ UNCHANGED inbox
        \/ inbox' = Append(inbox, [op |-> "failed", sess |-> s])
        \/ inbox' = Append(inbox, [op |-> "recfailed", file |-> recorder])
    BY <1>3 DEF Reader, CheckStop, Read, ReportFailure, Report, RecordChunk, FeedLink, GetStore, AppendRecords
  <2>3. [op |-> "failed", sess |-> s].op = "failed" /\ [op |-> "recfailed", file |-> recorder].op = "recfailed"
    OBVIOUS
  <2> QED
    BY <1>1, <2>1, <2>2, <2>3, FailurePosted
<1>4. CASE Close
  <2>1. inbox' = inbox \o <<Stop>>
    BY <1>4 DEF Close, Invoke
  <2>2. PICK i \in Nat : i = Len(inbox) + 1 /\ Len(inbox') = i /\ inbox'[i] = Stop
    BY <1>1, <2>1 DEF TypeOK, QueueOK
  <2>3. i \in 1..Len(inbox') /\ inbox'[i].op = "stop" /\ OnlyFailures(i + 1)'
    BY <1>1, <2>2 DEF OnlyFailures, Stop, TypeOK, QueueOK
  <2> QED
    BY <2>3 DEF StopComes
<1>5. CASE WindowStep /\ ~Close
  BY <1>5 DEF WindowStep, Construct, GuiStep, User, Connect, Disconnect, PlayRecording, SwitchProfile,
     SaveConfiguration, ToggleRecording, Closed, OnStateChanged, OnConnectionFailed,
     OnRecordingChanged, OnOther, Deliver, UserMay
<1>6. CASE UNCHANGED wvars
  <2>1. UNCHANGED <<at, state, inbox, shut>>
    BY <1>6 DEF wvars, vars, queueVars, sessionVars
  <2> QED
    BY <2>1 DEF Closing, StopComes, StopDone, OnlyFailures
<1> QED
  BY <1>2, <1>3, <1>4, <1>5, <1>6 DEF WNext, WindowStep, EngineStep

\* The window's steps start no reader, and the engine's leave none behind.
LEMMA StepAlive ==
  ASSUME JoinTimesOut = FALSE
  PROVE  EngineInv /\ NoReaderOutlivesItsSession /\ [WNext]_wvars => NoReaderOutlivesItsSession'
<1> SUFFICES ASSUME EngineInv, NoReaderOutlivesItsSession, [WNext]_wvars PROVE NoReaderOutlivesItsSession'
  OBVIOUS
<1>1. CASE EngineStep
  <2>1. Next
    BY <1>1 DEF EngineStep, Next
  <2> QED
    BY <2>1, StepReaders DEF EngineInv
<1>2. CASE WindowStep \/ UNCHANGED wvars
  <2>1. UNCHANGED <<at, job, session, rd>>
    BY <1>2, WindowStepFrame DEF wvars, vars, sessionVars
  <2> QED
    BY <2>1 DEF NoReaderOutlivesItsSession, Alive
<1> QED
  BY <1>1, <1>2 DEF WNext, WindowStep

\* When the blocking call has returned nothing runs, and nothing starts again.
LEMMA StepClosed ==
  EngineInv /\ NoReaderOutlivesItsSession /\ Closing /\ NothingRunsAfterClose /\ [WNext]_wvars => NothingRunsAfterClose'
<1> SUFFICES ASSUME EngineInv, NoReaderOutlivesItsSession, Closing, NothingRunsAfterClose,
                    [WNext]_wvars, shut' = "closed"
             PROVE  session' = None /\ recorder' = None /\ \A s \in Sessions : ~Alive(s)'
  BY DEF NothingRunsAfterClose
<1>1. CASE Closed
  <2>1. /\ UNCHANGED <<session, recorder, rd>>
        /\ at = "idle" /\ \A i \in DOMAIN inbox : inbox[i].op # "stop"
        /\ StopComes \/ StopDone
    BY <1>1 DEF Closed, BlockingStopReturns, engineVars, sessionVars, recVars, Closing
  <2>2. ~StopComes
    BY <2>1 DEF StopComes, EngineInv, TypeOK, QueueOK
  <2>3. state # "RUNNING"
    BY <2>1, <2>2 DEF StopDone
  <2>4. session = None /\ recorder = None
    BY <2>1, <2>3 DEF EngineInv, TypeOK, SessionOK, RecordsOnlyWhileRunning
  <2>5. \A s \in Sessions : ~Alive(s)
    BY <2>1, <2>4 DEF NoReaderOutlivesItsSession
  <2> QED
    BY <2>1, <2>4, <2>5 DEF Alive
<1>2. CASE ~Closed
  <2>1. UNCHANGED wvars
    BY <1>2 DEF WNext, EngineStep, GuiStep, User, Construct, Connect, Disconnect, PlayRecording, SwitchProfile,
       SaveConfiguration, ToggleRecording, Close, OnStateChanged, OnConnectionFailed,
       OnRecordingChanged, OnOther, Deliver, UserMay
  <2>2. UNCHANGED <<session, recorder, rd, shut>>
    BY <2>1 DEF wvars, vars, sessionVars, recVars
  <2> QED
    BY <2>2 DEF NothingRunsAfterClose, Alive
<1> QED
  BY <1>1, <1>2

\* closeEvent, "stops the engine and its thread before the window goes away": when every
\* reader ends within the second stop() waits for it, no session, no recording and no reader
\* is left of a closed window, whatever was called before and is still in the queue.
THEOREM ClosingEndsEverything ==
  ASSUME JoinTimesOut = FALSE
  PROVE  WSpec => []NothingRunsAfterClose
<1> DEFINE Inv == NoReaderOutlivesItsSession /\ Closing /\ NothingRunsAfterClose
<1>1. WInit => Inv
  BY DEF WInit, Init, NoReaderOutlivesItsSession, Alive, NoReader, Closing, NothingRunsAfterClose
<1>2. EngineInv /\ Inv /\ [WNext]_wvars => Inv'
  BY StepAlive, StepClosing, StepClosed
<1>3. Inv => NothingRunsAfterClose
  OBVIOUS
<1> QED
  BY <1>1, <1>2, <1>3, EngineIsKept, PTL DEF WSpec

----------------------------------------------------------------------------
(***************************************************************************)
(* AutoRecordCoversSessions, when the files of recordings make no errors   *)
(* and the user leaves the Record action alone.  A live session may find   *)
(* the window marked as replaying, by a replay the user has asked for      *)
(* since: then the stop that goes before the replay is still to come.      *)
(***************************************************************************)

\* Is a stop queued behind the first i calls?  Does the window know of no replay to come?
StopBehind(i) == \E j \in DOMAIN inbox : j > i /\ inbox[j].op = "stop"
Covered(i) == ~replaying \/ StopBehind(i)

QueuedCovered == \A i \in DOMAIN inbox : inbox[i].op = "start" => Covered(i)
StartingCovered == at \in {"reset", "open"} /\ job.kind # "replay" => Covered(0)
RunningCovered == session # None /\ rd[session].kind # "replay" => Covered(0)

LiveIsCovered == QueuedCovered /\ StartingCovered /\ RunningCovered

\* The recording of a session is on its way, or the session is over.
RunningShown == \E i \in DOMAIN gui : gui[i] = StateChanged("RUNNING")
RecordQueued == \E i \in DOMAIN inbox : inbox[i].op \in {"record", "stop"}
RecordComes == recorder # None \/ at = "newfile" \/ RecordQueued \/ RunningShown

LiveIsRecorded == session # None /\ rd[session].kind # "replay" => RecordComes

NoUnrecord == \A i \in DOMAIN inbox : inbox[i].op # "unrecord"

\* The slot of the oldest call: a stop behind it is still there, and nearer by one.
LEMMA CoveredTaken ==
  ASSUME EngineInv, NEW op, Begin(op), UNCHANGED replaying
  PROVE  /\ inbox[1].op = op /\ inbox[1] = Head(inbox) /\ 1 \in DOMAIN inbox
         /\ \A i \in DOMAIN inbox' : i + 1 \in DOMAIN inbox /\ inbox'[i] = inbox[i + 1]
         /\ \A i \in Nat : Covered(i + 1) => Covered(i)'
         /\ op # "stop" /\ Covered(0) => Covered(0)'
<1>1. /\ Len(inbox) \in Nat \ {0} /\ Len(inbox') = Len(inbox) - 1 /\ inbox[1] = Head(inbox) /\ Head(inbox).op = op
      /\ \A j \in 1..(Len(inbox) - 1) : inbox'[j] = inbox[j + 1]
      /\ DOMAIN inbox = 1..Len(inbox) /\ DOMAIN inbox' = 1..Len(inbox')
  BY DEF Begin, EngineInv, TypeOK, QueueOK
<1>2. ASSUME NEW j \in DOMAIN inbox, j > 1, inbox[j].op = "stop"
      PROVE  j - 1 \in DOMAIN inbox' /\ inbox'[j - 1].op = "stop"
  BY <1>1, <1>2
<1>3. ASSUME NEW i \in Nat, StopBehind(i + 1) PROVE StopBehind(i)'
  <2>1. PICK j \in DOMAIN inbox : j > i + 1 /\ inbox[j].op = "stop"
    BY <1>3 DEF StopBehind
  <2>2. j > 1 /\ j - 1 > i
    BY <1>1, <2>1
  <2> QED
    BY <1>2, <2>1, <2>2 DEF StopBehind
<1>4. ASSUME op # "stop", StopBehind(0) PROVE StopBehind(0)'
  <2>1. PICK j \in DOMAIN inbox : j > 0 /\ inbox[j].op = "stop"
    BY <1>4 DEF StopBehind
  <2>2. j > 1 /\ j - 1 > 0
    BY <1>1, <1>4, <2>1
  <2> QED
    BY <1>2, <2>1, <2>2 DEF StopBehind
<1>5. \A i \in DOMAIN inbox' : i + 1 \in DOMAIN inbox /\ inbox'[i] = inbox[i + 1]
  BY <1>1
<1>6. 1 \in DOMAIN inbox
  BY <1>1
<1> QED
  BY <1>1, <1>3, <1>4, <1>5, <1>6 DEF Covered

\* A reader's step keeps what it reads from, and the session there is.
LEMMA ReaderKinds ==
  ASSUME EngineInv, NEW s \in Sessions, Reader(s)
  PROVE  UNCHANGED <<session, at, job, state>> /\ \A q \in Sessions : rd'[q].kind = rd[q].kind
<1>1. UNCHANGED <<session, at, job, state>>
  BY DEF Reader, CheckStop, Read, ReportFailure, RecordChunk, FeedLink, GetStore, AppendRecords,
     ReaderAt, sessionVars
<1>2. rd'[s].kind = rd[s].kind
  BY DEF Reader, CheckStop, Read, ReportFailure, RecordChunk, FeedLink, GetStore, AppendRecords,
     Move, EngineInv, TypeOK, ReadersOK, Readers
<1>3. \A q \in Sessions : q # s => rd'[q] = rd[q]
  BY ReaderMoves DEF EngineInv
<1> QED
  BY <1>1, <1>2, <1>3

\* A reader's step posts nothing but failures.
LEMMA ReaderPosts ==
  ASSUME EngineInv, NEW s \in Sessions, Reader(s)
  PROVE  \E new \in Seq(Failures \cup RecFailures) : inbox' = inbox \o new
<1>1. inbox \in Seq(Events) /\ recorder \in Nat
  BY DEF EngineInv, TypeOK, QueueOK, RecordingOK
<1>2. CASE UNCHANGED inbox
  <2>1. inbox' = inbox \o <<>> /\ <<>> \in Seq(Failures \cup RecFailures)
    BY <1>1, <1>2
  <2> QED
    BY <2>1
<1>3. ASSUME NEW e \in Failures \cup RecFailures, inbox' = Append(inbox, e)
      PROVE  \E new \in Seq(Failures \cup RecFailures) : inbox' = inbox \o new
  <2>1. inbox' = inbox \o <<e>> /\ <<e>> \in Seq(Failures \cup RecFailures)
    BY <1>1, <1>3
  <2> QED
    BY <2>1
<1>4. [op |-> "failed", sess |-> s] \in Failures /\ [op |-> "recfailed", file |-> recorder] \in RecFailures
  BY <1>1 DEF Failures, RecFailures
<1>5. \/ UNCHANGED inbox
      \/ inbox' = Append(inbox, [op |-> "failed", sess |-> s])
      \/ inbox' = Append(inbox, [op |-> "recfailed", file |-> recorder])
  BY DEF Reader, CheckStop, Read, ReportFailure, Report, RecordChunk, FeedLink, GetStore, AppendRecords
<1> QED
  BY <1>2, <1>3, <1>4, <1>5

\* A queue that is left as it is gets an empty sequence of calls.
LEMMA NothingPosted ==
  ASSUME EngineInv, inbox' = inbox
  PROVE  \E new \in Seq(Events) : inbox' = inbox \o new /\ new = <<>>
<1>1. inbox = inbox \o <<>> /\ <<>> \in Seq(Events)
  BY DEF EngineInv, TypeOK, QueueOK
<1> QED
  BY <1>1

\* One call that is posted.
LEMMA OnePosted ==
  ASSUME EngineInv, NEW c \in Events, inbox' = inbox \o <<c>>
  PROVE  /\ <<c>> \in Seq(Events) /\ \A i \in DOMAIN <<c>> : <<c>>[i] = c
         /\ Len(inbox') = Len(inbox) + 1 /\ inbox'[Len(inbox) + 1] = c
         /\ \A i \in DOMAIN inbox : i \in DOMAIN inbox' /\ inbox'[i] = inbox[i]
BY DEF EngineInv, TypeOK, QueueOK

\* Two calls at the end of a queue.
LEMMA TwoPosted ==
  ASSUME NEW S, NEW q \in Seq(S), NEW x \in S, NEW y \in S
  PROVE  /\ Len(q) \in Nat /\ Len(q \o <<x, y>>) = Len(q) + 2 /\ DOMAIN q = 1..Len(q)
         /\ DOMAIN (q \o <<x, y>>) = 1..Len(q \o <<x, y>>)
         /\ (q \o <<x, y>>)[Len(q) + 1] = x /\ (q \o <<x, y>>)[Len(q) + 2] = y
         /\ \A i \in 1..Len(q) : (q \o <<x, y>>)[i] = q[i]
<1>1. /\ <<x, y>> \in Seq(S) /\ Len(<<x, y>>) = 2 /\ <<x, y>>[1] = x /\ <<x, y>>[2] = y
  OBVIOUS
<1> DEFINE two == <<x, y>>
<1>2. two \in Seq(S) /\ Len(two) = 2 /\ two[1] = x /\ two[2] = y
  BY <1>1
<1> HIDE DEF two
<1> QED
  BY <1>2

\* A slot that begins with a call: what it starts was behind no more than that call.
LEMMA TakenCovered ==
  ASSUME EngineInv, LiveIsCovered, UNCHANGED replaying, NEW op, Begin(op),
         session' = None \/ (op # "stop" /\ UNCHANGED <<session, rd>>),
         at' # "open", at' = "reset" => op = "start" \/ job'.kind = "replay"
  PROVE  LiveIsCovered'
<1>1. QueuedCovered'
  <2> SUFFICES ASSUME NEW i \in DOMAIN inbox', inbox'[i].op = "start" PROVE Covered(i)'
    BY DEF QueuedCovered
  <2>1. i \in Nat /\ inbox[i + 1].op = "start" /\ i + 1 \in DOMAIN inbox
    BY CoveredTaken DEF Begin, EngineInv, TypeOK, QueueOK
  <2>2. Covered(i + 1)
    BY <2>1 DEF LiveIsCovered, QueuedCovered
  <2> QED
    BY <2>1, <2>2, CoveredTaken
<1>2. StartingCovered'
  <2> SUFFICES ASSUME at' = "reset", op = "start" PROVE Covered(0)'
    BY DEF StartingCovered
  <2>1. Covered(1)
    BY CoveredTaken DEF LiveIsCovered, QueuedCovered
  <2> QED
    BY <2>1, CoveredTaken
<1>3. RunningCovered'
  <2> SUFFICES ASSUME op # "stop", Covered(0) PROVE Covered(0)'
    BY DEF RunningCovered, LiveIsCovered
  <2> QED
    BY CoveredTaken
<1> QED
  BY <1>1, <1>2, <1>3 DEF LiveIsCovered

\* A step that leaves the queue, or lengthens it by calls that start nothing uncovered.
LEMMA OthersCovered ==
  ASSUME EngineInv, LiveIsCovered, NEW new \in Seq(Events), inbox' = inbox \o new,
         ~replaying' \/ replaying,
         \A i \in DOMAIN new : new[i].op = "start" => ~replaying',
         session' \in {None, session}, \A s \in Sessions : rd'[s].kind = rd[s].kind,
         at' \in {"reset", "open"} => at \in {"reset", "open"} /\ UNCHANGED job
  PROVE  LiveIsCovered'
<1>1. \A i \in Nat : Covered(i) => Covered(i)'
  <2>1. \A j \in DOMAIN inbox : j \in DOMAIN inbox' /\ inbox'[j] = inbox[j]
    BY DEF EngineInv, TypeOK, QueueOK
  <2>2. \A i \in Nat : StopBehind(i) => StopBehind(i)'
    BY <2>1 DEF StopBehind
  <2> QED
    BY <2>2 DEF Covered
<1>2. QueuedCovered'
  <2> SUFFICES ASSUME NEW i \in DOMAIN inbox', inbox'[i].op = "start" PROVE Covered(i)'
    BY DEF QueuedCovered
  <2>1. i \in Nat /\ i \in 1..Len(inbox')
    BY DEF EngineInv, TypeOK, QueueOK
  <2>2. CASE i \in DOMAIN inbox
    BY <1>1, <2>1, <2>2 DEF LiveIsCovered, QueuedCovered, EngineInv, TypeOK, QueueOK
  <2>3. CASE i \notin DOMAIN inbox
    <3>1. i - Len(inbox) \in DOMAIN new /\ inbox'[i] = new[i - Len(inbox)]
      BY <2>1, <2>3 DEF EngineInv, TypeOK, QueueOK
    <3> QED
      BY <3>1 DEF Covered
  <2> QED
    BY <2>2, <2>3
<1>3. StartingCovered'
  BY <1>1 DEF LiveIsCovered, StartingCovered
<1>4. RunningCovered'
  <2>1. session # None => session \in Sessions
    BY DEF EngineInv, TypeOK, SessionOK
  <2> QED
    BY <1>1, <2>1 DEF LiveIsCovered, RunningCovered
<1> QED
  BY <1>2, <1>3, <1>4 DEF LiveIsCovered

\* A session that is opened is the one that was being started.
LEMMA OpenCovered ==
  ASSUME EngineInv, LiveIsCovered, UNCHANGED replaying, OpenTransport
  PROVE  LiveIsCovered'
<1>1. inbox' = inbox /\ at' = "idle" /\ at = "open" /\ job.id \in Sessions
  BY DEF OpenTransport, Done, Goto, queueVars, EngineInv, TypeOK, ThreadOK, JobFits, Jobs
<1>2. \A i \in Nat : Covered(i)' = Covered(i)
  BY <1>1 DEF Covered, StopBehind
<1>3. QueuedCovered' /\ StartingCovered'
  BY <1>1, <1>2 DEF QueuedCovered, StartingCovered, LiveIsCovered, Covered, StopBehind
<1>4. RunningCovered'
  <2>1. CASE UNCHANGED <<session, rd>>
    BY <1>2, <2>1 DEF LiveIsCovered, RunningCovered
  <2>2. CASE session' = job.id /\ rd' = [rd EXCEPT ![job.id] = NewReader(job.kind, job.fmt)]
    <3>1. rd'[session'].kind = job.kind
      BY <1>1, <2>2 DEF NewReader, NoReader, EngineInv, TypeOK, ReadersOK
    <3> QED
      BY <1>1, <1>2, <3>1 DEF LiveIsCovered, StartingCovered, RunningCovered
  <2> QED
    BY <2>1, <2>2 DEF OpenTransport, sessionVars
<1> QED
  BY <1>3, <1>4 DEF LiveIsCovered

\* No step of the engine or of a reader leaves a live session uncovered.
LEMMA EngineStepCovered ==
  EngineInv /\ LiveIsCovered /\ EngineStep => LiveIsCovered'
<1> SUFFICES ASSUME EngineInv, LiveIsCovered, EngineStep PROVE LiveIsCovered'
  OBVIOUS
<1>1. UNCHANGED replaying
  BY DEF EngineStep, mirrorVars
<1> USE DEF Done, Goto, sessionVars
<1>2. CASE StartWorking \/ StartReplay
  <2>1. PICK op \in {"start", "replay"} : Begin(op) /\ op # "stop"
    BY <1>2 DEF StartWorking, StartReplay
  <2>2. UNCHANGED <<session, rd>> /\ at' \in {"idle", "reset"}
    BY <1>2 DEF StartWorking, StartReplay
  <2>3. at' = "reset" => op = "start" \/ job'.kind = "replay"
    BY <1>2, <2>1 DEF StartWorking, StartReplay, Begin, StartJob
  <2> QED
    BY <1>1, <2>1, <2>2, <2>3, TakenCovered
<1>3. CASE StopWorking \/ ReaderFailed
  <2>1. PICK op : Begin(op) /\ (op # "stop" \/ StopWorking)
    BY <1>3 DEF StopWorking, ReaderFailed
  <2>2. at' \in {"idle", "join"}
    BY <1>3 DEF StopWorking, ReaderFailed, BeginStop
  <2>3. session' = None \/ (UNCHANGED <<session, rd>> /\ (StopWorking => session = None))
    BY <1>3 DEF StopWorking, ReaderFailed, BeginStop, EngineInv, TypeOK, SessionOK
  <2> QED
    BY <1>1, <2>1, <2>2, <2>3, TakenCovered
<1>4. CASE ConfigureStreams \/ ConfigureProfile \/ StartRecording \/ EndRecording \/ RecordingFailed
             \/ ListenLines \/ (StopListening /\ Begin("unlisten"))
  <2>1. PICK op : Begin(op) /\ op # "stop"
    BY <1>4 DEF ConfigureStreams, ConfigureProfile, StartRecording, EndRecording, RecordingFailed, ListenLines
  <2>2. UNCHANGED <<session, rd>> /\ at' \notin {"reset", "open"}
    BY <1>4 DEF ConfigureStreams, ConfigureProfile, StartRecording, EndRecording, RecordingFailed, ListenLines,
       StopListening, Abort
  <2> QED
    BY <1>1, <2>1, <2>2, TakenCovered
<1>5. CASE OpenTransport
  BY <1>1, <1>5, OpenCovered
<1>6. ASSUME UNCHANGED <<inbox, session, rd>>, at' \in {"reset", "open"} => at \in {"reset", "open"} /\ UNCHANGED job
      PROVE  LiveIsCovered'
  <2>1. PICK new \in Seq(Events) : inbox' = inbox \o new /\ new = <<>>
    BY <1>6, NothingPosted
  <2>2. /\ \A i \in DOMAIN new : FALSE
        /\ \A s \in Sessions : rd'[s].kind = rd[s].kind
        /\ session' \in {None, session}
    BY <1>6, <2>1
  <2>3. ~replaying' \/ replaying
    BY <1>1
  <2> QED
    BY <1>6, <2>1, <2>2, <2>3, OthersCovered
<1>7. CASE ResetLink \/ JoinReader \/ WrapUp \/ ConfigureStores \/ NewFile
             \/ (StopListening /\ UNCHANGED queueVars)
  BY <1>6, <1>7 DEF ResetLink, JoinReader, WrapUp, ConfigureStores, NewFile, StopListening, Abort, queueVars
<1>8. ASSUME NEW s \in Sessions, Reader(s) PROVE LiveIsCovered'
  <2>1. UNCHANGED <<session, at, job>> /\ \A q \in Sessions : rd'[q].kind = rd[q].kind
    BY <1>8, ReaderKinds
  <2>2. PICK new \in Seq(Failures \cup RecFailures) : inbox' = inbox \o new
    BY <1>8, ReaderPosts DEF EngineInv
  <2>3. new \in Seq(Events) /\ \A i \in DOMAIN new : new[i].op # "start"
    BY <2>2 DEF Events, Failures, RecFailures
  <2> QED
    BY <1>1, <2>1, <2>2, <2>3, OthersCovered
<1> QED
  BY <1>2, <1>3, <1>4, <1>5, <1>7, <1>8 DEF EngineStep, Slots, StopListening

\* A replay the user asks for is behind a stop; to connect takes the mark away.

\* A replay the user asks for is behind a stop; to connect takes the mark away.
LEMMA WindowStepCovered ==
  EngineInv /\ profile \in Profiles /\ LiveIsCovered /\ WindowStep => LiveIsCovered'
<1> SUFFICES ASSUME EngineInv, profile \in Profiles, LiveIsCovered, WindowStep PROVE LiveIsCovered'
  OBVIOUS
<1>1. UNCHANGED <<session, rd, at, job>>
  BY WindowStepFrame DEF sessionVars
<1>2. CASE PlayRecording
  <2>1. PICK fmt : inbox' = inbox \o <<Stop, [op |-> "replay", fmt |-> fmt, id |-> calls + 1]>>
    BY <1>2 DEF PlayRecording, UserInvokes, Invoke
  <2> DEFINE c == [op |-> "replay", fmt |-> fmt, id |-> calls + 1]
  <2>2. Stop.op = "stop" /\ c.op = "replay"
    BY DEF Stop
  <2> HIDE DEF c
  <2> DEFINE n == Len(inbox) + 1
  <2>3. /\ n \in DOMAIN inbox' /\ inbox'[n].op = "stop" /\ \A i \in DOMAIN inbox : i < n /\ inbox'[i] = inbox[i]
        /\ \A i \in DOMAIN inbox' : i \in DOMAIN inbox \/ inbox'[i] \in {Stop, c}
        /\ n > 0
    <3>1. /\ Len(inbox) \in Nat /\ Len(inbox') = Len(inbox) + 2 /\ DOMAIN inbox = 1..Len(inbox)
          /\ DOMAIN inbox' = 1..Len(inbox') /\ inbox'[Len(inbox) + 1] = Stop /\ inbox'[Len(inbox) + 2] = c
          /\ \A i \in 1..Len(inbox) : inbox'[i] = inbox[i]
      <4>1. inbox \in Seq(Events \cup {Stop, c})
        BY DEF EngineInv, TypeOK, QueueOK
      <4>2. inbox' = inbox \o <<Stop, c>>
        BY <2>1 DEF c
      <4> QED
        BY <4>1, <4>2, TwoPosted
    <3> QED
      BY <2>2, <3>1
  <2> HIDE DEF n
  <2>4. StopBehind(0)' /\ \A i \in DOMAIN inbox : StopBehind(i)'
    BY <2>3 DEF StopBehind
  <2>5. QueuedCovered'
    BY <2>2, <2>3, <2>4 DEF QueuedCovered, Covered
  <2> QED
    BY <2>4, <2>5 DEF LiveIsCovered, StartingCovered, RunningCovered, Covered
<1>3. ASSUME NEW new \in Seq(Events), inbox' = inbox \o new, ~replaying' \/ replaying,
             \A i \in DOMAIN new : new[i].op = "start" => ~replaying'
      PROVE  LiveIsCovered'
  BY <1>1, <1>3, OthersCovered
<1> USE CallsAreEvents DEF Invoke, UserInvokes
<1>4. CASE Connect
  <2>1. PICK kind \in {"serial", "sim"} : inbox' = inbox \o <<[op |-> "start", kind |-> kind, id |-> calls + 1]>>
                                          /\ calls + 1 <= MaxCalls
    BY <1>4, WindowAssumption DEF Connect
  <2>2. ~replaying' /\ calls + 1 \in Sessions
    BY <1>4, <2>1 DEF Connect, ReplayingOnConnect, EngineInv, TypeOK, QueueOK
  <2>3. [op |-> "start", kind |-> kind, id |-> calls + 1] \in Events
    BY <2>2
  <2> QED
    BY <1>3, <2>1, <2>2, <2>3, OnePosted
<1>5. ASSUME NEW c \in Events, c.op # "start", inbox' = inbox \o <<c>>, ~replaying' \/ replaying
      PROVE  LiveIsCovered'
  BY <1>3, <1>5, OnePosted
<1>6. CASE Disconnect \/ Close \/ ToggleRecording
  <2>1. PICK c \in {Stop, Record, [op |-> "unrecord"]} : inbox' = inbox \o <<c>>
    BY <1>6 DEF Disconnect, Close, ToggleRecording
  <2>2. c.op # "start" /\ c \in Events
    BY DEF Stop, Record
  <2>3. replaying' = replaying
    BY <1>6 DEF Disconnect, Close, ToggleRecording, mirrorVars
  <2> QED
    BY <1>5, <2>1, <2>2, <2>3
<1>7. CASE Construct \/ SwitchProfile \/ SaveConfiguration
  <2>1. PICK cfg \in AnyCfg : inbox' = inbox \o ApplyProfile(cfg)
    BY <1>7, WindowAssumption DEF Construct, SwitchProfile, SaveConfiguration
  <2>2. \A i \in DOMAIN ApplyProfile(cfg) : ApplyProfile(cfg)[i].op # "start"
    BY DEF ApplyProfile
  <2>3. replaying' = replaying
    BY <1>7 DEF Construct, SwitchProfile, SaveConfiguration, mirrorVars
  <2> QED
    BY <1>3, <2>1, <2>2, <2>3
<1>8. ASSUME inbox' = inbox, ~replaying' \/ replaying PROVE LiveIsCovered'
  <2>1. PICK new \in Seq(Events) : inbox' = inbox \o new /\ \A i \in DOMAIN new : FALSE
    BY <1>8, NothingPosted
  <2> QED
    BY <1>3, <1>8, <2>1
<1>9. CASE Closed
  BY <1>8, <1>9 DEF Closed, engineVars, queueVars, mirrorVars
<1>10. CASE OnStateChanged \/ OnConnectionFailed \/ OnRecordingChanged \/ OnOther
  <2>1. inbox' = inbox \o <<>> \/ inbox' = inbox \o <<Record>>
    BY <1>10 DEF OnStateChanged, OnConnectionFailed, OnRecordingChanged, OnOther
  <2>2. ~replaying' \/ replaying
    BY <1>10, Zenon DEF OnStateChanged, OnConnectionFailed, OnRecordingChanged, OnOther, mirrorVars
  <2>3. Record.op # "start"
    BY DEF Record
  <2>4. inbox \o <<>> = inbox
    BY DEF EngineInv, TypeOK, QueueOK
  <2> QED
    BY <1>5, <1>8, <2>1, <2>2, <2>3, <2>4
<1> QED
  BY <1>2, <1>4, <1>6, <1>7, <1>9, <1>10 DEF WindowStep, User, GuiStep

----------------------------------------------------------------------------
(* The signals that wait for the GUI thread. *)

Signals ==
    {StateChanged(s) : s \in {"IDLE", "CONFIGURED", "RUNNING"}}
        \cup {ConnectionFailed, SessionEnded, StreamsConfigured}
        \cup {RecordingChanged(f) : f \in Nat} \cup {LinesHeard(TRUE), LinesHeard(FALSE)}

GuiOK == gui \in Seq(Signals)

\* What a slot emits, or a reader, which emits nothing.
LEMMA OutType ==
  ASSUME EngineInv, Slots \/ \E s \in Sessions : Reader(s)
  PROVE  out' \in Seq(Signals)
<1> USE DEF Emit
<1>1. /\ \A s \in {"IDLE", "CONFIGURED", "RUNNING"} : StateChanged(s) \in Signals
      /\ ConnectionFailed \in Signals /\ SessionEnded \in Signals /\ StreamsConfigured \in Signals
      /\ \A f \in Nat : RecordingChanged(f) \in Signals
      /\ LinesHeard(TRUE) \in Signals /\ LinesHeard(FALSE) \in Signals
  BY DEF Signals
<1>2. /\ <<>> \in Seq(Signals)
      /\ \A x \in Signals : <<x>> \in Seq(Signals) /\ \A y \in Signals : <<x, y>> \in Seq(Signals)
  OBVIOUS
<1>3. RecordingStopped \in Seq(Signals)
  BY <1>1, <1>2 DEF RecordingStopped
<1>4. CASE WrapUp
  <2>1. (IF heard THEN <<LinesHeard(TRUE)>> ELSE <<>>) \in Seq(Signals)
    BY <1>1, <1>2
  <2>2. (IF job.op = "ended" THEN <<SessionEnded>> ELSE <<>>) \in Seq(Signals)
    BY <1>1, <1>2
  <2>3. \A u \in Seq(Signals), v \in Seq(Signals), w \in Seq(Signals) : u \o v \o w \in Seq(Signals)
    OBVIOUS
  <2> QED
    BY <1>2, <1>3, <1>4, <2>1, <2>2, <2>3 DEF WrapUp, Abort
<1>5. CASE StartWorking \/ StartReplay \/ ResetLink \/ OpenTransport
  BY <1>1, <1>2, <1>5 DEF StartWorking, StartReplay, ResetLink, OpenTransport
<1>6. CASE StopWorking \/ ReaderFailed \/ JoinReader
  BY <1>1, <1>2, <1>6 DEF StopWorking, ReaderFailed, JoinReader
<1>7. CASE ConfigureStreams \/ ConfigureStores \/ ConfigureProfile
  BY <1>1, <1>2, <1>7 DEF ConfigureStreams, ConfigureStores, ConfigureProfile
<1>8. CASE StartRecording \/ EndRecording
  BY <1>2, <1>3, <1>8 DEF StartRecording, EndRecording, Abort
<1>9. CASE NewFile \/ RecordingFailed
  <2>1. Len(files) + 1 \in Nat /\ None \in Nat
    BY DEF EngineInv, TypeOK, RecordingOK
  <2> QED
    BY <1>1, <1>2, <1>9, <2>1 DEF NewFile, RecordingFailed
<1>10. CASE ListenLines \/ StopListening
  BY <1>1, <1>2, <1>10 DEF ListenLines, StopListening, AnsweredAtOnce
<1>11. ASSUME NEW s \in Sessions, Reader(s) PROVE out' = <<>>
  BY <1>11 DEF Reader, CheckStop, Read, ReportFailure, RecordChunk, FeedLink, GetStore, AppendRecords, ReaderAt
<1> QED
  BY <1>2, <1>4, <1>5, <1>6, <1>7, <1>8, <1>9, <1>10, <1>11 DEF Slots

\* The window's own steps take the first signal, or none.
LEMMA WindowStepGui ==
  WindowStep => gui' = gui \/ (gui # <<>> /\ gui' = Tail(gui) /\ UNCHANGED shut)
BY DEF WindowStep, Construct, GuiStep, User, Connect, Disconnect, PlayRecording, SwitchProfile,
   SaveConfiguration, ToggleRecording, Close, Closed, OnStateChanged, OnConnectionFailed,
   OnRecordingChanged, OnOther, UserInvokes, Deliver

\* Only signals of the engine wait.
LEMMA StepGui == EngineInv /\ GuiOK /\ [WNext]_wvars => GuiOK'
<1> SUFFICES ASSUME EngineInv, GuiOK, [WNext]_wvars PROVE GuiOK'
  OBVIOUS
<1>1. CASE EngineStep
  BY <1>1, OutType DEF EngineStep, GuiOK
<1>2. CASE WindowStep
  BY <1>2, WindowStepGui DEF GuiOK
<1>3. CASE UNCHANGED wvars
  BY <1>3 DEF wvars, GuiOK
<1> QED
  BY <1>1, <1>2, <1>3 DEF WNext, WindowStep

\* What waits is only added to, and what is emitted waits.
LEMMA GuiGrows ==
  ASSUME EngineInv, GuiOK, EngineStep
  PROVE  /\ out' \in Seq(Signals) /\ Len(gui) \in Nat /\ Len(gui') = Len(gui) + Len(out')
         /\ \A i \in DOMAIN gui : i \in DOMAIN gui' /\ gui'[i] = gui[i]
         /\ \A i \in DOMAIN out' : Len(gui) + i \in DOMAIN gui' /\ gui'[Len(gui) + i] = out'[i]
<1>1. out' \in Seq(Signals) /\ gui' = gui \o out'
  BY OutType DEF EngineStep
<1> QED
  BY <1>1 DEF GuiOK

----------------------------------------------------------------------------
(* The recording comes. *)

\* What each step of the window posts.
LEMMA WindowPosts ==
  ASSUME EngineInv, profile \in Profiles, WindowStep
  PROVE  \E new \in Seq(Events) : /\ inbox' = inbox \o new
                                  /\ "record" \notin UserOps => \A i \in DOMAIN new : new[i].op # "unrecord"
<1> USE DEF Invoke, UserInvokes
<1>1. CASE inbox' = inbox
  BY <1>1, NothingPosted
<1>2. CASE \E c \in {Stop, Record} : inbox' = inbox \o <<c>>
  <2>1. PICK c \in {Stop, Record} : inbox' = inbox \o <<c>>
    BY <1>2
  <2>2. c.op # "unrecord" /\ c \in Events
    BY CallsAreEvents DEF Stop, Record
  <2> QED
    BY <2>1, <2>2, OnePosted
<1>3. CASE \E cfg \in AnyCfg : inbox' = inbox \o ApplyProfile(cfg)
  <2>1. PICK cfg \in AnyCfg : inbox' = inbox \o ApplyProfile(cfg)
    BY <1>3
  <2>2. \A i \in DOMAIN ApplyProfile(cfg) : ApplyProfile(cfg)[i].op # "unrecord"
    BY DEF ApplyProfile
  <2> QED
    BY <2>1, <2>2, CallsAreEvents
<1>4. CASE Connect
  <2>1. PICK kind \in {"serial", "sim"} : inbox' = inbox \o <<[op |-> "start", kind |-> kind, id |-> calls + 1]>>
                                          /\ calls + 1 <= MaxCalls
    BY <1>4, WindowAssumption DEF Connect
  <2>2. calls + 1 \in Sessions
    BY <2>1 DEF EngineInv, TypeOK, QueueOK
  <2> DEFINE c == [op |-> "start", kind |-> kind, id |-> calls + 1]
  <2>3. c.op # "unrecord" /\ c \in Events
    BY <2>2, CallsAreEvents
  <2> HIDE DEF c
  <2>4. inbox' = inbox \o <<c>>
    BY <2>1 DEF c
  <2> QED
    BY <2>3, <2>4, OnePosted
<1>5. CASE PlayRecording
  <2>1. PICK fmt \in ReplayFmts : UserInvokes(<<Stop, [op |-> "replay", fmt |-> fmt, id |-> calls + 1]>>)
    BY <1>5 DEF PlayRecording
  <2> DEFINE c == [op |-> "replay", fmt |-> fmt, id |-> calls + 1]
  <2>2. calls + 2 <= MaxCalls /\ inbox' = inbox \o <<Stop, c>>
    BY <2>1
  <2>3. c \in Events /\ c.op # "unrecord" /\ Stop \in Events /\ Stop.op # "unrecord"
    <3>1. calls + 1 \in Sessions
      BY <2>2 DEF EngineInv, TypeOK, QueueOK
    <3>2. fmt \in Formats \cup {Unknown}
      BY WindowAssumption
    <3> QED
      BY <3>1, <3>2, CallsAreEvents DEF Stop
  <2> HIDE DEF c
  <2>4. <<Stop, c>> \in Seq(Events) /\ \A i \in DOMAIN <<Stop, c>> : <<Stop, c>>[i] \in {Stop, c}
    BY <2>3
  <2> QED
    BY <2>2, <2>3, <2>4
<1>6. CASE ToggleRecording
  <2>1. PICK c \in {Record, [op |-> "unrecord"]} : inbox' = inbox \o <<c>>
    BY <1>6 DEF ToggleRecording
  <2>2. c \in Events /\ "record" \in UserOps
    BY <1>6, CallsAreEvents DEF ToggleRecording, UserMay
  <2> QED
    BY <2>1, <2>2, OnePosted
<1>7. CASE Disconnect \/ Close
  BY <1>2, <1>7 DEF Disconnect, Close
<1>8. CASE Construct \/ SwitchProfile \/ SaveConfiguration
  BY <1>3, <1>8, WindowAssumption DEF Construct, SwitchProfile, SaveConfiguration
<1>9. CASE Closed
  BY <1>1, <1>9 DEF Closed, engineVars, queueVars
<1>10. CASE OnStateChanged \/ OnConnectionFailed \/ OnRecordingChanged \/ OnOther
  <2>1. inbox' = inbox \o <<>> \/ inbox' = inbox \o <<Record>>
    BY <1>10 DEF OnStateChanged, OnConnectionFailed, OnRecordingChanged, OnOther
  <2>2. inbox \o <<>> = inbox
    BY DEF EngineInv, TypeOK, QueueOK
  <2> QED
    BY <1>1, <1>2, <2>1, <2>2
<1> QED
  BY <1>4, <1>5, <1>6, <1>7, <1>8, <1>9, <1>10 DEF WindowStep, User, GuiStep

\* Nobody asks for a recording to end but the user.
LEMMA StepNoUnrecord ==
  ASSUME "record" \notin UserOps
  PROVE  EngineInv /\ profile \in Profiles /\ NoUnrecord /\ [WNext]_wvars => NoUnrecord'
<1> SUFFICES ASSUME EngineInv, profile \in Profiles, NoUnrecord, [WNext]_wvars PROVE NoUnrecord'
  OBVIOUS
<1> USE DEF NoUnrecord
<1>1. ASSUME NEW new \in Seq(Events), inbox' = inbox \o new, \A i \in DOMAIN new : new[i].op # "unrecord"
      PROVE  NoUnrecord'
  BY <1>1 DEF EngineInv, TypeOK, QueueOK
<1>2. CASE EngineStep /\ Slots
  <2>1. inbox' = inbox \/ (inbox # <<>> /\ inbox' = Tail(inbox))
    BY <1>2 DEF Slots, Begin, StopWorking, StartWorking, StartReplay, ResetLink, OpenTransport,
       ReaderFailed, JoinReader, WrapUp, ConfigureStreams, ConfigureStores, ConfigureProfile, StartRecording,
       NewFile, EndRecording, RecordingFailed, ListenLines, StopListening, queueVars
  <2> QED
    BY <2>1 DEF EngineInv, TypeOK, QueueOK
<1>3. ASSUME NEW s \in Sessions, Reader(s) PROVE NoUnrecord'
  <2>1. PICK new \in Seq(Failures \cup RecFailures) : inbox' = inbox \o new
    BY <1>3, ReaderPosts
  <2>2. new \in Seq(Events) /\ \A i \in DOMAIN new : new[i].op # "unrecord"
    BY <2>1 DEF Events, Failures, RecFailures
  <2> QED
    BY <1>1, <2>1, <2>2
<1>4. CASE WindowStep
  <2>1. PICK new \in Seq(Events) : inbox' = inbox \o new /\ \A i \in DOMAIN new : new[i].op # "unrecord"
    BY <1>4, WindowPosts
  <2> QED
    BY <1>1, <2>1
<1>5. CASE UNCHANGED wvars
  BY <1>5 DEF wvars, vars, queueVars
<1> QED
  BY <1>2, <1>3, <1>4, <1>5 DEF WNext, WindowStep, EngineStep

\* What waits to be recorded: neither a slot nor a reader gives it up while a session runs.
LEMMA EngineStepRecorded ==
  ASSUME DiskErrors = {}
  PROVE  EngineInv /\ GuiOK /\ LiveIsRecorded /\ NoUnrecord /\ EngineStep => LiveIsRecorded'
<1> SUFFICES ASSUME EngineInv, GuiOK, LiveIsRecorded, NoUnrecord, EngineStep,
                    session' # None, rd'[session'].kind # "replay"
             PROVE  RecordComes'
  BY DEF LiveIsRecorded
<1> USE DEF Done, Goto, sessionVars
<1>1. (session # None <=> state = "RUNNING") /\ StateFits /\ (session # None => session \in Sessions)
  BY DEF EngineInv, TypeOK, SessionOK
<1>2. RunningShown => RunningShown'
  BY GuiGrows DEF RunningShown
<1>3. CASE OpenTransport
  <2>1. CASE UNCHANGED session
    BY <1>1, <1>3, <2>1 DEF OpenTransport, StateFits
  <2>2. CASE out' = <<StateChanged("RUNNING")>>
    <3>1. 1 \in DOMAIN out' /\ out'[1] = StateChanged("RUNNING")
      BY <2>2
    <3> QED
      BY <3>1, GuiGrows DEF RecordComes, RunningShown
  <2> QED
    BY <1>3, <2>1, <2>2 DEF OpenTransport, Emit
<1>4. CASE StopWorking \/ ReaderFailed
  BY <1>1, <1>4 DEF StopWorking, ReaderFailed, BeginStop
<1>5. CASE WrapUp \/ JoinReader \/ ResetLink
  BY <1>1, <1>5 DEF WrapUp, JoinReader, ResetLink, StateFits
<1>7. CASE NewFile
  <2>1. recorder' # None
    BY <1>7 DEF NewFile, EngineInv, TypeOK, RecordingOK
  <2> QED
    BY <2>1 DEF RecordComes
<1>8. CASE StartRecording
  <2>1. state = "RUNNING" => at' = "newfile"
    BY <1>8 DEF StartRecording, CloseRaises
  <2>2. session' = session
    BY <1>8 DEF StartRecording
  <2> QED
    BY <1>1, <2>1, <2>2 DEF RecordComes
<1>9. CASE EndRecording
  <2>1. Head(inbox) = inbox[1] /\ 1 \in DOMAIN inbox /\ inbox[1].op = "unrecord"
    BY <1>9 DEF EndRecording, Begin, EngineInv, TypeOK, QueueOK
  <2> QED
    BY <2>1 DEF NoUnrecord
<1>10. ASSUME NEW op, op \notin {"record", "stop"}, Begin(op), UNCHANGED <<session, rd, recorder>>
       PROVE  RecordComes'
  <2>1. RecordComes /\ at # "newfile"
    BY <1>10 DEF LiveIsRecorded, Begin
  <2>2. RecordQueued => RecordQueued'
    <3> SUFFICES ASSUME NEW i \in DOMAIN inbox, inbox[i].op \in {"record", "stop"} PROVE RecordQueued'
      BY DEF RecordQueued
    <3>1. i # 1 /\ i - 1 \in DOMAIN inbox' /\ inbox'[i - 1] = inbox[i]
      BY <1>10 DEF Begin, EngineInv, TypeOK, QueueOK
    <3> QED
      BY <3>1 DEF RecordQueued
  <2> QED
    BY <1>2, <1>10, <2>1, <2>2 DEF RecordComes
<1>11. CASE StartWorking \/ StartReplay \/ ConfigureStreams \/ ConfigureProfile \/ RecordingFailed
            \/ ListenLines \/ (StopListening /\ Begin("unlisten"))
  <2>1. PICK op \in {"start", "replay", "configure", "profile", "recfailed", "listen", "unlisten"} : Begin(op)
    BY <1>11 DEF StartWorking, StartReplay, ConfigureStreams, ConfigureProfile, RecordingFailed, ListenLines
  <2>2. UNCHANGED <<session, rd, recorder>>
    BY <1>11 DEF StartWorking, StartReplay, ConfigureStreams, ConfigureProfile, RecordingFailed, ListenLines,
       StopListening, recVars
  <2> QED
    BY <1>10, <2>1, <2>2
<1>12. ASSUME UNCHANGED <<inbox, session, rd, recorder>>, at # "newfile" PROVE RecordComes'
  BY <1>2, <1>12 DEF LiveIsRecorded, RecordComes, RecordQueued
<1>13. CASE ConfigureStores \/ (StopListening /\ UNCHANGED queueVars)
  BY <1>12, <1>13 DEF ConfigureStores, StopListening, Begin, queueVars, recVars
<1>14. ASSUME NEW s \in Sessions, Reader(s) PROVE RecordComes'
  <2>1. UNCHANGED <<session, at>> /\ \A q \in Sessions : rd'[q].kind = rd[q].kind
    BY <1>14, ReaderKinds
  <2>2. UNCHANGED recorder
    BY <1>14 DEF Reader, CheckStop, Read, ReportFailure, RecordChunk, FeedLink, GetStore, AppendRecords
  <2>3. PICK new \in Seq(Failures \cup RecFailures) : inbox' = inbox \o new
    BY <1>14, ReaderPosts
  <2>4. \A i \in DOMAIN inbox : i \in DOMAIN inbox' /\ inbox'[i] = inbox[i]
    BY <2>3 DEF EngineInv, TypeOK, QueueOK
  <2>5. RecordComes
    BY <1>1, <2>1 DEF LiveIsRecorded
  <2> QED
    BY <1>2, <2>1, <2>2, <2>4, <2>5 DEF RecordComes, RecordQueued
<1> QED
  BY <1>3, <1>4, <1>5, <1>7, <1>8, <1>9, <1>11, <1>13, <1>14 DEF EngineStep, Slots, StopListening

\* The signal that a session runs makes the window ask for the recording, unless a replay
\* has been asked for: then the session's stop is on its way.
LEMMA WindowStepRecorded ==
  ASSUME RecordOnConnect = TRUE
  PROVE  EngineInv /\ GuiOK /\ profile \in Profiles /\ LiveIsCovered /\ LiveIsRecorded /\ WindowStep
           => LiveIsRecorded'
<1> SUFFICES ASSUME EngineInv, GuiOK, profile \in Profiles, LiveIsCovered, LiveIsRecorded, WindowStep,
                    session' # None, rd'[session'].kind # "replay"
             PROVE  RecordComes'
  BY DEF LiveIsRecorded
<1>1. UNCHANGED <<session, rd, at, job, recorder>>
  BY WindowStepFrame DEF sessionVars, recVars
<1>2. RecordComes /\ Covered(0)
  BY <1>1 DEF LiveIsRecorded, LiveIsCovered, RunningCovered
<1>3. PICK new \in Seq(Events) : inbox' = inbox \o new
  BY WindowPosts
<1>4. \A i \in DOMAIN inbox : i \in DOMAIN inbox' /\ inbox'[i] = inbox[i]
  BY <1>3 DEF EngineInv, TypeOK, QueueOK
<1>5. RecordQueued => RecordQueued'
  BY <1>4 DEF RecordQueued
<1>6. CASE ~RunningShown \/ gui' = gui
  BY <1>1, <1>2, <1>5, <1>6 DEF RecordComes, RunningShown
<1>7. CASE RunningShown /\ gui' # gui
  <2>1. PICK i \in DOMAIN gui : gui[i] = StateChanged("RUNNING")
    BY <1>7 DEF RunningShown
  <2>2. gui # <<>> /\ gui' = Tail(gui)
    BY <1>7, WindowStepGui
  <2>3. CASE i # 1
    <3>1. i - 1 \in DOMAIN gui' /\ gui'[i - 1] = gui[i]
      BY <2>2, <2>3 DEF GuiOK
    <3> QED
      BY <2>1, <3>1 DEF RecordComes, RunningShown
  <2>4. CASE i = 1
    <3>1. Head(gui) = StateChanged("RUNNING")
      BY <2>1, <2>4 DEF GuiOK
    <3>2. Head(gui).sig = "state" /\ Head(gui).val = "RUNNING"
      BY <3>1 DEF StateChanged
    <3>3. OnStateChanged
      BY <1>7, <3>2 DEF WindowStep, Construct, GuiStep, User, Connect, Disconnect, PlayRecording, SwitchProfile,
         SaveConfiguration, ToggleRecording, Close, Closed, OnConnectionFailed,
         OnRecordingChanged, OnOther, UserInvokes, Deliver
    <3>4. CASE replaying
      BY <1>2, <1>5, <3>4 DEF Covered, StopBehind, RecordQueued, RecordComes
    <3>5. CASE ~replaying
      <4>1. inbox' = inbox \o <<Record>>
        BY <3>2, <3>3, <3>5 DEF OnStateChanged, AutoRecord, Invoke
      <4>2. Len(inbox') = Len(inbox) + 1 /\ inbox'[Len(inbox) + 1] = Record /\ Len(inbox) \in Nat
        <5>1. Record \in Events
          BY CallsAreEvents
        <5>2. Len(inbox) \in Nat
          BY DEF EngineInv, TypeOK, QueueOK
        <5> QED
          BY <4>1, <5>1, <5>2, OnePosted
      <4>3. Len(inbox) + 1 \in DOMAIN inbox'
        BY <4>1, <4>2, CallsAreEvents DEF EngineInv, TypeOK, QueueOK
      <4> QED
        BY <4>2, <4>3 DEF RecordComes, RecordQueued, Record
    <3> QED
      BY <3>4, <3>5
  <2> QED
    BY <2>3, <2>4
<1> QED
  BY <1>6, <1>7

\* _on_engine_state_changed, "Record automatically on connect": whatever is clicked in
\* whatever haste, a live session is being recorded once nothing is under way, if files
\* can be written and the user does not end the recording.
THEOREM LiveSessionsAreRecorded ==
  ASSUME RecordOnConnect = TRUE, DiskErrors = {}, "record" \notin UserOps
  PROVE  WSpec => []AutoRecordCoversSessions
<1> DEFINE Inv == EngineInv /\ profile \in Profiles /\ GuiOK /\ LiveIsCovered /\ LiveIsRecorded /\ NoUnrecord
<1>1. WInit => Inv
  <2> SUFFICES ASSUME WInit PROVE Inv
    OBVIOUS
  <2>1. inbox = <<>> /\ gui = <<>> /\ session = None /\ at = "idle"
    BY DEF WInit, Init
  <2>2. LiveIsCovered /\ LiveIsRecorded /\ NoUnrecord
    BY <2>1 DEF LiveIsCovered, QueuedCovered, StartingCovered, RunningCovered, LiveIsRecorded, NoUnrecord
  <2> QED
    BY <2>1, <2>2, WInitEngine DEF GuiOK
<1>2. Inv /\ [WNext]_wvars => Inv'
  <2> SUFFICES ASSUME Inv, [WNext]_wvars PROVE Inv'
    OBVIOUS
  <2>1. EngineInv' /\ profile' \in Profiles /\ GuiOK' /\ NoUnrecord'
    BY StepEngine, StepGui, StepNoUnrecord
  <2>2. CASE EngineStep
    BY <2>1, <2>2, EngineStepCovered, EngineStepRecorded
  <2>3. CASE WindowStep
    BY <2>1, <2>3, WindowStepCovered, WindowStepRecorded
  <2>4. CASE UNCHANGED wvars
    <3>1. UNCHANGED <<inbox, at, job, session, rd, recorder, gui, replaying>>
      BY <2>4 DEF wvars, vars, queueVars, sessionVars, recVars, mirrorVars
    <3>2. LiveIsCovered' /\ LiveIsRecorded'
      BY <3>1 DEF LiveIsCovered, QueuedCovered, StartingCovered, RunningCovered, LiveIsRecorded, Covered,
         StopBehind, RecordComes, RecordQueued, RunningShown
    <3> QED
      BY <2>1, <3>2
  <2> QED
    BY <2>2, <2>3, <2>4 DEF WNext, WindowStep
<1>3. Inv => AutoRecordCoversSessions
  <2> SUFFICES ASSUME Inv, Settled, session # None, rd[session].kind # "replay" PROVE recorder # None
    BY DEF AutoRecordCoversSessions, EngineInv, TypeOK, SessionOK
  <2> QED
    BY DEF LiveIsRecorded, RecordComes, RecordQueued, RunningShown, Settled
<1> QED
  BY <1>1, <1>2, <1>3, PTL DEF WSpec

----------------------------------------------------------------------------
(***************************************************************************)
(* WindowAndEngineAgree, when the user waits for the window to settle.     *)
(* What the window shows of the engine is what the last signal about it    *)
(* said: so what it will show, once the signals that wait are handled, is  *)
(* what the engine is, or a call that is going to say it is under way.     *)
(***************************************************************************)

Flag(b) == IF b THEN "on" ELSE "off"
RunFlag(s) == IF s = "RUNNING" THEN "on" ELSE "off"
RecFlag(f) == IF f = None THEN "off" ELSE "on"

\* What a signal is about, and what it says of it.
Subject(what, e) ==
    CASE what = "state"     -> e.sig = "state"
      [] what = "connected" -> e.sig \in {"state", "failed"}
      [] OTHER              -> e.sig = "recording"
Says(what, e) ==
    CASE what = "state"     -> e.val
      [] what = "connected" -> IF e.sig = "state" THEN RunFlag(e.val) ELSE "off"
      [] what = "path"      -> e.val
      [] OTHER              -> RecFlag(e.val)

\* The last signal in g about it says x; without one, what is shown is x.
SaysNothing(what, g, i) == \A j \in DOMAIN g : j > i => ~Subject(what, g[j])
Told(what, g, shown, x) ==
    \/ shown = x /\ SaysNothing(what, g, 0)
    \/ \E i \in DOMAIN g : Subject(what, g[i]) /\ Says(what, g[i]) = x /\ SaysNothing(what, g, i)

\* The window handles the first signal.
LEMMA ToldTail ==
  ASSUME NEW what, NEW shown, NEW x, NEW g \in Seq(Signals), g # <<>>, Told(what, g, shown, x)
  PROVE  Told(what, Tail(g), IF Subject(what, Head(g)) THEN Says(what, Head(g)) ELSE shown, x)
<1>1. /\ Len(g) \in Nat \ {0} /\ Head(g) = g[1] /\ DOMAIN g = 1..Len(g) /\ DOMAIN Tail(g) = 1..(Len(g) - 1)
      /\ \A j \in 1..(Len(g) - 1) : Tail(g)[j] = g[j + 1]
  OBVIOUS
<1>2. ASSUME NEW i \in Nat, SaysNothing(what, g, i + 1) PROVE SaysNothing(what, Tail(g), i)
  BY <1>1, <1>2 DEF SaysNothing
<1>3. CASE shown = x /\ SaysNothing(what, g, 0)
  <2>1. ~Subject(what, Head(g)) /\ SaysNothing(what, g, 0 + 1)
    BY <1>1, <1>3 DEF SaysNothing
  <2> QED
    BY <1>2, <1>3, <2>1 DEF Told
<1>4. ASSUME NEW i \in DOMAIN g, Subject(what, g[i]), Says(what, g[i]) = x, SaysNothing(what, g, i)
      PROVE  Told(what, Tail(g), IF Subject(what, Head(g)) THEN Says(what, Head(g)) ELSE shown, x)
  <2>1. CASE i = 1
    <3>1. SaysNothing(what, Tail(g), 0)
      BY <1>2, <1>4, <2>1
    <3> QED
      BY <1>1, <1>4, <2>1, <3>1 DEF Told
  <2>2. CASE i # 1
    <3>1. i - 1 \in DOMAIN Tail(g) /\ Tail(g)[i - 1] = g[i] /\ i - 1 \in Nat /\ (i - 1) + 1 = i
      BY <1>1, <2>2
    <3>2. SaysNothing(what, Tail(g), i - 1)
      BY <1>2, <1>4, <3>1
    <3> QED
      BY <1>4, <3>1, <3>2 DEF Told
  <2> QED
    BY <2>1, <2>2
<1> QED
  BY <1>3, <1>4, Zenon DEF Told

\* What is emitted goes behind what waits.
LEMMA ToldMore ==
  ASSUME NEW what, NEW shown, NEW x, NEW y, NEW g \in Seq(Signals), NEW o \in Seq(Signals),
         Told(what, o, x, y), Told(what, g, shown, x) \/ ~SaysNothing(what, o, 0)
  PROVE  Told(what, g \o o, shown, y)
<1> DEFINE h == g \o o
           n == Len(g)
<1>1. /\ n \in Nat /\ DOMAIN g = 1..n /\ DOMAIN h = 1..(n + Len(o)) /\ DOMAIN o = 1..Len(o) /\ Len(o) \in Nat
      /\ \A j \in 1..n : h[j] = g[j]
      /\ \A j \in 1..Len(o) : h[n + j] = o[j]
  OBVIOUS
<1>2. \A j \in 1..(n + Len(o)) : j \in 1..n \/ (j - n \in 1..Len(o) /\ h[j] = o[j - n])
  BY <1>1
<1> HIDE DEF h, n
<1>3. CASE SaysNothing(what, o, 0)
  <2>1. x = y /\ \A j \in DOMAIN o : ~Subject(what, o[j])
    BY <1>1, <1>3 DEF SaysNothing, Told
  <2>2. \A i \in Nat : SaysNothing(what, g, i) => SaysNothing(what, h, i)
    BY <1>1, <1>2, <2>1 DEF SaysNothing
  <2>3. \A i \in DOMAIN g : i \in DOMAIN h /\ h[i] = g[i] /\ i \in Nat
    BY <1>1
  <2>4. Told(what, g, shown, x) => Told(what, h, shown, x)
    BY <2>2, <2>3 DEF Told
  <2> QED
    BY <1>3, <2>1, <2>4 DEF h
<1>4. CASE ~SaysNothing(what, o, 0)
  <2>1. PICK i \in DOMAIN o : Subject(what, o[i]) /\ Says(what, o[i]) = y /\ SaysNothing(what, o, i)
    BY <1>4 DEF Told
  <2>2. n + i \in DOMAIN h /\ h[n + i] = o[i]
    BY <1>1
  <2>3. SaysNothing(what, h, n + i)
    <3> SUFFICES ASSUME NEW j \in DOMAIN h, j > n + i PROVE ~Subject(what, h[j])
      BY DEF SaysNothing
    <3>1. j - n \in DOMAIN o /\ j - n > i /\ h[j] = o[j - n]
      BY <1>1, <1>2
    <3> QED
      BY <2>1, <3>1 DEF SaysNothing
  <2> QED
    BY <2>1, <2>2, <2>3 DEF Told, h
<1> QED
  BY <1>3, <1>4

\* No signal says nothing, and one says what it says.
LEMMA ToldFew ==
  ASSUME NEW what, NEW x
  PROVE  /\ Told(what, <<>>, x, x)
         /\ \A e \in Signals : /\ Subject(what, e) => ~SaysNothing(what, <<e>>, 0)
                               /\ Subject(what, e) => Told(what, <<e>>, x, Says(what, e))
                               /\ ~Subject(what, e) => Told(what, <<e>>, x, x)
<1>1. Told(what, <<>>, x, x)
  BY DEF Told, SaysNothing
<1>2. ASSUME NEW e \in Signals
      PROVE  /\ Subject(what, e) => ~SaysNothing(what, <<e>>, 0)
             /\ Subject(what, e) => Told(what, <<e>>, x, Says(what, e))
             /\ ~Subject(what, e) => Told(what, <<e>>, x, x)
  <2>1. DOMAIN <<e>> = {1} /\ <<e>>[1] = e
    OBVIOUS
  <2>2. SaysNothing(what, <<e>>, 1) /\ (SaysNothing(what, <<e>>, 0) <=> ~Subject(what, e))
    BY <2>1 DEF SaysNothing
  <2> QED
    BY <2>1, <2>2 DEF Told
<1> QED
  BY <1>1, <1>2

\* What the signals are about.
LEMMA SignalsSay ==
  /\ \A s \in {"IDLE", "CONFIGURED", "RUNNING"} :
        /\ StateChanged(s) \in Signals
        /\ Subject("state", StateChanged(s)) /\ Says("state", StateChanged(s)) = s
        /\ Subject("connected", StateChanged(s)) /\ Says("connected", StateChanged(s)) = RunFlag(s)
        /\ ~Subject("path", StateChanged(s)) /\ ~Subject("checked", StateChanged(s))
  /\ ConnectionFailed \in Signals /\ Subject("connected", ConnectionFailed)
  /\ Says("connected", ConnectionFailed) = "off"
  /\ \A what \in {"state", "path", "checked"} : ~Subject(what, ConnectionFailed)
  /\ \A f \in Nat :
        /\ RecordingChanged(f) \in Signals
        /\ Subject("path", RecordingChanged(f)) /\ Says("path", RecordingChanged(f)) = f
        /\ Subject("checked", RecordingChanged(f)) /\ Says("checked", RecordingChanged(f)) = RecFlag(f)
        /\ ~Subject("state", RecordingChanged(f)) /\ ~Subject("connected", RecordingChanged(f))
  /\ \A what \in {"state", "connected", "path", "checked"}, e \in {SessionEnded, StreamsConfigured, LinesHeard(TRUE), LinesHeard(FALSE)} :
        e \in Signals /\ ~Subject(what, e)
<1> USE DEF Signals, Subject, Says, StateChanged, ConnectionFailed, RecordingChanged, SessionEnded,
            StreamsConfigured, LinesHeard
<1>1. \A s \in {"IDLE", "CONFIGURED", "RUNNING"} :
        /\ StateChanged(s) \in Signals
        /\ Subject("state", StateChanged(s)) /\ Says("state", StateChanged(s)) = s
        /\ Subject("connected", StateChanged(s)) /\ Says("connected", StateChanged(s)) = RunFlag(s)
        /\ ~Subject("path", StateChanged(s)) /\ ~Subject("checked", StateChanged(s))
  OBVIOUS
<1>2. /\ ConnectionFailed \in Signals /\ Subject("connected", ConnectionFailed)
      /\ Says("connected", ConnectionFailed) = "off"
      /\ \A what \in {"state", "path", "checked"} : ~Subject(what, ConnectionFailed)
  OBVIOUS
<1>3. \A f \in Nat :
        /\ RecordingChanged(f) \in Signals
        /\ Subject("path", RecordingChanged(f)) /\ Says("path", RecordingChanged(f)) = f
        /\ Subject("checked", RecordingChanged(f)) /\ Says("checked", RecordingChanged(f)) = RecFlag(f)
        /\ ~Subject("state", RecordingChanged(f)) /\ ~Subject("connected", RecordingChanged(f))
  OBVIOUS
<1>4. \A what \in {"state", "connected", "path", "checked"}, e \in {SessionEnded, StreamsConfigured, LinesHeard(TRUE), LinesHeard(FALSE)} :
        e \in Signals /\ ~Subject(what, e)
  OBVIOUS
<1> QED
  BY <1>1, <1>2, <1>3, <1>4

----------------------------------------------------------------------------
(* What the engine says of itself. *)

\* The recording that was last shown is the one going on.
RecordingShown == shownRec = recorder /\ (at = "newfile" => recorder = None)

Topics == {"state", "connected", "path", "checked"}
Asides == {SessionEnded, StreamsConfigured, LinesHeard(TRUE), LinesHeard(FALSE)}

\* Two signals, one after the other.
LEMMA ToldTwo ==
  ASSUME NEW what, NEW x, NEW y, NEW z, NEW u \in Signals, NEW v \in Signals,
         Told(what, <<u>>, x, y), Told(what, <<v>>, y, z)
  PROVE  Told(what, <<u, v>>, x, z)
<1>0. ASSUME NEW e \in Signals, NEW p, NEW q, Told(what, <<e>>, p, q)
      PROVE  (Subject(what, e) /\ Says(what, e) = q) \/ (~Subject(what, e) /\ p = q)
  <2> DEFINE one == <<e>>
  <2>1. DOMAIN one = {1} /\ one[1] = e
    OBVIOUS
  <2> HIDE DEF one
  <2>2. Told(what, one, p, q)
    BY <1>0 DEF one
  <2>3. SaysNothing(what, one, 0) => ~Subject(what, e)
    BY <2>1 DEF SaysNothing
  <2> QED
    BY <2>1, <2>2, <2>3 DEF Told
<1>1. (Subject(what, u) /\ Says(what, u) = y) \/ (~Subject(what, u) /\ x = y)
  BY <1>0
<1>2. (Subject(what, v) /\ Says(what, v) = z) \/ (~Subject(what, v) /\ y = z)
  BY <1>0
<1>3. DOMAIN <<u, v>> = {1, 2} /\ <<u, v>>[1] = u /\ <<u, v>>[2] = v
  OBVIOUS
<1>4. SaysNothing(what, <<u, v>>, 2)
  BY <1>3 DEF SaysNothing
<1>5. ~Subject(what, v) => SaysNothing(what, <<u, v>>, 1)
  BY <1>3 DEF SaysNothing
<1>6. ~Subject(what, u) /\ ~Subject(what, v) => SaysNothing(what, <<u, v>>, 0)
  BY <1>3 DEF SaysNothing
<1> QED
  BY <1>1, <1>2, <1>3, <1>4, <1>5, <1>6 DEF Told

\* A new state, and what may be said around it.
LEMMA StateTold ==
  ASSUME NEW x, NEW on, NEW s \in {"IDLE", "CONFIGURED", "RUNNING"}
  PROVE  /\ Told("state", <<StateChanged(s)>>, x, s)
         /\ Told("connected", <<StateChanged(s)>>, on, RunFlag(s))
         /\ ~SaysNothing("connected", <<StateChanged(s)>>, 0)
         /\ Told("state", <<StateChanged(s), StreamsConfigured>>, x, s)
         /\ Told("connected", <<StateChanged(s), StreamsConfigured>>, on, RunFlag(s))
         /\ Told("state", <<ConnectionFailed, StateChanged(s)>>, x, s)
         /\ Told("connected", <<ConnectionFailed, StateChanged(s)>>, on, RunFlag(s))
<1> DEFINE e == StateChanged(s)
<1>0. /\ e \in Signals /\ Subject("state", e) /\ Says("state", e) = s
      /\ Subject("connected", e) /\ Says("connected", e) = RunFlag(s)
  BY SignalsSay
<1>1. ASSUME NEW y PROVE Told("state", <<e>>, y, s) /\ Told("connected", <<e>>, y, RunFlag(s))
  <2> HIDE DEF e
  <2> QED
    BY <1>0, ToldFew
<1>2. ~SaysNothing("connected", <<e>>, 0)
  <2> HIDE DEF e
  <2> QED
    BY <1>0, ToldFew
<1>3. \A what \in {"state", "connected"} : \A y : Told(what, <<StreamsConfigured>>, y, y)
  BY ToldFew, SignalsSay, Zenon
<1>4. Told("state", <<ConnectionFailed>>, x, x) /\ Told("connected", <<ConnectionFailed>>, on, "off")
  <2>1. /\ ConnectionFailed \in Signals /\ Subject("connected", ConnectionFailed)
        /\ Says("connected", ConnectionFailed) = "off" /\ ~Subject("state", ConnectionFailed)
    BY SignalsSay
  <2> QED
    BY <2>1, ToldFew, Zenon
<1>5. StateChanged(s) \in Signals /\ StreamsConfigured \in Signals /\ ConnectionFailed \in Signals
  BY SignalsSay
<1> QED
  BY <1>1, <1>2, <1>3, <1>4, <1>5, ToldTwo

\* Nothing, or something else, was said.
LEMMA AsideTold ==
  ASSUME NEW what \in Topics, NEW x
  PROVE  /\ Told(what, <<>>, x, x)
         /\ \A e \in Asides : Told(what, <<e>>, x, x)
         /\ what \in {"state", "connected"} => \A f \in Nat : Told(what, <<RecordingChanged(f)>>, x, x)
BY ToldFew, SignalsSay DEF Topics, Asides

\* stop_recording and what follows it in stop_working say nothing of the session.
LEMMA WrapUpTold ==
  ASSUME EngineInv, WrapUp, NEW what \in Topics, NEW x, NEW y, Told(what, RecordingStopped, x, y)
  PROVE  Told(what, out', x, y) \/ (out' = <<>> /\ CloseRaises)
<1>1. PICK h, e : \/ /\ out' = RecordingStopped \o h \o e
                     /\ h \in {<<>>, <<LinesHeard(TRUE)>>} /\ e \in {<<>>, <<SessionEnded>>}
                  \/ out' = <<>> /\ CloseRaises /\ h = <<>> /\ e = <<>>
  BY DEF WrapUp, Emit, Abort
<1>2. h \in Seq(Signals) /\ e \in Seq(Signals) /\ RecordingStopped \in Seq(Signals)
  <2>1. LinesHeard(TRUE) \in Signals /\ SessionEnded \in Signals /\ RecordingChanged(None) \in Signals
    BY SignalsSay
  <2>2. <<>> \in Seq(Signals) /\ \A f \in Signals : <<f>> \in Seq(Signals)
    OBVIOUS
  <2> QED
    BY <1>1, <2>1, <2>2 DEF RecordingStopped
<1>3. Told(what, h, y, y) /\ Told(what, e, y, y)
  BY <1>1, AsideTold DEF Asides
<1>4. Told(what, RecordingStopped \o h, x, y) /\ RecordingStopped \o h \in Seq(Signals)
  BY <1>2, <1>3, ToldMore
<1>5. Told(what, RecordingStopped \o h \o e, x, y)
  BY <1>2, <1>3, <1>4, ToldMore
<1> QED
  BY <1>1, <1>5

\* Every slot says what it makes of the state.
LEMMA SlotsTellState ==
  ASSUME EngineInv, Slots
  PROVE  /\ Told("state", out', state, state') /\ Told("connected", out', RunFlag(state), RunFlag(state'))
         /\ OpenTransport \/ (StopWorking /\ state = "RUNNING") => ~SaysNothing("connected", out', 0)
<1> USE DEF Emit
<1> DEFINE Good == Told("state", out', state, state') /\ Told("connected", out', RunFlag(state), RunFlag(state'))
<1>1. state \in {"IDLE", "CONFIGURED", "RUNNING"} /\ "state" \in Topics /\ "connected" \in Topics
  BY DEF EngineInv, TypeOK, SessionOK, Topics
<1> HIDE DEF Good
<1>2. ASSUME state' = state,
             out' = <<>> \/ (\E e \in Asides : out' = <<e>>) \/ (\E f \in Nat : out' = <<RecordingChanged(f)>>)
      PROVE  Good
  BY <1>1, <1>2, AsideTold DEF Good
<1>3. ASSUME state' = state, state # "RUNNING", out' = <<ConnectionFailed>>
      PROVE  Good /\ ~SaysNothing("connected", out', 0)
  BY <1>3, ToldFew, SignalsSay DEF RunFlag, Good
<1>4. ASSUME OpenTransport PROVE Good /\ ~SaysNothing("connected", out', 0)
  <2>1. state = "CONFIGURED"
    BY <1>4 DEF OpenTransport, EngineInv, StateFits
  <2> QED
    BY <1>3, <1>4, <2>1, StateTold DEF OpenTransport, sessionVars, Good
<1>5. ASSUME StopWorking PROVE Good /\ (state = "RUNNING" => ~SaysNothing("connected", out', 0))
  BY <1>2, <1>5, StateTold DEF StopWorking, BeginStop, Good
<1> SUFFICES Good
  BY <1>4, <1>5 DEF Good
<1>6. CASE ReaderFailed
  BY <1>2, <1>6, StateTold DEF ReaderFailed, BeginStop, Good
<1>7. CASE ConfigureStores
  <2>1. StreamsConfigured \in Asides
    BY DEF Asides
  <2> QED
    BY <1>1, <1>2, <1>7, <2>1, StateTold DEF ConfigureStores, Good
<1>8. CASE StartWorking \/ StartReplay
  <2>1. state' = state /\ (out' = <<>> \/ (out' = <<ConnectionFailed>> /\ state # "RUNNING"))
    BY <1>8 DEF StartWorking, StartReplay, CanStart, sessionVars
  <2> QED
    BY <1>2, <1>3, <2>1
<1>9. CASE ResetLink \/ JoinReader \/ ConfigureStreams \/ ConfigureProfile
  BY <1>2, <1>9 DEF ResetLink, JoinReader, ConfigureStreams, ConfigureProfile, sessionVars
<1>10. CASE StartRecording \/ NewFile \/ EndRecording \/ RecordingFailed
  <2>1. None \in Nat /\ Len(files) + 1 \in Nat
    BY DEF EngineInv, TypeOK, RecordingOK
  <2>2. state' = state /\ (out' = <<>> \/ \E f \in Nat : out' = <<RecordingChanged(f)>>)
    BY <1>10, <2>1 DEF StartRecording, NewFile, EndRecording, RecordingFailed, RecordingStopped, Abort, sessionVars
  <2> QED
    BY <1>2, <2>2
<1>11. CASE ListenLines \/ StopListening
  BY <1>2, <1>11 DEF ListenLines, StopListening, AnsweredAtOnce, Asides, sessionVars
<1>12. CASE WrapUp
  <2>1. state' = state
    BY <1>12 DEF WrapUp, sessionVars
  <2>2. Told("state", RecordingStopped, state, state) /\ Told("connected", RecordingStopped, RunFlag(state), RunFlag(state))
    BY <1>1, AsideTold DEF RecordingStopped
  <2> QED
    BY <1>1, <1>2, <1>12, <2>1, <2>2, WrapUpTold DEF Good
<1> QED
  BY <1>4, <1>5, <1>6, <1>7, <1>8, <1>9, <1>10, <1>11, <1>12 DEF Slots

\* stop_recording says that nothing is recorded, if anything was.
LEMMA StoppedTold ==
  ASSUME RecordingShown, StopRecording
  PROVE  /\ recorder' = None /\ shownRec' = None
         /\ Told("path", RecordingStopped, shownRec, None)
         /\ Told("checked", RecordingStopped, RecFlag(recorder), RecFlag(None))
         /\ recorder # None => ~SaysNothing("checked", RecordingStopped, 0)
<1>1. "path" \in Topics /\ "checked" \in Topics
  BY DEF Topics
<1>2. CASE recorder = None
  <2>1. RecordingStopped = <<>> /\ recorder' = None /\ shownRec' = None /\ shownRec = None
    BY <1>2 DEF RecordingStopped, StopRecording, RecordingShown
  <2> QED
    BY <1>1, <1>2, <2>1, AsideTold
<1>3. CASE recorder # None
  <2> DEFINE e == RecordingChanged(None)
  <2>1. RecordingStopped = <<e>> /\ recorder' = None /\ shownRec' = None
    BY <1>3 DEF RecordingStopped, StopRecording
  <2>2. e \in Signals /\ Subject("path", e) /\ Says("path", e) = None
        /\ Subject("checked", e) /\ Says("checked", e) = RecFlag(None)
    BY SignalsSay
  <2> HIDE DEF e
  <2> QED
    BY <2>1, <2>2, ToldFew
<1> QED
  BY <1>2, <1>3

\* Every slot says what it makes of the recording, when no file is lost while it is written.
LEMMA SlotsTellRecording ==
  ASSUME EngineInv, DiskErrors \subseteq {"create"}, RecordingShown, Slots, ~RecordingFailed
  PROVE  /\ Told("path", out', shownRec, shownRec')
         /\ Told("checked", out', RecFlag(recorder), RecFlag(recorder'))
         /\ RecordingShown'
         /\ NewFile \/ (EndRecording /\ recorder # None) => ~SaysNothing("checked", out', 0)
<1> USE DEF Emit
<1> DEFINE Good == /\ Told("path", out', shownRec, shownRec') /\ RecordingShown'
                   /\ Told("checked", out', RecFlag(recorder), RecFlag(recorder'))
<1> HIDE DEF Good
<1>1. "path" \in Topics /\ "checked" \in Topics /\ ~CloseRaises
  BY DEF Topics, CloseRaises
<1>2. ASSUME UNCHANGED <<recorder, shownRec>>, at' # "newfile", NEW e \in Asides, out' = <<>> \/ out' = <<e>>
      PROVE  Good
  BY <1>1, <1>2, AsideTold DEF Good, RecordingShown
<1>3. ASSUME NEW e \in Signals, out' = <<e>>, UNCHANGED <<recorder, shownRec>>, at' # "newfile",
             ~Subject("path", e), ~Subject("checked", e)
      PROVE  Good
  BY <1>3, ToldFew DEF Good, RecordingShown
<1>4. ASSUME NewFile PROVE Good /\ ~SaysNothing("checked", out', 0)
  <2>1. PICK f \in Nat : out' = <<RecordingChanged(f)>> /\ shownRec' = f /\ recorder' = f /\ at' = "idle"
    <3>1. None \in Nat /\ Len(files) + 1 \in Nat
      BY DEF EngineInv, TypeOK, RecordingOK
    <3> QED
      BY <1>4, <3>1 DEF NewFile, Done, Goto, RecordingShown
  <2> DEFINE e == RecordingChanged(f)
  <2>2. e \in Signals /\ Subject("path", e) /\ Says("path", e) = f
        /\ Subject("checked", e) /\ Says("checked", e) = RecFlag(f)
    BY SignalsSay
  <2>3. out' = <<e>>
    BY <2>1
  <2> HIDE DEF e
  <2> QED
    BY <2>1, <2>2, <2>3, ToldFew DEF Good, RecordingShown
<1>5. ASSUME EndRecording PROVE Good /\ (recorder # None => ~SaysNothing("checked", out', 0))
  <2>1. StopRecording /\ out' = RecordingStopped /\ at' = "idle"
    BY <1>1, <1>5 DEF EndRecording, Done, Goto
  <2> QED
    BY <2>1, StoppedTold DEF Good, RecordingShown
<1> SUFFICES Good
  BY <1>4, <1>5 DEF Good
<1>6. CASE StartRecording
  <2>1. CASE StopRecording /\ out' = RecordingStopped
    BY <2>1, StoppedTold DEF Good, RecordingShown
  <2>2. CASE UNCHANGED <<recorder, shownRec>> /\ at' = "idle" /\ out' = <<>>
    BY <1>2, <2>2 DEF Asides
  <2> QED
    BY <1>1, <1>6, <2>1, <2>2 DEF StartRecording, Done, Goto
<1>7. CASE WrapUp
  <2>1. StopRecording /\ at' = "idle"
    BY <1>1, <1>7 DEF WrapUp, Done, Goto
  <2> QED
    BY <1>1, <1>7, <2>1, StoppedTold, WrapUpTold DEF Good, RecordingShown
<1>8. CASE StartWorking \/ StartReplay \/ ResetLink \/ OpenTransport
  <2>1. UNCHANGED <<recorder, shownRec>> /\ at' # "newfile"
    BY <1>8 DEF StartWorking, StartReplay, ResetLink, OpenTransport, Done, Goto, recVars
  <2>2. out' \in {<<>>, <<ConnectionFailed>>, <<StateChanged("RUNNING")>>}
    BY <1>8 DEF StartWorking, StartReplay, ResetLink, OpenTransport
  <2>3. \A e \in {ConnectionFailed, StateChanged("RUNNING")} : e \in Signals /\ ~Subject("path", e) /\ ~Subject("checked", e)
    BY SignalsSay
  <2> QED
    BY <1>2, <1>3, <2>1, <2>2, <2>3 DEF Asides
<1>9. CASE StopWorking \/ ReaderFailed
  <2>1. UNCHANGED <<recorder, shownRec>> /\ at' # "newfile"
    BY <1>9 DEF StopWorking, ReaderFailed, BeginStop, Done, Goto, recVars
  <2>2. out' \in {<<>>, <<StateChanged("CONFIGURED")>>, <<ConnectionFailed, StateChanged("CONFIGURED")>>}
    BY <1>9 DEF StopWorking, ReaderFailed
  <2>3. /\ ConnectionFailed \in Signals /\ StateChanged("CONFIGURED") \in Signals
        /\ \A what \in {"path", "checked"} : \A x : Told(what, <<ConnectionFailed>>, x, x)
        /\ \A what \in {"path", "checked"} : \A x : Told(what, <<StateChanged("CONFIGURED")>>, x, x)
    <3>1. \A e \in {ConnectionFailed, StateChanged("CONFIGURED")} :
             e \in Signals /\ ~Subject("path", e) /\ ~Subject("checked", e)
      BY SignalsSay
    <3> QED
      BY <3>1, ToldFew, Zenon
  <2>4. \A what \in {"path", "checked"} : \A x : Told(what, <<ConnectionFailed, StateChanged("CONFIGURED")>>, x, x)
    BY <2>3, ToldTwo, Zenon
  <2>5. \A what \in {"path", "checked"} : \A x : Told(what, out', x, x)
    BY <2>2, <2>3, <2>4, AsideTold DEF Topics
  <2> QED
    BY <2>1, <2>5 DEF Good, RecordingShown
<1>10. CASE ConfigureStores
  <2>1. UNCHANGED <<recorder, shownRec>> /\ at' # "newfile"
    BY <1>10 DEF ConfigureStores, Done, Goto, recVars
  <2>2. out' \in {<<StreamsConfigured>>, <<StateChanged("CONFIGURED"), StreamsConfigured>>}
    BY <1>10 DEF ConfigureStores
  <2>3. /\ StreamsConfigured \in Signals /\ StateChanged("CONFIGURED") \in Signals
        /\ \A what \in {"path", "checked"} : \A x : Told(what, <<StreamsConfigured>>, x, x)
        /\ \A what \in {"path", "checked"} : \A x : Told(what, <<StateChanged("CONFIGURED")>>, x, x)
    <3>1. \A e \in {StreamsConfigured, StateChanged("CONFIGURED")} :
             e \in Signals /\ ~Subject("path", e) /\ ~Subject("checked", e)
      BY SignalsSay
    <3> QED
      BY <3>1, ToldFew, Zenon
  <2>4. \A what \in {"path", "checked"} : \A x : Told(what, <<StateChanged("CONFIGURED"), StreamsConfigured>>, x, x)
    BY <2>3, ToldTwo, Zenon
  <2>5. \A what \in {"path", "checked"} : \A x : Told(what, out', x, x)
    BY <2>2, <2>3, <2>4
  <2> QED
    BY <2>1, <2>5 DEF Good, RecordingShown
<1>11. CASE JoinReader \/ ConfigureStreams \/ ConfigureProfile
  BY <1>2, <1>11 DEF JoinReader, ConfigureStreams, ConfigureProfile, Done, Goto, Asides, recVars
<1>12. CASE ListenLines \/ StopListening
  BY <1>2, <1>12 DEF ListenLines, StopListening, AnsweredAtOnce, Done, Goto, Asides
<1> QED
  BY <1>4, <1>5, <1>6, <1>7, <1>8, <1>9, <1>10, <1>11, <1>12 DEF Slots

----------------------------------------------------------------------------
(* The calls of a user who waits. *)

\* Behind the first k - 1 calls come failures, and the recordings the window asks for.
Behind(k) == \A j \in DOMAIN inbox : j >= k => inbox[j].op \in {"failed", "record"}
Waits(op) == at = "idle" /\ inbox # <<>> /\ inbox[1].op = op

ProfileCall == [op |-> "profile", fmt |-> FmtOf[profile]]
ConfigureCall == [op |-> "configure", cfg |-> profile]

\* The format is that of the profile shown; so are the streams.
OfProfile == profileFmt = FmtOf[profile]
OfStreams == streams = profile /\ OfProfile /\ state # "IDLE"

\* One thing the user asked for at a time: a profile, which goes through three steps, or
\* one call; or nothing waits but failures.
Profiling == at = "idle" /\ Len(inbox) >= 2 /\ inbox[1] = ProfileCall /\ inbox[2] = ConfigureCall
             /\ Behind(3) /\ (state = "RUNNING" => OfProfile)
Configuring == at = "idle" /\ Len(inbox) >= 1 /\ inbox[1] = ConfigureCall /\ Behind(2) /\ OfProfile
Building == at = "stores" /\ job = ConfigureCall /\ Behind(1) /\ OfProfile
Called == /\ at = "idle" /\ Len(inbox) >= 1 /\ inbox[1].op \in {"start", "stop", "record", "unrecord"}
          /\ inbox[1].op = "start" => inbox[1].kind \in Ports
          /\ Behind(2) /\ OfStreams
Calm == Behind(1) /\ OfStreams /\ at \in {"idle", "reset", "open", "join", "wrapup", "newfile"}

Phase == Profiling \/ Configuring \/ Building \/ Called \/ Calm

\* Failures that come, and recordings asked for by the window, change no phase.
LEMMA PhasePosted ==
  ASSUME EngineInv, Phase, NEW new \in Seq(Events), inbox' = inbox \o new,
         \A i \in DOMAIN new : new[i].op \in {"failed", "record"},
         UNCHANGED <<at, job, state, streams, profileFmt, profile>>
  PROVE  /\ Phase' /\ (\A op : Waits(op) => Waits(op)')
<1>1. /\ Len(inbox) \in Nat /\ Len(inbox') >= Len(inbox) /\ DOMAIN inbox = 1..Len(inbox) /\ DOMAIN inbox' = 1..Len(inbox')
      /\ Len(inbox') \in Nat
      /\ \A i \in 1..Len(inbox) : inbox'[i] = inbox[i]
      /\ \A i \in 1..Len(inbox') : i \in 1..Len(inbox) \/ inbox'[i].op \in {"failed", "record"}
  <2>1. inbox \in Seq(Events)
    BY DEF EngineInv, TypeOK, QueueOK
  <2>2. \A i \in 1..Len(inbox') : i \in 1..Len(inbox) \/ (i - Len(inbox) \in DOMAIN new /\ inbox'[i] = new[i - Len(inbox)])
    BY <2>1
  <2> QED
    BY <2>1, <2>2
<1>2. \A k \in Nat : Behind(k) => Behind(k)'
  BY <1>1 DEF Behind
<1>3. inbox # <<>> => Len(inbox) >= 1 /\ inbox' # <<>>
  BY <1>1 DEF EngineInv, TypeOK, QueueOK
<1>4. \A op : Waits(op) => Waits(op)'
  BY <1>1, <1>3 DEF Waits
<1>5. Profiling => Profiling'
  BY <1>1, <1>2 DEF Profiling, OfProfile, ProfileCall, ConfigureCall
<1>6. Configuring => Configuring'
  BY <1>1, <1>2 DEF Configuring, OfProfile, ConfigureCall
<1>7. Building => Building'
  BY <1>1, <1>2 DEF Building, OfProfile, ConfigureCall
<1>8. Called => Called'
  BY <1>1, <1>2 DEF Called, OfProfile, OfStreams
<1>9. Calm => Calm'
  BY <1>2 DEF Calm, OfProfile, OfStreams
<1> QED
  BY <1>4, <1>5, <1>6, <1>7, <1>8, <1>9 DEF Phase

\* The first call is taken, and the ones behind it move up.
LEMMA BehindTaken ==
  ASSUME EngineInv, NEW op, Begin(op)
  PROVE  /\ inbox[1].op = op /\ Head(inbox) = inbox[1] /\ Len(inbox) >= 1
         /\ Len(inbox) >= 2 => Len(inbox') >= 1 /\ inbox'[1] = inbox[2]
         /\ Behind(1) => Behind(1)' /\ inbox[1].op \in {"failed", "record"}
         /\ Behind(2) => Behind(1)'
         /\ Behind(3) => Behind(2)'
<1>1. /\ Len(inbox) \in Nat \ {0} /\ Len(inbox') = Len(inbox) - 1 /\ inbox[1] = Head(inbox) /\ Head(inbox).op = op
      /\ \A j \in 1..(Len(inbox) - 1) : inbox'[j] = inbox[j + 1]
      /\ DOMAIN inbox = 1..Len(inbox) /\ DOMAIN inbox' = 1..(Len(inbox) - 1)
  BY DEF Begin, EngineInv, TypeOK, QueueOK
<1>2. ASSUME NEW k \in Nat, Behind(k + 1) PROVE Behind(k)'
  BY <1>1, <1>2 DEF Behind
<1>3. Behind(1) => Behind(2)
  BY <1>1 DEF Behind
<1>4. Behind(1) => inbox[1].op \in {"failed", "record"}
  BY <1>1 DEF Behind
<1>5. Behind(1 + 1) => Behind(1)'
  BY <1>2
<1>6. Behind(2 + 1) => Behind(2)'
  BY <1>2
<1> QED
  BY <1>1, <1>3, <1>4, <1>5, <1>6

\* The listen timer fires: the queue is left as it is.
Timer == StopListening /\ UNCHANGED queueVars

\* Idle, the engine thread runs the slot of the first call, or the listen timer's.
LEMMA SlotOfHead ==
  ASSUME EngineInv, at = "idle", Slots
  PROVE  \/ Timer
         \/ inbox # <<>> /\ inbox[1].op = "start" /\ Begin("start") /\ StartWorking
         \/ inbox # <<>> /\ inbox[1].op = "stop" /\ Begin("stop") /\ StopWorking
         \/ inbox # <<>> /\ inbox[1].op = "failed" /\ Begin("failed") /\ ReaderFailed
         \/ inbox # <<>> /\ inbox[1].op = "profile" /\ Begin("profile") /\ ConfigureProfile
         \/ inbox # <<>> /\ inbox[1].op = "configure" /\ Begin("configure") /\ ConfigureStreams
         \/ inbox # <<>> /\ inbox[1].op = "record" /\ Begin("record") /\ StartRecording
         \/ inbox # <<>> /\ inbox[1].op = "unrecord" /\ Begin("unrecord") /\ EndRecording
         \/ inbox # <<>> /\ inbox[1].op \in {"replay", "recfailed", "listen", "unlisten"}
<1>1. ASSUME NEW op, Begin(op) PROVE inbox # <<>> /\ inbox[1].op = op
  BY <1>1 DEF Begin, EngineInv, TypeOK, QueueOK
<1>2. ~ResetLink /\ ~OpenTransport /\ ~JoinReader /\ ~WrapUp /\ ~ConfigureStores /\ ~NewFile
  BY DEF ResetLink, OpenTransport, JoinReader, WrapUp, ConfigureStores, NewFile
<1>3. (StartWorking => Begin("start")) /\ (StartReplay => Begin("replay")) /\ (StopWorking => Begin("stop"))
  BY DEF StartWorking, StartReplay, StopWorking
<1>4. (ReaderFailed => Begin("failed")) /\ (ConfigureStreams => Begin("configure")) /\ (ConfigureProfile => Begin("profile"))
  BY DEF ReaderFailed, ConfigureStreams, ConfigureProfile
<1>5. (StartRecording => Begin("record")) /\ (EndRecording => Begin("unrecord")) /\ (RecordingFailed => Begin("recfailed"))
  BY DEF StartRecording, EndRecording, RecordingFailed
<1>6. (ListenLines => Begin("listen")) /\ (StopListening => Timer \/ Begin("unlisten"))
  BY DEF ListenLines, StopListening, Timer
<1> QED
  BY <1>1, <1>2, <1>3, <1>4, <1>5, <1>6 DEF Slots

\* What the calls and steps of the engine thread make of the phase.
LEMMA PhaseSlots ==
  ASSUME EngineInv, DiskErrors \subseteq {"create"}, Phase, link.fmt = profileFmt, Slots, UNCHANGED profile,
         profile \in Profiles
  PROVE  Phase' /\ link'.fmt = profileFmt' /\ ~RecordingFailed
<1> USE DEF Done, Goto
<1>1. ~CloseRaises /\ profile \in AnyCfg /\ FmtOf[profile] \in Formats /\ profileFmt \in Formats
      /\ link \in Links
  BY WindowAssumption DEF CloseRaises, EngineInv, TypeOK, DataOK
<1>2. ASSUME Begin("recfailed") PROVE FALSE
  <2>1. inbox[1].op = "recfailed" /\ at = "idle" /\ ~Behind(1)
    BY <1>2, BehindTaken DEF Begin
  <2> QED
    BY <2>1 DEF Phase, Profiling, Configuring, Building, Called, Calm, ProfileCall, ConfigureCall
<1>3. ~RecordingFailed
  BY <1>2 DEF RecordingFailed
<1>4. CASE Timer
  <2>1. UNCHANGED <<inbox, at, state, streams, profileFmt, link>> /\ job' = NoJob /\ at = "idle"
    BY <1>4 DEF Timer, StopListening, queueVars, sessionVars, configVars, dataVars, Begin
  <2> QED
    BY <1>3, <2>1 DEF Phase, Profiling, Configuring, Building, Called, Calm, Behind, OfProfile, OfStreams,
       ProfileCall, ConfigureCall
<1>5. CASE at = "idle" /\ ~Timer /\ Profiling
  <2>1. Begin("profile") /\ ConfigureProfile
    BY <1>5, SlotOfHead DEF Profiling, ProfileCall
  <2>2. profileFmt' = FmtOf[profile] /\ Head(inbox).fmt = FmtOf[profile]
    BY <1>5, <2>1, BehindTaken DEF ConfigureProfile, Profiling, ProfileCall
  <2>3. link'.fmt = profileFmt'
    <3>1. CASE state = "RUNNING"
      BY <1>5, <2>1, <2>2, <3>1 DEF ConfigureProfile, MaySwitchFormat, Profiling, OfProfile
    <3>2. CASE state # "RUNNING"
      BY <1>1, <2>1, <2>2, <3>2 DEF ConfigureProfile, MaySwitchFormat, UseFormat
    <3> QED
      BY <3>1, <3>2
  <2>4. Configuring'
    <3>1. at' = "idle" /\ Len(inbox') >= 1 /\ inbox'[1] = ConfigureCall /\ Behind(2)'
      BY <1>5, <2>1, BehindTaken DEF ConfigureProfile, Profiling
    <3> QED
      BY <2>2, <3>1 DEF Configuring, OfProfile, ConfigureCall
  <2> QED
    BY <1>3, <2>3, <2>4 DEF Phase
<1>6. CASE at = "idle" /\ ~Timer /\ Configuring
  <2>1. Begin("configure") /\ ConfigureStreams /\ Head(inbox) = ConfigureCall /\ Behind(1)'
    BY <1>6, SlotOfHead, BehindTaken DEF Configuring, ConfigureCall
  <2>2. Accepts(link.fmt, profile)
    BY <1>1, <1>6 DEF Accepts, Configuring, OfProfile
  <2>3. at' = "stores" /\ job' = ConfigureCall /\ link' = [link EXCEPT !.cfg = profile]
        /\ UNCHANGED <<profileFmt, state>>
    <3>1. Head(inbox).cfg = profile
      BY <2>1 DEF ConfigureCall
    <3>2. at' = "stores" /\ job' = Head(inbox) /\ link' = [link EXCEPT !.cfg = profile]
      BY <2>1, <2>2, <3>1 DEF ConfigureStreams
    <3> QED
      BY <2>1, <3>2 DEF ConfigureStreams, configVars, sessionVars
  <2>4. link'.fmt = link.fmt
    BY <1>1, <2>3 DEF Links
  <2> QED
    BY <1>3, <1>6, <2>1, <2>3, <2>4 DEF Phase, Building, Configuring, OfProfile, ConfigureCall
<1>7. CASE Building
  <2>1. ConfigureStores
    BY <1>7 DEF Slots, StartWorking, StartReplay, ResetLink, OpenTransport, StopWorking, ReaderFailed, JoinReader,
       WrapUp, ConfigureStreams, ConfigureProfile, StartRecording, NewFile, EndRecording, RecordingFailed,
       ListenLines, StopListening, Begin, Building
  <2>2. streams' = profile /\ at' = "idle" /\ state' # "IDLE" /\ UNCHANGED <<profileFmt, link, inbox>>
    BY <1>7, <2>1 DEF ConfigureStores, Building, ConfigureCall, queueVars
  <2> QED
    BY <1>3, <1>7, <2>2 DEF Phase, Building, Calm, Behind, OfProfile, OfStreams
<1>8. ASSUME NEW op, Begin(op), UNCHANGED <<streams, profileFmt>>, state' = state \/ state' = "CONFIGURED",
             link'.fmt = link.fmt, OfStreams, Behind(1) \/ Behind(2),
             at' \in {"idle", "reset", "join", "newfile"}
      PROVE  Phase' /\ link'.fmt = profileFmt'
  BY <1>8, BehindTaken DEF Phase, Calm, OfProfile, OfStreams
<1>9. CASE at = "idle" /\ ~Timer /\ (Called \/ Calm)
  <2>1. OfStreams /\ (Behind(1) \/ Behind(2))
    BY <1>9 DEF Called, Calm
  <2>2. inbox # <<>> => inbox[1].op \in {"start", "stop", "record", "unrecord", "failed"}
    BY <1>9 DEF Called, Calm, Behind, EngineInv, TypeOK, QueueOK
  <2>3. CASE Begin("start") /\ StartWorking
    <3>1. link'.fmt = link.fmt
      BY <2>3 DEF StartWorking, UseFormat
    <3> QED
      BY <1>3, <1>8, <2>1, <2>3, <3>1 DEF StartWorking, sessionVars, configVars
  <2>4. CASE Begin("stop") /\ StopWorking
    BY <1>3, <1>8, <2>1, <2>4 DEF StopWorking, BeginStop, configVars, dataVars
  <2>5. CASE Begin("failed") /\ ReaderFailed
    BY <1>3, <1>8, <2>1, <2>5 DEF ReaderFailed, BeginStop, configVars, dataVars
  <2>6. CASE Begin("record") /\ StartRecording
    BY <1>1, <1>3, <1>8, <2>1, <2>6 DEF StartRecording, configVars, dataVars, sessionVars
  <2>7. CASE Begin("unrecord") /\ EndRecording
    BY <1>1, <1>3, <1>8, <2>1, <2>7 DEF EndRecording, configVars, dataVars, sessionVars
  <2> QED
    BY <1>9, <2>2, <2>3, <2>4, <2>5, <2>6, <2>7, SlotOfHead
<1>10. CASE at # "idle" /\ Calm
  <2>1. ResetLink \/ OpenTransport \/ JoinReader \/ WrapUp \/ NewFile
    BY <1>10 DEF Slots, StartWorking, StartReplay, StopWorking, ReaderFailed,
       ConfigureStreams, ConfigureStores, ConfigureProfile, StartRecording, EndRecording, RecordingFailed,
       ListenLines, StopListening, Begin, Calm
  <2>2. UNCHANGED <<inbox, streams, profileFmt>>
    BY <2>1 DEF ResetLink, OpenTransport, JoinReader, WrapUp, NewFile, queueVars, configVars
  <2>3. at' \in {"idle", "open", "wrapup"} /\ (state' = state \/ state' = "RUNNING")
    BY <1>1, <1>10, <2>1 DEF ResetLink, OpenTransport, JoinReader, WrapUp, NewFile, sessionVars
  <2>4. link'.fmt = link.fmt
    BY <1>1, <2>1 DEF ResetLink, OpenTransport, JoinReader, WrapUp, NewFile, dataVars, Links
  <2> QED
    BY <1>3, <1>10, <2>2, <2>3, <2>4 DEF Phase, Calm, Behind, OfProfile, OfStreams
<1> QED
  BY <1>4, <1>5, <1>6, <1>7, <1>9, <1>10 DEF Phase, Profiling, Configuring, Called

----------------------------------------------------------------------------
(* What the window shows, or is going to be told. *)

ConnectedTold ==
    \/ Told("connected", gui, Flag(connected), RunFlag(state))
    \/ (Waits("start") /\ state = "CONFIGURED") \/ at \in {"reset", "open"}
    \/ (Waits("stop") /\ state = "RUNNING")
CheckedTold ==
    \/ Told("checked", gui, Flag(recChecked), RecFlag(recorder))
    \/ (Waits("record") /\ state = "RUNNING") \/ at = "newfile"
    \/ (Waits("unrecord") /\ recorder # None)

Agreeing ==
    /\ Phase /\ link.fmt = profileFmt /\ RecordingShown
    /\ Told("state", gui, engineState, state) /\ ConnectedTold
    /\ Told("path", gui, recPath, shownRec) /\ CheckedTold

\* A window that is not yet constructed has asked for nothing.
Fresh ==
    /\ inbox = <<>> /\ gui = <<>> /\ at = "idle" /\ state = "IDLE" /\ link.fmt = profileFmt
    /\ engineState = "IDLE" /\ connected = FALSE /\ recPath = None /\ recChecked = FALSE
    /\ recorder = None /\ shownRec = None /\ heard = FALSE /\ \A s \in Sessions : ~Alive(s)

MirrorOK == GuiOK /\ connected \in BOOLEAN /\ recChecked \in BOOLEAN

AgreeInv == MirrorOK /\ (shut = "new" => Fresh) /\ (shut = "open" => Agreeing)

\* The signals a slot emits end what was said, or what was under way.
LEMMA SlotsAgree ==
  ASSUME EngineInv, DiskErrors \subseteq {"create"}, "sim" \notin Ports \/ NoCfg \notin Profiles,
         profile \in Profiles, GuiOK, Agreeing, Slots, gui' = gui \o out',
         UNCHANGED <<engineState, connected, recPath, recChecked, profile>>
  PROVE  Agreeing'
<1> USE DEF Done, Goto
<1>1. Phase' /\ link'.fmt = profileFmt' /\ ~RecordingFailed
  BY PhaseSlots DEF Agreeing
<1>2. /\ Told("path", out', shownRec, shownRec') /\ RecordingShown'
      /\ Told("checked", out', RecFlag(recorder), RecFlag(recorder'))
      /\ NewFile \/ (EndRecording /\ recorder # None) => ~SaysNothing("checked", out', 0)
  BY <1>1, SlotsTellRecording DEF Agreeing
<1>3. /\ Told("state", out', state, state') /\ Told("connected", out', RunFlag(state), RunFlag(state'))
      /\ OpenTransport \/ (StopWorking /\ state = "RUNNING") => ~SaysNothing("connected", out', 0)
  BY SlotsTellState
<1>4. out' \in Seq(Signals) /\ gui \in Seq(Signals)
  BY OutType DEF GuiOK
<1>5. Told("state", gui', engineState', state')
  BY <1>3, <1>4, ToldMore DEF Agreeing
<1>6. Told("path", gui', recPath', shownRec')
  BY <1>2, <1>4, ToldMore DEF Agreeing
<1>7. ASSUME Told("connected", gui, Flag(connected), RunFlag(state)) \/ ~SaysNothing("connected", out', 0)
      PROVE  ConnectedTold'
  BY <1>3, <1>4, <1>7, ToldMore DEF ConnectedTold
<1>8. ASSUME Told("checked", gui, Flag(recChecked), RecFlag(recorder)) \/ ~SaysNothing("checked", out', 0)
      PROVE  CheckedTold'
  BY <1>2, <1>4, <1>8, ToldMore DEF CheckedTold
<1>9. ASSUME at = "idle", Timer, NEW op, Waits(op)
      PROVE  Waits(op)' /\ UNCHANGED <<state, recorder>>
  BY <1>9 DEF Timer, StopListening, Waits, queueVars, sessionVars
<1>10. ConnectedTold'
  <2>1. CASE Waits("start") /\ state = "CONFIGURED"
    <3>1. CASE Timer
      BY <1>9, <2>1, <3>1 DEF ConnectedTold, Waits
    <3>2. CASE ~Timer
      <4>1. Called
        <5>1. at = "idle" /\ inbox[1].op = "start" /\ inbox # <<>>
          BY <2>1 DEF Waits
        <5>2. 1 \in DOMAIN inbox
          <6>1. inbox \in Seq(Events)
            BY DEF EngineInv, TypeOK, QueueOK
          <6> QED
            BY <5>1, <6>1
        <5>3. ~Profiling /\ ~Configuring /\ ~Building
          BY <5>1 DEF Profiling, Configuring, Building, ProfileCall, ConfigureCall
        <5>4. ~Calm
          BY <5>1, <5>2 DEF Calm, Behind
        <5> QED
          BY <5>3, <5>4 DEF Agreeing, Phase
      <4>2. Begin("start") /\ StartWorking /\ Head(inbox) = inbox[1]
        BY <2>1, <3>2, SlotOfHead, BehindTaken DEF Waits
      <4>3. ~(Head(inbox).kind = "sim" /\ streams = NoCfg)
        BY <2>1, <4>1, <4>2 DEF Called, Waits, OfStreams
      <4>4. at' = "reset"
        BY <2>1, <4>2, <4>3 DEF StartWorking, CanStart
      <4> QED
        BY <4>4 DEF ConnectedTold
    <3> QED
      BY <3>1, <3>2
  <2>2. CASE at = "reset"
    <3>1. ResetLink
      BY <2>2 DEF Slots, StartWorking, StartReplay, OpenTransport, StopWorking, ReaderFailed, JoinReader,
         WrapUp, ConfigureStreams, ConfigureStores, ConfigureProfile, StartRecording, NewFile, EndRecording,
         RecordingFailed, ListenLines, StopListening, Begin
    <3> QED
      BY <3>1 DEF ResetLink, ConnectedTold
  <2>3. CASE at = "open"
    <3>1. OpenTransport
      BY <2>3 DEF Slots, StartWorking, StartReplay, ResetLink, StopWorking, ReaderFailed, JoinReader,
         WrapUp, ConfigureStreams, ConfigureStores, ConfigureProfile, StartRecording, NewFile, EndRecording,
         RecordingFailed, ListenLines, StopListening, Begin
    <3> QED
      BY <1>3, <1>7, <3>1
  <2>4. CASE Waits("stop") /\ state = "RUNNING"
    <3>1. CASE Timer
      BY <1>9, <2>4, <3>1 DEF ConnectedTold, Waits
    <3>2. CASE ~Timer
      <4>1. StopWorking
        BY <2>4, <3>2, SlotOfHead DEF Waits
      <4> QED
        BY <1>3, <1>7, <2>4, <4>1
    <3> QED
      BY <3>1, <3>2
  <2> QED
    BY <1>7, <2>1, <2>2, <2>3, <2>4 DEF Agreeing, ConnectedTold
<1>11. CheckedTold'
  <2>1. CASE Waits("record") /\ state = "RUNNING"
    <3>1. CASE Timer
      BY <1>9, <2>1, <3>1 DEF CheckedTold, Waits
    <3>2. CASE ~Timer
      <4>1. StartRecording /\ ~CloseRaises
        BY <2>1, <3>2, SlotOfHead DEF Waits, CloseRaises
      <4> QED
        BY <2>1, <4>1 DEF StartRecording, CheckedTold
    <3> QED
      BY <3>1, <3>2
  <2>2. CASE at = "newfile"
    <3>1. NewFile
      BY <2>2 DEF Slots, StartWorking, StartReplay, ResetLink, OpenTransport, StopWorking, ReaderFailed, JoinReader,
         WrapUp, ConfigureStreams, ConfigureStores, ConfigureProfile, StartRecording, EndRecording,
         RecordingFailed, ListenLines, StopListening, Begin
    <3> QED
      BY <1>2, <1>8, <3>1
  <2>3. CASE Waits("unrecord") /\ recorder # None
    <3>1. CASE Timer
      BY <1>9, <2>3, <3>1 DEF CheckedTold, Waits
    <3>2. CASE ~Timer
      <4>1. EndRecording
        BY <2>3, <3>2, SlotOfHead DEF Waits
      <4> QED
        BY <1>2, <1>8, <2>3, <4>1
    <3> QED
      BY <3>1, <3>2
  <2> QED
    BY <1>8, <2>1, <2>2, <2>3 DEF Agreeing, CheckedTold
<1> QED
  BY <1>1, <1>2, <1>5, <1>6, <1>10, <1>11 DEF Agreeing

----------------------------------------------------------------------------
(* The other steps. *)

\* A reader that is not alive takes no step, and a reader's step says nothing; with the
\* disk writing, it posts nothing but the failure of its session.
LEMMA ReaderQuiet ==
  ASSUME EngineInv, DiskErrors \subseteq {"create"}, NEW s \in Sessions, Reader(s)
  PROVE  /\ Alive(s) /\ out' = <<>>
         /\ UNCHANGED <<at, job, state, streams, profileFmt, recorder, shownRec>> /\ link'.fmt = link.fmt
         /\ \E new \in Seq(Events) : inbox' = inbox \o new /\ \A i \in DOMAIN new : new[i].op = "failed"
<1>1. Alive(s) /\ out' = <<>>
  BY DEF Reader, CheckStop, Read, ReportFailure, RecordChunk, FeedLink, GetStore, AppendRecords, ReaderAt, Emit, Alive
<1>2. UNCHANGED <<at, job, state, streams, profileFmt, recorder, shownRec>>
  BY DEF Reader, CheckStop, Read, ReportFailure, RecordChunk, FeedLink, GetStore, AppendRecords, ReaderAt,
     sessionVars, configVars
<1>3. link \in Links
  BY DEF EngineInv, TypeOK, DataOK
<1>4. link'.fmt = link.fmt
  BY <1>3 DEF Reader, CheckStop, Read, ReportFailure, RecordChunk, FeedLink, GetStore, AppendRecords, Links
<1>5. UNCHANGED inbox \/ inbox' = Append(inbox, [op |-> "failed", sess |-> s])
  BY DEF Reader, CheckStop, Read, ReportFailure, Report, RecordChunk, FeedLink, GetStore, AppendRecords
<1>6. CASE UNCHANGED inbox
  <2>1. PICK new \in Seq(Events) : inbox' = inbox \o new /\ new = <<>>
    BY <1>6, NothingPosted
  <2>2. \A i \in DOMAIN new : new[i].op = "failed"
    BY <2>1
  <2> QED
    BY <1>1, <1>2, <1>4, <2>1, <2>2
<1>7. CASE inbox' = Append(inbox, [op |-> "failed", sess |-> s])
  <2> DEFINE e == [op |-> "failed", sess |-> s]
  <2>1. e \in Events /\ e.op = "failed" /\ inbox \in Seq(Events)
    BY DEF Events, Failures, EngineInv, TypeOK, QueueOK
  <2>2. inbox' = Append(inbox, e)
    BY <1>7
  <2> HIDE DEF e
  <2>3. inbox' = inbox \o <<e>> /\ <<e>> \in Seq(Events) /\ \A i \in DOMAIN <<e>> : <<e>>[i].op = "failed"
    BY <2>1, <2>2
  <2> QED
    BY <1>1, <1>2, <1>4, <2>3
<1> QED
  BY <1>5, <1>6, <1>7

\* A reader gets in between: what is under way stays under way.
LEMMA ReaderAgrees ==
  ASSUME EngineInv, DiskErrors \subseteq {"create"}, GuiOK, Agreeing,
         NEW s \in Sessions, Reader(s), gui' = gui \o out',
         UNCHANGED <<engineState, connected, recPath, recChecked, profile>>
  PROVE  Agreeing'
<1>1. /\ gui' = gui \o <<>> /\ UNCHANGED <<at, job, state, streams, profileFmt, recorder, shownRec>>
      /\ link'.fmt = link.fmt
  BY ReaderQuiet
<1>2. gui' = gui
  BY <1>1 DEF GuiOK
<1>3. PICK new \in Seq(Events) : inbox' = inbox \o new /\ \A i \in DOMAIN new : new[i].op = "failed"
  BY ReaderQuiet
<1>4. Phase' /\ \A op : Waits(op) => Waits(op)'
  BY <1>1, <1>3, PhasePosted DEF Agreeing
<1>5. ConnectedTold'
  BY <1>1, <1>2, <1>4 DEF Agreeing, ConnectedTold
<1>6. CheckedTold'
  BY <1>1, <1>2, <1>4 DEF Agreeing, CheckedTold
<1> QED
  BY <1>1, <1>2, <1>4, <1>5, <1>6 DEF Agreeing, RecordingShown

\* The window handles a signal, and may ask for a recording.
LEMMA GuiAgrees ==
  ASSUME EngineInv, GuiOK, Agreeing, gui # <<>>, gui' = Tail(gui),
         UNCHANGED <<at, job, state, streams, profileFmt, link, recorder, shownRec, profile>>,
         inbox' = inbox \o <<>> \/ inbox' = inbox \o <<Record>>,
         engineState' = IF Subject("state", Head(gui)) THEN Says("state", Head(gui)) ELSE engineState,
         Flag(connected') = IF Subject("connected", Head(gui)) THEN Says("connected", Head(gui)) ELSE Flag(connected),
         recPath' = IF Subject("path", Head(gui)) THEN Says("path", Head(gui)) ELSE recPath,
         Flag(recChecked') = IF Subject("checked", Head(gui)) THEN Says("checked", Head(gui)) ELSE Flag(recChecked)
  PROVE  Agreeing'
<1>1. PICK new \in Seq(Events) : inbox' = inbox \o new /\ \A i \in DOMAIN new : new[i].op \in {"failed", "record"}
  <2>1. <<Record>> \in Seq(Events) /\ \A i \in DOMAIN <<Record>> : <<Record>>[i].op = "record"
    BY CallsAreEvents DEF Record
  <2>2. <<>> \in Seq(Events) /\ \A i \in DOMAIN <<>> : <<>>[i].op = "record"
    OBVIOUS
  <2> QED
    BY <2>1, <2>2
<1>2. Phase' /\ \A op : Waits(op) => Waits(op)'
  BY <1>1, PhasePosted DEF Agreeing
<1>3. gui \in Seq(Signals)
  BY DEF GuiOK
<1>4. Told("state", gui', engineState', state) /\ Told("path", gui', recPath', shownRec)
  BY <1>3, ToldTail DEF Agreeing
<1>5. Told("connected", gui, Flag(connected), RunFlag(state)) => Told("connected", gui', Flag(connected'), RunFlag(state))
  BY <1>3, ToldTail
<1>6. Told("checked", gui, Flag(recChecked), RecFlag(recorder)) => Told("checked", gui', Flag(recChecked'), RecFlag(recorder))
  BY <1>3, ToldTail
<1>7. ConnectedTold'
  <2>1. CASE Told("connected", gui, Flag(connected), RunFlag(state))
    <3>1. Told("connected", gui', Flag(connected'), RunFlag(state'))
      BY <1>5, <2>1
    <3> QED
      BY <3>1 DEF ConnectedTold
  <2>2. CASE ~Told("connected", gui, Flag(connected), RunFlag(state))
    BY <1>2, <2>2 DEF Agreeing, ConnectedTold
  <2> QED
    BY <2>1, <2>2
<1>8. CheckedTold'
  <2>1. CASE Told("checked", gui, Flag(recChecked), RecFlag(recorder))
    <3>1. Told("checked", gui', Flag(recChecked'), RecFlag(recorder'))
      BY <1>6, <2>1
    <3> QED
      BY <3>1 DEF CheckedTold
  <2>2. CASE ~Told("checked", gui, Flag(recChecked), RecFlag(recorder))
    BY <1>2, <2>2 DEF Agreeing, CheckedTold
  <2> QED
    BY <2>1, <2>2
<1> QED
  BY <1>2, <1>4, <1>7, <1>8 DEF Agreeing, RecordingShown

\* What each slot of the window makes of the signal it handles.
LEMMA SignalHandled ==
  ASSUME GuiOK, connected \in BOOLEAN, recChecked \in BOOLEAN,
         OnStateChanged \/ OnConnectionFailed \/ OnRecordingChanged \/ OnOther
  PROVE  /\ gui # <<>> /\ gui' = Tail(gui) /\ UNCHANGED <<profile, shut>>
         /\ inbox' = inbox \o <<>> \/ inbox' = inbox \o <<Record>>
         /\ engineState' = IF Subject("state", Head(gui)) THEN Says("state", Head(gui)) ELSE engineState
         /\ Flag(connected') = IF Subject("connected", Head(gui)) THEN Says("connected", Head(gui)) ELSE Flag(connected)
         /\ recPath' = IF Subject("path", Head(gui)) THEN Says("path", Head(gui)) ELSE recPath
         /\ Flag(recChecked') = IF Subject("checked", Head(gui)) THEN Says("checked", Head(gui)) ELSE Flag(recChecked)
         /\ connected' \in BOOLEAN /\ recChecked' \in BOOLEAN
<1> USE DEF Deliver, Invoke, Subject, Says, mirrorVars
<1>1. CASE OnStateChanged
  BY <1>1, Zenon DEF OnStateChanged, Flag, RunFlag
<1>2. CASE OnConnectionFailed
  BY <1>2, Zenon DEF OnConnectionFailed, ConnectedAfterFailure, Flag
<1>3. CASE OnRecordingChanged
  BY <1>3, Zenon DEF OnRecordingChanged, Flag, RecFlag
<1>4. CASE OnOther
  BY <1>4, Zenon DEF OnOther
<1> QED
  BY <1>1, <1>2, <1>3, <1>4

----------------------------------------------------------------------------
(* The user, who waits for the window to settle. *)

\* Nothing is under way: the window shows what the engine is.
LEMMA SettledShown ==
  ASSUME MirrorOK, EngineInv, Agreeing, Settled
  PROVE  /\ connected = (state = "RUNNING") /\ engineState = state
         /\ recPath = recorder /\ recChecked = (recorder # None)
         /\ OfStreams /\ shownRec = recorder
<1>1. \A what, shown, x : Told(what, <<>>, shown, x) => shown = x
  BY DEF Told
<1>2. \A op : ~Waits(op)
  BY DEF Settled, Waits
<1>3. OfStreams
  BY DEF Settled, Agreeing, Phase, Profiling, Configuring, Building, Called, Calm
<1>4. Flag(connected) = RunFlag(state)
  BY <1>1, <1>2 DEF Settled, Agreeing, ConnectedTold
<1>5. Flag(recChecked) = RecFlag(recorder)
  BY <1>1, <1>2 DEF Settled, Agreeing, CheckedTold
<1>6. engineState = state /\ recPath = shownRec /\ shownRec = recorder
  BY <1>1 DEF Settled, Agreeing, RecordingShown
<1>7. connected = (state = "RUNNING")
  BY <1>4 DEF Flag, RunFlag, MirrorOK
<1>8. recChecked = (recorder # None)
  BY <1>5 DEF Flag, RecFlag, MirrorOK
<1> QED
  BY <1>3, <1>6, <1>7, <1>8

\* One call in an empty queue.
LEMMA OneCall ==
  ASSUME NEW c, inbox = <<>>, inbox' = inbox \o <<c>>
  PROVE  Len(inbox') >= 1 /\ inbox'[1] = c /\ inbox' # <<>> /\ Behind(2)'
<1>1. inbox' = <<c>>
  OBVIOUS
<1>2. Len(<<c>>) = 1 /\ <<c>>[1] = c /\ <<c>> # <<>> /\ DOMAIN <<c>> = {1}
  OBVIOUS
<1> QED
  BY <1>1, <1>2 DEF Behind

\* A profile's two calls in an empty queue.
LEMMA ProfileCalls ==
  ASSUME NEW cfg, inbox = <<>>, inbox' = inbox \o ApplyProfile(cfg), profile' = cfg, at' = "idle",
         state' = "RUNNING" => OfProfile'
  PROVE  Profiling'
<1> DEFINE x == ProfileCall'
           y == ConfigureCall'
<1>1. inbox' = <<>> \o <<x, y>>
  BY DEF ApplyProfile, ProfileCall, ConfigureCall
<1> HIDE DEF x, y
<1>2. inbox' = <<x, y>> /\ Len(<<x, y>>) = 2 /\ <<x, y>>[1] = x /\ <<x, y>>[2] = y /\ DOMAIN <<x, y>> = {1, 2}
  BY <1>1
<1>3. Behind(3)'
  BY <1>2 DEF Behind
<1> QED
  BY <1>2, <1>3 DEF Profiling, x, y

\* What the user does once the window has settled is under way after that.
LEMMA UserAgrees ==
  ASSUME Hasty = FALSE, "replay" \notin UserOps, EngineInv, profile \in Profiles, MirrorOK, Agreeing,
         User, shut' = "open"
  PROVE  Agreeing'
<1> USE DEF UserInvokes, Invoke
<1>0. Settled
  BY DEF User, Connect, Disconnect, PlayRecording, SwitchProfile, SaveConfiguration, ToggleRecording, Close, UserMay
<1>1. /\ connected = (state = "RUNNING") /\ engineState = state
      /\ recPath = recorder /\ recChecked = (recorder # None)
      /\ OfStreams /\ shownRec = recorder
  BY <1>0, SettledShown
<1>2. inbox = <<>> /\ at = "idle" /\ gui = <<>> /\ state \in {"CONFIGURED", "RUNNING"}
  BY <1>0, <1>1 DEF Settled, OfStreams, EngineInv, TypeOK, SessionOK
<1>3. UNCHANGED <<at, job, state, streams, profileFmt, link, recorder, shownRec>> /\ UNCHANGED gui
  <2>1. UNCHANGED <<at, job, sessionVars, configVars, dataVars, recVars, rd>>
    BY WindowStepFrame DEF WindowStep
  <2>2. UNCHANGED gui
    BY DEF User, Connect, Disconnect, PlayRecording, SwitchProfile, SaveConfiguration, ToggleRecording, Close
  <2> QED
    BY <2>1, <2>2 DEF sessionVars, configVars, dataVars, recVars
<1>4. ASSUME Phase', UNCHANGED <<engineState, recPath>>, ConnectedTold', CheckedTold'
      PROVE  Agreeing'
  BY <1>2, <1>3, <1>4 DEF Agreeing, RecordingShown
<1>5. UNCHANGED connected => ConnectedTold'
  <2>0. Flag(connected) = RunFlag(state) /\ \A x : Told("connected", <<>>, x, x)
    BY <1>1, ToldFew DEF Flag, RunFlag
  <2>1. Told("connected", gui, Flag(connected), RunFlag(state))
    BY <1>2, <2>0
  <2> QED
    BY <1>3, <2>1 DEF ConnectedTold
<1>6. UNCHANGED recChecked => CheckedTold'
  <2>0. Flag(recChecked) = RecFlag(recorder) /\ \A x : Told("checked", <<>>, x, x)
    BY <1>1, ToldFew DEF Flag, RecFlag
  <2>1. Told("checked", gui, Flag(recChecked), RecFlag(recorder))
    BY <1>2, <2>0
  <2> QED
    BY <1>3, <2>1 DEF CheckedTold
<1>7. CASE Connect
  <2>1. PICK kind \in Ports : inbox' = inbox \o <<[op |-> "start", kind |-> kind, id |-> calls + 1]>>
    BY <1>7 DEF Connect
  <2> DEFINE c == [op |-> "start", kind |-> kind, id |-> calls + 1]
  <2>2. c.op = "start" /\ c.kind \in Ports /\ inbox' = inbox \o <<c>>
    BY <2>1
  <2> HIDE DEF c
  <2>3. Called' /\ Waits("start")'
    BY <1>1, <1>2, <1>3, <1>7, <2>2, OneCall DEF Called, Waits, OfStreams, OfProfile, Connect
  <2>4. state' = "CONFIGURED"
    BY <1>1, <1>2, <1>3, <1>7 DEF Connect
  <2> QED
    BY <1>4, <1>6, <1>7, <2>3, <2>4 DEF Phase, ConnectedTold, Connect
<1>8. CASE Disconnect
  <2>1. Stop.op = "stop" /\ inbox' = inbox \o <<Stop>>
    BY <1>8 DEF Disconnect, Stop
  <2>2. Called' /\ Waits("stop")'
    BY <1>1, <1>2, <1>3, <1>8, <2>1, OneCall DEF Called, Waits, OfStreams, OfProfile, Disconnect
  <2>3. state' = "RUNNING"
    BY <1>1, <1>3, <1>8 DEF Disconnect
  <2> QED
    BY <1>4, <1>6, <1>8, <2>2, <2>3 DEF Phase, ConnectedTold, Disconnect
<1>9. CASE SwitchProfile \/ SaveConfiguration
  <2>1. PICK cfg : /\ inbox' = inbox \o ApplyProfile(cfg) /\ profile' = cfg
                   /\ state = "RUNNING" => FmtOf[cfg] = FmtOf[profile]
    BY <1>1, <1>9 DEF SwitchProfile, SaveConfiguration
  <2>2. Profiling'
    BY <1>1, <1>2, <1>3, <2>1, ProfileCalls DEF OfProfile, OfStreams
  <2> QED
    BY <1>4, <1>5, <1>6, <1>9, <2>2 DEF Phase, SwitchProfile, SaveConfiguration, mirrorVars
<1>10. CASE ToggleRecording
  <2>0. PICK c : c = IF recChecked THEN [op |-> "unrecord"] ELSE Record
    OBVIOUS
  <2>1. inbox' = inbox \o <<c>> /\ (engineState = "RUNNING" \/ recPath # None)
        /\ UNCHANGED <<engineState, connected, recPath, profile>>
    BY <1>10, <2>0 DEF ToggleRecording
  <2>2. \/ recorder # None /\ c.op = "unrecord"
        \/ state = "RUNNING" /\ c.op = "record"
    <3>1. CASE recChecked
      BY <1>1, <2>0, <3>1
    <3>2. CASE ~recChecked
      BY <1>1, <2>0, <2>1, <3>2 DEF Record
    <3> QED
      BY <3>1, <3>2
  <2>3. Len(inbox') >= 1 /\ inbox'[1] = c /\ inbox' # <<>> /\ Behind(2)'
    BY <1>2, <2>1, OneCall
  <2>4. (\A op : c.op = op => Waits(op)') /\ Called'
    BY <1>1, <1>2, <1>3, <2>1, <2>2, <2>3 DEF Waits, Called, OfStreams, OfProfile
  <2>5. CheckedTold'
    <3>1. CASE recorder # None /\ c.op = "unrecord"
      BY <1>3, <2>4, <3>1 DEF CheckedTold
    <3>2. CASE state = "RUNNING" /\ c.op = "record"
      BY <1>3, <2>4, <3>2 DEF CheckedTold
    <3> QED
      BY <2>2, <3>1, <3>2
  <2> QED
    BY <1>4, <1>5, <2>1, <2>4, <2>5 DEF Phase
<1>11. ~Close /\ ~PlayRecording
  BY DEF Close, PlayRecording, UserMay
<1> QED
  BY <1>7, <1>8, <1>9, <1>10, <1>11 DEF User

----------------------------------------------------------------------------
(* The window is constructed, and stays true. *)

\* Before that, nothing can happen but the end of __init__.
LEMMA FreshStep ==
  ASSUME EngineInv, DiskErrors \subseteq {"create"}, shut = "new", Fresh, WNext
  PROVE  Construct
<1>1. ~Slots
  BY DEF Fresh, Slots, StartWorking, StartReplay, ResetLink, OpenTransport, StopWorking, ReaderFailed, JoinReader,
         WrapUp, ConfigureStreams, ConfigureStores, ConfigureProfile, StartRecording, NewFile, EndRecording,
         RecordingFailed, ListenLines, StopListening, Begin
<1>2. \A s \in Sessions : ~Reader(s)
  BY ReaderQuiet DEF Fresh
<1>3. ~User /\ ~GuiStep
  BY DEF User, Connect, Disconnect, PlayRecording, SwitchProfile, SaveConfiguration, ToggleRecording, Close, UserMay,
     GuiStep, OnStateChanged, OnConnectionFailed, OnRecordingChanged, OnOther, Deliver, Closed
<1> QED
  BY <1>1, <1>2, <1>3 DEF WNext, EngineStep

\* The end of __init__ asks for the profile shown.
LEMMA ConstructAgrees ==
  ASSUME EngineInv, Fresh, Construct
  PROVE  Agreeing'
<1>1. inbox = <<>> /\ inbox' = inbox \o ApplyProfile(profile) /\ profile' = profile
      /\ UNCHANGED <<at, state, profileFmt, link, recorder, shownRec, gui, engineState, connected, recPath, recChecked>>
  BY DEF Construct, Invoke, Fresh, sessionVars, configVars, dataVars, recVars, mirrorVars
<1>2. Profiling'
  BY <1>1, ProfileCalls DEF Fresh
<1>3. \A what, x : Told(what, <<>>, x, x)
  BY DEF Told, SaysNothing
<1>4. Flag(connected) = RunFlag(state) /\ Flag(recChecked) = RecFlag(recorder)
  BY DEF Fresh, Flag, RunFlag, RecFlag
<1>5. ConnectedTold' /\ CheckedTold'
  BY <1>1, <1>3, <1>4 DEF ConnectedTold, CheckedTold, Fresh
<1> QED
  BY <1>1, <1>2, <1>3, <1>5 DEF Agreeing, Phase, RecordingShown, Fresh

\* AgreeInv is inductive: a step of any thread keeps it.
LEMMA StepAgrees ==
  ASSUME Hasty = FALSE, DiskErrors \subseteq {"create"}, "replay" \notin UserOps,
         "sim" \notin Ports \/ NoCfg \notin Profiles,
         EngineInv, profile \in Profiles, AgreeInv, [WNext]_wvars
  PROVE  AgreeInv'
<1> USE DEF mirrorVars
<1>1. GuiOK'
  BY StepGui DEF AgreeInv, MirrorOK
<1>2. connected' \in BOOLEAN /\ recChecked' \in BOOLEAN
  <2>1. CASE OnStateChanged \/ OnConnectionFailed \/ OnRecordingChanged \/ OnOther
    BY <2>1, SignalHandled DEF AgreeInv, MirrorOK
  <2>2. CASE User
    BY <2>2 DEF AgreeInv, MirrorOK, User, Connect, Disconnect, PlayRecording, SwitchProfile, SaveConfiguration,
       ToggleRecording, Close
  <2>3. CASE UNCHANGED mirrorVars
    BY <2>3 DEF AgreeInv, MirrorOK
  <2> QED
    BY <2>1, <2>2, <2>3 DEF WNext, GuiStep, Closed, Construct, EngineStep, wvars
<1>3. MirrorOK'
  BY <1>1, <1>2 DEF MirrorOK
<1>4. CASE shut = "new"
  <2>1. CASE UNCHANGED wvars
    <3>1. UNCHANGED <<inbox, gui, at, state, link, profileFmt, engineState, connected, recPath, recChecked, recorder,
                      shownRec, heard, rd, shut>>
      BY <2>1 DEF wvars, vars, queueVars, sessionVars, configVars, dataVars, recVars
    <3> QED
      BY <1>3, <1>4, <3>1 DEF AgreeInv, Fresh, Alive
  <2>2. CASE WNext
    BY <1>3, <1>4, <2>2, FreshStep, ConstructAgrees DEF AgreeInv, Construct
  <2> QED
    BY <2>1, <2>2
<1>5. CASE shut # "new"
  <2>1. shut' # "new" /\ (shut' = "open" => shut = "open")
    BY <1>5 DEF WNext, Construct, EngineStep, GuiStep, Closed, OnStateChanged, OnConnectionFailed, OnRecordingChanged,
       OnOther, Deliver, User, Connect, Disconnect, PlayRecording, SwitchProfile, SaveConfiguration, ToggleRecording,
       Close, UserMay, wvars
  <2> SUFFICES ASSUME shut = "open", shut' = "open" PROVE Agreeing'
    BY <1>3, <2>1 DEF AgreeInv
  <2>2. Agreeing /\ MirrorOK /\ GuiOK
    BY DEF AgreeInv, MirrorOK
  <2>3. CASE EngineStep
    <3>1. gui' = gui \o out' /\ UNCHANGED <<engineState, connected, recPath, recChecked, profile>>
      BY <2>3 DEF EngineStep
    <3> QED
      BY <2>2, <2>3, <3>1, SlotsAgree, ReaderAgrees DEF EngineStep
  <2>4. CASE OnStateChanged \/ OnConnectionFailed \/ OnRecordingChanged \/ OnOther
    <3>1. UNCHANGED <<at, job, state, streams, profileFmt, link, recorder, shownRec>>
      <4>1. UNCHANGED <<at, job, sessionVars, configVars, dataVars, recVars, rd>>
        BY <2>4, WindowStepFrame DEF WindowStep, GuiStep
      <4> QED
        BY <4>1 DEF sessionVars, configVars, dataVars, recVars
    <3> QED
      BY <2>2, <2>4, <3>1, SignalHandled, GuiAgrees DEF MirrorOK
  <2>5. CASE User
    BY <2>2, <2>5, UserAgrees
  <2>6. CASE UNCHANGED wvars
    <3>1. UNCHANGED <<inbox, gui, at, job, state, streams, link, profileFmt, engineState, connected, recPath, recChecked,
                      recorder, shownRec, profile>>
      BY <2>6 DEF wvars, vars, queueVars, sessionVars, configVars, dataVars, recVars
    <3> QED
      BY <2>2, <3>1 DEF Agreeing, Phase, Profiling, Configuring, Building, Called, Calm, Behind, OfProfile, OfStreams,
         ProfileCall, ConfigureCall, RecordingShown, ConnectedTold, CheckedTold, Waits
  <2> QED
    BY <2>3, <2>4, <2>5, <2>6 DEF WNext, Construct, GuiStep, Closed
<1> QED
  BY <1>4, <1>5

\* MainWindow, WindowAndEngineAgree: for a user who waits for the window to settle, on a
\* disk that fails at most when a file is created, and but for replays.
THEOREM WindowAgrees ==
  ASSUME Hasty = FALSE, DiskErrors \subseteq {"create"}, "replay" \notin UserOps,
         "sim" \notin Ports \/ NoCfg \notin Profiles
  PROVE  WSpec => []WindowAndEngineAgree
<1> DEFINE Inv == EngineInv /\ profile \in Profiles /\ AgreeInv
<1>1. WInit => Inv
  <2> SUFFICES ASSUME WInit PROVE Inv
    OBVIOUS
  <2>1. gui \in Seq(Signals)
    BY DEF WInit
  <2> QED
    BY <2>1, WInitEngine DEF WInit, Init, AgreeInv, MirrorOK, GuiOK, Fresh, Alive, NoReader
<1>2. Inv /\ [WNext]_wvars => Inv'
  BY StepEngine, StepAgrees
<1>3. Inv => WindowAndEngineAgree
  BY SettledShown DEF AgreeInv, WindowAndEngineAgree, OfStreams, OfProfile
<1> QED
  BY <1>1, <1>2, <1>3, PTL DEF WSpec

----------------------------------------------------------------------------
(***************************************************************************)
(* Console: a dialog that listens is answered.  Its call waits in the      *)
(* queue until the engine takes it; the engine then listens, or has told   *)
(* it at once that it heard nothing; and an engine that listens no more    *)
(* has told it what it heard.                                              *)
(***************************************************************************)

\* A set of numbers that is not empty has a least one.
LEMMA LeastOf ==
  ASSUME NEW T, T \subseteq Nat, T # {}
  PROVE  \E x \in T : \A y \in T : x <= y
<1> DEFINE R == OpToRel(<, Nat)
<1>1. IsWellFoundedOn(R, Nat)
  BY NatLessThanWellFounded
<1>2. \A x, y \in Nat : <<y, x>> \in R <=> y < x
  BY DEF OpToRel
<1> HIDE DEF R
<1>3. PICK x \in T : \A y \in T : ~ (<<y, x>> \in R)
  BY <1>1, WFMin
<1>4. ASSUME NEW y \in T PROVE x <= y
  <2>1. x \in Nat /\ y \in Nat
    OBVIOUS
  <2>2. ~(y < x)
    BY <1>2, <1>3, <2>1
  <2> QED
    BY <2>1, <2>2
<1> QED
  BY <1>4

\* What holds at 0, and goes on to the next number up to N, holds up to N.
LEMMA Upto ==
  ASSUME NEW N \in Nat, NEW A, 0 \in A, \A m \in 0..(N - 1) : m \in A => m + 1 \in A
  PROVE  \A m \in 0..N : m \in A
<1> DEFINE T == {m \in 0..N : m \notin A}
<1>1. SUFFICES ASSUME T # {} PROVE FALSE
  OBVIOUS
<1>2. PICK x \in T : \A y \in T : x <= y
  <2>1. T \subseteq Nat
    OBVIOUS
  <2> HIDE DEF T
  <2> QED
    BY <1>1, <2>1, LeastOf
<1>3. x \in Nat /\ x # 0 /\ x <= N
  OBVIOUS
<1>4. PICK m : m = x - 1
  OBVIOUS
<1>5. m \in 0..(N - 1) /\ m + 1 = x /\ m \in 0..N /\ ~(x <= m)
  BY <1>3, <1>4
<1>6. m \in A
  BY <1>2, <1>5
<1> QED
  BY <1>5, <1>6

\* What the dialog is told of, of the signals emitted whose places are in a set.
Hearing(it, n, signals) ==
    it = [S \in SUBSET (1..n) |-> IF S = {} THEN <<>>
                                  ELSE HearsOf(it[S \ {Max(S)}], signals[Max(S)])]

LEMMA HearingFurther ==
  ASSUME NEW n \in Nat, NEW signals, NEW g, Hearing(g, n, signals)
  PROVE  \E h : Hearing(h, n + 1, signals)
<1> DEFINE HearsAt(v, i) == HearsOf(v, signals[i])
           L == n + 1
           h == [S \in SUBSET (1..L) |-> IF L \in S THEN HearsAt(g[S \ {L}], L) ELSE g[S]]
<1>1. \A S \in SUBSET (1..n) : g[S] = IF S = {} THEN <<>> ELSE HearsAt(g[S \ {Max(S)}], Max(S))
  BY DEF Hearing
<1>2. L \in Nat /\ L \in 1..L /\ 1..n = (1..L) \ {L} /\ \A y \in 1..L : L >= y /\ (y >= L => y = L)
  OBVIOUS
<1> HIDE DEF HearsAt, L
<1>3. ASSUME NEW S \in SUBSET (1..L)
      PROVE  h[S] = IF S = {} THEN <<>> ELSE HearsAt(h[S \ {Max(S)}], Max(S))
  <2>1. CASE L \in S
    <3>1. Max(S) = L
      <4>1. \A y \in S : L >= y
        BY <1>2
      <4>2. \A x \in S : (\A y \in S : x >= y) => x = L
        BY <1>2, <2>1
      <4> QED
        BY <2>1, <4>1, <4>2 DEF Max
    <3>2. S \ {L} \in SUBSET (1..L) /\ L \notin S \ {L} /\ S # {}
      BY <2>1
    <3>3. h[S \ {L}] = g[S \ {L}]
      BY <3>2
    <3> QED
      BY <2>1, <3>1, <3>2, <3>3
  <2>2. CASE L \notin S /\ S # {}
    <3>1. S \in SUBSET (1..n) /\ S \ {Max(S)} \in SUBSET (1..L) /\ L \notin S \ {Max(S)}
      BY <1>2, <2>2
    <3>2. h[S \ {Max(S)}] = g[S \ {Max(S)}] /\ h[S] = g[S]
      BY <2>2, <3>1
    <3> QED
      BY <1>1, <2>2, <3>1, <3>2
  <2>3. CASE S = {}
    <3>1. {} \in SUBSET (1..n) /\ L \notin {}
      OBVIOUS
    <3>2. g[{}] = <<>>
      BY <1>1, <3>1
    <3> QED
      BY <2>3, <3>2
  <2> QED
    BY <2>1, <2>2, <2>3
<1>4. h = [S \in SUBSET (1..L) |-> IF S = {} THEN <<>> ELSE HearsAt(h[S \ {Max(S)}], Max(S))]
  <2>1. h = [S \in SUBSET (1..L) |-> h[S]]
    OBVIOUS
  <2> HIDE DEF h
  <2> QED
    BY <1>3, <2>1
<1> HIDE DEF h
<1> QED
  BY <1>4 DEF Hearing, HearsAt, L

LEMMA HearingExists == ASSUME NEW N \in Nat, NEW signals PROVE \E it : Hearing(it, N, signals)
<1> DEFINE A == {n \in Nat : \E it : Hearing(it, n, signals)}
<1>1. 0 \in A
  <2> DEFINE it == [S \in {{}} |-> <<>>]
  <2>1. SUBSET (1..0) = {{}}
    OBVIOUS
  <2>2. it = [S \in SUBSET (1..0) |-> IF S = {} THEN <<>>
                                      ELSE HearsOf(it[S \ {Max(S)}], signals[Max(S)])]
    BY <2>1
  <2> QED
    BY <2>2 DEF Hearing
<1>2. \A n \in 0..(N - 1) : n \in A => n + 1 \in A
  BY HearingFurther
<1> HIDE DEF A
<1>3. N \in A
  BY <1>1, <1>2, Upto
<1> QED
  BY <1>3 DEF A

\* A sequence and what follows it.
LEMMA Places ==
  ASSUME NEW S, NEW q \in Seq(S), NEW r \in Seq(S)
  PROVE  /\ q \o r \in Seq(S)
         /\ \A i \in DOMAIN q : i \in DOMAIN (q \o r) /\ (q \o r)[i] = q[i]
         /\ \A i \in DOMAIN r : Len(q) + i \in DOMAIN (q \o r) /\ (q \o r)[Len(q) + i] = r[i]
OBVIOUS

\* The dialog is told signals of the engine, and that something was heard if it was.
LEMMA HeardIsTold ==
  ASSUME NEW S, NEW signals \in Seq(S)
  PROVE  LET hears == FoldLeft(HearsOf, <<>>, signals)
         IN  /\ hears \in Seq(S)
             /\ Pending(signals, "sig", "heard") => Pending(hears, "sig", "heard")
<1> DEFINE n == Len(signals)
           it == CHOOSE it_1 : Hearing(it_1, n, signals)
           Sound(m) == /\ it[1..m] \in Seq(S)
                       /\ \A i \in 1..m : signals[i].sig = "heard" => Pending(it[1..m], "sig", "heard")
           A == {m \in 0..n : Sound(m)}
<1>1. n \in Nat /\ DOMAIN signals = 1..n /\ \A m \in 1..n : signals[m] \in S
  OBVIOUS
<1>2. Hearing(it, n, signals)
  BY <1>1, HearingExists
<1>3. FoldLeft(HearsOf, <<>>, signals) = it[1..n]
  BY <1>1, Zenon DEF FoldLeft, MapThenFoldSet, Hearing
<1> HIDE DEF it, n
<1>4. 0 \in A
  <2>1. 1..0 = {} /\ {} \in SUBSET (1..n) /\ 0 \in 0..n
    BY <1>1
  <2>2. it[1..0] = <<>>
    BY <1>2, <2>1 DEF Hearing
  <2>3. it[1..0] \in Seq(S) /\ \A i \in 1..0 : signals[i].sig = "heard" => Pending(it[1..0], "sig", "heard")
    BY <2>1, <2>2
  <2> QED
    BY <2>1, <2>3
<1>5. ASSUME NEW m \in 0..(n - 1), m \in A PROVE m + 1 \in A
  <2> DEFINE v == it[1..m]
             w == it[1..(m + 1)]
             x == signals[m + 1]
  <2>0. m \in Nat /\ m + 1 \in 0..n /\ m + 1 \in 1..n
    BY <1>1
  <2>1. /\ 1..(m + 1) \in SUBSET (1..n) /\ 1..(m + 1) # {} /\ (1..(m + 1)) \ {m + 1} = 1..m
        /\ m + 1 \in 0..n /\ m + 1 \in 1..n /\ 1..(m + 1) = (1..m) \cup {m + 1}
    <3>1. 1..(m + 1) \in SUBSET (1..n)
      BY <1>1, <2>0
    <3>2. (1..(m + 1)) \ {m + 1} = 1..m
      BY <2>0
    <3>3. 1..(m + 1) = (1..m) \cup {m + 1} /\ m + 1 \in 1..(m + 1)
      BY <2>0
    <3> QED
      BY <2>0, <3>1, <3>2, <3>3
  <2>2. Max(1..(m + 1)) = m + 1
    <3>1. m + 1 \in 1..(m + 1) /\ \A y \in 1..(m + 1) : m + 1 >= y /\ (y >= m + 1 => y = m + 1)
      BY <1>1
    <3> QED
      BY <3>1 DEF Max
  <2>3. w = HearsOf(v, x)
    BY <1>2, <2>1, <2>2 DEF Hearing
  <2>4. v \in Seq(S) /\ x \in S /\ \A i \in 1..m : signals[i].sig = "heard" => Pending(v, "sig", "heard")
    BY <1>1, <1>5, <2>1
  <2> HIDE DEF v, w
  <2>5. w \in Seq(S) /\ (Pending(v, "sig", "heard") \/ x.sig = "heard" => Pending(w, "sig", "heard"))
    <3>1. CASE x.sig \in {"state", "heard"}
      <4>1. w = Append(v, x)
        BY <2>3, <3>1 DEF HearsOf
      <4>2. w \in Seq(S) /\ Len(v) + 1 \in DOMAIN w /\ w[Len(v) + 1] = x /\ \A i \in DOMAIN v : i \in DOMAIN w /\ w[i] = v[i]
        BY <2>4, <4>1
      <4> QED
        BY <4>2 DEF Pending
    <3>2. CASE x.sig \notin {"state", "heard"}
      BY <2>3, <2>4, <3>2 DEF HearsOf
    <3> QED
      BY <3>1, <3>2
  <2>6. \A i \in 1..(m + 1) : signals[i].sig = "heard" => Pending(w, "sig", "heard")
    BY <2>1, <2>4, <2>5
  <2> QED
    BY <2>1, <2>5, <2>6 DEF v, w
<1> HIDE DEF A
<1>6. n \in A
  BY <1>1, <1>4, <1>5, Upto
<1>7. Sound(n)
  BY <1>6 DEF A
<1> HIDE DEF Sound
<1> QED
  BY <1>1, <1>3, <1>7 DEF Sound, Pending

\* Who waits for an answer has its call in the queue, or an engine that listens.
Awaited == heard \/ Pending(inbox, "op", "listen")

\* What is posted leaves the call where it is.
LEMMA AwaitedPosted ==
  ASSUME EngineInv, NEW new \in Seq(Events), inbox' = inbox \o new, heard' = heard, Awaited
  PROVE  Awaited'
<1>1. \A i \in DOMAIN inbox : i \in DOMAIN inbox' /\ inbox'[i] = inbox[i]
  BY DEF EngineInv, TypeOK, QueueOK
<1> QED
  BY <1>1 DEF Awaited, Pending

\* A slot for another call takes that call.
LEMMA AwaitedTaken ==
  ASSUME EngineInv, NEW op, op # "listen", Begin(op), Awaited
  PROVE  heard \/ Pending(inbox, "op", "listen")'
<1>1. inbox \in Seq(Events) /\ inbox # <<>> /\ inbox[1].op = op /\ inbox' = Tail(inbox)
  BY DEF EngineInv, TypeOK, QueueOK, Begin
<1>2. \A i \in DOMAIN inbox : i # 1 => i - 1 \in DOMAIN inbox' /\ inbox'[i - 1] = inbox[i]
  BY <1>1
<1> QED
  BY <1>1, <1>2 DEF Awaited, Pending

\* engine.py: each slot answers the call it takes, or leaves it, and who listens is told
\* what was heard.
LEMMA SlotsAnswer ==
  ASSUME EngineInv, Slots \/ EmitLinkStats, Awaited, at' # "aborted"
  PROVE  Awaited' \/ Pending(out', "sig", "heard")
<1> USE DEF Emit
<1>1. \A any \in BOOLEAN : Pending(<<LinesHeard(any)>>, "sig", "heard")
  <2> TAKE any \in BOOLEAN
  <2> DEFINE q == <<LinesHeard(any)>>
  <2>1. 1 \in DOMAIN q /\ q[1]["sig"] = "heard"
    BY DEF LinesHeard
  <2> QED
    BY <2>1 DEF Pending
<1>2. CASE ListenLines
  BY <1>1, <1>2 DEF ListenLines, AnsweredAtOnce, Awaited
<1>3. CASE StopListening
  <2>1. heard => out' = <<LinesHeard(TRUE)>>
    BY <1>3 DEF StopListening
  <2>2. CASE ~heard
    BY <1>3, <2>2, AwaitedTaken DEF StopListening, Awaited
  <2> QED
    BY <1>1, <2>1, <2>2
<1>4. CASE WrapUp
  <2>1. /\ inbox' = inbox /\ heard' = FALSE
        /\ out' = RecordingStopped \o (IF heard THEN <<LinesHeard(TRUE)>> ELSE <<>>)
                    \o (IF job.op = "ended" THEN <<SessionEnded>> ELSE <<>>)
    BY <1>4 DEF WrapUp, Abort, Goto, queueVars
  <2>2. CASE heard
    <3> DEFINE u == RecordingStopped
               v == <<LinesHeard(TRUE)>>
               w == IF job.op = "ended" THEN <<SessionEnded>> ELSE <<>>
    <3>1. out' = u \o v \o w
      BY <2>1, <2>2
    <3>2. u \in Seq(Signals) /\ v \in Seq(Signals) /\ w \in Seq(Signals) /\ Len(v) = 1
      <4>1. RecordingChanged(None) \in Signals /\ LinesHeard(TRUE) \in Signals /\ SessionEnded \in Signals
        BY DEF Signals
      <4>5. \A x \in Signals : <<x>> \in Seq(Signals) /\ Len(<<x>>) = 1
        OBVIOUS
      <4>2. v \in Seq(Signals) /\ Len(v) = 1
        BY <4>1, <4>5
      <4>3. w \in Seq(Signals)
        BY <4>1
      <4>4. u \in Seq(Signals)
        BY <4>1 DEF RecordingStopped
      <4> QED
        BY <4>2, <4>3, <4>4
    <3>3. v[1]["sig"] = "heard"
      BY DEF LinesHeard
    <3> HIDE DEF u, v, w
    <3>4. Len(u) + 1 \in DOMAIN out' /\ out'[Len(u) + 1] = v[1]
      <4>1. u \o v \in Seq(Signals) /\ Len(u) + 1 \in DOMAIN (u \o v) /\ (u \o v)[Len(u) + 1] = v[1]
        BY <3>2, Places
      <4> QED
        BY <3>1, <3>2, <4>1, Places
    <3> QED
      BY <3>3, <3>4 DEF Pending
  <2> QED
    BY <2>1, <2>2 DEF Awaited
<1>5. CASE StartWorking \/ StartReplay \/ StopWorking \/ ReaderFailed \/ ConfigureStreams
           \/ ConfigureProfile \/ StartRecording \/ EndRecording \/ RecordingFailed
  <2>1. heard' = heard
    BY <1>5 DEF StartWorking, StartReplay, StopWorking, ReaderFailed, ConfigureStreams, ConfigureProfile,
       StartRecording, EndRecording, RecordingFailed, recVars, Abort
  <2>2. \E op : op # "listen" /\ Begin(op)
    BY <1>5 DEF StartWorking, StartReplay, StopWorking, ReaderFailed, ConfigureStreams, ConfigureProfile,
       StartRecording, EndRecording, RecordingFailed
  <2> QED
    BY <2>1, <2>2, AwaitedTaken DEF Awaited
<1>6. CASE ResetLink \/ OpenTransport \/ JoinReader \/ ConfigureStores \/ NewFile \/ EmitLinkStats
  BY <1>6 DEF ResetLink, OpenTransport, JoinReader, ConfigureStores, NewFile, EmitLinkStats, recVars, queueVars,
     Abort, Awaited
<1> QED
  BY <1>2, <1>3, <1>4, <1>5, <1>6 DEF Slots

\* A reader only posts.
LEMMA ReaderLeavesListening ==
  ASSUME EngineInv, NEW s \in Sessions, Reader(s)
  PROVE  heard' = heard /\ out' = <<>> /\ \E new \in Seq(Events) : inbox' = inbox \o new
<1>1. heard' = heard /\ out' = <<>>
  BY DEF Reader, CheckStop, Read, ReportFailure, RecordChunk, FeedLink, GetStore, AppendRecords, ReaderAt, Emit
<1>2. \/ UNCHANGED inbox \/ inbox' = Append(inbox, [op |-> "failed", sess |-> s])
      \/ recorder # None /\ inbox' = Append(inbox, [op |-> "recfailed", file |-> recorder])
  BY DEF Reader, CheckStop, Read, ReportFailure, Report, RecordChunk, FeedLink, GetStore, AppendRecords
<1>3. [op |-> "failed", sess |-> s] \in Events
      /\ (recorder # None => [op |-> "recfailed", file |-> recorder] \in Events)
  BY DEF Events, Failures, RecFailures, EngineInv, TypeOK, RecordingOK
<1>4. \A e \in Events : Append(inbox, e) = inbox \o <<e>> /\ <<e>> \in Seq(Events)
  BY DEF EngineInv, TypeOK, QueueOK
<1> QED
  BY <1>1, <1>2, <1>3, <1>4, NothingPosted

\* tab.py and console_dialog.py post nothing but listen_lines and stop_listening.
LEMMA CallPosted ==
  ASSUME EngineInv, NEW c \in Calls({0}), Post(c)
  PROVE  /\ \E new \in Seq(Events) : inbox' = inbox \o new /\ Len(new) = 1 /\ (c = [op |-> "listen"] => new[1].op = "listen")
         /\ QueueOK' /\ UNCHANGED <<at, job, sessionVars, configVars, dataVars, recVars, rd>>
         /\ out' = <<>>
<1> USE DEF Post
<1>1. calls' \in Sessions /\ inbox \in Seq(Events)
  BY DEF EngineInv, TypeOK, QueueOK
<1> DEFINE e == IF c.op \in {"start", "replay"} THEN [c EXCEPT !.id = calls'] ELSE c
<1>2. e \in Events
  <2>1. CASE c.op \in {"start", "replay"}
    <3>1. \/ c \in [op : {"start"}, kind : {"serial", "sim"}, id : {0}]
          \/ c \in [op : {"replay"}, fmt : Formats \cup {Unknown}, id : {0}]
      BY <2>1 DEF Calls
    <3> QED
      BY <1>1, <2>1, <3>1 DEF Events, Calls
  <2>2. CASE c.op \notin {"start", "replay"}
    BY <2>2 DEF Events, Calls
  <2> QED
    BY <2>1, <2>2
<1>3. c = [op |-> "listen"] => e.op = "listen"
  OBVIOUS
<1>4. inbox' = Append(inbox, e)
  OBVIOUS
<1>7. out' = <<>> /\ UNCHANGED <<at, job, sessionVars, configVars, dataVars, recVars, rd>>
  BY DEF Emit
<1> HIDE DEF e
<1>5. <<e>> \in Seq(Events) /\ inbox' = inbox \o <<e>> /\ Len(<<e>>) = 1 /\ <<e>>[1] = e
  BY <1>1, <1>2, <1>4
<1>6. QueueOK'
  BY <1>1, <1>5 DEF QueueOK
<1>8. \E new \in Seq(Events) : inbox' = inbox \o new /\ Len(new) = 1 /\ (c = [op |-> "listen"] => new[1].op = "listen")
  <2>1. <<e>> \in Seq(Events)
    BY <1>5
  <2> WITNESS <<e>> \in Seq(Events)
  <2> QED
    BY <1>3, <1>5
<1> QED
  BY <1>6, <1>7, <1>8

\* All the engine's signals: those of the slots, and the report of every second.
AllSignals == Signals \cup {LinkStats(n) : n \in Int}

LEMMA EmittedType ==
  ASSUME EngineInv, Slots \/ EmitLinkStats \/ \E s \in Sessions : Reader(s)
  PROVE  out' \in Seq(AllSignals)
<1>1. CASE EmitLinkStats
  <2>1. stores.total - statsPrev \in Int
    BY DEF EngineInv, TypeOK, DataOK, StoreStates
  <2>2. LinkStats(stores.total - statsPrev) \in AllSignals
    BY <2>1 DEF AllSignals
  <2>3. out' = <<>> \/ out' = <<LinkStats(stores.total - statsPrev)>>
    BY <1>1 DEF EmitLinkStats, Emit, Abort
  <2> QED
    <3> DEFINE x == LinkStats(stores.total - statsPrev)
    <3>1. x \in AllSignals /\ (out' = <<>> \/ out' = <<x>>)
      BY <2>2, <2>3
    <3> HIDE DEF x
    <3>2. <<>> \in Seq(AllSignals) /\ <<x>> \in Seq(AllSignals)
      BY <3>1
    <3> QED
      BY <3>1, <3>2
<1>2. CASE Slots \/ \E s \in Sessions : Reader(s)
  BY <1>2, OutType DEF AllSignals
<1> QED
  BY <1>1, <1>2

\* The engine with a dialog, which is answered.
ConsoleInv == EngineInv /\ told \in Seq(AllSignals) /\ ListeningIsAnswered

\* What the dialog may still be told, if it waits.
WillHear == Awaited \/ Pending(told, "sig", "heard")
LEMMA AnsweredIs == ListeningIsAnswered <=> (dialog = "listening" /\ at # "aborted" => WillHear)
BY Zenon DEF ListeningIsAnswered, WillHear, Awaited, Running

\* A step of the engine, or of one of its readers.
LEMMA EngineAnswers ==
  ASSUME ConsoleInv, Next, out' \in Seq(AllSignals),
         told' = told \o FoldLeft(HearsOf, <<>>, out'), UNCHANGED <<tabConnected, dialogVars>>,
         Awaited /\ at' # "aborted" => Awaited' \/ Pending(out', "sig", "heard"),
         at = "aborted" => at' = "aborted"
  PROVE  ConsoleInv'
<1> DEFINE new == FoldLeft(HearsOf, <<>>, out')
<1>1. told' = told \o new /\ dialog' = dialog
  BY DEF dialogVars
<1>2. EngineInv'
  BY StepType, StepStateFits, StepRecords DEF EngineInv, ConsoleInv
<1>3. new \in Seq(AllSignals) /\ (Pending(out', "sig", "heard") => Pending(new, "sig", "heard"))
  BY HeardIsTold
<1> HIDE DEF new
<1>4. told \in Seq(AllSignals)
  BY DEF ConsoleInv
<1>9. /\ told \o new \in Seq(AllSignals)
      /\ \A i \in DOMAIN told : i \in DOMAIN (told \o new) /\ (told \o new)[i] = told[i]
      /\ \A i \in DOMAIN new : Len(told) + i \in DOMAIN (told \o new) /\ (told \o new)[Len(told) + i] = new[i]
  BY <1>3, <1>4, Places
<1>5. /\ told' \in Seq(AllSignals)
      /\ \A i \in DOMAIN told : i \in DOMAIN told' /\ told'[i] = told[i]
      /\ \A i \in DOMAIN new : Len(told) + i \in DOMAIN told' /\ told'[Len(told) + i] = new[i]
  BY <1>1, <1>9
<1>6. Pending(told, "sig", "heard") \/ Pending(new, "sig", "heard") => Pending(told', "sig", "heard")
  BY <1>5 DEF Pending
<1>7. ASSUME dialog' = "listening", at' # "aborted" PROVE WillHear'
  <2>1. WillHear
    BY <1>1, <1>7, AnsweredIs DEF ConsoleInv
  <2> QED
    BY <1>3, <1>6, <1>7, <2>1 DEF WillHear
<1>8. ListeningIsAnswered'
  BY <1>7 DEF ListeningIsAnswered, WillHear, Awaited, Running
<1> QED
  BY <1>2, <1>5, <1>8 DEF ConsoleInv

\* A step of the window that calls nothing.
LEMMA IdleAnswers ==
  ASSUME ConsoleInv, NoCall, told' = told, dialog' = "listening" => dialog = "listening"
  PROVE  ConsoleInv'
<1>1. UNCHANGED <<inbox, heard, at>>
  BY DEF NoCall, vars, queueVars, recVars
<1>2. EngineInv'
  BY StepType, StepStateFits, StepRecords DEF NoCall, EngineInv, ConsoleInv
<1>3. ListeningIsAnswered'
  BY <1>1, Zenon DEF ConsoleInv, ListeningIsAnswered, Running, Pending
<1> QED
  BY <1>2, <1>3 DEF ConsoleInv

\* A card whose pattern does not parse: the process ends.
LEMMA CrashAnswers == ASSUME ConsoleInv, Crash, told' \in Seq(AllSignals) PROVE ConsoleInv'
<1> USE DEF Crash, queueVars, sessionVars, configVars, dataVars, recVars
<1>1. TypeOK'
  BY DEF ConsoleInv, EngineInv, TypeOK, QueueOK, ThreadOK, JobFits, SessionOK, DataOK, RecordingOK, ReadersOK,
     NoJob, Jobs
<1>2. StateFits' /\ RecordsOnlyWhileRunning' /\ ListeningIsAnswered'
  BY DEF StateFits, RecordsOnlyWhileRunning, ListeningIsAnswered, Running
<1> QED
  BY <1>1, <1>2 DEF ConsoleInv, EngineInv

\* What the dialog handles is the first that waits.
LEMMA HandledType ==
  ASSUME ConsoleInv, NEW sig, Handles(sig)
  PROVE  told' \in Seq(AllSignals) /\ (Pending(told, "sig", "heard") /\ sig # "heard" => Pending(told', "sig", "heard"))
<1>1. told \in Seq(AllSignals) /\ told # <<>> /\ told[1].sig = sig /\ told' = Tail(told)
  BY DEF ConsoleInv, Handles
<1>2. told' \in Seq(AllSignals) /\ \A i \in DOMAIN told : i # 1 => i - 1 \in DOMAIN told' /\ told'[i - 1] = told[i]
  BY <1>1
<1> QED
  BY <1>1, <1>2 DEF Pending

\* set_connected: what was heard still waits.
LEMMA HandledAnswers ==
  ASSUME ConsoleInv, Handles("state"), NoCall, dialog' = dialog
  PROVE  ConsoleInv'
<1>1. UNCHANGED <<inbox, heard, at>>
  BY DEF NoCall, vars, queueVars, recVars
<1>2. EngineInv'
  BY StepType, StepStateFits, StepRecords DEF NoCall, EngineInv, ConsoleInv
<1>3. told' \in Seq(AllSignals) /\ (Pending(told, "sig", "heard") => Pending(told', "sig", "heard"))
  BY HandledType
<1>4. ListeningIsAnswered'
  <2> SUFFICES ASSUME dialog = "listening", at # "aborted" PROVE WillHear'
    BY <1>1, Zenon DEF ListeningIsAnswered, WillHear, Awaited, Running
  <2>1. WillHear
    BY AnsweredIs DEF ConsoleInv
  <2> QED
    BY <1>1, <1>3, <2>1, Zenon DEF WillHear, Awaited, Pending
<1> QED
  BY <1>2, <1>3, <1>4 DEF ConsoleInv

\* Each step of the engine, of its readers, of the dialog and of the rest of the window.
LEMMA StepAnswers == ConsoleInv /\ [CNext]_cvars => ConsoleInv'
<1> SUFFICES ASSUME ConsoleInv, [CNext]_cvars PROVE ConsoleInv'
  OBVIOUS
<1>0. EngineInv /\ told \in Seq(AllSignals)
  BY DEF ConsoleInv
<1>1. ASSUME Slots \/ EmitLinkStats, told' = told \o FoldLeft(HearsOf, <<>>, out'), UNCHANGED <<tabConnected, dialogVars>>
      PROVE  ConsoleInv'
  <2>1. Next
    BY <1>1 DEF Next
  <2>2. out' \in Seq(AllSignals)
    BY <1>0, <1>1, EmittedType
  <2>3. Awaited /\ at' # "aborted" => Awaited' \/ Pending(out', "sig", "heard")
    BY <1>0, <1>1, SlotsAnswer
  <2>4. at # "aborted"
    BY <1>1 DEF Slots, StartWorking, StartReplay, ResetLink, OpenTransport, StopWorking, ReaderFailed, JoinReader,
       WrapUp, ConfigureStreams, ConfigureStores, ConfigureProfile, StartRecording, NewFile, EndRecording,
       RecordingFailed, ListenLines, StopListening, EmitLinkStats, Begin
  <2> QED
    BY <1>1, <2>1, <2>2, <2>3, <2>4, EngineAnswers
<1>2. ASSUME NEW s \in Sessions, DialogHears(Reader(s)) PROVE ConsoleInv'
  <2>1. Reader(s) /\ told' = told \o FoldLeft(HearsOf, <<>>, out') /\ UNCHANGED <<tabConnected, dialogVars>>
    BY <1>2, Zenon DEF DialogHears
  <2>2. Next /\ out' \in Seq(AllSignals)
    BY <1>0, <2>1, EmittedType DEF Next
  <2>3. Awaited => Awaited'
    BY <1>0, <2>1, ReaderLeavesListening, AwaitedPosted
  <2>4. at # "aborted"
    BY <2>1 DEF Reader, CheckStop, Read, ReportFailure, RecordChunk, FeedLink, GetStore, AppendRecords, ReaderAt
  <2> QED
    BY <2>1, <2>2, <2>3, <2>4, EngineAnswers
<1>3. ASSUME NEW c \in UserCalls, UserPosts(c) PROVE ConsoleInv'
  <2>1. Post(c) /\ told' = told \o FoldLeft(HearsOf, <<>>, out') /\ UNCHANGED <<tabConnected, dialogVars>>
    BY <1>3, Zenon DEF DialogHears, UserPosts
  <2>2. c \in Calls({0}) /\ Next
    BY <2>1, CallsAssumption DEF Next
  <2>3. out' \in Seq(AllSignals) /\ heard' = heard /\ at' = at /\ \E new \in Seq(Events) : inbox' = inbox \o new
    <3>1. /\ \E new \in Seq(Events) : inbox' = inbox \o new
          /\ UNCHANGED <<at, recVars>> /\ out' = <<>>
      BY <1>0, <2>1, <2>2, CallPosted
    <3> QED
      BY <3>1 DEF recVars
  <2>4. Awaited => Awaited'
    BY <1>0, <2>3, AwaitedPosted
  <2> QED
    BY <2>1, <2>2, <2>3, <2>4, EngineAnswers
<1>4. CASE OpenDialog \/ (\E lines \in Boxes : Paste(lines)) \/ (\E shape \in Shapes[read] : Toggle(shape)) \/ Create
  <2>1. NoCall /\ told' = told /\ (dialog' = "listening" => dialog = "listening")
    BY <1>4, Zenon DEF OpenDialog, Paste, Toggle, Create, CloseDialog
  <2> QED
    BY <2>1, IdleAnswers
<1>5. CASE InferTimer
  <2>1. told' = told /\ (Crash \/ (NoCall /\ dialog' = dialog))
    BY <1>5, Zenon DEF InferTimer
  <2> QED
    BY <1>0, <2>1, CrashAnswers, IdleAnswers
<1>6. CASE Listen
  <2>1. Post([op |-> "listen"]) /\ told' = told
    BY <1>6, Zenon DEF Listen
  <2>2. [op |-> "listen"] \in Calls({0})
    BY DEF Calls
  <2>3. /\ \E new \in Seq(Events) : inbox' = inbox \o new /\ Len(new) = 1 /\ new[1].op = "listen"
        /\ QueueOK' /\ UNCHANGED <<at, job, sessionVars, configVars, dataVars, recVars, rd>>
    BY <1>0, <2>1, <2>2, CallPosted
  <2>4. EngineInv'
    BY <1>0, <2>3, WindowStepKeeps
  <2>5. Pending(inbox', "op", "listen")
    <3>1. PICK new \in Seq(Events) : inbox' = inbox \o new /\ Len(new) = 1 /\ new[1].op = "listen"
      BY <2>3
    <3>2. inbox \in Seq(Events)
      BY <1>0 DEF EngineInv, TypeOK, QueueOK
    <3>3. Len(inbox) + 1 \in DOMAIN inbox' /\ inbox'[Len(inbox) + 1] = new[1]
      BY <3>1, <3>2, Places
    <3> QED
      BY <3>1, <3>3 DEF Pending
  <2> QED
    BY <1>0, <2>1, <2>4, <2>5, Zenon DEF ConsoleInv, ListeningIsAnswered
<1>7. CASE Cancel
  <2>1. told' = told /\ dialog' = "closed" /\ (NoCall \/ Post([op |-> "unlisten"]))
    BY <1>7, Zenon DEF Cancel, CloseDialog
  <2>2. CASE Post([op |-> "unlisten"])
    <3>1. [op |-> "unlisten"] \in Calls({0})
      BY DEF Calls
    <3>2. QueueOK' /\ UNCHANGED <<at, job, sessionVars, configVars, dataVars, recVars, rd>>
      BY <1>0, <2>2, <3>1, CallPosted
    <3> QED
      BY <1>0, <2>1, <3>2, WindowStepKeeps DEF ConsoleInv, ListeningIsAnswered
  <2> QED
    BY <2>1, <2>2, IdleAnswers
<1>8. CASE OnState
  <2>1. Handles("state") /\ NoCall /\ dialog' = dialog
    BY <1>8, Zenon DEF OnState
  <2> QED
    BY <2>1, HandledAnswers
<1>9. CASE OnHeard
  <2>1. Handles("heard") /\ (Crash \/ (NoCall /\ dialog' # "listening"))
    BY <1>9, Zenon DEF OnHeard, dialogVars
  <2>2. told' \in Seq(AllSignals)
    BY <2>1, HandledType
  <2>3. CASE NoCall /\ dialog' # "listening"
    <3>1. EngineInv'
      BY <1>0, <2>3, StepType, StepStateFits, StepRecords DEF NoCall, EngineInv
    <3> QED
      BY <2>2, <2>3, <3>1 DEF ConsoleInv, ListeningIsAnswered
  <2> QED
    BY <2>1, <2>2, <2>3, CrashAnswers
<1>10. CASE UNCHANGED cvars
  BY <1>10, IdleAnswers DEF cvars, dialogVars, NoCall
<1> QED
  BY <1>1, <1>2, <1>3, <1>4, <1>5, <1>6, <1>7, <1>8, <1>9, <1>10, Zenon DEF CNext, GUI, DialogHears

LEMMA InitAnswers == CInit => ConsoleInv
BY InitType DEF CInit, Init, EngineInv, StateFits, RecordsOnlyWhileRunning, ConsoleInv, ListeningIsAnswered

\* console_dialog.listen, engine.listen_lines: whatever the lines and the calls, and however
\* the session ends meanwhile, a dialog that listens gets its answer: Create does not stay
\* disabled.
THEOREM ConsoleIsAnswered == CSpec => []ListeningIsAnswered
<1>1. ConsoleInv => ListeningIsAnswered
  BY DEF ConsoleInv
<1> QED
  BY <1>1, InitAnswers, StepAnswers, PTL DEF CSpec

==============================================================================
