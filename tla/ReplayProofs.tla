---------------------------- MODULE ReplayProofs ----------------------------
(***************************************************************************)
(* A replay plays the recording and keeps its pace, for any chunks, sizes  *)
(* of reads and speeds, and whatever is left of the file.                  *)
(***************************************************************************)
EXTENDS Replay, SequenceTheorems, TLAPS

----------------------------------------------------------------------------
(* The file: chunks lie in it one after another, and a reader knows only where it ends. *)

StartOf(i) == IF i = 1 THEN PREAMBLE ELSE EndOf(written[i - 1])
Laid ==
    /\ \A i \in 1..Len(written) : written[i].at = StartOf(i)
    /\ \A i, j \in 1..Len(written) : i < j => EndOf(written[i]) <= written[j].at

\* What is on the disk is not longer than what was written, nor shorter than what was flushed.
OnDisk ==
    /\ phase = "recording" => size = 0
    /\ flushed <= FileEnd
    /\ phase # "recording" => flushed <= size /\ size <= FileEnd

(* The tape: what is next is behind what was played, and what is cut off is behind that. *)

Reading ==
    /\ phase \in {"recording", "file", "unreadable"} =>
        played = <<>> /\ pending = None /\ truncated = 0
    /\ \A i \in 1..Len(played) : played[i] = i /\ Whole(i)
    /\ phase \in {"open", "ended"} =>
        /\ PREAMBLE <= size
        /\ pending = NextChunk(Len(played) + 1) /\ truncated = CutOff(Len(played) + 1)
    /\ phase = "ended" => pending = None
    /\ phase = "closed" => pending = None

Types ==
    /\ phase \in {"recording", "file", "unreadable", "open", "ended", "closed"}
    /\ written \in Seq([ts : Stamps, at : Nat, len : Lengths])
    /\ flushed \in Nat /\ size \in Nat /\ played \in Seq(Nat)

Inv == Types /\ Laid /\ OnDisk /\ Reading

----------------------------------------------------------------------------

\* A recording's chunks lie at places in the file, each longer than nothing.
LEMMA TypesOfChunks ==
  ASSUME Types
  PROVE  /\ Len(written) \in Nat /\ Len(played) \in Nat
         /\ \A i \in 1..Len(written) :
              /\ written[i].at \in Nat /\ written[i].len \in Nat \ {0} /\ written[i].ts \in Nat
              /\ EndOf(written[i]) \in Nat /\ written[i].at < EndOf(written[i])
         /\ FileEnd \in Nat
<1>1. Len(written) \in Nat /\ Len(played) \in Nat
  BY LenProperties DEF Types
<1>2. ASSUME NEW i \in 1..Len(written)
      PROVE  written[i].at \in Nat /\ written[i].len \in Lengths /\ written[i].ts \in Stamps
  <2>1. written[i] \in [ts : Stamps, at : Nat, len : Lengths]
    BY ElementOfSeq DEF Types
  <2> QED
    BY <2>1
<1>3. ASSUME NEW i \in 1..Len(written)
      PROVE  /\ written[i].at \in Nat /\ written[i].len \in Nat \ {0} /\ written[i].ts \in Nat
             /\ EndOf(written[i]) \in Nat /\ written[i].at < EndOf(written[i])
  <2> DEFINE len == written[i].len
             at == written[i].at
  <2>1. len \in Nat \ {0} /\ at \in Nat /\ HEAD \in Nat \ {0} /\ written[i].ts \in Nat
    BY <1>2, ReplayAssumption
  <2>2. EndOf(written[i]) = at + HEAD + len
    BY DEF EndOf
  <2> HIDE DEF len, at
  <2>3. EndOf(written[i]) \in Nat /\ at < EndOf(written[i])
    BY <2>1, <2>2
  <2> QED
    BY <2>1, <2>3 DEF len, at
<1>4. FileEnd \in Nat
  <2>1. CASE written = <<>>
    BY <2>1, ReplayAssumption DEF FileEnd
  <2>2. CASE written # <<>>
    <3>1. Len(written) \in 1..Len(written)
      BY <1>1, <2>2 DEF Types
    <3> QED
      BY <3>1, <2>2, <1>3 DEF FileEnd
  <2> QED
    BY <2>1, <2>2
<1> QED
  BY <1>1, <1>3, <1>4

\* Behind the file's end there is nothing, so a chunk that is whole has whole ones before it.
LEMMA WholeDown ==
  ASSUME Types, Laid, NEW n \in 1..Len(written), Whole(n), NEW i \in 1..n
  PROVE  Whole(i)
<1>1. CASE i = n
  BY <1>1
<1>2. CASE i < n
  <2>1. i \in 1..Len(written) /\ n \in Nat /\ i \in Nat
    BY TypesOfChunks
  <2>2. EndOf(written[i]) <= written[n].at /\ written[n].at < EndOf(written[n])
    BY <1>2, <2>1, TypesOfChunks DEF Laid
  <2> QED
    BY <2>1, <2>2, TypesOfChunks DEF Whole, Types
<1> QED
  BY <1>1, <1>2, TypesOfChunks

----------------------------------------------------------------------------
\* What is whole is played, and what is not is counted: the invariant gives the property.
LEMMA InvGives == Inv => ReplayIsTheRecording
<1> SUFFICES ASSUME Inv PROVE ReplayIsTheRecording
  OBVIOUS
<1> USE DEF Inv
<1> DEFINE n == Len(played)
<1>1. n \in Nat /\ Len(written) \in Nat
  BY TypesOfChunks
<1>2. PlaysOnceInOrder
  <2>1. ASSUME pending # None PROVE pending = n + 1
    <3>1. phase = "open"
      BY <2>1 DEF Reading, Types
    <3> QED
      BY <2>1, <3>1 DEF Reading, NextChunk
  <2> QED
    BY <2>1 DEF PlaysOnceInOrder, Reading
<1>3. OnlyTheTailIsLost
  <2> SUFFICES ASSUME phase = "ended"
               PROVE  /\ \A i \in 1..Len(written) : EndOf(written[i]) <= flushed => i <= n
                      /\ truncated = size - (IF n = 0 THEN PREAMBLE ELSE EndOf(written[n]))
    BY DEF OnlyTheTailIsLost
  <2>1. /\ PREAMBLE <= size /\ size \in Nat /\ flushed <= size /\ size <= FileEnd
        /\ truncated = CutOff(n + 1) /\ ~Whole(n + 1) /\ flushed \in Nat
    <3>1. NextChunk(n + 1) = None
      BY DEF Reading
    <3>2. ~Whole(n + 1)
      BY <3>1, <1>1 DEF NextChunk, None
    <3> QED
      BY <3>2 DEF Reading, OnDisk, Types
  <2>2. \A i \in 1..n : Whole(i)
    BY DEF Reading
  <2>3. n <= Len(written)
    <3>1. CASE n = 0
      BY <3>1, <1>1
    <3>2. CASE n # 0
      BY <3>2, <1>1, <2>2 DEF Whole
    <3> QED
      BY <3>1, <3>2
  <2>4. \A i \in 1..Len(written) : EndOf(written[i]) <= flushed => i <= n
    <3> SUFFICES ASSUME NEW i \in 1..Len(written), EndOf(written[i]) <= flushed, ~(i <= n)
                 PROVE  FALSE
      OBVIOUS
    <3>1. Whole(i)
      BY <2>1, TypesOfChunks DEF Whole
    <3>2. n + 1 \in 1..i
      BY <1>1
    <3> QED
      BY <3>1, <3>2, <2>1, WholeDown
  <2> DEFINE end == IF n = 0 THEN PREAMBLE ELSE EndOf(written[n])
  <2>5. end \in Nat /\ end <= size
    <3>1. CASE n = 0
      BY <3>1, <2>1, ReplayAssumption
    <3>2. CASE n # 0
      <4>1. n \in 1..n /\ n \in 1..Len(written)
        BY <3>2, <1>1, <2>3
      <4> QED
        BY <4>1, <2>2, <3>2, TypesOfChunks DEF Whole
    <3> QED
      BY <3>1, <3>2
  <2>6. CASE n = Len(written)
    <3>1. CutOff(n + 1) = 0
      BY <2>6, <1>1 DEF CutOff
    <3>2. FileEnd = end
      BY <2>6, <1>1 DEF FileEnd, Types
    <3> HIDE DEF end
    <3>3. size = end
      BY <3>2, <2>1, <2>5
    <3>4. truncated = size - end
      BY <3>1, <3>3, <2>1, <2>5
    <3> QED
      BY <3>4, <2>4 DEF end
  <2>7. CASE n < Len(written)
    <3>1. n + 1 \in 1..Len(written)
      BY <2>7, <1>1
    <3>2. written[n + 1].at = end
      BY <3>1, <1>1 DEF Laid, StartOf
    <3> HIDE DEF end
    <3>3. CutOff(n + 1) = size - end
      BY <3>1, <3>2, <2>1, <2>5 DEF CutOff
    <3>4. truncated = size - end
      BY <3>3, <2>1
    <3> QED
      BY <3>4, <2>4 DEF end
  <2> QED
    BY <2>3, <2>6, <2>7, <1>1
<1> QED
  BY <1>2, <1>3 DEF ReplayIsTheRecording

----------------------------------------------------------------------------
(* The invariant holds initially, and is kept. *)

\* sbtp.py creates an empty file with its preamble; the invariant holds of it.
LEMMA InitGives == Init => Inv
<1> SUFFICES ASSUME Init PROVE Inv
  OBVIOUS
<1>1. Types
  BY EmptySeq DEF Init, Types
<1>2. Laid
  BY EmptySeq DEF Init, Laid
<1>3. OnDisk
  BY ReplayAssumption DEF Init, OnDisk, FileEnd
<1>4. Reading
  BY EmptySeq DEF Init, Reading
<1> QED
  BY <1>1, <1>2, <1>3, <1>4 DEF Inv

tape == <<phase, written, flushed, size, pending, truncated, played>>

\* Steps of the clock, the controls and a reader that waits.
LEMMA Kept ==
  ASSUME Inv, UNCHANGED tape
  PROVE  Inv'
<1> USE DEF tape
<1>1. Types'
  BY DEF Inv, Types
<1>2. Laid'
  BY DEF Inv, Laid, StartOf, EndOf
<1>3. OnDisk'
  BY DEF Inv, OnDisk, FileEnd, EndOf
<1>4. Reading'
  BY DEF Inv, Reading, Whole, NextChunk, CutOff, EndOf, None
<1> QED
  BY <1>1, <1>2, <1>3, <1>4 DEF Inv

\* Between the recording and its replay only the file changes.
LEMMA FileKept ==
  ASSUME Inv, phase = "recording" \/ phase = "file", Types', Laid', OnDisk',
         phase' \in {"recording", "file", "unreadable"}, UNCHANGED <<pending, truncated, played>>
  PROVE  Inv'
<1>1. played = <<>> /\ pending = None /\ truncated = 0
  BY DEF Inv, Reading
<1>2. Reading'
  BY <1>1, EmptySeq DEF Reading, None
<1> QED
  BY <1>2 DEF Inv

\* SbtpWriter.write puts a chunk behind the file's end, in order.
LEMMA WriteKeeps ==
  ASSUME Inv, Write
  PROVE  Inv'
<1> PICK ts \in Stamps, len \in Lengths :
        written' = Append(written, [ts |-> ts, at |-> FileEnd, len |-> len])
  BY DEF Write
<1> DEFINE c == [ts |-> ts, at |-> FileEnd, len |-> len]
           l == Len(written)
<1>1. FileEnd \in Nat /\ l \in Nat
  BY TypesOfChunks DEF Inv
<1>2. c \in [ts : Stamps, at : Nat, len : Lengths]
  BY <1>1
<1> HIDE DEF c
<1>3. /\ written' \in Seq([ts : Stamps, at : Nat, len : Lengths]) /\ Len(written') = l + 1
      /\ \A i \in 1..l : written'[i] = written[i]
      /\ written'[l + 1] = c
  BY <1>2, AppendProperties DEF Inv, Types, c
<1>4. c.at = FileEnd /\ c.len \in Nat \ {0} /\ EndOf(c) \in Nat /\ FileEnd < EndOf(c)
  <2>1. c.at = FileEnd /\ c.len = len /\ EndOf(c) = FileEnd + HEAD + len
    BY DEF c, EndOf
  <2> QED
    BY <2>1, <1>1, ReplayAssumption
<1>5. Types'
  BY <1>3 DEF Write, Inv, Types, tapeVars
<1>6. FileEnd = StartOf(l + 1)
  BY <1>1 DEF FileEnd, StartOf, Inv, Types
<1>7. \A i \in 1..l : EndOf(written[i]) <= FileEnd
  <2> SUFFICES ASSUME NEW i \in 1..l PROVE EndOf(written[i]) <= FileEnd
    OBVIOUS
  <2>1. l \in 1..l /\ FileEnd = EndOf(written[l])
    BY <1>1 DEF FileEnd, Inv, Types
  <2>2. CASE i = l
    BY <2>1, <2>2, <1>1
  <2>3. CASE i < l
    <3>1. EndOf(written[i]) <= written[l].at /\ written[l].at < EndOf(written[l])
      BY <2>1, <2>3, TypesOfChunks DEF Inv, Laid
    <3> QED
      BY <3>1, <2>1, <1>1, TypesOfChunks DEF Inv
  <2> QED
    BY <2>2, <2>3, <1>1
<1>8. Laid'
  <2>1. ASSUME NEW i \in 1..(l + 1)
        PROVE  written'[i].at = IF i = 1 THEN PREAMBLE ELSE EndOf(written'[i - 1])
    <3>1. CASE i = l + 1
      <4>1. CASE l = 0
        BY <4>1, <3>1, <1>3, <1>4, <1>6 DEF StartOf
      <4>2. CASE l # 0
        <5>1. l \in 1..l /\ i - 1 = l /\ i # 1
          BY <4>2, <3>1, <1>1
        <5>2. StartOf(l + 1) = EndOf(written[l])
          BY <5>1, <3>1, <1>1 DEF StartOf
        <5> QED
          BY <5>1, <5>2, <3>1, <1>3, <1>4, <1>6
      <4> QED
        BY <4>1, <4>2
    <3>2. CASE i # l + 1
      <4>1. i \in 1..l
        BY <3>2, <1>1
      <4>2. written[i].at = StartOf(i)
        BY <4>1 DEF Inv, Laid
      <4>3. CASE i = 1
        BY <4>1, <4>2, <4>3, <1>3 DEF StartOf
      <4>4. CASE i # 1
        <5>1. i - 1 \in 1..l
          BY <4>1, <4>4, <1>1
        <5> QED
          BY <5>1, <4>1, <4>2, <4>4, <1>3 DEF StartOf
      <4> QED
        BY <4>3, <4>4
    <3> QED
      BY <3>1, <3>2
  <2>2. ASSUME NEW i \in 1..(l + 1), NEW j \in 1..(l + 1), i < j
        PROVE  EndOf(written'[i]) <= written'[j].at
    <3>1. i \in 1..l
      BY <2>2, <1>1
    <3>2. CASE j = l + 1
      BY <3>1, <3>2, <1>3, <1>4, <1>7
    <3>3. CASE j # l + 1
      <4>1. j \in 1..l
        BY <3>3, <1>1
      <4> QED
        BY <4>1, <3>1, <2>2, <1>3 DEF Inv, Laid
    <3> QED
      BY <3>2, <3>3
  <2> QED
    BY <2>1, <2>2, <1>3 DEF Laid, StartOf, EndOf
<1>9. OnDisk'
  <2>1. FileEnd' = EndOf(c)
    <3>1. written' # <<>>
      BY <1>1, <1>3
    <3>2. FileEnd' = EndOf(written'[Len(written')])
      BY <3>1 DEF FileEnd, EndOf
    <3> QED
      BY <3>2, <1>3
  <2>2. flushed <= FileEnd /\ size = 0 /\ phase = "recording" /\ flushed \in Nat
    BY DEF Write, Inv, OnDisk, Types
  <2>3. phase' = "recording" /\ flushed' = flushed /\ size' = size
    BY <2>2 DEF Write
  <2> QED
    BY <2>1, <2>2, <2>3, <1>1, <1>4 DEF OnDisk
<1> QED
  BY <1>5, <1>8, <1>9, FileKept DEF Write, tapeVars

\* SbtpWriter.flush makes durable what was written, and changes nothing else.
LEMMA FlushKeeps ==
  ASSUME Inv, Flush
  PROVE  Inv'
<1>1. FileEnd \in Nat /\ phase = "recording" /\ flushed' = FileEnd
  BY TypesOfChunks DEF Inv, Flush
<1>2. UNCHANGED <<phase, written, size, pending, truncated, played>>
  BY DEF Flush, tapeVars
<1>3. Types'
  BY <1>1, <1>2 DEF Inv, Types
<1>4. Laid'
  BY <1>2 DEF Inv, Laid, StartOf, EndOf
<1>5. FileEnd' = FileEnd
  BY <1>2 DEF FileEnd, EndOf
<1>6. OnDisk'
  BY <1>1, <1>2, <1>5 DEF Inv, OnDisk
<1> QED
  BY <1>1, <1>2, <1>3, <1>4, <1>6, FileKept

\* A recording that is closed, or a crash, leaves what was flushed and maybe more.
LEMMA FileEnds ==
  ASSUME Inv, CloseFile \/ Killed
  PROVE  Inv'
<1>1. FileEnd \in Nat /\ phase = "recording" /\ phase' = "file" /\ flushed \in Nat /\ flushed <= FileEnd
  BY TypesOfChunks DEF Inv, CloseFile, Killed, Types, OnDisk
<1>2. size' \in flushed..FileEnd
  BY <1>1 DEF CloseFile, Killed
<1>3. UNCHANGED <<written, flushed, pending, truncated, played>>
  BY DEF CloseFile, Killed, tapeVars
<1>4. Types'
  BY <1>1, <1>2, <1>3 DEF Inv, Types
<1>5. Laid'
  BY <1>3 DEF Inv, Laid, StartOf, EndOf
<1>6. FileEnd' = FileEnd
  BY <1>3 DEF FileEnd, EndOf
<1>7. OnDisk'
  BY <1>1, <1>2, <1>3, <1>6 DEF OnDisk
<1> QED
  BY <1>1, <1>3, <1>4, <1>5, <1>7, FileKept

\* What is read of a file stays what it is.
LEMMA FileStays ==
  ASSUME Inv, UNCHANGED fileVars, phase # "recording",
         phase' \in {"unreadable", "open", "ended", "closed"}, played' \in Seq(Nat)
  PROVE  Types' /\ Laid' /\ OnDisk' /\ \A i : Whole(i)' = Whole(i) /\ CutOff(i)' = CutOff(i)
<1> USE DEF fileVars
<1>1. Types'
  BY DEF Inv, Types
<1>2. Laid'
  BY DEF Inv, Laid, StartOf, EndOf
<1>3. FileEnd' = FileEnd
  BY DEF FileEnd, EndOf
<1>4. OnDisk'
  BY <1>3 DEF Inv, OnDisk
<1>5. \A i : Whole(i)' = Whole(i)
  BY DEF Whole, EndOf
<1>6. \A i : CutOff(i)' = CutOff(i)
  BY <1>5 DEF CutOff
<1> QED
  BY <1>1, <1>2, <1>4, <1>5, <1>6

\* Opening a replay reads one whole chunk ahead, or finds the file unreadable.
LEMMA OpenKeeps ==
  ASSUME Inv, Open
  PROVE  Inv'
<1>1. played = <<>> /\ pending = None /\ truncated = 0 /\ phase = "file" /\ size \in Nat
  BY DEF Inv, Open, Reading, Types
<1>2. UNCHANGED fileVars /\ played' = <<>>
  BY <1>1 DEF Open
<1>3. phase' \in {"unreadable", "open"}
  BY DEF Open
<1>4. Types' /\ Laid' /\ OnDisk' /\ \A i : Whole(i)' = Whole(i) /\ CutOff(i)' = CutOff(i)
  BY <1>1, <1>2, <1>3, EmptySeq, FileStays
<1>5. Reading'
  <2>1. CASE size < PREAMBLE
    BY <2>1, <1>1, <1>2, EmptySeq DEF Open, Reading
  <2>2. CASE ~(size < PREAMBLE)
    <3>1. /\ phase' = "open" /\ pending' = NextChunk(1) /\ truncated' = CutOff(1)
          /\ PREAMBLE <= size /\ size' = size
      BY <2>2, <1>1, <1>2, ReplayAssumption DEF Open, fileVars
    <3>2. Len(played') = 0 /\ 0 + 1 = 1
      BY <1>2, EmptySeq
    <3>3. NextChunk(1)' = NextChunk(1) /\ CutOff(1)' = CutOff(1)
      BY <1>4 DEF NextChunk
    <3>4. pending' = NextChunk(Len(played) + 1)' /\ truncated' = CutOff(Len(played) + 1)'
      BY <3>1, <3>2, <3>3, <1>4 DEF NextChunk
    <3> QED
      BY <3>1, <3>2, <3>4 DEF Reading
  <2> QED
    BY <2>1, <2>2
<1> QED
  BY <1>4, <1>5 DEF Inv

\* Whole chunks are handed out, from the one that is next.
LEMMA TakingKeeps ==
  ASSUME Inv, phase = "open", pending # None, UNCHANGED <<phase, fileVars>>,
         NEW n \in 1..Len(written), n >= pending, Whole(n), TakeUpTo(n)
  PROVE  Inv'
<1> DEFINE p == Len(played)
           new == [i \in 1..(n - pending + 1) |-> pending + i - 1]
<1>1. p \in Nat /\ n \in Nat /\ played \in Seq(Nat)
  BY TypesOfChunks DEF Inv, Types
<1>2. pending = p + 1 /\ Whole(p + 1) /\ truncated = CutOff(p + 1) /\ PREAMBLE <= size
  BY DEF Inv, Reading, NextChunk
<1>3. truncated = 0 /\ pending \in Nat
  BY <1>1, <1>2 DEF CutOff
<1>4. new = [i \in 1..(n - p) |-> p + i] /\ n - p \in Nat
  BY <1>1, <1>2, <1>3
<1> HIDE DEF new
<1>5. new \in Seq(Nat) /\ Len(new) = n - p /\ \A i \in 1..(n - p) : new[i] = p + i
  <2>1. new \in [1..(n - p) -> Nat]
    BY <1>1, <1>4
  <2> QED
    BY <2>1, <1>4
<1>6. played' = played \o new
  BY DEF TakeUpTo, new
<1>7. played' \in Seq(Nat) /\ Len(played') = n
  BY <1>1, <1>5, <1>6, ConcatProperties
<1>8. \A i \in 1..n : played'[i] = i
  <2> SUFFICES ASSUME NEW i \in 1..n PROVE played'[i] = i
    OBVIOUS
  <2>1. CASE i <= p
    <3>1. i \in 1..p
      BY <2>1, <1>1
    <3> QED
      BY <3>1, <1>1, <1>5, <1>6 DEF Inv, Reading
  <2>2. CASE i > p
    <3>1. i - p \in 1..(n - p) /\ ~(i <= p) /\ i \in 1..(p + (n - p))
      BY <2>2, <1>1
    <3>2. played'[i] = new[i - p]
      BY <3>1, <1>1, <1>5, <1>6, ConcatProperties
    <3>3. p + (i - p) = i
      BY <1>1
    <3> QED
      BY <3>1, <3>2, <3>3, <1>5
  <2> QED
    BY <2>1, <2>2, <1>1
<1>9. Types' /\ Laid' /\ OnDisk' /\ \A i : Whole(i)' = Whole(i) /\ CutOff(i)' = CutOff(i)
  BY <1>7, FileStays
<1>10. \A i \in 1..n : Whole(i)
  BY WholeDown DEF Inv
<1>11. pending' = NextChunk(n + 1) /\ truncated' = truncated + CutOff(n + 1) /\ size' = size
  BY DEF TakeUpTo, fileVars
<1>12. CutOff(n + 1) \in Nat
  <2>1. CASE n + 1 \in 1..Len(written)
    <3>1. written[n + 1].at \in Nat /\ size \in Nat
      BY <2>1, TypesOfChunks DEF Inv, Types
    <3> QED
      BY <3>1 DEF CutOff
  <2>2. CASE n + 1 \notin 1..Len(written)
    BY <2>2, <1>1, TypesOfChunks DEF CutOff, Inv
  <2> QED
    BY <2>1, <2>2
<1>13. Reading'
  <2>1. \A i \in 1..Len(played') : played'[i] = i /\ Whole(i)'
    BY <1>7, <1>8, <1>9, <1>10
  <2>2. pending' = NextChunk(n + 1)' /\ truncated' = CutOff(n + 1)'
    BY <1>3, <1>9, <1>11, <1>12 DEF NextChunk
  <2> QED
    BY <2>1, <2>2, <1>2, <1>7, <1>11 DEF Reading, NextChunk, CutOff, Whole
<1> QED
  BY <1>9, <1>13 DEF Inv

\* Every way replay_transport.read hands out chunks hands out the next ones, whole.
LEMMA PlayingKeeps ==
  ASSUME Inv, StepOne \/ PlayFast \/ PlayDue
  PROVE  Inv'
<1>1. phase = "open" /\ pending # None /\ UNCHANGED <<phase, fileVars>>
  BY DEF StepOne, PlayFast, PlayDue, Looks
<1>2. pending = Len(played) + 1 /\ Whole(pending)
  BY <1>1 DEF Inv, Reading, NextChunk
<1>3. pending \in 1..Len(written) /\ pending >= pending
  BY <1>2, TypesOfChunks DEF Inv, Whole
<1>4. CASE StepOne \/ PlayDue
  <2>1. TakeUpTo(pending)
    BY <1>4 DEF StepOne, PlayDue, TakeOne
  <2> QED
    BY <2>1, <1>1, <1>2, <1>3, TakingKeeps
<1>5. CASE PlayFast
  <2>1. PICK n \in 1..Len(written) : TakenTo(n, MaxRead) /\ TakeUpTo(n)
    BY <1>5 DEF PlayFast
  <2>2. Whole(n) /\ n >= pending
    BY <2>1 DEF TakenTo
  <2> QED
    BY <2>1, <2>2, <1>1, TakingKeeps
<1> QED
  BY <1>4, <1>5

\* The end of the recording and a closed replay leave what was played.
LEMMA EndingKeeps ==
  ASSUME Inv, End \/ Close
  PROVE  Inv'
<1>1. /\ phase = "open" /\ UNCHANGED <<fileVars, played, truncated>>
      /\ phase' \in {"ended", "closed"} /\ pending' = None
      /\ phase' = "ended" => pending = None
  BY DEF End, Close, AtTheEnd, tapeVars
<1>2. Types' /\ Laid' /\ OnDisk' /\ \A i : Whole(i)' = Whole(i) /\ CutOff(i)' = CutOff(i)
  BY <1>1, FileStays DEF Inv, Types
<1>3. \A i \in 1..Len(played') : played'[i] = i /\ Whole(i)'
  BY <1>1, <1>2 DEF Inv, Reading
<1>4. ASSUME phase' = "ended"
      PROVE  /\ PREAMBLE <= size'
             /\ pending' = NextChunk(Len(played) + 1)' /\ truncated' = CutOff(Len(played) + 1)'
  <2>1. pending = NextChunk(Len(played) + 1) /\ truncated = CutOff(Len(played) + 1) /\ PREAMBLE <= size
    BY <1>1 DEF Inv, Reading
  <2>2. Len(played') = Len(played) /\ size' = size /\ pending' = pending /\ truncated' = truncated
    BY <1>1, <1>4 DEF fileVars
  <2> QED
    BY <2>1, <2>2, <1>2 DEF NextChunk
<1>5. Reading'
  BY <1>1, <1>3, <1>4 DEF Reading
<1> QED
  BY <1>2, <1>5 DEF Inv

\* Every step of the recorder, the replay, its clock and its controls keeps the invariant.
LEMMA StepKeeps == Inv /\ [Next]_vars => Inv'
<1> SUFFICES ASSUME Inv, [Next]_vars PROVE Inv'
  OBVIOUS
<1>1. CASE Write
  BY <1>1, WriteKeeps
<1>2. CASE Flush
  BY <1>2, FlushKeeps
<1>3. CASE CloseFile \/ Killed
  BY <1>3, FileEnds
<1>4. CASE Open
  BY <1>4, OpenKeeps
<1>5. CASE StepOne \/ PlayFast \/ PlayDue
  BY <1>5, PlayingKeeps
<1>6. CASE End \/ Close
  BY <1>6, EndingKeeps
<1>7. CASE WaitForMore \/ Tick
  BY <1>7, Kept DEF WaitForMore, Tick, tape, fileVars, tapeVars
<1>8. CASE SetSpeed \/ Pause \/ Unpause \/ Step
  BY <1>8, Kept DEF SetSpeed, Pause, Unpause, Step, Control, tape, fileVars, tapeVars
<1>9. CASE UNCHANGED vars
  BY <1>9, Kept DEF vars, tape, fileVars, tapeVars
<1> QED
  BY <1>1, <1>2, <1>3, <1>4, <1>5, <1>6, <1>7, <1>8, <1>9 DEF Next, Read

\* sbtp.py, replay_transport.py: for any chunks, timestamps, sizes of reads and speeds, and
\* whatever a crash leaves of the file: what is played is the recording's reads, once each
\* and in order, and a replay that ends has lost at most one piece at the end, counted.
THEOREM ReplayFollows == Spec => []ReplayIsTheRecording
<1>1. Spec => []Inv
  BY InitGives, StepKeeps, PTL DEF Spec
<1> QED
  BY <1>1, InvGives, PTL

----------------------------------------------------------------------------
(* Its pace: the clock the reads are due by is not ahead of a tape of this speed. *)

Paced == place >= Far \/ elapsed * speed <= place
Pacing ==
    /\ speed \in Speeds /\ paused \in BOOLEAN /\ elapsed \in Int /\ place \in Int
    /\ phase \in {"recording", "file"} => elapsed = 0 /\ place = 0
    /\ phase = "open" /\ Whole(1) => last \in Stamps
    /\ phase = "open" /\ ~changed /\ ~paused /\ speed # 0 => Paced

\* A distance that a speed divides is the speed times the quotient.
LEMMA Divided ==
  ASSUME NEW x \in Int, NEW v \in Nat \ {0}, x % v = 0
  PROVE  x \div v \in Int /\ (x \div v) * v = x
OBVIOUS

\* Longer at the same speed is farther.
LEMMA Scaled ==
  ASSUME NEW a \in Int, NEW b \in Int, NEW v \in Nat, a <= b
  PROVE  a * v <= b * v
OBVIOUS

\* Where a read with a timestamp lies: not farther than a tape gets, and at a whole time.
LEMMA DueExactly ==
  ASSUME Types, NEW ts, Whole(1) => ts \in Stamps
  PROVE  /\ SinceFirst(ts) \in Int /\ SinceFirst(ts) <= Far
         /\ \A v \in Speeds \ {0} :
              SinceFirst(ts) \div v \in Int /\ (SinceFirst(ts) \div v) * v = SinceFirst(ts)
<1>1. Stamps \subseteq Nat /\ Speeds \subseteq Nat /\ Far \in Nat
  BY ReplayAssumption
<1>2. CASE Whole(1)
  <2>1. Len(written) \in Nat
    BY LenProperties DEF Types
  <2>2. 1 \in 1..Len(written)
    BY <1>2, <2>1 DEF Whole
  <2>3. written[1] \in [ts : Stamps, at : Nat, len : Lengths]
    BY <2>2, ElementOfSeq DEF Types
  <2>4. PICK s \in Stamps : s = written[1].ts
    BY <2>3
  <2>5. SinceFirst(ts) = ts - s /\ ts \in Stamps
    BY <1>2, <2>4 DEF SinceFirst
  <2>6. ts - s \in Int /\ ts - s <= Far /\ \A v \in Speeds \ {0} : (ts - s) % v = 0
    BY <1>1, <2>5, PaceAssumption
  <2>7. \A v \in Speeds \ {0} : (ts - s) \div v \in Int /\ ((ts - s) \div v) * v = ts - s
    BY <1>1, <2>6, Divided
  <2> QED
    BY <2>5, <2>6, <2>7
<1>3. CASE ~Whole(1)
  <2>1. SinceFirst(ts) = 0
    BY <1>3 DEF SinceFirst
  <2>2. \A v \in Speeds \ {0} : 0 \div v \in Int /\ (0 \div v) * v = 0
    <3> TAKE v \in Speeds \ {0}
    <3>1. v \in Nat \ {0} /\ 0 % v = 0
      BY <1>1
    <3> QED
      BY <3>1, Divided
  <2> QED
    BY <1>1, <2>1, <2>2
<1> QED
  BY <1>2, <1>3

\* _rebase_locked puts the clock to where the tape is: at the chunk played last.
LEMMA RebasedExactly ==
  ASSUME Types, Pacing, phase = "open"
  PROVE  /\ Rebased \in Int /\ SinceFirst(last) \in Int
         /\ speed # 0 => Rebased * speed = SinceFirst(last)
<1>1. Whole(1) => last \in Stamps
  BY DEF Pacing
<1>2. speed \in Speeds /\ elapsed \in Int
  BY DEF Pacing
<1> QED
  BY <1>1, <1>2, DueExactly DEF Rebased

\* A step that leaves the tape and its pace alone, and the file if it is being replayed.
LEMMA PaceStays ==
  ASSUME Pacing, UNCHANGED paceVars,
         phase' \in {"recording", "file"} => phase \in {"recording", "file"},
         phase' = "open" => phase = "open" /\ UNCHANGED <<written, size>>,
         last' = last \/ last' \in Stamps
  PROVE  Pacing'
<1>1. /\ speed' \in Speeds /\ paused' \in BOOLEAN /\ elapsed' \in Int /\ place' \in Int
      /\ phase' \in {"recording", "file"} => elapsed' = 0 /\ place' = 0
  BY DEF Pacing, paceVars
<1>2. ASSUME phase' = "open", Whole(1)' PROVE last' \in Stamps
  <2>1. Whole(1)
    BY <1>2 DEF Whole
  <2> QED
    BY <1>2, <2>1 DEF Pacing
<1>3. ASSUME phase' = "open", ~changed', ~paused', speed' # 0 PROVE Paced'
  <2>1. Paced
    BY <1>3 DEF Pacing, paceVars
  <2> QED
    BY <2>1 DEF Paced, paceVars
<1> QED
  BY <1>1, <1>2, <1>3 DEF Pacing

\* The clock is set: the reads go on from the one played last.
LEMMA RebasingKeeps ==
  ASSUME Types, Pacing, phase = "open", phase' = "open", UNCHANGED <<written, size>>,
         elapsed' = Rebased, place' = SinceFirst(last),
         last' = last \/ last' \in Stamps, paused' \in BOOLEAN, speed' \in Speeds,
         changed' \/ speed' = speed
  PROVE  Pacing'
<1>1. PICK e \in Int : e = Rebased
  BY RebasedExactly
<1>2. PICK at \in Int : at = SinceFirst(last)
  BY RebasedExactly
<1>3. ASSUME Whole(1)' PROVE last' \in Stamps
  <2>1. Whole(1)
    BY <1>3 DEF Whole
  <2> QED
    BY <2>1 DEF Pacing
<1>4. ASSUME ~changed', speed' # 0 PROVE Paced'
  <2>1. e * speed = at
    BY <1>1, <1>2, <1>4, RebasedExactly
  <2>2. elapsed' * speed' = place' /\ elapsed' = e /\ place' = at
    BY <1>1, <1>2, <1>4, <2>1
  <2>3. place' <= place'
    BY <2>2
  <2> QED
    BY <2>2, <2>3 DEF Paced
<1> QED
  BY <1>1, <1>2, <1>3, <1>4 DEF Pacing

\* Time passes for the tape as it does for the clock.
LEMMA TickKeeps ==
  ASSUME Pacing, Tick
  PROVE  Pacing'
<1>1. /\ phase = "open" /\ phase' = "open" /\ last' = last /\ UNCHANGED <<written, size>>
      /\ speed' = speed /\ paused' = paused /\ changed' = changed
  BY DEF Tick, fileVars, tapeVars
<1>2. PICK s \in Speeds : s = speed
  BY DEF Pacing
<1>3. PICK e \in Int : e = elapsed
  BY DEF Pacing
<1>4. PICK at \in Int : at = place
  BY DEF Pacing
<1>5. Far \in Nat /\ s \in Nat
  BY ReplayAssumption, <1>2
<1>6. PICK e1 \in Int : e1 = elapsed' /\ e1 <= e + 1
  BY <1>3, <1>5 DEF Tick, LesserOf
<1>7. PICK at1 \in Int : at1 = place' /\ (~paused => at1 = LesserOf(at + s, Far))
  BY <1>2, <1>4, <1>5 DEF Tick, LesserOf
<1>8. ASSUME Whole(1)' PROVE last' \in Stamps
  <2>1. Whole(1)
    BY <1>1, <1>8 DEF Whole
  <2> QED
    BY <1>1, <2>1 DEF Pacing
<1>9. ASSUME ~changed, ~paused, s # 0 PROVE at1 >= Far \/ e1 * s <= at1
  <2>1. at >= Far \/ e * s <= at
    BY <1>1, <1>2, <1>3, <1>4, <1>9 DEF Pacing, Paced
  <2>2. at1 = LesserOf(at + s, Far)
    BY <1>7, <1>9
  <2>3. e1 * s <= e * s + s
    <3>1. e1 <= e + 1 /\ e + 1 \in Int
      BY <1>6
    <3>2. e1 * s <= (e + 1) * s
      BY <1>5, <3>1, Scaled
    <3>3. (e + 1) * s = e * s + s
      BY <1>5
    <3> QED
      BY <3>2, <3>3
  <2>4. e * s \in Int /\ e1 * s \in Int
    BY <1>5
  <2> HIDE DEF LesserOf
  <2>5. CASE at + s <= Far
    <3>1. at1 = at + s
      BY <1>5, <2>2, <2>5 DEF LesserOf
    <3> QED
      BY <1>5, <2>1, <2>3, <2>4, <3>1
  <2>6. CASE ~(at + s <= Far)
    BY <1>5, <2>2, <2>6 DEF LesserOf
  <2> QED
    BY <2>5, <2>6
<1>10. ASSUME ~changed', ~paused', speed' # 0 PROVE Paced'
  <2>1. at1 >= Far \/ e1 * s <= at1
    BY <1>1, <1>2, <1>9, <1>10
  <2> QED
    BY <1>1, <1>2, <1>6, <1>7, <2>1 DEF Paced
<1>11. speed' \in Speeds /\ paused' \in BOOLEAN /\ elapsed' \in Int /\ place' \in Int
  BY <1>1, <1>6, <1>7 DEF Pacing
<1> QED
  BY <1>1, <1>8, <1>10, <1>11 DEF Pacing

\* What a reader takes has a timestamp of the recording.
LEMMA TakenInTime ==
  ASSUME Inv, StepOne \/ PlayFast \/ PlayDue
  PROVE  last' \in Stamps
<1>1. pending = Len(played) + 1 /\ Whole(pending)
  BY DEF Inv, Reading, NextChunk, StepOne, PlayFast, PlayDue, Looks
<1>2. pending \in 1..Len(written)
  BY <1>1, TypesOfChunks DEF Inv, Whole
<1>3. PICK n \in 1..Len(written) : last' = written[n].ts
  <2>1. CASE StepOne \/ PlayDue
    BY <2>1, <1>2 DEF StepOne, PlayDue, TakeOne, TakeUpTo
  <2>2. CASE PlayFast
    BY <2>2 DEF PlayFast, TakeUpTo
  <2> QED
    BY <2>1, <2>2
<1>4. written[n] \in [ts : Stamps, at : Nat, len : Lengths]
  BY <1>3, ElementOfSeq DEF Inv, Types
<1> QED
  BY <1>3, <1>4

\* Every step keeps the clock behind the tape.
LEMMA PaceKeeps ==
  ASSUME Inv, Pacing, [Next]_vars
  PROVE  Pacing'
<1>0. Types
  BY DEF Inv
<1>1. CASE Write \/ Flush \/ CloseFile \/ Killed
  BY <1>1, PaceStays DEF Write, Flush, CloseFile, Killed, tapeVars
<1>2. CASE Open
  <2>1. phase = "file" /\ elapsed = 0 /\ place = 0 /\ UNCHANGED <<fileVars, paceVars>>
    BY <1>2 DEF Open, Pacing
  <2>2. phase' \in {"unreadable", "open"}
    BY <1>2 DEF Open
  <2>3. ASSUME phase' = "open", Whole(1)' PROVE last' \in Stamps
    <3>1. Whole(1) /\ last' = written[1].ts
      BY <1>2, <2>1, <2>3 DEF Open, Whole, fileVars
    <3>2. 1 \in 1..Len(written)
      BY <1>0, <3>1, TypesOfChunks DEF Whole
    <3>3. written[1] \in [ts : Stamps, at : Nat, len : Lengths]
      BY <1>0, <3>2, ElementOfSeq DEF Types
    <3> QED
      BY <3>1, <3>3
  <2>4. ASSUME speed' # 0 PROVE Paced'
    <3>1. PICK v \in Nat : v = speed'
      BY <2>1, ReplayAssumption DEF Pacing, paceVars
    <3>2. 0 * v <= 0
      OBVIOUS
    <3>3. elapsed' * speed' = 0 * v /\ place' = 0
      BY <2>1, <3>1 DEF paceVars
    <3> QED
      BY <3>2, <3>3 DEF Paced
  <2> QED
    BY <2>1, <2>2, <2>3, <2>4 DEF Pacing, paceVars
<1>3. CASE StepOne
  <2>1. /\ phase = "open" /\ phase' = "open" /\ UNCHANGED <<written, size, speed, paused, changed>>
        /\ elapsed' = Rebased /\ place' = SinceFirst(last)
    BY <1>3 DEF StepOne, Looks, fileVars
  <2>2. speed' \in Speeds /\ paused' \in BOOLEAN
    BY <2>1 DEF Pacing
  <2> QED
    BY <1>0, <1>3, <2>1, <2>2, TakenInTime, RebasingKeeps
<1>4. CASE PlayFast \/ PlayDue
  <2>1. phase = "open" /\ phase' = "open" /\ UNCHANGED <<written, size, paceVars>>
    BY <1>4 DEF PlayFast, PlayDue, Looks, fileVars
  <2> QED
    BY <1>4, <2>1, TakenInTime, PaceStays
<1>5. CASE WaitForMore \/ End \/ Close
  <2>1. UNCHANGED <<fileVars, paceVars, last>> /\ phase = "open" /\ phase' \in {"open", "ended", "closed"}
    BY <1>5 DEF WaitForMore, End, Close, AtTheEnd, Looks, tapeVars
  <2> QED
    BY <2>1, PaceStays DEF fileVars
<1>6. CASE Tick
  BY <1>6, TickKeeps
<1>7. CASE SetSpeed \/ Unpause
  <2>1. /\ phase = "open" /\ phase' = "open" /\ UNCHANGED <<written, size, last>>
        /\ elapsed' = Rebased /\ place' = SinceFirst(last)
        /\ paused' \in BOOLEAN /\ speed' \in Speeds /\ (changed' \/ speed' = speed)
    BY <1>7 DEF SetSpeed, Unpause, Control, fileVars, tapeVars, Pacing
  <2> QED
    BY <1>0, <2>1, RebasingKeeps
<1>8. CASE Pause
  <2>1. /\ phase = "open" /\ phase' = "open" /\ paused' /\ paused' \in BOOLEAN
        /\ UNCHANGED <<written, size, last, speed, elapsed, place, changed>>
    BY <1>8 DEF Pause, Control, fileVars, tapeVars
  <2>2. Whole(1)' => last' \in Stamps
    BY <2>1 DEF Whole, Pacing
  <2> QED
    BY <2>1, <2>2 DEF Pacing
<1>9. CASE Step
  <2>1. /\ phase = "open" /\ phase' = "open"
        /\ UNCHANGED <<written, size, last, paused, speed, elapsed, place, changed>>
    BY <1>9 DEF Step, Control, fileVars, tapeVars
  <2>2. Whole(1)' => last' \in Stamps
    BY <2>1 DEF Whole, Pacing
  <2>3. Paced' <=> Paced
    BY <2>1 DEF Paced
  <2> QED
    BY <2>1, <2>2, <2>3 DEF Pacing
<1>10. CASE UNCHANGED vars
  BY <1>10, PaceStays DEF vars, fileVars, tapeVars
<1> QED
  BY <1>1, <1>2, <1>3, <1>4, <1>5, <1>6, <1>7, <1>8, <1>9, <1>10 DEF Next, Read

\* Only a due read, or a step of a paused replay, plays with a speed set; a due one is not
\* before its time.
LEMMA DueInTime ==
  ASSUME Inv, Pacing, [Next]_vars, ~changed
  PROVE  OnTime
<1> SUFFICES ASSUME ~paused, speed # 0, played' # played
             PROVE  SinceFirst(written[Len(played')].ts) <= place
  BY DEF OnTime
<1>1. PlayDue
  <2>1. ~StepOne /\ ~PlayFast
    BY DEF StepOne, PlayFast
  <2> QED
    BY <2>1 DEF Next, Read, Write, Flush, CloseFile, Killed, Open, WaitForMore, End, Tick, Control,
                SetSpeed, Pause, Unpause, Step, Close, vars, tapeVars
<1>2. Types /\ phase = "open" /\ pending = Len(played) + 1 /\ Whole(pending)
  BY <1>1 DEF Inv, Reading, NextChunk, PlayDue, Looks
<1>3. Len(played) \in Nat /\ pending \in 1..Len(written)
  BY <1>2, TypesOfChunks DEF Whole
<1>4. Len(played') = pending
  <2>1. played' = played \o [i \in 1..1 |-> pending]
    <3>1. pending \in Nat /\ pending - pending + 1 = 1 /\ \A i \in 1..1 : pending + i - 1 = pending
      BY <1>3
    <3> QED
      BY <1>1, <3>1 DEF PlayDue, TakeUpTo
  <2>2. [i \in 1..1 |-> pending] = <<pending>>
    OBVIOUS
  <2> QED
    BY <1>2, <1>3, <2>1, <2>2, ConcatProperties DEF Types
<1>5. written[pending].ts \in Stamps
  <2>1. written[pending] \in [ts : Stamps, at : Nat, len : Lengths]
    BY <1>2, <1>3, ElementOfSeq DEF Types
  <2> QED
    BY <2>1
<1>6. PICK x \in Int : x = SinceFirst(written[pending].ts)
  BY <1>2, <1>5, DueExactly
<1>7. x <= Far /\ x \div speed \in Int /\ (x \div speed) * speed = x
  BY <1>2, <1>5, <1>6, DueExactly DEF Pacing
<1>8. PICK v \in Nat \ {0} : v = speed
  BY ReplayAssumption DEF Pacing
<1>9. PICK e \in Int : e = elapsed
  BY DEF Pacing
<1>10. PICK at \in Int : at = place
  BY DEF Pacing
<1>11. at >= Far \/ e * v <= at
  BY <1>2, <1>8, <1>9, <1>10 DEF Pacing, Paced
<1>12. PICK due \in Int : due = x \div v /\ due * v = x
  BY <1>7, <1>8
<1>13. due <= e
  BY <1>1, <1>6, <1>8, <1>9, <1>12 DEF PlayDue, Wait
<1>14. due * v <= e * v
  BY <1>8, <1>9, <1>12, <1>13, Scaled
<1>15. x <= at
  BY <1>7, <1>11, <1>12, <1>14, ReplayAssumption
<1> QED
  BY <1>4, <1>6, <1>10, <1>15

\* replay_transport.py, for any recording and speeds that divide its times: until the speed
\* is changed, no read is played before a tape of that speed gets to it, however often the
\* replay is paused and stepped.
THEOREM PlaysInTime == Spec => PlaysAtItsPace
<1>1. Init => Inv /\ Pacing
  <2>1. Init => Pacing
    <3> SUFFICES ASSUME Init PROVE Pacing
      OBVIOUS
    <3>1. phase = "recording" /\ phase # "open"
      BY DEF Init
    <3>2. speed \in Speeds /\ elapsed = 0 /\ place = 0
      BY DEF Init
    <3>3. paused \in BOOLEAN
      BY DEF Init
    <3>4. elapsed \in Int /\ place \in Int
      BY <3>2
    <3> QED
      BY <3>1, <3>2, <3>3, <3>4 DEF Pacing
  <2> QED
    BY <2>1, InitGives
<1>2. Inv /\ Pacing /\ [Next]_vars => (Inv /\ Pacing)'
  BY StepKeeps, PaceKeeps
<1>3. Inv /\ Pacing /\ [Next]_vars => [~changed => OnTime]_vars
  BY DueInTime
<1> QED
  BY <1>1, <1>2, <1>3, PTL DEF Spec, PlaysAtItsPace
=============================================================================
