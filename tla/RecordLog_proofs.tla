-------------------------- MODULE RecordLog_proofs ---------------------------
(***************************************************************************)
(* Proofs about RecordLog, for any number of records and crashes: the file *)
(* is a beginning of what was logged, and what was synced stays there.     *)
(***************************************************************************)
EXTENDS RecordLog, SequenceTheorems, TLAPS

\* Outside a session that was opened there is no log, and nothing drains.
ReplayIsQuiet ==
    phase \in {"replay", "unreadable"} => logged = <<>> /\ drain = "idle" /\ ~ error

\* A drain that is over holds nothing, and the next one begins at once for what
\* waits; only a replay asks for the file to be emptied, and only of an idle drain.
DrainShape ==
    /\ shouldClear = FALSE
    /\ drain \in {"idle", "ending"} => batch = <<>>
    /\ drain = "idle" /\ ~ error => pending = <<>>
    /\ error => drain \in {"idle", "ending"}

\* As long as nothing failed, the file, the batch and the queue are the log; where
\* the file is going to be emptied, the batch and the queue alone are.
NothingMissing ==
    phase \in {"live", "migrate"} /\ ~ error =>
        IF drain = "offload" /\ clears
          THEN logged = batch \o pending
          ELSE Corrupt \notin Range(lines) => logged = (Readable \o batch) \o pending

IInv == TypeOK /\ ReplayIsQuiet /\ DrainShape /\ NothingMissing /\ LogIsPrefix

-----------------------------------------------------------------------------
\* Sequences and files.

\* A sequence is a prefix of what it is continued to.
LEMMA PrefixOfConcat ==
    ASSUME NEW S, NEW s \in Seq(S), NEW t \in Seq(S)
    PROVE  IsPrefix(s, s \o t)
<1>1. s \o t \in Seq(S) /\ Len(s \o t) = Len(s) + Len(t) /\ Len(s) \in Nat /\ Len(t) \in Nat
      /\ \A i \in 1 .. Len(s) : (s \o t)[i] = s[i]
  BY ConcatProperties, LenProperties
<1>2. SubSeq(s, 1, Len(s)) = s
  BY SubSeqFull
<1>3. SubSeq(s \o t, 1, Len(s)) = s
  <2>1. /\ SubSeq(s \o t, 1, Len(s)) \in Seq(S)
        /\ Len(SubSeq(s \o t, 1, Len(s))) = Len(s)
        /\ \A i \in 1 .. Len(s) : SubSeq(s \o t, 1, Len(s))[i] = s[i]
    <3>1. \A i \in 1 .. Len(s) : (s \o t)[i] \in S
      BY <1>1, ElementOfSeq
    <3>2. /\ SubSeq(s \o t, 1, Len(s)) \in Seq(S)
          /\ Len(SubSeq(s \o t, 1, Len(s))) = IF 1 <= Len(s) THEN Len(s) - 1 + 1 ELSE 0
          /\ \A i \in 1 .. Len(s) - 1 + 1 : SubSeq(s \o t, 1, Len(s))[i] = (s \o t)[1 + i - 1]
      BY <1>1, <3>1, SubSeqProperties
    <3> QED BY <1>1, <3>2
  <2> QED BY <2>1, SeqEqual
<1> QED BY <1>1, <1>2, <1>3 DEF IsPrefix

\* A prefix stays one when more is added behind.
LEMMA PrefixOfLonger ==
    ASSUME NEW S, NEW s \in Seq(S), NEW t \in Seq(S), NEW u \in Seq(S), IsPrefix(s, t)
    PROVE  IsPrefix(s, t \o u)
<1>1. Len(s) \in Nat /\ Len(t) \in Nat /\ Len(t \o u) = Len(t) + Len(u) /\ Len(u) \in Nat
  BY ConcatProperties, LenProperties
<1>2. Len(s) <= Len(t) /\ SubSeq(s, 1, Len(s)) = SubSeq(t, 1, Len(s))
  BY DEF IsPrefix
<1>3. SubSeq(t \o u, 1, Len(s)) = SubSeq(t, 1, Len(s))
  <2>1. CASE Len(s) = 0
    BY <2>1, SubSeqEmpty
  <2>2. CASE Len(s) # 0
    BY <1>1, <1>2, <2>2, SubSeqOfConcat1
  <2> QED BY <2>1, <2>2
<1> QED BY <1>1, <1>2, <1>3 DEF IsPrefix

\* A sequence over a set with one more value that does not contain it.
LEMMA SeqWithout ==
    ASSUME NEW S, NEW c, NEW s \in Seq(S \cup {c}), c \notin Range(s)
    PROVE  s \in Seq(S)
<1>1. s \in Seq(Range(s)) /\ Range(s) \subseteq S
  BY RangeOfSeq, SeqOfRange
<1> QED BY <1>1, SeqMonotonic

\* What read() yields of a file.
ReadableOf(f) == f.lines \o (IF f.tail \in Record THEN <<f.tail>> ELSE <<>>)

Files == [lines : Seq(Record \cup {Corrupt}), tail : Record \cup {NoTail, Fragment}]

\* A record is a number, and none of the three marks of a line is one.
LEMMA RecordFacts ==
    /\ Record \subseteq Nat
    /\ NoTail \notin Record /\ Corrupt \notin Record /\ Fragment \notin Record
  BY BoundsAssumption DEF Record, NoTail, Corrupt, Fragment

\* Records joined to records are records, in whatever order they are joined.
LEMMA ConcatRecords ==
    \A s, t, u \in Seq(Record) : s \o t \in Seq(Record) /\ (s \o t) \o u = s \o (t \o u)
<1>1. \A s, t \in Seq(Record) : s \o t \in Seq(Record)
  BY ConcatProperties
<1>2. \A s, t, u \in Seq(Record) : (s \o t) \o u = s \o (t \o u)
  BY ConcatAssociative
<1> QED BY <1>1, <1>2

\* A file without a corrupt line yields records, those of its cut-off end included.
LEMMA ReadableType ==
    ASSUME NEW f \in Files, Corrupt \notin Range(f.lines)
    PROVE  f.lines \in Seq(Record) /\ ReadableOf(f) \in Seq(Record)
<1>1. f.lines \in Seq(Record)
  BY SeqWithout DEF Files
<1>2. (IF f.tail \in Record THEN <<f.tail>> ELSE <<>>) \in Seq(Record)
  OBVIOUS
<1> QED BY <1>1, <1>2, ConcatProperties DEF ReadableOf

\* Lines that are added to a file that stays readable come behind what it held.
LEMMA AddLinesReads ==
    ASSUME NEW f \in Files, NEW records \in Seq(Record)
    PROVE  /\ AddLines(f, records) \in Files
           /\ Range(f.lines) \subseteq Range(AddLines(f, records).lines)
           /\ Corrupt \notin Range(AddLines(f, records).lines) =>
                 ReadableOf(AddLines(f, records)) = ReadableOf(f) \o records
<1> DEFINE g == AddLines(f, records)
           L == Record \cup {Corrupt}
<1>0. f.lines \in Seq(L) /\ f.tail \in Record \cup {NoTail, Fragment}
  BY DEF Files
<1>1. CASE records = <<>>
  <2>1. g = f
    BY <1>1 DEF AddLines
  <2>2. Corrupt \notin Range(f.lines) => ReadableOf(f) \o <<>> = ReadableOf(f)
    BY ReadableType, ConcatEmptySeq
  <2> QED BY <1>1, <2>1, <2>2
<1>2. CASE records # <<>> /\ f.tail = NoTail
  <2>1. g.lines = f.lines \o records /\ g.tail = NoTail /\ g = [lines |-> g.lines, tail |-> NoTail]
    BY <1>2 DEF AddLines
  <2>2. records \in Seq(L)
    BY SeqMonotonic
  <2>3. g.lines \in Seq(L) /\ Range(g.lines) = Range(f.lines) \cup Range(records)
    BY <1>0, <2>1, <2>2, ConcatProperties, RangeConcatenation
  <2>4. Corrupt \notin Range(g.lines) => ReadableOf(g) = ReadableOf(f) \o records
    <3> SUFFICES ASSUME Corrupt \notin Range(g.lines)
                 PROVE  ReadableOf(g) = ReadableOf(f) \o records
      OBVIOUS
    <3>1. ReadableOf(f) = f.lines \o <<>> /\ ReadableOf(g) = g.lines \o <<>>
      BY <1>2, <2>1, RecordFacts DEF ReadableOf
    <3>2. f.lines \o <<>> = f.lines /\ g.lines \o <<>> = g.lines
      BY <2>3, ConcatEmptySeq DEF Files
    <3> QED BY <2>1, <3>1, <3>2
  <2>5. g \in Files
    BY <2>1, <2>3 DEF Files
  <2> QED BY <2>3, <2>4, <2>5
<1>3. CASE records # <<>> /\ f.tail # NoTail
  <2>1. g.lines = f.lines \o (<<Corrupt>> \o Tail(records)) /\ g.tail = NoTail
        /\ g = [lines |-> g.lines, tail |-> NoTail]
    BY <1>3 DEF AddLines
  <2>2. Tail(records) \in Seq(L) /\ <<Corrupt>> \in Seq(L)
    BY <1>3, HeadTailProperties, SeqMonotonic
  <2>3. /\ <<Corrupt>> \o Tail(records) \in Seq(L)
        /\ Range(<<Corrupt>> \o Tail(records)) = Range(<<Corrupt>>) \cup Range(Tail(records))
    BY <2>2, ConcatProperties, RangeConcatenation, ZenonT(40)
  <2>4. /\ g.lines \in Seq(L)
        /\ Range(g.lines) = Range(f.lines) \cup Range(<<Corrupt>> \o Tail(records))
    <3> DEFINE added == <<Corrupt>> \o Tail(records)
    <3>1. added \in Seq(L)
      BY <2>3
    <3> HIDE DEF added, g, L
    <3>2. f.lines \o added \in Seq(L) /\ Range(f.lines \o added) = Range(f.lines) \cup Range(added)
      BY <1>0, <3>1, ConcatProperties, RangeConcatenation
    <3> QED BY <2>1, <3>2 DEF added
  <2>5. Corrupt \in Range(<<Corrupt>>)
    BY DEF Range
  <2>6. g \in Files
    BY <2>1, <2>4 DEF Files
  <2> QED BY <2>3, <2>4, <2>5, <2>6
<1> QED BY <1>1, <1>2, <1>3

\* What a write that is cut off leaves is a beginning of what it would have left.
LEMMA CutOffReads ==
    ASSUME NEW f \in Files, NEW records \in Seq(Record), NEW g \in CutOff(f, records)
    PROVE  /\ g \in Files
           /\ Range(f.lines) \subseteq Range(g.lines)
           /\ Corrupt \notin Range(g.lines) => IsPrefix(ReadableOf(g), ReadableOf(f) \o records)
<1>1. PICK n \in 0 .. Len(records) - 1 :
          \/ g = AddLines(f, SubSeq(records, 1, n))
          \/ g \in AddPart(AddLines(f, SubSeq(records, 1, n)), records[n + 1])
  BY DEF CutOff
<1> DEFINE first == SubSeq(records, 1, n)
           rest == SubSeq(records, n + 1, Len(records))
           h == AddLines(f, first)
<1>2. Len(records) \in Nat /\ n \in Nat /\ n + 1 \in 1 .. Len(records)
  BY LenProperties
<1>3. records[n + 1] \in Record
  BY <1>2, ElementOfSeq
<1>4. first \in Seq(Record)
  <2>1. \A i \in 1 .. n : records[i] \in Record
    BY <1>2, ElementOfSeq
  <2> QED BY <1>2, <2>1, SubSeqProperties
<1>5. rest \in Seq(Record)
  <2>1. \A i \in n + 1 .. Len(records) : records[i] \in Record
    BY <1>2, ElementOfSeq
  <2> QED BY <1>2, <2>1, SubSeqProperties
<1>6. first \o rest = records
  <2>1. first \o rest = SubSeq(records, 1, Len(records))
    BY <1>2, ConcatAdjacentSubSeq
  <2> QED BY <2>1, SubSeqFull
<1>7. /\ h \in Files /\ Range(f.lines) \subseteq Range(h.lines)
      /\ Corrupt \notin Range(h.lines) => ReadableOf(h) = ReadableOf(f) \o first
  BY <1>4, <1>5, AddLinesReads
<1> HIDE DEF first, rest, h
<1>8. ASSUME Corrupt \notin Range(h.lines)
      PROVE  ReadableOf(h) \in Seq(Record) /\ ReadableOf(h) \o rest = ReadableOf(f) \o records
  <2>1. ReadableOf(h) \in Seq(Record) /\ ReadableOf(f) \in Seq(Record)
    BY <1>7, <1>8, ReadableType
  <2>2. (ReadableOf(f) \o first) \o rest = ReadableOf(f) \o (first \o rest)
    <3>1. ReadableOf(f) \in Seq(Record)
      BY <2>1
    <3> QED BY <1>4, <1>5, <3>1, ConcatRecords, Zenon
  <2> QED BY <1>6, <1>7, <1>8, <2>1, <2>2
<1>9. CASE g = h
  <2>1. Corrupt \notin Range(h.lines) => IsPrefix(ReadableOf(h), ReadableOf(h) \o rest)
    BY <1>4, <1>5, <1>8, PrefixOfConcat
  <2> QED BY <1>7, <1>8, <1>9, <2>1
<1>10. CASE g \in AddPart(h, records[n + 1])
  <2> DEFINE T == IF h.tail \in Record THEN <<h.tail>> ELSE <<>>
  <2>1. /\ g.lines = h.lines /\ g \in Files
        /\ g.tail = Fragment \/ (h.tail = NoTail /\ g.tail = records[n + 1])
    <3>1. \A t \in Record \cup {NoTail, Fragment} :
              /\ [h EXCEPT !.tail = t] \in Files
              /\ [h EXCEPT !.tail = t].lines = h.lines /\ [h EXCEPT !.tail = t].tail = t
      BY <1>7 DEF Files
    <3>2. \/ g = [h EXCEPT !.tail = Fragment]
          \/ h.tail = NoTail /\ g = [h EXCEPT !.tail = records[n + 1]]
      BY <1>10 DEF AddPart
    <3> QED BY <1>3, <3>1, <3>2
  <2> SUFFICES ASSUME Corrupt \notin Range(h.lines)
               PROVE  IsPrefix(ReadableOf(g), ReadableOf(f) \o records)
    BY <1>7, <2>1
  <2>2. h.lines \in Seq(Record)
    BY <1>7, ReadableType
  <2>3. T \in Seq(Record)
    OBVIOUS
  <2>4. CASE g.tail = Fragment
    <3>1. ReadableOf(g) = h.lines \o <<>> /\ h.lines \o <<>> = h.lines
      BY <2>1, <2>2, <2>4, RecordFacts, ConcatEmptySeq DEF ReadableOf
    <3>2. ReadableOf(h) \o rest = h.lines \o (T \o rest)
      <4>1. ReadableOf(h) = h.lines \o T
        BY DEF ReadableOf
      <4> HIDE DEF T
      <4>2. (h.lines \o T) \o rest = h.lines \o (T \o rest)
        BY <1>5, <2>2, <2>3, ConcatRecords, ZenonT(40)
      <4> QED BY <4>1, <4>2
    <3>3. T \o rest \in Seq(Record)
      BY <1>5, <2>3, ConcatProperties
    <3> QED BY <1>8, <2>2, <3>1, <3>2, <3>3, PrefixOfConcat
  <2>5. CASE h.tail = NoTail /\ g.tail = records[n + 1]
    <3> DEFINE r == <<records[n + 1]>>
               later == SubSeq(records, n + 2, Len(records))
    <3>1. ReadableOf(g) = h.lines \o r
      BY <1>3, <2>1, <2>5 DEF ReadableOf
    <3>2. r \in Seq(Record)
      BY <1>3
    <3>3. ReadableOf(h) = h.lines
      <4>1. ReadableOf(h) = h.lines \o <<>>
        BY <2>5, RecordFacts DEF ReadableOf
      <4> QED BY <2>2, <4>1, ConcatEmptySeq
    <3>4. rest = r \o later
      <4>1. Len(records) \in n + 1 .. Len(records) /\ n + 1 + 1 = n + 2
        BY <1>2
      <4> QED BY <1>2, <4>1, SubSeqRecursiveFirst DEF rest
    <3>5. later \in Seq(Record)
      <4>1. \A i \in n + 2 .. Len(records) : records[i] \in Record
        BY <1>2, ElementOfSeq
      <4> QED BY <1>2, <4>1, SubSeqProperties
    <3> HIDE DEF r, later, T
    <3>6. (h.lines \o r) \o later = h.lines \o (r \o later)
      BY <2>2, <3>2, <3>5, ConcatRecords, ZenonT(40)
    <3>7. h.lines \o r \in Seq(Record)
      BY <2>2, <3>2, ConcatProperties
    <3>8. IsPrefix(h.lines \o r, (h.lines \o r) \o later)
      BY <3>5, <3>7, PrefixOfConcat
    <3> QED BY <1>8, <3>1, <3>3, <3>4, <3>6, <3>8
  <2> QED BY <2>1, <2>4, <2>5
<1> QED BY <1>1, <1>9, <1>10 DEF h, first

-----------------------------------------------------------------------------
\* The file of the log.

\* The file as one value, and what a replay reads of it.
LEMMA FileOfLog == File.lines = lines /\ File.tail = tail /\ ReadableOf(File) = Readable
  BY DEF File, ReadableOf, Readable

\* What a step that makes the file f leaves to be read is what f yields.
LEMMA ReadableAfter ==
    ASSUME NEW f \in Files, Becomes(f)
    PROVE  Readable' = ReadableOf(f) /\ lines' = f.lines /\ tail' = f.tail
  BY DEF Becomes, ReadableOf, Readable

\* A file that may be read yields records, and it holds what it did if it is left alone.
LEMMA LogFile ==
    ASSUME TypeOK
    PROVE  /\ File \in Files
           /\ Corrupt \notin Range(lines) => Readable \in Seq(Record)
           /\ UNCHANGED file => Readable' = Readable /\ Range(lines') = Range(lines)
<1>1. File \in Files
  BY DEF TypeOK, File, Files
<1>2. Corrupt \notin Range(lines) => Readable \in Seq(Record)
  BY <1>1, ReadableType, FileOfLog
<1>3. UNCHANGED file => Readable' = Readable /\ Range(lines') = Range(lines)
  BY DEF file, Readable
<1> QED BY <1>1, <1>2, <1>3

\* What is appended behind the last of several parts is appended to all of them.
LEMMA AppendBehind ==
    ASSUME NEW s \in Seq(Record), NEW t \in Seq(Record), NEW r \in Record
    PROVE  Append(s \o t, r) = s \o Append(t, r)
<1> DEFINE one == <<r>>
<1>1. one \in Seq(Record)
  OBVIOUS
<1>2. s \o t \in Seq(Record)
  BY ConcatProperties
<1>3. Append(s \o t, r) = (s \o t) \o one /\ Append(t, r) = t \o one
  BY <1>2, AppendIsConcat
<1> HIDE DEF one
<1>4. (s \o t) \o one = s \o (t \o one)
  BY <1>1, ConcatRecords, Zenon
<1> QED BY <1>3, <1>4

-----------------------------------------------------------------------------
\* The invariant.

\* The empty log satisfies the inductive invariant.
LEMMA InitIInv == Init => IInv
<1> SUFFICES ASSUME Init PROVE IInv
  OBVIOUS
<1>1. TypeOK
  <2>1. <<>> \in Seq(Record) /\ <<>> \in Seq(Record \cup {Corrupt})
    BY EmptySeq
  <2>2. 1 \in 1 .. MaxRecords + 1 /\ 0 \in 0 .. MaxCrashes
    BY BoundsAssumption
  <2> QED BY <2>1, <2>2 DEF Init, TypeOK
<1> QED BY <1>1 DEF Init, IInv, ReplayIsQuiet, DrainShape, NothingMissing, LogIsPrefix

\* append() puts a record behind all that were logged, or refuses it.
LEMMA appendKeeps == IInv /\ append => IInv'
<1> SUFFICES ASSUME IInv, append PROVE IInv'
  OBVIOUS
<1>1. /\ phase = "live" /\ phase' = "live" /\ ~ error /\ ~ error' /\ shouldClear = FALSE
      /\ next \in Record /\ logged' = Append(logged, next)
      /\ Readable' = Readable /\ Range(lines') = Range(lines)
  BY LogFile DEF append, IInv, TypeOK, DrainShape, Record
<1>2. /\ logged \in Seq(Record) /\ pending \in Seq(Record) /\ batch \in Seq(Record)
      /\ Append(logged, next) \in Seq(Record) /\ Append(pending, next) \in Seq(Record)
  BY <1>1, AppendProperties DEF IInv, TypeOK
<1>3. TypeOK'
  <2>1. next' \in 1 .. MaxRecords + 1
    BY <1>1, BoundsAssumption DEF append, IInv, TypeOK
  <2>2. /\ pending' \in Seq(Record) /\ batch' \in Seq(Record)
        /\ drain' \in {"idle", "offload", "write", "ending"}
        /\ shouldClear' \in BOOLEAN /\ clears' \in BOOLEAN
    BY <1>1, <1>2, EmptySeq DEF append, Enqueue, TakeBatch, IInv, TypeOK
  <2> QED BY <1>1, <1>2, <2>1, <2>2 DEF append, IInv, TypeOK, file
<1>4. ReplayIsQuiet' /\ DrainShape'
  BY <1>1 DEF append, Enqueue, TakeBatch, IInv, ReplayIsQuiet, DrainShape
<1>5. NothingMissing'
  <2>1. CASE drain = "idle"
    <3>1. /\ pending = <<>> /\ batch = <<>> /\ batch' = Append(pending, next) /\ pending' = <<>>
          /\ drain' = "offload" /\ clears' = FALSE
      BY <1>1, <2>1 DEF append, Enqueue, TakeBatch, IInv, DrainShape
    <3>2. ASSUME Corrupt \notin Range(lines)
          PROVE  logged' = (Readable \o batch') \o pending'
      <4>1. logged = (Readable \o <<>>) \o <<>> /\ Readable \in Seq(Record)
        BY <1>1, <2>1, <3>1, <3>2, LogFile DEF IInv, NothingMissing
      <4>2. logged = Readable
        BY <4>1, ConcatEmptySeq
      <4>3. Append(Readable \o <<>>, next) = Readable \o Append(<<>>, next)
        BY <1>1, <4>1, AppendBehind
      <4>4. Readable \o batch' \in Seq(Record)
        BY <1>2, <3>1, <4>1, ConcatProperties
      <4>5. (Readable \o batch') \o <<>> = Readable \o batch'
        BY <4>4, ConcatEmptySeq
      <4> QED BY <1>1, <3>1, <4>1, <4>2, <4>3, <4>5, ConcatEmptySeq
    <3> QED BY <1>1, <3>1, <3>2 DEF NothingMissing
  <2>2. CASE drain # "idle"
    <3>1. pending' = Append(pending, next) /\ UNCHANGED <<drain, batch, clears>>
      BY <2>2 DEF append, Enqueue
    <3>2. CASE drain = "offload" /\ clears
      <4>1. logged = batch \o pending
        BY <1>1, <3>2 DEF IInv, NothingMissing
      <4>2. logged' = batch \o Append(pending, next)
        BY <1>1, <1>2, <4>1, AppendBehind
      <4> QED BY <3>1, <3>2, <4>2 DEF NothingMissing
    <3>3. CASE ~ (drain = "offload" /\ clears)
      <4>1. ASSUME Corrupt \notin Range(lines)
            PROVE  logged' = (Readable \o batch) \o Append(pending, next)
        <5>1. logged = (Readable \o batch) \o pending /\ Readable \in Seq(Record)
          BY <1>1, <3>3, <4>1, LogFile DEF IInv, NothingMissing
        <5>2. Readable \o batch \in Seq(Record)
          BY <1>2, <5>1, ConcatProperties
        <5> QED BY <1>1, <1>2, <5>1, <5>2, AppendBehind
      <4> QED BY <1>1, <3>1, <3>3, <4>1 DEF NothingMissing
    <3> QED BY <3>2, <3>3
  <2> QED BY <2>1, <2>2
<1>6. LogIsPrefix'
  <2> SUFFICES ASSUME Corrupt \notin Range(lines) PROVE IsPrefix(Readable, Append(logged, next))
    BY <1>1 DEF LogIsPrefix
  <2>1. IsPrefix(Readable, logged) /\ Readable \in Seq(Record)
    BY <1>1, LogFile DEF IInv, LogIsPrefix
  <2>2. Append(logged, next) = logged \o <<next>> /\ <<next>> \in Seq(Record)
    BY <1>1, <1>2, AppendIsConcat
  <2> QED BY <1>2, <2>1, <2>2, PrefixOfLonger
<1> QED BY <1>3, <1>4, <1>5, <1>6 DEF IInv

\* Opening the file empties it for a rewrite only.
LEMMA OpenKeeps == IInv /\ Open => IInv'
<1> SUFFICES ASSUME IInv, Open PROVE IInv'
  OBVIOUS
<1>1. /\ drain = "offload" /\ drain' = "write" /\ ~ error
      /\ phase \in {"live", "migrate"}
      /\ UNCHANGED <<phase, logged, pending, shouldClear, batch, clears, error, next, synced, crashes>>
  BY DEF Open, IInv, TypeOK, ReplayIsQuiet, DrainShape
<1>2. logged \in Seq(Record) /\ pending \in Seq(Record) /\ batch \in Seq(Record)
  BY DEF IInv, TypeOK
<1>3. ReplayIsQuiet' /\ DrainShape'
  BY <1>1 DEF IInv, ReplayIsQuiet, DrainShape
<1>4. CASE clears
  <2>1. lines' = <<>> /\ tail' = NoTail /\ logged = batch \o pending
    BY <1>1, <1>4 DEF Open, Becomes, IInv, NothingMissing
  <2>2. Readable' = <<>>
    <3>1. Readable' = <<>> \o <<>>
      BY <2>1, RecordFacts DEF Readable
    <3> QED BY <3>1, ConcatEmptySeq, EmptySeq
  <2>3. TypeOK'
    BY <1>1, <2>1, EmptySeq DEF IInv, TypeOK
  <2>4. logged = (<<>> \o batch) \o pending
    BY <1>2, <2>1, ConcatEmptySeq
  <2>5. IsPrefix(<<>>, logged)
    <3>1. IsPrefix(<<>>, <<>> \o logged)
      BY <1>2, EmptySeq, PrefixOfConcat
    <3> QED BY <1>2, <3>1, ConcatEmptySeq
  <2>6. NothingMissing' /\ LogIsPrefix'
    BY <1>1, <2>2, <2>4, <2>5 DEF NothingMissing, LogIsPrefix
  <2> QED BY <1>3, <2>3, <2>6 DEF IInv
<1>5. CASE ~ clears
  <2>1. UNCHANGED file
    BY <1>5 DEF Open
  <2>2. TypeOK'
    BY <1>1, <2>1 DEF IInv, TypeOK, file
  <2>3. NothingMissing' /\ LogIsPrefix'
    BY <1>1, <1>5, <2>1, LogFile DEF IInv, NothingMissing, LogIsPrefix
  <2> QED BY <1>3, <2>2, <2>3 DEF IInv
<1> QED BY <1>4, <1>5

\* A written batch extends what is readable by its records.
LEMMA WrittenKeeps == IInv /\ Written => IInv'
<1> SUFFICES ASSUME IInv, Written PROVE IInv'
  OBVIOUS
<1>1. /\ drain = "write" /\ ~ error /\ shouldClear = FALSE
      /\ phase \in {"live", "migrate"}
      /\ UNCHANGED <<phase, logged, error, next, crashes>>
      /\ synced' = synced \cup Range(batch)
  BY DEF Written, IInv, TypeOK, ReplayIsQuiet, DrainShape
<1>2. /\ logged \in Seq(Record) /\ pending \in Seq(Record) /\ batch \in Seq(Record)
      /\ File \in Files
  BY LogFile DEF IInv, TypeOK
<1> DEFINE g == AddLines(File, batch)
<1>3. /\ g \in Files /\ Range(lines) \subseteq Range(g.lines)
      /\ Corrupt \notin Range(g.lines) => ReadableOf(g) = Readable \o batch
  BY <1>2, AddLinesReads, FileOfLog
<1>4. Readable' = ReadableOf(g) /\ lines' = g.lines /\ tail' = g.tail
  BY <1>3, ReadableAfter DEF Written
<1> HIDE DEF g
<1>5. CASE pending # <<>>
  <2>1. batch' = pending /\ pending' = <<>> /\ clears' = FALSE /\ shouldClear' = FALSE
        /\ drain' = "offload"
    BY <1>1, <1>5 DEF Written, TakeBatch
  <2>2. TypeOK'
    <3>1. synced' \subseteq Record
      BY <1>1, <1>2, RangeOfSeq DEF IInv, TypeOK
    <3>2. lines' \in Seq(Record \cup {Corrupt}) /\ tail' \in Record \cup {NoTail, Fragment}
      BY <1>3, <1>4 DEF Files
    <3> QED BY <1>1, <1>2, <2>1, <3>1, <3>2, EmptySeq DEF IInv, TypeOK
  <2>3. ReplayIsQuiet' /\ DrainShape'
    BY <1>1, <2>1 DEF ReplayIsQuiet, DrainShape
  <2>4. ASSUME Corrupt \notin Range(lines')
        PROVE  logged' = (Readable' \o batch') \o pending' /\ IsPrefix(Readable', logged')
    <3>1. Readable' = Readable \o batch /\ Readable \in Seq(Record) /\ logged = Readable' \o pending
      BY <1>1, <1>3, <1>4, <2>4, LogFile DEF IInv, NothingMissing
    <3>2. Readable' \in Seq(Record)
      BY <1>2, <3>1, ConcatProperties
    <3>3. Readable' \o pending \in Seq(Record) /\ IsPrefix(Readable', Readable' \o pending)
      BY <1>2, <3>2, ConcatProperties, PrefixOfConcat
    <3> QED BY <1>1, <2>1, <3>1, <3>3, ConcatEmptySeq
  <2>5. NothingMissing' /\ LogIsPrefix'
    BY <2>1, <2>4 DEF NothingMissing, LogIsPrefix
  <2> QED BY <2>2, <2>3, <2>5 DEF IInv
<1>6. CASE pending = <<>>
  <2>1. drain' = "ending" /\ batch' = <<>> /\ UNCHANGED <<pending, shouldClear, clears>>
    BY <1>1, <1>6 DEF Written
  <2>2. TypeOK'
    <3>1. synced' \subseteq Record
      BY <1>1, <1>2, RangeOfSeq DEF IInv, TypeOK
    <3>2. lines' \in Seq(Record \cup {Corrupt}) /\ tail' \in Record \cup {NoTail, Fragment}
      BY <1>3, <1>4 DEF Files
    <3> QED BY <1>1, <1>2, <2>1, <3>1, <3>2, EmptySeq DEF IInv, TypeOK
  <2>3. ReplayIsQuiet' /\ DrainShape'
    BY <1>1, <2>1 DEF ReplayIsQuiet, DrainShape
  <2>4. ASSUME Corrupt \notin Range(lines')
        PROVE  logged' = (Readable' \o batch') \o pending' /\ IsPrefix(Readable', logged')
    <3>1. Readable' = Readable \o batch /\ Readable \in Seq(Record) /\ logged = Readable' \o pending
      BY <1>1, <1>3, <1>4, <2>4, LogFile DEF IInv, NothingMissing
    <3>2. Readable' \in Seq(Record)
      BY <1>2, <3>1, ConcatProperties
    <3>3. Readable' \o <<>> = Readable' /\ IsPrefix(Readable', Readable' \o pending)
      BY <1>2, <3>2, ConcatEmptySeq, PrefixOfConcat
    <3> QED BY <1>1, <2>1, <3>1, <3>3
  <2>5. NothingMissing' /\ LogIsPrefix'
    BY <2>1, <2>4 DEF NothingMissing, LogIsPrefix
  <2> QED BY <2>2, <2>3, <2>5 DEF IInv
<1> QED BY <1>5, <1>6

\* A write that fails leaves a beginning of its batch, and no record is accepted any more.
LEMMA FailsKeeps == IInv /\ Fails => IInv'
<1> SUFFICES ASSUME IInv, Fails PROVE IInv'
  OBVIOUS
<1>1. /\ drain \in {"offload", "write"} /\ drain' = "ending" /\ batch' = <<>>
      /\ ~ error /\ error' = TRUE
      /\ phase \in {"live", "migrate"}
      /\ UNCHANGED <<phase, logged, pending, shouldClear, clears, next, synced, crashes>>
  BY DEF Fails, IInv, TypeOK, ReplayIsQuiet, DrainShape
<1>2. /\ logged \in Seq(Record) /\ pending \in Seq(Record) /\ batch \in Seq(Record)
      /\ File \in Files
  BY LogFile DEF IInv, TypeOK
<1>3. ReplayIsQuiet' /\ DrainShape' /\ NothingMissing'
  BY <1>1 DEF IInv, ReplayIsQuiet, DrainShape, NothingMissing
<1>4. CASE drain = "write"
  <2>1. PICK f \in CutOff(File, batch) : Becomes(f)
    BY <1>4 DEF Fails
  <2>2. /\ f \in Files /\ Range(lines) \subseteq Range(f.lines)
        /\ Corrupt \notin Range(f.lines) => IsPrefix(ReadableOf(f), Readable \o batch)
    BY <1>2, CutOffReads, FileOfLog
  <2>3. Readable' = ReadableOf(f) /\ lines' = f.lines /\ tail' = f.tail
    BY <2>1, <2>2, ReadableAfter
  <2>4. TypeOK'
    BY <1>1, <2>2, <2>3, EmptySeq DEF IInv, TypeOK, Files
  <2>5. LogIsPrefix'
    <3> SUFFICES ASSUME Corrupt \notin Range(f.lines) PROVE IsPrefix(Readable', logged)
      BY <1>1, <2>3 DEF LogIsPrefix
    <3>1. logged = (Readable \o batch) \o pending /\ Readable \in Seq(Record)
      BY <1>1, <1>4, <2>2, LogFile DEF IInv, NothingMissing
    <3>2. Readable \o batch \in Seq(Record) /\ Readable' \in Seq(Record)
      BY <1>2, <2>2, <2>3, <3>1, ConcatProperties, ReadableType
    <3> QED BY <1>2, <2>2, <2>3, <3>1, <3>2, PrefixOfLonger
  <2> QED BY <1>3, <2>4, <2>5 DEF IInv
<1>5. CASE drain # "write"
  <2>1. UNCHANGED file
    BY <1>5 DEF Fails
  <2>2. TypeOK'
    BY <1>1, <2>1, EmptySeq DEF IInv, TypeOK, file
  <2>3. LogIsPrefix'
    BY <1>1, <2>1, LogFile DEF IInv, LogIsPrefix
  <2> QED BY <1>3, <2>2, <2>3 DEF IInv
<1> QED BY <1>4, <1>5

\* The end of a drain takes up what was queued since.
LEMMA FinallyKeeps == IInv /\ Finally => IInv'
<1> SUFFICES ASSUME IInv, Finally PROVE IInv'
  OBVIOUS
<1>1. /\ drain = "ending" /\ phase \in {"live", "migrate"} /\ batch = <<>> /\ shouldClear = FALSE
      /\ UNCHANGED <<phase, logged, error, next, file, synced, crashes>>
      /\ Readable' = Readable /\ Range(lines') = Range(lines)
  BY LogFile DEF Finally, IInv, TypeOK, ReplayIsQuiet, DrainShape
<1>2. logged \in Seq(Record) /\ pending \in Seq(Record)
  BY DEF IInv, TypeOK
<1>3. LogIsPrefix'
  BY <1>1 DEF IInv, LogIsPrefix
<1>4. CASE ~ error /\ pending # <<>>
  <2>1. batch' = pending /\ pending' = <<>> /\ clears' = FALSE /\ shouldClear' = FALSE
        /\ drain' = "offload"
    BY <1>1, <1>4 DEF Finally, TakeBatch
  <2>2. TypeOK'
    BY <1>1, <1>2, <2>1, EmptySeq DEF IInv, TypeOK, file
  <2>3. ReplayIsQuiet' /\ DrainShape'
    BY <1>1, <1>4, <2>1 DEF ReplayIsQuiet, DrainShape
  <2>4. ASSUME Corrupt \notin Range(lines)
        PROVE  logged = (Readable \o pending) \o <<>>
    <3>1. logged = (Readable \o <<>>) \o pending /\ Readable \in Seq(Record)
      BY <1>1, <1>4, <2>4, LogFile DEF IInv, NothingMissing
    <3> QED BY <1>2, <3>1, ConcatEmptySeq
  <2>5. NothingMissing'
    BY <1>1, <2>1, <2>4 DEF NothingMissing
  <2> QED BY <1>3, <2>2, <2>3, <2>5 DEF IInv
<1>5. CASE error \/ pending = <<>>
  <2>1. drain' = "idle" /\ UNCHANGED <<pending, shouldClear, batch, clears>>
    BY <1>1, <1>5 DEF Finally
  <2>2. TypeOK'
    BY <1>1, <2>1 DEF IInv, TypeOK, file
  <2>3. ReplayIsQuiet' /\ DrainShape' /\ NothingMissing'
    BY <1>1, <1>5, <2>1 DEF IInv, ReplayIsQuiet, DrainShape, NothingMissing
  <2> QED BY <1>3, <2>2, <2>3 DEF IInv
<1> QED BY <1>4, <1>5

\* A crash forgets the queue and cuts a write anywhere.
LEMMA CrashKeeps == IInv /\ Crash => IInv'
<1> SUFFICES ASSUME IInv, Crash PROVE IInv'
  OBVIOUS
<1>1. lines' \in Seq(Record \cup {Corrupt}) /\ tail' \in Record \cup {NoTail, Fragment}
  <2>1. CASE drain = "write"
    <3>1. PICK f \in CutOff(File, batch) \cup {AddLines(File, batch)} : Becomes(f)
      BY <2>1 DEF Crash
    <3>2. f \in Files
      BY LogFile, CutOffReads, AddLinesReads DEF IInv, TypeOK
    <3> QED BY <3>1, <3>2 DEF Becomes, Files
  <2>2. CASE drain # "write"
    BY <2>2 DEF Crash, IInv, TypeOK, file
  <2> QED BY <2>1, <2>2
<1>2. TypeOK'
  <2>1. crashes' \in 0 .. MaxCrashes
    BY BoundsAssumption DEF Crash, IInv, TypeOK
  <2> QED BY <1>1, <2>1, EmptySeq DEF Crash, IInv, TypeOK
<1> QED BY <1>2 DEF Crash, IInv, ReplayIsQuiet, DrainShape, NothingMissing, LogIsPrefix

\* A replay logs what the file yields, and may queue all of it for a rewrite.
LEMMA replayKeeps == IInv /\ replay => IInv'
<1> SUFFICES ASSUME IInv, replay PROVE IInv'
  OBVIOUS
<1>1. /\ phase = "replay" /\ drain = "idle" /\ ~ error /\ logged = <<>>
      /\ batch = <<>> /\ pending = <<>> /\ shouldClear = FALSE
      /\ UNCHANGED <<error, next, file, synced, crashes>>
      /\ Readable' = Readable /\ Range(lines') = Range(lines)
  BY LogFile DEF replay, IInv, ReplayIsQuiet, DrainShape
<1>2. CASE Corrupt \in Range(lines)
  <2>1. phase' = "unreadable" /\ UNCHANGED <<logged, pending, shouldClear, drain, batch, clears>>
    BY <1>2 DEF replay
  <2>2. TypeOK'
    BY <1>1, <2>1 DEF IInv, TypeOK, file
  <2> QED BY <1>1, <2>1, <2>2
          DEF IInv, ReplayIsQuiet, DrainShape, NothingMissing, LogIsPrefix
<1>3. CASE Corrupt \notin Range(lines)
  <2>1. logged' = Readable /\ Readable \in Seq(Record)
    BY <1>1, <1>3, LogFile DEF replay, IInv
  <2>2. Readable \o <<>> = Readable
    BY <2>1, ConcatEmptySeq
  <2>3. IsPrefix(Readable, Readable)
    BY <2>1, <2>2, EmptySeq, PrefixOfConcat
  <2>4. CASE phase' = "live" /\ UNCHANGED <<pending, shouldClear, drain, batch, clears>>
    <3>1. TypeOK'
      BY <1>1, <2>1, <2>4 DEF IInv, TypeOK, file
    <3> QED BY <1>1, <2>1, <2>2, <2>3, <2>4, <3>1
            DEF IInv, ReplayIsQuiet, DrainShape, NothingMissing, LogIsPrefix
  <2>5. CASE ReplayMigrates
    <3>1. /\ phase' = "migrate" /\ batch' = Readable /\ pending' = <<>>
          /\ clears' = TRUE /\ shouldClear' = FALSE /\ drain' = "offload"
      BY <1>1, <2>5 DEF ReplayMigrates, Enqueue, TakeBatch
    <3>2. TypeOK'
      BY <1>1, <2>1, <3>1, EmptySeq DEF IInv, TypeOK, file
    <3> QED BY <1>1, <2>1, <2>2, <2>3, <3>1, <3>2
            DEF IInv, ReplayIsQuiet, DrainShape, NothingMissing, LogIsPrefix
  <2> QED BY <1>3, <2>4, <2>5 DEF replay
<1> QED BY <1>2, <1>3

\* A migration is over when its rewrite is, and changes nothing by that.
LEMMA MigratedKeeps == IInv /\ Migrated => IInv'
<1> SUFFICES ASSUME IInv, Migrated PROVE IInv'
  OBVIOUS
<1>1. /\ phase = "migrate" /\ phase' = "live" /\ drain = "idle"
      /\ Readable' = Readable /\ Range(lines') = Range(lines)
      /\ UNCHANGED <<logged, pending, shouldClear, drain, batch, clears, error, next, file,
                     synced, crashes>>
  BY LogFile DEF Migrated, IInv
<1>2. TypeOK'
  BY <1>1 DEF IInv, TypeOK, file
<1> QED BY <1>1, <1>2 DEF IInv, ReplayIsQuiet, DrainShape, NothingMissing, LogIsPrefix

\* Every step of the log keeps the inductive invariant.
LEMMA StepIInv == IInv /\ [Next]_vars => IInv'
<1> SUFFICES ASSUME IInv, [Next]_vars PROVE IInv'
  OBVIOUS
<1>1. CASE UNCHANGED vars
  <2>1. Readable' = Readable
    BY <1>1, LogFile DEF vars, IInv
  <2> QED BY <1>1, <2>1 DEF vars, memory, file, IInv, TypeOK, ReplayIsQuiet, DrainShape,
                             NothingMissing, LogIsPrefix
<1> QED BY <1>1, appendKeeps, OpenKeeps, WrittenKeeps, FailsKeeps, FinallyKeeps, CrashKeeps,
           replayKeeps, MigratedKeeps DEF Next, Drain

\* The inductive invariant of the log.
THEOREM RecordLogInvariant == Spec => []IInv
  BY InitIInv, StepIInv, PTL DEF Spec

\* Every variable of the log keeps its type, in every execution.
THEOREM RecordLogTypeCorrect == Spec => []TypeOK
<1>1. IInv => TypeOK
  BY DEF IInv
<1> QED BY <1>1, RecordLogInvariant, PTL

\* However writes fail or are cut off, and whenever the process dies, the file of
\* an opened session is a beginning of what was logged.
THEOREM LogNeverReordered == Spec => []LogIsPrefix
<1>1. IInv => LogIsPrefix
  BY DEF IInv
<1> QED BY <1>1, RecordLogInvariant, PTL

-----------------------------------------------------------------------------
\* What was synced.

\* Where lines are written whole, the file always ends with a newline.
WholeLines == tail = NoTail

\* Where writes are cut off between lines, a cut-off write adds whole records only.
LEMMA WholeCutOff ==
    ASSUME ~ TornWrites, NEW f \in Files, f.tail = NoTail, NEW records \in Seq(Record),
           NEW g \in CutOff(f, records)
    PROVE  g.tail = NoTail /\ Range(f.lines) \subseteq Range(g.lines)
<1>1. \E n \in 0 .. Len(records) - 1 : g = AddLines(f, SubSeq(records, 1, n))
  BY DEF CutOff
<1>2. g.tail = NoTail
  BY <1>1 DEF AddLines
<1> QED BY <1>2, CutOffReads

\* Then lines stay whole, and what was synced is readable after every step.
LEMMA WholeStep ==
    ASSUME ~ TornWrites, IInv, WholeLines, [Next]_vars
    PROVE  /\ WholeLines'
           /\ synced \subseteq Range(Readable) /\ ~ clears => synced' \subseteq Range(Readable')
<1>1. /\ File \in Files /\ File.tail = NoTail /\ batch \in Seq(Record)
      /\ lines \in Seq(Record \cup {Corrupt})
  BY LogFile, FileOfLog DEF IInv, TypeOK, WholeLines
<1>2. Range(Readable) = Range(lines)
  BY <1>1, RecordFacts, ConcatEmptySeq DEF Readable, WholeLines
<1>3. ASSUME tail' = NoTail, lines' \in Seq(Record \cup {Corrupt})
      PROVE  Range(Readable') = Range(lines')
  BY <1>3, RecordFacts, ConcatEmptySeq DEF Readable
<1>4. ASSUME UNCHANGED <<file, synced>>
      PROVE  WholeLines' /\ (synced \subseteq Range(Readable) => synced' \subseteq Range(Readable'))
  BY <1>4 DEF WholeLines, file, Readable
<1>5. ASSUME NEW f \in CutOff(File, batch), Becomes(f), synced' = synced
      PROVE  WholeLines' /\ (synced \subseteq Range(Readable) => synced' \subseteq Range(Readable'))
  <2>1. f \in Files /\ f.tail = NoTail /\ Range(lines) \subseteq Range(f.lines)
    BY <1>1, <1>5, WholeCutOff, CutOffReads, FileOfLog
  <2>2. lines' = f.lines /\ tail' = f.tail
    BY <1>5 DEF Becomes
  <2> QED BY <1>2, <1>3, <1>5, <2>1, <2>2 DEF WholeLines, Files
<1>6. ASSUME Becomes(AddLines(File, batch)), synced' \subseteq synced \cup Range(batch)
      PROVE  WholeLines' /\ (synced \subseteq Range(Readable) => synced' \subseteq Range(Readable'))
  <2>1. /\ lines' = AddLines(File, batch).lines /\ tail' = AddLines(File, batch).tail
        /\ AddLines(File, batch) \in Files
    BY <1>1, <1>6, AddLinesReads DEF Becomes
  <2>2. tail' = NoTail
    BY <1>1, <2>1 DEF AddLines
  <2>3. Range(lines') = Range(lines) \cup Range(batch)
    <3>1. CASE batch = <<>>
      BY <2>1, <3>1, FileOfLog DEF AddLines, Range
    <3>2. CASE batch # <<>>
      <4>1. lines' = lines \o batch
        BY <1>1, <2>1, <3>2, FileOfLog DEF AddLines
      <4>2. batch \in Seq(Record \cup {Corrupt})
        BY <1>1, SeqMonotonic
      <4> QED BY <1>1, <4>1, <4>2, RangeConcatenation
    <3> QED BY <3>1, <3>2
  <2> QED BY <1>2, <1>3, <1>6, <2>1, <2>2, <2>3 DEF WholeLines, Files
<1>7. CASE append \/ Finally \/ replay \/ Migrated \/ UNCHANGED vars
  BY <1>4, <1>7 DEF append, Finally, replay, Migrated, vars
<1>8. CASE Open
  <2>1. clears => WholeLines'
    BY <1>8 DEF Open, Becomes, WholeLines
  <2>2. ~ clears => UNCHANGED <<file, synced>>
    BY <1>8 DEF Open
  <2> QED BY <1>4, <2>1, <2>2
<1>9. CASE Written
  BY <1>6, <1>9 DEF Written
<1>10. CASE Fails
  <2>1. CASE drain = "write"
    BY <1>5, <1>10, <2>1 DEF Fails
  <2>2. CASE drain # "write"
    BY <1>4, <1>10, <2>2 DEF Fails
  <2> QED BY <2>1, <2>2
<1>11. CASE Crash
  <2>1. synced' = synced /\ crashes' = crashes + 1
    BY <1>11 DEF Crash
  <2>2. CASE drain = "write"
    BY <1>5, <1>6, <1>11, <2>1, <2>2 DEF Crash
  <2>3. CASE drain # "write"
    BY <1>4, <1>11, <2>1, <2>3 DEF Crash
  <2> QED BY <2>2, <2>3
<1> QED BY <1>7, <1>8, <1>9, <1>10, <1>11 DEF Next, Drain

\* Where a write may be cut off only between two lines, what was once synced is
\* found by every later replay: only the rewrite of a migration may lose it.
THEOREM SyncedSurvives ==
    ASSUME ~ TornWrites
    PROVE  Spec => SyncedIsReadable
<1>1. Init => WholeLines
  BY DEF Init, WholeLines
<1>2. IInv /\ WholeLines /\ [Next]_vars =>
         WholeLines' /\ [synced \subseteq Range(Readable) /\ ~ clears
                            => synced' \subseteq Range(Readable')]_vars
  BY WholeStep
<1> QED BY <1>1, <1>2, RecordLogInvariant, PTL DEF Spec, SyncedIsReadable

=============================================================================
