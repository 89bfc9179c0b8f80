----------------------------- MODULE Cron_proofs ------------------------------
(***************************************************************************)
(* Proofs about Cron, for any tasks, expressions, shares, caps, clocks and *)
(* numbers of crashes: no fire is delivered twice and none is skipped but  *)
(* for a reason, and a task whose file is removed stays away.              *)
(***************************************************************************)
EXTENDS Cron, SequenceTheorems, FiniteSetTheorems, WellFoundedInduction, TLAPS

Record == Task \cup {None}

\* A cursor stands behind t.
Bars(task, t) == task # None => task.lastFiredAt # None /\ t <= task.lastFiredAt

\* A cursor has passed only what was delivered.
Covers(task, id) ==
    task # None /\ task.lastFiredAt # None =>
        \A t \in Schedule[id] : task.createdAt < t /\ t <= task.lastFiredAt => covered[id][t] > 0

\* t was delivered as often as there are reasons for.
Full(id, t) == covered[id][t] > excuses[id]

\* The write that decides what a resumed session starts from, if no write is lost:
\* the last one, or the last one that the closing session waits for.
deciding(id) == IF phase = "closing" THEN awaited[id] ELSE Len(queue[id])

\* The task in memory does not deliver again what was delivered often enough ...
StoreBars(id) ==
    \A t \in Schedule[id] : Full(id, t) /\ store[id] # None =>
        Bars(store[id], t) /\ (lastSeenAt[id] # None \/ id \notin seeded)

\* ... nor does the one that the files will hold.
FileBars(id) ==
    \A t \in Schedule[id] : Full(id, t) =>
        /\ deciding(id) = 0 => Bars(file[id], t)
        /\ \A j \in 1 .. Len(queue[id]) : j >= deciding(id) => Bars(queue[id][j], t)

\* The scheduler's cursor is the record's.
SeenIsRecorded(id) ==
    store[id] # None /\ lastSeenAt[id] # None => store[id].lastFiredAt = lastSeenAt[id]

\* All cursors, in memory, in the queue and in the file, have passed only what was
\* delivered.
CursorsCover(id) ==
    /\ Covers(store[id], id) /\ Covers(file[id], id)
    /\ \A i \in 1 .. Len(queue[id]) : Covers(queue[id][i], id)

\* The removal of a file is the last that is written to it.
RemovalIsLast(id) ==
    \A i \in 1 .. Len(queue[id]) : queue[id][i] = None => i = Len(queue[id]) /\ store[id] = None

Absent(id) == store[id] = None /\ file[id] = None /\ queue[id] = <<>>

\* An id that was not given out stands for nothing.
Unused(id) ==
    id \notin used => /\ Absent(id) /\ lastSeenAt[id] = None
                      /\ \A t \in Schedule[id] : covered[id][t] = 0

DeadIsEmpty(id) ==
    phase = "dead" => store[id] = None /\ queue[id] = <<>> /\ lastSeenAt[id] = None /\ id \notin seeded

\* A cursor that is ignored has its reason.
IgnoredIsExcused(id) ==
    store[id] # None /\ id \in seeded /\ lastSeenAt[id] = None /\ store[id].lastFiredAt # None =>
        excuses[id] > 0

AtMostExcused(id) == \A t \in Schedule[id] : covered[id][t] <= 1 + excuses[id]

TaskInv(id) ==
    /\ AtMostExcused(id) /\ StoreBars(id) /\ FileBars(id)
    /\ SeenIsRecorded(id) /\ CursorsCover(id) /\ IgnoredIsExcused(id)
    /\ RemovalIsLast(id) /\ (id \in gone => Absent(id))
    /\ Unused(id) /\ DeadIsEmpty(id)

IInv == TypeOK /\ \A id \in Ids : TaskInv(id)

-----------------------------------------------------------------------------
\* The least and the greatest of a set of times.

\* A set of numbers has a least one.
LEMMA LeastExists ==
    ASSUME NEW S \in SUBSET Nat, S # {}
    PROVE  Min(S) \in S /\ \A y \in S : Min(S) <= y
<1> DEFINE R == {pair \in Nat \X Nat : pair[1] < pair[2]}
<1>1. IsWellFoundedOn(R, Nat)
  BY NatLessThanWellFounded, Zenon DEF OpToRel
<1> HIDE DEF R
<1>2. PICK x \in S : \A y \in S : ~ (<<y, x>> \in R)
  BY <1>1, WFMin
<1>3. \A y \in S : x <= y
  <2> SUFFICES ASSUME NEW y \in S, y < x PROVE FALSE
    OBVIOUS
  <2>1. <<y, x>> \in R
    BY DEF R
  <2> QED BY <1>2, <2>1
<1>4. \E z \in S : \A y \in S : z <= y
  BY <1>3
<1> QED BY <1>4, Zenon DEF Min

\* A set of moments, which are bounded, has a greatest one.
LEMMA GreatestExists ==
    ASSUME NEW S \in SUBSET Times, S # {}
    PROVE  Max(S) \in S /\ \A y \in S : y <= Max(S)
<1> DEFINE below == {MaxTime - t : t \in S}
<1>1. below \in SUBSET Nat /\ below # {}
  <2>1. \A t \in S : MaxTime - t \in Nat
    BY CronAssumption DEF Times
  <2> QED BY <2>1
<1>2. Min(below) \in below /\ \A d \in below : Min(below) <= d
  BY <1>1, LeastExists
<1>3. PICK x \in S : Min(below) = MaxTime - x
  BY <1>2
<1> HIDE DEF below
<1>4. \A y \in S : x >= y
  <2> SUFFICES ASSUME NEW y \in S PROVE x >= y
    OBVIOUS
  <2>1. MaxTime - x <= MaxTime - y
    BY <1>2, <1>3 DEF below
  <2> QED BY <2>1, CronAssumption DEF Times
<1>5. Max(S) \in S /\ \A y \in S : Max(S) >= y
  BY <1>4, Zenon DEF Max
<1> QED BY <1>5, CronAssumption DEF Times

-----------------------------------------------------------------------------
\* What a task that is due delivers.

\* The moment behind which a tick looks for the next run (baseFrom).
LEMMA BaseOf ==
    ASSUME TypeOK, NEW id \in Ids, store[id] # None
    PROVE  /\ store[id] \in Task /\ store[id].createdAt \in Times
           /\ store[id].lastFiredAt \in Times \cup {None} /\ lastSeenAt[id] \in Times \cup {None}
           /\ seenByTick(id) \in Times \cup {None}
           /\ baseOf(id) \in Times /\ baseOf(id) >= store[id].createdAt
           /\ seenByTick(id) # None => baseOf(id) >= seenByTick(id)
           /\ baseOf(id) \in {store[id].createdAt, seenByTick(id)}
<1>1. /\ store[id] \in Task /\ store[id].createdAt \in Times
      /\ store[id].lastFiredAt \in Times \cup {None} /\ lastSeenAt[id] \in Times \cup {None}
  BY DEF TypeOK, Task
<1>2. seenByTick(id) \in Times \cup {None}
  BY <1>1 DEF seenByTick
<1> QED BY <1>1, <1>2, CronAssumption DEF baseOf, baseFrom, Times

\* The next run is the first moment of the schedule after the base.
LEMMA NextRun ==
    ASSUME NEW id \in Ids, NEW base \in Times, computeNextCronRun[id][base] # None
    PROVE  LET ideal == computeNextCronRun[id][base]
           IN  /\ ideal \in Schedule[id] /\ ideal > base
               /\ \A t \in Schedule[id] : t > base => ideal <= t
<1> DEFINE later == {t \in Schedule[id] : t > base}
<1>1. computeNextCronRun[id][base] = IF later = {} THEN None ELSE Min(later)
  BY DEF computeNextCronRun
<1>2. later # {} /\ later \in SUBSET Nat
  BY <1>1, CronAssumption DEF Times
<1>3. Min(later) \in later /\ \A t \in later : Min(later) <= t
  BY <1>2, LeastExists
<1> QED BY <1>1, <1>2, <1>3

\* A fire stands for at least one run, each of them behind the base, and one of a
\* recurring task for all up to the one the cursor advances to.
LEMMA Fires ==
    ASSUME TypeOK, NEW id \in Ids, Due(id)
    PROVE  /\ delivered(id) \subseteq Schedule[id]
           /\ \A t \in delivered(id) : t > baseOf(id) /\ t <= advancedTo(id)
           /\ advancedTo(id) \in delivered(id) /\ advancedTo(id) \in Times
           /\ advancedTo(id) > baseOf(id)
           /\ id \in Recurring =>
                 \A t \in Schedule[id] : t > baseOf(id) /\ t <= advancedTo(id) => t \in delivered(id)
<1> DEFINE base == baseOf(id)
           ideal == computeNextCronRun[id][base]
           due == {t \in Schedule[id] : t > base /\ jitteredNextCronRunMs[id][t] <= now}
           run == {t \in due : \A u \in Schedule[id] : u > base /\ u < t => u \in due}
           before(t) == {u \in run : u < t}
<1>1. store[id] # None /\ nextFireAt(id) # None /\ nextFireAt(id) <= now
  BY DEF Due
<1>2. base \in Times
  BY <1>1, BaseOf
<1>3. ideal # None
  BY <1>1 DEF nextFireAt, computeJitteredNext
<1> HIDE DEF base
<1>4. ideal \in Schedule[id] /\ ideal > base /\ \A t \in Schedule[id] : t > base => ideal <= t
  BY <1>2, <1>3, NextRun
<1>5. /\ Schedule[id] \subseteq Times /\ MaxTime \in Nat /\ Times \subseteq Nat
      /\ \A t \in Schedule[id] : t \in Nat
  BY CronAssumption DEF Times
<1>8. base \in Nat /\ ideal \in Nat
  BY <1>2, <1>4, <1>5
<1> HIDE DEF ideal
<1>6. CASE id \in Recurring
  <2>1. nextFireAt(id) = jitteredNextCronRunMs[id][ideal]
    BY <1>3, <1>6 DEF nextFireAt, computeJitteredNext, ideal, base
  <2>2. ideal \in run
    <3>1. ideal \in due
      BY <1>1, <1>4, <2>1
    <3>2. \A u \in Schedule[id] : ~ (u > base /\ u < ideal)
      BY <1>4, <1>5, <1>8
    <3> QED BY <3>1, <3>2
  <2> HIDE DEF due
  <2>3. delivered(id) = {t \in run : Cardinality(before(t)) < MaxCoalesce}
    BY <1>6, Zenon DEF delivered, countCoalesced, due, base
  <2>4. run \subseteq Schedule[id] /\ \A t \in run : t > base /\ t \in Nat
    BY <1>5 DEF due
  <2>5. \A t \in run : IsFiniteSet(before(t)) /\ before(t) \subseteq Times
    <3>1. IsFiniteSet(Times)
      BY CronAssumption, FS_Interval DEF Times
    <3> QED BY <1>5, <2>4, <3>1, FS_Subset
  <2>6. ideal \in delivered(id)
    <3>1. \A u \in run : ~ (u < ideal)
      BY <1>4, <1>8, <2>4
    <3>2. before(ideal) = {}
      BY <3>1
    <3> QED BY <2>2, <2>3, <3>2, FS_EmptySet, CronAssumption
  <2>7. advancedTo(id) \in delivered(id) /\ \A t \in delivered(id) : t <= advancedTo(id)
    <3>1. delivered(id) \in SUBSET Times /\ delivered(id) # {}
      BY <1>5, <2>3, <2>4, <2>6
    <3> QED BY <3>1, GreatestExists DEF advancedTo
  <2> DEFINE m == advancedTo(id)
  <2>8. ASSUME NEW t \in Schedule[id], t > base, t <= m
        PROVE  t \in delivered(id)
    <3>1. m \in run /\ Cardinality(before(m)) < MaxCoalesce /\ m \in Nat /\ t \in Nat
      BY <1>5, <2>3, <2>4, <2>7
    <3> HIDE DEF m
    <3>2. CASE t = m
      BY <2>7, <3>2 DEF m
    <3>3. CASE t # m
      <4>1. t < m
        BY <2>8, <3>1, <3>3
      <4>2. t \in due /\ \A u \in Schedule[id] : u > base /\ u < t => u \in due
        <5>1. \A u \in Schedule[id] : u > base /\ u < m => u \in due
          BY <3>1
        <5>2. \A u \in Schedule[id] : u < t => u < m
          BY <1>5, <3>1, <4>1
        <5> QED BY <2>8, <4>1, <5>1, <5>2
      <4>3. t \in run
        BY <4>2
      <4>4. before(t) \subseteq before(m)
        <5>1. \A u \in run : u < t => u < m
          BY <2>4, <3>1, <4>1
        <5> QED BY <5>1
      <4>5. IsFiniteSet(before(m)) /\ IsFiniteSet(before(t))
        BY <2>5, <3>1, <4>3
      <4> HIDE DEF before
      <4>6. /\ Cardinality(before(t)) <= Cardinality(before(m))
            /\ Cardinality(before(t)) \in Nat /\ Cardinality(before(m)) \in Nat
        BY <4>4, <4>5, FS_Subset, FS_CardinalityType
      <4>7. Cardinality(before(t)) < MaxCoalesce
        BY <3>1, <4>6, CronAssumption
      <4> QED BY <2>3, <4>3, <4>7 DEF before
    <3> QED BY <3>2, <3>3
  <2> QED BY <1>5, <2>3, <2>4, <2>7, <2>8 DEF base
<1>7. CASE id \notin Recurring
  <2>1. delivered(id) = {ideal}
    BY <1>7 DEF delivered, ideal, base
  <2>2. advancedTo(id) = ideal
    <3>1. {ideal} \in SUBSET Times
      BY <1>4, <1>5
    <3> QED BY <2>1, <3>1, GreatestExists DEF advancedTo
  <2> QED BY <1>4, <1>5, <1>7, <2>1, <2>2 DEF base
<1> QED BY <1>6, <1>7

-----------------------------------------------------------------------------
\* The writes of a task.

\* A write queued behind the others of a task.
LEMMA Joined ==
    ASSUME NEW s \in Seq(Record), NEW e \in Record
    PROVE  /\ Append(s, e) \in Seq(Record) /\ s \o <<e>> = Append(s, e)
           /\ Len(s) \in Nat /\ Len(Append(s, e)) = Len(s) + 1
           /\ \A i \in 1 .. Len(s) : Append(s, e)[i] = s[i] /\ s[i] \in Record
           /\ Append(s, e)[Len(s) + 1] = e
  BY AppendProperties, AppendIsConcat, LenProperties, ElementOfSeq

\* The writes of a task left when the first one is over.
LEMMA Shortened ==
    ASSUME NEW s \in Seq(Record), s # <<>>
    PROVE  /\ Tail(s) \in Seq(Record) /\ Len(s) \in Nat \ {0} /\ Len(Tail(s)) = Len(s) - 1
           /\ \A i \in 1 .. Len(s) - 1 : Tail(s)[i] = s[i + 1]
           /\ Head(s) = s[1] /\ s[1] \in Record /\ 1 \in 1 .. Len(s)
<1>1. Len(s) \in Nat \ {0}
  BY EmptySeq
<1>2. Tail(s) \in Seq(Record) /\ Len(Tail(s)) = Len(s) - 1
      /\ \A i \in 1 .. Len(Tail(s)) : Tail(s)[i] = s[i + 1]
  BY HeadTailProperties
<1> QED BY <1>1, <1>2, ElementOfSeq

-----------------------------------------------------------------------------
\* What a round of the scheduler does to one task.

SameHistory(id) == covered'[id] = covered[id] /\ excuses'[id] = excuses[id]

Ignored(id) == id \notin seeded /\ store[id].lastFiredAt # None /\ ~ persisted(id)

Rests(id) ==
    /\ store[id] = None /\ store'[id] = None
    /\ lastSeenAt'[id] = lastSeenAt[id] /\ queue'[id] = queue[id]
    /\ (id \in seeded' <=> id \in seeded)
    /\ SameHistory(id)

Waits(id) ==
    /\ store[id] # None /\ store'[id] = store[id]
    /\ lastSeenAt'[id] = seenByTick(id) /\ queue'[id] = queue[id]
    /\ id \in seeded'
    /\ covered'[id] = covered[id]
    /\ excuses'[id] = IF Ignored(id) THEN excuses[id] + 1 ELSE excuses[id]

FiresOnce(id) ==
    /\ store[id] # None /\ Due(id)
    /\ covered'[id] = [t \in Schedule[id] |->
                          IF t \in delivered(id) THEN covered[id][t] + 1 ELSE covered[id][t]]
    /\ excuses'[id] = IF Ignored(id) THEN excuses[id] + 1 ELSE excuses[id]
    /\ \/ /\ store'[id] = None /\ queue'[id] = Append(queue[id], None)
       \/ /\ id \in Recurring /\ lastSeenAt'[id] = advancedTo(id)
          /\ store'[id] = [store[id] EXCEPT !.lastFiredAt = advancedTo(id)]
          /\ queue'[id] = Append(queue[id], store'[id])
    /\ lastSeenAt'[id] \in {None, advancedTo(id)}

\* A tick leaves a task alone, moves its cursor, or delivers it once.
LEMMA TickOn ==
    ASSUME TypeOK, NEW thrown, tick(thrown), NEW id \in Ids
    PROVE  Rests(id) \/ Waits(id) \/ FiresOnce(id)
<1> DEFINE tasks == {i \in Ids : store[i] # None}
           fired == {i \in tasks : Due(i)} \ thrown
           ignored == {i \in tasks \ seeded : store[i].lastFiredAt # None /\ ~persisted(i)}
<1>1. /\ store'[id] = IF id \notin fired THEN store[id]
                      ELSE IF removedByFire(id) THEN None
                      ELSE [store[id] EXCEPT !.lastFiredAt = advancedTo(id)]
      /\ lastSeenAt'[id] = IF id \notin tasks THEN lastSeenAt[id]
                           ELSE IF id \notin fired THEN seenByTick(id)
                           ELSE IF id \in Recurring THEN advancedTo(id) ELSE None
      /\ seeded' = (seeded \cup tasks) \ (fired \ Recurring)
      /\ queue'[id] = IF id \in fired THEN queue[id] \o fireWrites(id) ELSE queue[id]
      /\ covered'[id] = [t \in Schedule[id] |->
                           IF id \in fired /\ t \in [i \in fired |-> delivered(i)][id]
                           THEN covered[id][t] + 1 ELSE covered[id][t]]
      /\ excuses'[id] = IF id \in ignored THEN excuses[id] + 1 ELSE excuses[id]
  BY DEF tick
<1>2. id \in ignored <=> id \in tasks /\ Ignored(id)
  BY DEF Ignored
<1>3. id \in tasks <=> store[id] # None
  OBVIOUS
<1>4. id \in fired => id \in tasks /\ Due(id)
  OBVIOUS
<1>5. covered[id] = [t \in Schedule[id] |-> covered[id][t]]
  BY DEF TypeOK
<1>6. CASE id \notin tasks
  BY <1>1, <1>2, <1>3, <1>4, <1>5, <1>6 DEF Rests, SameHistory
<1>7. CASE id \in tasks /\ id \notin fired
  BY <1>1, <1>2, <1>3, <1>5, <1>7 DEF Waits
<1>8. CASE id \in fired
  <2>1. covered'[id] = [t \in Schedule[id] |->
                          IF t \in delivered(id) THEN covered[id][t] + 1 ELSE covered[id][t]]
    BY <1>1, <1>8
  <2>2. store[id] # None /\ Due(id)
    BY <1>3, <1>4, <1>8
  <2>3. None \in Record /\ queue[id] \in Seq(Record)
    BY DEF Record, TypeOK
  <2>4. CASE removedByFire(id)
    <3>1. queue'[id] = Append(queue[id], None)
      BY <1>1, <1>8, <2>3, <2>4, Joined DEF fireWrites
    <3> QED BY <1>1, <1>2, <1>4, <1>8, <2>1, <2>2, <2>4, <3>1 DEF FiresOnce
  <2>5. CASE ~ removedByFire(id)
    <3>1. id \in Recurring
      BY <2>5 DEF removedByFire
    <3>2. store'[id] = [store[id] EXCEPT !.lastFiredAt = advancedTo(id)]
      BY <1>1, <1>8, <2>5
    <3>3. store'[id] \in Record
      BY <2>2, <3>2, Fires, BaseOf DEF Task, Record
    <3>4. queue'[id] = Append(queue[id], store'[id])
      BY <1>1, <1>8, <2>3, <2>5, <3>2, <3>3, Joined DEF fireWrites
    <3> QED BY <1>1, <1>2, <1>4, <1>8, <2>1, <2>2, <3>1, <3>2, <3>4 DEF FiresOnce
  <2> QED BY <2>4, <2>5
<1> QED BY <1>4, <1>6, <1>7, <1>8

\* The types of what is kept of a task.
LEMMA TaskTypes ==
    ASSUME TypeOK, NEW id \in Ids
    PROVE  /\ store[id] \in Record /\ file[id] \in Record
           /\ lastSeenAt[id] \in Times \cup {None}
           /\ queue[id] \in Seq(Record) /\ Len(queue[id]) \in Nat
           /\ awaited[id] \in Nat /\ awaited[id] <= Len(queue[id])
           /\ covered[id] \in [Schedule[id] -> Nat] /\ excuses[id] \in Nat
           /\ \A i \in 1 .. Len(queue[id]) : queue[id][i] \in Record
           /\ \A t \in Schedule[id] : t \in Times /\ t \in Nat /\ covered[id][t] \in Nat
<1>1. queue[id] \in Seq(Record)
  BY DEF TypeOK, Record
<1>2. \A i \in 1 .. Len(queue[id]) : queue[id][i] \in Record
  BY <1>1, ElementOfSeq
<1>3. covered[id] \in [Schedule[id] -> Nat] /\ Schedule[id] \subseteq Times
  BY CronAssumption DEF TypeOK
<1> QED BY <1>1, <1>2, <1>3, LenProperties, CronAssumption DEF TypeOK, Record, Times

\* In a tick that does not ignore the record, the cursor stands behind what was
\* delivered often enough.
LEMMA CursorPassed ==
    ASSUME TypeOK, NEW id \in Ids, TaskInv(id), store[id] # None
    PROVE  /\ excuses[id] \in Nat
           /\ \A t \in Schedule[id] : Full(id, t) /\ ~ Ignored(id) =>
                 seenByTick(id) # None /\ t <= seenByTick(id)
           /\ seenByTick(id) # None => seenByTick(id) = store[id].lastFiredAt
           /\ \A t \in Schedule[id] :
                 covered[id][t] > (IF Ignored(id) THEN excuses[id] + 1 ELSE excuses[id]) =>
                     Full(id, t) /\ ~ Ignored(id)
<1>1. /\ excuses[id] \in Nat /\ \A t \in Schedule[id] : covered[id][t] \in Nat
  BY TaskTypes
<1>2. seenByTick(id) # None => seenByTick(id) = store[id].lastFiredAt
  BY DEF seenByTick, TaskInv, SeenIsRecorded
<1>3. ASSUME NEW t \in Schedule[id], Full(id, t), ~ Ignored(id)
      PROVE  seenByTick(id) # None /\ t <= seenByTick(id)
  <2>1. /\ store[id].lastFiredAt # None /\ t <= store[id].lastFiredAt
        /\ lastSeenAt[id] # None \/ id \notin seeded
    BY <1>3 DEF TaskInv, StoreBars, Bars
  <2>2. seenByTick(id) # None
    BY <1>3, <2>1 DEF seenByTick, Ignored
  <2> QED BY <1>2, <2>1, <2>2
<1>4. ASSUME NEW t \in Schedule[id],
             covered[id][t] > (IF Ignored(id) THEN excuses[id] + 1 ELSE excuses[id])
      PROVE  Full(id, t) /\ ~ Ignored(id)
  <2>1. covered[id][t] <= 1 + excuses[id] /\ covered[id][t] \in Nat
    BY <1>1 DEF TaskInv, AtMostExcused
  <2> QED BY <1>1, <1>4, <2>1 DEF Full
<1> QED BY <1>1, <1>2, <1>3, <1>4

\* Nothing of the task changes.
Same(id) ==
    /\ store'[id] = store[id] /\ lastSeenAt'[id] = lastSeenAt[id]
    /\ file'[id] = file[id] /\ queue'[id] = queue[id] /\ awaited'[id] = awaited[id]
    /\ (id \in seeded' <=> id \in seeded) /\ (id \in gone' <=> id \in gone)
    /\ (id \in used' <=> id \in used)
    /\ SameHistory(id)

\* A task of which nothing changes keeps its invariant.
LEMMA SameKeeps ==
    ASSUME NEW id \in Ids, TaskInv(id), Same(id), phase' = phase
    PROVE  TaskInv(id)'
<1> USE DEF Same, SameHistory
<1>1. AtMostExcused(id)' /\ StoreBars(id)' /\ FileBars(id)' /\ SeenIsRecorded(id)'
  BY DEF TaskInv, AtMostExcused, StoreBars, FileBars, SeenIsRecorded, Full, Bars, deciding
<1>2. CursorsCover(id)' /\ IgnoredIsExcused(id)' /\ RemovalIsLast(id)'
  BY DEF TaskInv, CursorsCover, Covers, IgnoredIsExcused, RemovalIsLast
<1>3. (id \in gone' => Absent(id)') /\ Unused(id)' /\ DeadIsEmpty(id)'
  BY DEF TaskInv, Absent, Unused, DeadIsEmpty
<1> QED BY <1>1, <1>2, <1>3 DEF TaskInv

\* A task that is not due yet keeps its invariant: the cursor it is given covers nothing.
LEMMA TickWaits ==
    ASSUME IInv, NEW thrown, tick(thrown), NEW id \in Ids, Waits(id)
    PROVE  TaskInv(id)'
<1>1. /\ phase = "live" /\ UNCHANGED <<phase, file, awaited, gone, used>>
      /\ store[id] # None /\ store'[id] = store[id] /\ queue'[id] = queue[id] /\ id \in seeded'
      /\ lastSeenAt'[id] = seenByTick(id) /\ covered'[id] = covered[id]
      /\ excuses'[id] = IF Ignored(id) THEN excuses[id] + 1 ELSE excuses[id]
      /\ TaskInv(id) /\ TypeOK
  BY DEF tick, Waits, IInv
<1>2. excuses[id] \in Nat /\ excuses'[id] \in Nat /\ excuses'[id] >= excuses[id]
      /\ \A t \in Schedule[id] : covered[id][t] \in Nat
  BY <1>1, TaskTypes
<1>3. \A t \in Schedule[id] : Full(id, t)' => /\ Full(id, t)
                                             /\ seenByTick(id) # None
  BY <1>1, CursorPassed DEF Full
<1>4. AtMostExcused(id)'
  BY <1>1, <1>2 DEF TaskInv, AtMostExcused
<1>5. StoreBars(id)'
  BY <1>1, <1>3 DEF TaskInv, StoreBars, Bars
<1>6. FileBars(id)'
  BY <1>1, <1>3 DEF TaskInv, FileBars, Bars, deciding
<1>7. SeenIsRecorded(id)'
  BY <1>1, CursorPassed DEF SeenIsRecorded
<1>8. CursorsCover(id)' /\ RemovalIsLast(id)'
  BY <1>1 DEF TaskInv, CursorsCover, Covers, RemovalIsLast
<1>9. IgnoredIsExcused(id)'
  <2> SUFFICES ASSUME seenByTick(id) = None, store[id].lastFiredAt # None
               PROVE  excuses'[id] > 0
    BY <1>1 DEF IgnoredIsExcused
  <2>1. CASE id \in seeded
    <3>1. lastSeenAt[id] = None
      BY <2>1 DEF seenByTick
    <3>2. excuses[id] > 0
      BY <1>1, <2>1, <3>1 DEF TaskInv, IgnoredIsExcused
    <3> QED BY <1>2, <3>2
  <2>2. CASE id \notin seeded
    <3>1. Ignored(id)
      BY <2>2 DEF seenByTick, Ignored
    <3> QED BY <1>1, <1>2, <3>1
  <2> QED BY <2>1, <2>2
<1>10. (id \in gone' => Absent(id)') /\ Unused(id)' /\ DeadIsEmpty(id)'
  BY <1>1 DEF TaskInv, Absent, Unused, DeadIsEmpty
<1> QED BY <1>4, <1>5, <1>6, <1>7, <1>8, <1>9, <1>10 DEF TaskInv

\* A task that fires does: its cursor moves over exactly the fires it delivers.
LEMMA TickFires ==
    ASSUME IInv, NEW thrown, tick(thrown), NEW id \in Ids, FiresOnce(id)
    PROVE  TaskInv(id)'
<1> DEFINE n == Len(queue[id])
           added == queue'[id][n + 1]
           m == advancedTo(id)
<1>1. /\ phase = "live" /\ UNCHANGED <<phase, file, awaited, gone, used>>
      /\ store[id] # None /\ TaskInv(id) /\ TypeOK /\ Due(id)
      /\ excuses'[id] = IF Ignored(id) THEN excuses[id] + 1 ELSE excuses[id]
  BY DEF tick, FiresOnce, IInv
<1>2. /\ m \in Times /\ m \in Nat /\ m # None /\ m > baseOf(id) /\ baseOf(id) \in Nat
      /\ baseOf(id) >= store[id].createdAt /\ store[id].createdAt \in Nat
      /\ seenByTick(id) # None => seenByTick(id) \in Nat /\ baseOf(id) >= seenByTick(id)
      /\ baseOf(id) \in {store[id].createdAt, seenByTick(id)} /\ baseOf(id) # None
      /\ store[id] \in Task
  BY <1>1, Fires, BaseOf, CronAssumption, NoneAssumption DEF Times
<1>3. /\ excuses[id] \in Nat /\ excuses'[id] \in Nat /\ excuses'[id] >= excuses[id]
      /\ \A t \in Schedule[id] : covered[id][t] \in Nat /\ t \in Nat
      /\ n \in Nat /\ queue[id] \in Seq(Record)
  BY <1>1, TaskTypes
<1>4. \A t \in Schedule[id] :
          covered'[id][t] = IF t \in delivered(id) THEN covered[id][t] + 1 ELSE covered[id][t]
  BY DEF FiresOnce
<1>5. /\ added \in {store'[id], None} /\ store'[id] \in Record
      /\ Len(queue'[id]) = n + 1 /\ \A i \in 1 .. n : queue'[id][i] = queue[id][i]
      /\ added = None => store'[id] = None
      /\ store'[id] # None =>
            /\ added = store'[id] /\ lastSeenAt'[id] = m
            /\ store'[id].lastFiredAt = m /\ store'[id].createdAt = store[id].createdAt
            /\ id \in Recurring
  <2>1. CASE store'[id] = None /\ queue'[id] = Append(queue[id], None)
    BY <1>3, <2>1, Joined DEF Record
  <2>2. CASE /\ id \in Recurring /\ lastSeenAt'[id] = m
             /\ store'[id] = [store[id] EXCEPT !.lastFiredAt = m]
             /\ queue'[id] = Append(queue[id], store'[id])
    <3>1. /\ store'[id] \in Task /\ store'[id].lastFiredAt = m
          /\ store'[id].createdAt = store[id].createdAt
      BY <1>2, <2>2 DEF Task
    <3>2. store'[id] \in Record /\ store'[id] # None
      BY <3>1, NoneAssumption DEF Record
    <3> QED BY <1>3, <2>2, <3>1, <3>2, Joined
  <2> QED BY <2>1, <2>2 DEF FiresOnce
<1> HIDE DEF n, added, m
<1>6. \A t \in Schedule[id] : t \in delivered(id) => t > baseOf(id) /\ t <= m
  BY <1>1, Fires DEF m
<1>7. AtMostExcused(id)'
  <2> SUFFICES ASSUME NEW t \in Schedule[id], t \in delivered(id), Full(id, t)
               PROVE  covered[id][t] + 1 <= 1 + excuses'[id]
    BY <1>1, <1>3, <1>4 DEF TaskInv, AtMostExcused, Full
  <2>1. Ignored(id)
    BY <1>1, <1>2, <1>3, <1>6, CursorPassed
  <2> QED BY <1>1, <1>3, <2>1 DEF TaskInv, AtMostExcused
<1>8. \A t \in Schedule[id] : Full(id, t)' => t <= m
  <2> SUFFICES ASSUME NEW t \in Schedule[id], Full(id, t)', t \notin delivered(id)
               PROVE  t <= m
    BY <1>6
  <2>1. Full(id, t) /\ ~ Ignored(id)
    BY <1>1, <1>4, CursorPassed DEF Full
  <2>2. t <= seenByTick(id) /\ seenByTick(id) # None
    BY <1>1, <2>1, CursorPassed
  <2> QED BY <1>2, <1>3, <2>2
<1>9. StoreBars(id)'
  BY <1>2, <1>5, <1>8 DEF StoreBars, Bars
<1>10. FileBars(id)'
  <2>1. deciding(id)' = n + 1 /\ n + 1 # 0
    BY <1>1, <1>3, <1>5 DEF deciding
  <2>2. \A j \in 1 .. n + 1 : j >= n + 1 => j = n + 1
    BY <1>3
  <2>3. \A t \in Schedule[id] : Full(id, t)' => Bars(added, t)
    BY <1>2, <1>5, <1>8 DEF Bars
  <2> QED BY <1>5, <2>1, <2>2, <2>3 DEF FileBars, added
<1>11. SeenIsRecorded(id)' /\ IgnoredIsExcused(id)'
  BY <1>2, <1>5 DEF SeenIsRecorded, IgnoredIsExcused
<1>12. CursorsCover(id)'
  <2>1. \A t \in Schedule[id] : covered[id][t] > 0 => covered'[id][t] > 0
    BY <1>3, <1>4
  <2>2. ASSUME NEW rec, Covers(rec, id)
        PROVE  rec # None /\ rec.lastFiredAt # None =>
                  \A t \in Schedule[id] :
                      rec.createdAt < t /\ t <= rec.lastFiredAt => covered'[id][t] > 0
    BY <2>1, <2>2 DEF Covers
  <2>3. Covers(file[id], id) /\ Covers(store[id], id) /\ \A i \in 1 .. n : Covers(queue[id][i], id)
    BY <1>1 DEF TaskInv, CursorsCover, n
  <2>4. ASSUME store'[id] # None, NEW t \in Schedule[id], store[id].createdAt < t, t <= m
        PROVE  covered'[id][t] > 0
    <3>1. CASE t > baseOf(id)
      <4>1. t \in delivered(id)
        BY <1>1, <1>5, <2>4, <3>1, Fires DEF m
      <4> QED BY <1>3, <1>4, <4>1
    <3>2. CASE ~ (t > baseOf(id))
      <4>1. baseOf(id) = seenByTick(id) /\ t <= seenByTick(id) /\ seenByTick(id) # None
        BY <1>2, <1>3, <2>4, <3>2
      <4>2. seenByTick(id) = store[id].lastFiredAt
        BY <1>1, <4>1, CursorPassed
      <4>3. covered[id][t] > 0
        BY <1>1, <2>3, <2>4, <4>1, <4>2 DEF Covers
      <4> QED BY <2>1, <4>3
    <3> QED BY <3>1, <3>2
  <2>5. Covers(store[id], id)'
    BY <1>5, <2>4 DEF Covers
  <2>6. Covers(file[id], id)'
    BY <1>1, <2>2, <2>3 DEF Covers
  <2>7. ASSUME NEW i \in 1 .. n + 1
        PROVE  Covers(queue[id][i], id)'
    <3>1. CASE i \in 1 .. n
      <4>1. queue'[id][i] = queue[id][i] /\ Covers(queue[id][i], id)
        BY <1>5, <2>3, <3>1
      <4> QED BY <2>2, <4>1 DEF Covers
    <3>2. CASE i = n + 1
      <4>1. queue'[id][i] = None \/ queue'[id][i] = store'[id]
        BY <1>5, <3>2 DEF added
      <4> QED BY <2>5, <4>1 DEF Covers
    <3> QED BY <1>3, <3>1, <3>2
  <2> QED BY <1>5, <2>5, <2>6, <2>7 DEF CursorsCover
<1>13. RemovalIsLast(id)'
  <2>1. \A i \in 1 .. n : queue[id][i] # None
    BY <1>1 DEF TaskInv, RemovalIsLast, n
  <2>2. \A i \in 1 .. n + 1 : i \in 1 .. n \/ i = n + 1
    BY <1>3
  <2> QED BY <1>5, <2>1, <2>2 DEF RemovalIsLast, added
<1>14. id \notin gone /\ id \in used
  BY <1>1 DEF TaskInv, Absent, Unused
<1>15. (id \in gone' => Absent(id)') /\ Unused(id)' /\ DeadIsEmpty(id)'
  BY <1>1, <1>14 DEF Unused, DeadIsEmpty
<1> QED BY <1>7, <1>9, <1>10, <1>11, <1>12, <1>13, <1>15 DEF TaskInv

\* A tick keeps the inductive invariant, whatever is due and whoever throws.
LEMMA TickKeeps ==
    ASSUME IInv, NEW thrown, tick(thrown)
    PROVE  IInv'
<1>1. ASSUME NEW id \in Ids
      PROVE  TaskInv(id)'
  <2>1. CASE Rests(id)
    <3>1. Same(id) /\ phase' = phase
      BY <2>1 DEF tick, Rests, Same
    <3> QED BY <3>1, SameKeeps DEF IInv
  <2>2. CASE Waits(id)
    BY <2>2, TickWaits
  <2>3. CASE FiresOnce(id)
    BY <2>3, TickFires
  <2> QED BY <2>1, <2>2, <2>3, TickOn DEF IInv
<1>2. ASSUME NEW id \in Ids
      PROVE  /\ store'[id] \in Record /\ lastSeenAt'[id] \in Times \cup {None}
             /\ queue'[id] \in Seq(Record) /\ Len(queue[id]) <= Len(queue'[id])
             /\ covered'[id] \in [Schedule[id] -> Nat] /\ excuses'[id] \in Nat
  <2>1. /\ store[id] \in Record /\ lastSeenAt[id] \in Times \cup {None}
        /\ queue[id] \in Seq(Record) /\ Len(queue[id]) \in Nat
        /\ covered[id] \in [Schedule[id] -> Nat] /\ excuses[id] \in Nat
    BY TaskTypes DEF IInv
  <2>2. CASE Rests(id)
    BY <2>1, <2>2 DEF Rests, SameHistory, Record
  <2>3. CASE Waits(id)
    BY <2>1, <2>3, BaseOf DEF Waits, IInv
  <2>4. CASE FiresOnce(id)
    <3>1. advancedTo(id) \in Times /\ store[id] \in Task /\ store[id] # None
      BY <2>1, <2>4, Fires DEF FiresOnce, IInv, Record
    <3>2. store'[id] \in Record
      BY <2>4, <3>1 DEF FiresOnce, Record, Task
    <3>3. \A e \in Record : /\ Append(queue[id], e) \in Seq(Record)
                            /\ Len(queue[id]) <= Len(Append(queue[id], e))
      BY <2>1, Joined
    <3>4. queue'[id] \in Seq(Record) /\ Len(queue[id]) <= Len(queue'[id])
      BY <2>4, <3>2, <3>3 DEF FiresOnce, Record
    <3>5. \A t \in Schedule[id] : covered[id][t] \in Nat /\ covered[id][t] + 1 \in Nat
      BY <2>1
    <3>6. covered'[id] \in [Schedule[id] -> Nat]
      BY <2>4, <3>5 DEF FiresOnce
    <3> QED BY <2>1, <2>4, <3>1, <3>2, <3>4, <3>6 DEF FiresOnce
  <2> QED BY <2>2, <2>3, <2>4, TickOn DEF IInv
<1>3. /\ DOMAIN store' = Ids /\ DOMAIN lastSeenAt' = Ids /\ DOMAIN queue' = Ids
      /\ DOMAIN covered' = Ids /\ DOMAIN excuses' = Ids
      /\ store' = [id \in Ids |-> store'[id]] /\ lastSeenAt' = [id \in Ids |-> lastSeenAt'[id]]
      /\ queue' = [id \in Ids |-> queue'[id]] /\ excuses' = [id \in Ids |-> excuses'[id]]
  BY DEF tick
<1>4. /\ store' \in [Ids -> Record] /\ lastSeenAt' \in [Ids -> Times \cup {None}]
      /\ queue' \in [Ids -> Seq(Record)] /\ excuses' \in [Ids -> Nat]
  BY <1>2, <1>3
<1>5. seeded' \subseteq used /\ busy' \in BOOLEAN
  <2>1. \A id \in Ids : store[id] # None => id \in used
    BY DEF IInv, TaskInv, Unused, Absent
  <2> QED BY <2>1 DEF tick, IInv, TypeOK
<1>6. UNCHANGED <<now, phase, file, awaited, gone, used, faults, closes>>
  BY DEF tick
<1>7. \A id \in Ids : awaited'[id] <= Len(queue'[id])
  <2> SUFFICES ASSUME NEW id \in Ids PROVE awaited[id] <= Len(queue'[id])
    BY <1>6
  <2>1. awaited[id] \in Nat /\ awaited[id] <= Len(queue[id]) /\ Len(queue[id]) \in Nat
    BY TaskTypes DEF IInv
  <2>2. Len(queue[id]) <= Len(queue'[id]) /\ Len(queue'[id]) \in Nat
    BY <1>2, LenProperties
  <2> QED BY <2>1, <2>2
<1>8. TypeOK'
  BY <1>2, <1>3, <1>4, <1>5, <1>6, <1>7 DEF IInv, TypeOK, Record
<1> QED BY <1>1, <1>8 DEF IInv

-----------------------------------------------------------------------------
\* The tools and the files.

\* Only one task changes.
LEMMA OthersKeep ==
    ASSUME IInv, phase' = phase, NEW id \in Ids, TaskInv(id)',
           \A i \in Ids : i # id => Same(i)
    PROVE  \A i \in Ids : TaskInv(i)'
  BY SameKeeps DEF IInv

\* A new task has covered nothing.
LEMMA addTaskKeeps ==
    ASSUME IInv, NEW id \in Ids, addTask(id)
    PROVE  IInv'
<1> DEFINE rec == [createdAt |-> now, lastFiredAt |-> None]
<1>1. /\ phase # "dead" /\ id \notin used /\ used' = used \cup {id}
      /\ store' = [store EXCEPT ![id] = rec] /\ queue' = [queue EXCEPT ![id] = Append(@, store'[id])]
      /\ UNCHANGED <<now, phase, busy, lastSeenAt, seeded, file, awaited, gone, covered, excuses,
                     faults, closes>>
  BY DEF addTask, scheduler, history
<1>2. store[id] = None /\ file[id] = None /\ queue[id] = <<>> /\ lastSeenAt[id] = None
      /\ \A t \in Schedule[id] : covered[id][t] = 0
  BY <1>1 DEF IInv, TaskInv, Unused, Absent
<1>3. store'[id] = rec /\ queue'[id] = Append(<<>>, rec)
  BY <1>1, <1>2 DEF IInv, TypeOK
<1>4. rec \in Task /\ rec # None /\ rec.lastFiredAt = None /\ rec \in Record
  <2>1. rec \in Task /\ rec.lastFiredAt = None
    BY DEF Task, IInv, TypeOK
  <2> QED BY <2>1, NoneAssumption DEF Record
<1> HIDE DEF rec
<1>5. /\ queue'[id] \in Seq(Record) /\ Len(queue'[id]) = 1 /\ queue'[id][1] = rec
  <2>1. <<>> \in Seq(Record) /\ Len(<<>>) = 0
    BY EmptySeq
  <2> QED BY <1>3, <1>4, <2>1, Joined
<1>6. excuses[id] \in Nat
  BY TaskTypes DEF IInv
<1>7. TaskInv(id)'
  <2>1. \A t \in Schedule[id] : ~ Full(id, t)'
    BY <1>1, <1>2, <1>6 DEF Full
  <2>2. AtMostExcused(id)' /\ StoreBars(id)' /\ FileBars(id)'
    BY <1>1, <1>2, <1>6, <2>1 DEF AtMostExcused, StoreBars, FileBars
  <2>3. SeenIsRecorded(id)' /\ IgnoredIsExcused(id)'
    BY <1>1, <1>2, <1>3, <1>4 DEF SeenIsRecorded, IgnoredIsExcused
  <2>4. CursorsCover(id)' /\ RemovalIsLast(id)'
    BY <1>1, <1>2, <1>3, <1>4, <1>5 DEF CursorsCover, Covers, RemovalIsLast
  <2>5. (id \in gone' => Absent(id)') /\ Unused(id)' /\ DeadIsEmpty(id)'
    BY <1>1 DEF IInv, TypeOK, Unused, DeadIsEmpty
  <2> QED BY <2>2, <2>3, <2>4, <2>5 DEF TaskInv
<1>8. \A i \in Ids : i # id => Same(i)
  BY <1>1 DEF Same, SameHistory, IInv, TypeOK
<1>9. TypeOK'
  <2>1. store' \in [Ids -> Record] /\ queue' \in [Ids -> Seq(Record)]
    BY <1>1, <1>3, <1>4, <1>5 DEF IInv, TypeOK, Record
  <2>2. \A i \in Ids : awaited'[i] <= Len(queue'[i])
    <3>1. awaited[id] \in Nat /\ awaited[id] <= 0
      BY <1>2, TaskTypes, EmptySeq DEF IInv
    <3>2. \A i \in Ids : i # id => queue'[i] = queue[i]
      BY <1>8 DEF Same
    <3> QED BY <1>1, <1>5, <3>1, <3>2 DEF IInv, TypeOK
  <2> QED BY <1>1, <2>1, <2>2 DEF IInv, TypeOK, Record
<1> QED BY <1>1, <1>7, <1>8, <1>9, OthersKeep DEF IInv

\* The removal of a task is the last that is written of it.
LEMMA removeTasksKeeps ==
    ASSUME IInv, NEW id \in Ids, removeTasks(id)
    PROVE  IInv'
<1> DEFINE n == Len(queue[id])
<1>1. /\ phase # "dead" /\ store[id] # None
      /\ store' = [store EXCEPT ![id] = None] /\ queue' = [queue EXCEPT ![id] = Append(@, None)]
      /\ UNCHANGED <<now, phase, busy, lastSeenAt, seeded, file, awaited, gone, used, covered, excuses,
                     faults, closes>>
      /\ TaskInv(id) /\ TypeOK
  BY DEF removeTasks, scheduler, history, IInv
<1>2. store'[id] = None /\ queue'[id] = Append(queue[id], None)
  BY <1>1 DEF TypeOK
<1>3. /\ n \in Nat /\ queue'[id] \in Seq(Record) /\ Len(queue'[id]) = n + 1
      /\ queue'[id][n + 1] = None /\ \A i \in 1 .. n : queue'[id][i] = queue[id][i]
      /\ awaited[id] \in Nat /\ awaited[id] <= n
  BY <1>1, <1>2, TaskTypes, Joined DEF Record
<1>4. \A i \in 1 .. n + 1 : i \in 1 .. n \/ i = n + 1
  BY <1>3
<1> HIDE DEF n
<1>5. id \notin gone /\ id \in used
  BY <1>1 DEF TaskInv, Absent, Unused
<1>6. TaskInv(id)'
  <2>1. \A t \in Schedule[id] : Full(id, t)' <=> Full(id, t)
    BY <1>1 DEF Full
  <2>2. AtMostExcused(id)' /\ StoreBars(id)' /\ SeenIsRecorded(id)' /\ IgnoredIsExcused(id)'
    BY <1>1, <1>2 DEF TaskInv, AtMostExcused, StoreBars, SeenIsRecorded, IgnoredIsExcused
  <2>3. FileBars(id)'
    <3> SUFFICES ASSUME NEW t \in Schedule[id], Full(id, t)
                 PROVE  /\ deciding(id)' = 0 => Bars(file[id], t)'
                        /\ \A j \in 1 .. n + 1 : j >= deciding(id)' => Bars(queue[id][j], t)'
      BY <1>3, <2>1 DEF FileBars
    <3>1. \/ deciding(id)' = n + 1
          \/ deciding(id)' = deciding(id)
      BY <1>1, <1>3 DEF deciding
    <3>2. deciding(id)' = 0 => Bars(file[id], t)'
      BY <1>1, <1>3, <3>1 DEF TaskInv, FileBars, Bars
    <3>3. ASSUME NEW j \in 1 .. n + 1, j >= deciding(id)'
          PROVE  \/ queue'[id][j] = None
                 \/ Bars(queue[id][j], t) /\ queue'[id][j] = queue[id][j]
      <4>1. CASE j = n + 1
        BY <1>3, <4>1
      <4>2. CASE j \in 1 .. n
        <5>1. j >= deciding(id)
          BY <1>3, <3>1, <3>3, <4>2
        <5> QED BY <1>1, <1>3, <4>2, <5>1 DEF TaskInv, FileBars, n
      <4> QED BY <1>4, <4>1, <4>2
    <3> QED BY <3>2, <3>3 DEF Bars
  <2>4. CursorsCover(id)'
    <3>1. /\ Covers(file[id], id) /\ \A i \in 1 .. n : Covers(queue[id][i], id)
      BY <1>1 DEF TaskInv, CursorsCover, n
    <3> QED BY <1>1, <1>2, <1>3, <1>4, <3>1 DEF CursorsCover, Covers
  <2>5. RemovalIsLast(id)'
    <3>1. \A i \in 1 .. n : queue[id][i] # None
      BY <1>1 DEF TaskInv, RemovalIsLast, n
    <3> QED BY <1>2, <1>3, <1>4, <3>1 DEF RemovalIsLast
  <2>6. (id \in gone' => Absent(id)') /\ Unused(id)' /\ DeadIsEmpty(id)'
    BY <1>1, <1>5 DEF Unused, DeadIsEmpty
  <2> QED BY <2>2, <2>3, <2>4, <2>5, <2>6 DEF TaskInv
<1>7. \A i \in Ids : i # id => Same(i)
  BY <1>1 DEF Same, SameHistory, TypeOK
<1>8. TypeOK'
  <2>1. store' \in [Ids -> Record] /\ queue' \in [Ids -> Seq(Record)]
    BY <1>1, <1>2, <1>3 DEF TypeOK, Record
  <2>2. \A i \in Ids : awaited'[i] <= Len(queue'[i])
    <3>1. \A i \in Ids : i # id => queue'[i] = queue[i]
      BY <1>7 DEF Same
    <3> QED BY <1>1, <1>3, <3>1 DEF TypeOK
  <2> QED BY <1>1, <2>1, <2>2 DEF TypeOK, Record
<1> QED BY <1>1, <1>6, <1>7, <1>8, OthersKeep DEF IInv

\* The head of a task's writes is taken off.
LEMMA WrittenTypes ==
    ASSUME IInv, NEW id \in Ids, written(id)
    PROVE  LET n == Len(queue[id])
           IN  /\ n \in Nat \ {0} /\ queue[id] # <<>> /\ phase # "dead"
               /\ Head(queue[id]) = queue[id][1] /\ queue[id][1] \in Record
               /\ queue' \in [Ids -> Seq(Record)] /\ awaited' \in [Ids -> Nat]
               /\ queue'[id] = Tail(queue[id]) /\ Len(queue'[id]) = n - 1
               /\ \A i \in 1 .. n - 1 : queue'[id][i] = queue[id][i + 1] /\ i + 1 \in 1 .. n
               /\ awaited[id] \in Nat /\ awaited[id] <= n
               /\ awaited'[id] = IF awaited[id] > 0 THEN awaited[id] - 1 ELSE 0
               /\ \A i \in Ids : awaited'[i] <= Len(queue'[i])
               /\ \A i \in Ids : i # id => queue'[i] = queue[i] /\ awaited'[i] = awaited[i]
               /\ id \in used /\ id \notin gone
               /\ (queue[id][1] = None => n = 1 /\ store[id] = None /\ queue'[id] = <<>>)
<1> DEFINE n == Len(queue[id])
<1>1. /\ queue[id] # <<>> /\ phase # "dead" /\ queue' = [queue EXCEPT ![id] = Tail(@)]
      /\ awaited' = [awaited EXCEPT ![id] = IF @ > 0 THEN @ - 1 ELSE 0]
      /\ TaskInv(id) /\ TypeOK
  BY DEF written, IInv
<1>2. queue[id] \in Seq(Record) /\ awaited[id] \in Nat /\ awaited[id] <= n
  BY <1>1, TaskTypes
<1>3. /\ Tail(queue[id]) \in Seq(Record) /\ n \in Nat \ {0} /\ Len(Tail(queue[id])) = n - 1
      /\ \A i \in 1 .. n - 1 : Tail(queue[id])[i] = queue[id][i + 1]
      /\ Head(queue[id]) = queue[id][1] /\ queue[id][1] \in Record /\ 1 \in 1 .. n
  BY <1>1, <1>2, Shortened
<1> HIDE DEF n
<1>4. queue'[id] = Tail(queue[id]) /\ awaited'[id] = IF awaited[id] > 0 THEN awaited[id] - 1 ELSE 0
  BY <1>1 DEF TypeOK
<1>5. \A i \in Ids : i # id => queue'[i] = queue[i] /\ awaited'[i] = awaited[i]
  BY <1>1 DEF TypeOK
<1>6. awaited'[id] \in Nat /\ awaited'[id] <= n - 1
  BY <1>2, <1>3, <1>4
<1>7. queue' \in [Ids -> Seq(Record)] /\ awaited' \in [Ids -> Nat]
  <2>1. awaited' \in [Ids -> Nat]
    BY <1>1, <1>4, <1>6 DEF TypeOK
  <2> QED BY <1>1, <1>3, <1>4, <2>1 DEF TypeOK, Record
<1>8. \A i \in Ids : awaited'[i] <= Len(queue'[i])
  BY <1>1, <1>3, <1>4, <1>5, <1>6 DEF TypeOK
<1>9. id \in used /\ id \notin gone
  BY <1>1 DEF TaskInv, Unused, Absent
<1>10. queue[id][1] = None => n = 1 /\ store[id] = None /\ queue'[id] = <<>>
  <2> SUFFICES ASSUME queue[id][1] = None PROVE n = 1 /\ store[id] = None /\ queue'[id] = <<>>
    OBVIOUS
  <2>1. 1 = n /\ store[id] = None
    BY <1>1, <1>3 DEF TaskInv, RemovalIsLast, n
  <2>2. n - 1 = 0
    BY <2>1
  <2>3. queue'[id] \in Seq(Record) /\ Len(queue'[id]) = 0
    BY <1>3, <1>4, <2>2
  <2> QED BY <2>1, <2>3, EmptySeq
<1>11. \A i \in 1 .. n - 1 : i + 1 \in 1 .. n
  BY <1>3
<1> QED BY <1>1, <1>2, <1>3, <1>4, <1>5, <1>7, <1>8, <1>9, <1>10, <1>11 DEF n

\* A write that ends makes the file what the task was when it was queued.
LEMMA persistEnqueueKeeps ==
    ASSUME IInv, NEW id \in Ids, persistEnqueue(id)
    PROVE  IInv'
<1> DEFINE n == Len(queue[id])
<1>1. /\ written(id) /\ file' = [file EXCEPT ![id] = Head(queue[id])]
      /\ gone' = IF Head(queue[id]) = None THEN gone \cup {id} ELSE gone
      /\ UNCHANGED <<now, phase, busy, store, lastSeenAt, seeded, used, covered, excuses, faults, closes>>
      /\ TaskInv(id) /\ TypeOK
  BY DEF persistEnqueue, scheduler, history, IInv
<1>2. /\ n \in Nat \ {0} /\ phase # "dead"
      /\ Head(queue[id]) = queue[id][1] /\ queue[id][1] \in Record
      /\ queue' \in [Ids -> Seq(Record)] /\ awaited' \in [Ids -> Nat]
      /\ Len(queue'[id]) = n - 1
      /\ \A i \in 1 .. n - 1 : queue'[id][i] = queue[id][i + 1] /\ i + 1 \in 1 .. n
      /\ awaited[id] \in Nat
      /\ awaited'[id] = IF awaited[id] > 0 THEN awaited[id] - 1 ELSE 0
      /\ \A i \in Ids : awaited'[i] <= Len(queue'[i])
      /\ id \in used /\ id \notin gone
      /\ (queue[id][1] = None => n = 1 /\ store[id] = None /\ queue'[id] = <<>>)
  BY <1>1, WrittenTypes
<1>3. file'[id] = queue[id][1] /\ 1 \in 1 .. n
  BY <1>1, <1>2 DEF TypeOK
<1> HIDE DEF n
<1>4. TaskInv(id)'
  <2>1. \A t \in Schedule[id] : Full(id, t)' <=> Full(id, t)
    BY <1>1 DEF Full
  <2>2. AtMostExcused(id)' /\ StoreBars(id)' /\ SeenIsRecorded(id)' /\ IgnoredIsExcused(id)'
    BY <1>1 DEF TaskInv, AtMostExcused, StoreBars, SeenIsRecorded, IgnoredIsExcused, Full, Bars
  <2>3. FileBars(id)'
    <3> SUFFICES ASSUME NEW t \in Schedule[id], Full(id, t)
                 PROVE  /\ deciding(id)' = 0 => Bars(queue[id][1], t)
                        /\ \A j \in 1 .. n - 1 : j >= deciding(id)' => Bars(queue[id][j + 1], t)
      BY <1>2, <1>3, <2>1 DEF FileBars, Bars
    <3>1. /\ deciding(id) \in Nat
          /\ deciding(id)' = IF deciding(id) > 0 THEN deciding(id) - 1 ELSE 0
      BY <1>1, <1>2 DEF deciding, n
    <3>2. \A j \in 1 .. n : j >= deciding(id) => Bars(queue[id][j], t)
      BY <1>1 DEF TaskInv, FileBars, n
    <3> DEFINE d == deciding(id)
               d1 == deciding(id)'
    <3> HIDE DEF d, d1
    <3>3. d \in Nat /\ d1 = IF d > 0 THEN d - 1 ELSE 0
      BY <3>1 DEF d, d1
    <3>4. d1 = 0 => 1 >= d
      BY <3>3
    <3>5. \A j \in 1 .. n - 1 : j >= d1 => j + 1 >= d
      BY <1>2, <3>3
    <3> QED BY <1>2, <1>3, <3>2, <3>4, <3>5 DEF d, d1
  <2>4. CursorsCover(id)'
    <3>1. /\ Covers(store[id], id) /\ \A i \in 1 .. n : Covers(queue[id][i], id)
      BY <1>1 DEF TaskInv, CursorsCover, n
    <3> QED BY <1>1, <1>2, <1>3, <3>1, ZenonT(40) DEF CursorsCover, Covers
  <2>5. RemovalIsLast(id)'
    <3>1. \A i \in 1 .. n : queue[id][i] = None => i = n /\ store[id] = None
      BY <1>1 DEF TaskInv, RemovalIsLast, n
    <3>2. ASSUME NEW i \in 1 .. n - 1, queue'[id][i] = None
          PROVE  i = n - 1 /\ store'[id] = None
      <4>1. queue[id][i + 1] = None /\ i + 1 \in 1 .. n
        BY <1>2, <3>2
      <4>2. i + 1 = n /\ store[id] = None
        BY <3>1, <4>1
      <4> QED BY <1>1, <1>2, <4>2
    <3> QED BY <1>2, <3>2 DEF RemovalIsLast
  <2>6. id \in gone' => Absent(id)'
    BY <1>1, <1>2, <1>3 DEF Absent
  <2>7. Unused(id)' /\ DeadIsEmpty(id)'
    BY <1>1, <1>2 DEF Unused, DeadIsEmpty
  <2> QED BY <2>2, <2>3, <2>4, <2>5, <2>6, <2>7 DEF TaskInv
<1>5. \A i \in Ids : i # id => Same(i)
  <2>1. \A i \in Ids : i # id => queue'[i] = queue[i] /\ awaited'[i] = awaited[i]
    BY <1>1, WrittenTypes
  <2> QED BY <1>1, <2>1 DEF Same, SameHistory, TypeOK
<1>6. TypeOK'
  <2>1. file' \in [Ids -> Record]
    BY <1>1, <1>2 DEF TypeOK, Record
  <2>2. gone' \subseteq used
    BY <1>1, <1>2 DEF TypeOK
  <2> QED BY <1>1, <1>2, <2>1, <2>2 DEF TypeOK, Record
<1> QED BY <1>1, <1>4, <1>5, <1>6, OthersKeep DEF IInv

\* A write that fails gives an excuse for what the file does not bar.
LEMMA persistFailsKeeps ==
    ASSUME IInv, NEW id \in Ids, persistFails(id)
    PROVE  IInv'
<1> DEFINE n == Len(queue[id])
<1>1. /\ written(id) /\ faults < MaxFaults /\ faults' = faults + 1
      /\ excuses' = [excuses EXCEPT ![id] = @ + 1]
      /\ UNCHANGED <<now, phase, busy, store, lastSeenAt, seeded, file, gone, used, covered, closes>>
      /\ TaskInv(id) /\ TypeOK
  BY DEF persistFails, scheduler, IInv
<1>2. /\ n \in Nat \ {0} /\ phase # "dead"
      /\ queue' \in [Ids -> Seq(Record)] /\ awaited' \in [Ids -> Nat]
      /\ Len(queue'[id]) = n - 1
      /\ \A i \in 1 .. n - 1 : queue'[id][i] = queue[id][i + 1] /\ i + 1 \in 1 .. n
      /\ \A i \in Ids : awaited'[i] <= Len(queue'[i])
      /\ id \in used /\ id \notin gone
  BY <1>1, WrittenTypes
<1>3. /\ excuses[id] \in Nat /\ excuses'[id] = excuses[id] + 1
      /\ \A t \in Schedule[id] : covered[id][t] \in Nat
  BY <1>1, TaskTypes DEF TypeOK
<1> HIDE DEF n
<1>4. TaskInv(id)'
  <2>1. \A t \in Schedule[id] : ~ Full(id, t)' /\ covered[id][t] <= 1 + excuses'[id]
    BY <1>1, <1>3 DEF Full, TaskInv, AtMostExcused
  <2>2. AtMostExcused(id)' /\ StoreBars(id)' /\ FileBars(id)' /\ SeenIsRecorded(id)'
        /\ IgnoredIsExcused(id)'
    BY <1>1, <1>3, <2>1 DEF TaskInv, AtMostExcused, StoreBars, FileBars, SeenIsRecorded, IgnoredIsExcused
  <2>3. CursorsCover(id)'
    <3>1. /\ Covers(store[id], id) /\ Covers(file[id], id) /\ \A i \in 1 .. n : Covers(queue[id][i], id)
      BY <1>1 DEF TaskInv, CursorsCover, n
    <3> QED BY <1>1, <1>2, <3>1 DEF CursorsCover, Covers
  <2>4. RemovalIsLast(id)'
    <3>1. \A i \in 1 .. n : queue[id][i] = None => i = n /\ store[id] = None
      BY <1>1 DEF TaskInv, RemovalIsLast, n
    <3>2. ASSUME NEW i \in 1 .. n - 1, queue'[id][i] = None
          PROVE  i = n - 1 /\ store'[id] = None
      <4>1. queue[id][i + 1] = None /\ i + 1 \in 1 .. n
        BY <1>2, <3>2
      <4>2. i + 1 = n /\ store[id] = None
        BY <3>1, <4>1
      <4> QED BY <1>1, <1>2, <4>2
    <3> QED BY <1>2, <3>2 DEF RemovalIsLast
  <2>5. (id \in gone' => Absent(id)') /\ Unused(id)' /\ DeadIsEmpty(id)'
    BY <1>1, <1>2 DEF Unused, DeadIsEmpty
  <2> QED BY <2>2, <2>3, <2>4, <2>5 DEF TaskInv
<1>5. \A i \in Ids : i # id => Same(i)
  <2>1. \A i \in Ids : i # id => queue'[i] = queue[i] /\ awaited'[i] = awaited[i]
    BY <1>1, WrittenTypes
  <2> QED BY <1>1, <2>1 DEF Same, SameHistory, TypeOK
<1>6. TypeOK'
  <2>1. excuses' \in [Ids -> Nat] /\ faults' \in 0 .. MaxFaults
    BY <1>1, <1>3, CronAssumption DEF TypeOK
  <2> QED BY <1>1, <1>2, <2>1 DEF TypeOK, Record
<1> QED BY <1>1, <1>4, <1>5, <1>6, OthersKeep DEF IInv

-----------------------------------------------------------------------------
\* The session's end and its resumption.

\* At the stop, the last queued write becomes the one that is waited for.
LEMMA stopKeeps ==
    ASSUME IInv, stop
    PROVE  IInv'
<1>1. /\ phase = "live" /\ phase' = "closing" /\ closes < MaxCloses /\ closes' = closes + 1
      /\ lastSeenAt' = [id \in Ids |-> None] /\ seeded' = {}
      /\ awaited' = [id \in Ids |-> Len(queue[id])]
      /\ UNCHANGED <<now, busy, store, file, queue, gone, used, covered, excuses, faults>>
  BY DEF stop, history
<1>2. ASSUME NEW id \in Ids
      PROVE  TaskInv(id)'
  <2>1. TaskInv(id)
    BY DEF IInv
  <2>2. \A t \in Schedule[id] : Full(id, t)' <=> Full(id, t)
    BY <1>1 DEF Full
  <2>3. deciding(id)' = deciding(id)
    BY <1>1 DEF deciding
  <2>4. AtMostExcused(id)' /\ StoreBars(id)' /\ FileBars(id)'
    BY <1>1, <2>1, <2>2, <2>3 DEF TaskInv, AtMostExcused, StoreBars, FileBars, Bars
  <2>5. SeenIsRecorded(id)' /\ IgnoredIsExcused(id)' /\ CursorsCover(id)' /\ RemovalIsLast(id)'
    BY <1>1, <2>1 DEF TaskInv, SeenIsRecorded, IgnoredIsExcused, CursorsCover, Covers, RemovalIsLast
  <2>6. (id \in gone' => Absent(id)') /\ Unused(id)' /\ DeadIsEmpty(id)'
    BY <1>1, <2>1 DEF TaskInv, Absent, Unused, DeadIsEmpty
  <2> QED BY <2>4, <2>5, <2>6 DEF TaskInv
<1>3. TypeOK'
  <2>1. \A id \in Ids : Len(queue[id]) \in Nat
    BY TaskTypes DEF IInv
  <2>2. awaited' \in [Ids -> Nat] /\ \A id \in Ids : awaited'[id] <= Len(queue[id])
    BY <1>1, <2>1
  <2>3. closes' \in 0 .. MaxCloses
    BY <1>1, CronAssumption DEF IInv, TypeOK
  <2>4. lastSeenAt' \in [Ids -> Times \cup {None}] /\ seeded' \subseteq used
    BY <1>1
  <2> QED BY <1>1, <2>2, <2>3, <2>4 DEF IInv, TypeOK
<1> QED BY <1>2, <1>3 DEF IInv

\* When the process ends, each task's file holds what decides, or there is one more
\* reason to deliver again.
LEMMA ProcessEndsKeeps ==
    ASSUME IInv, process_ends, excuses' \in [Ids -> Nat], faults' \in 0 .. MaxFaults,
           \A id \in Ids : excuses'[id] >= excuses[id] /\ (deciding(id) = 0 \/ excuses'[id] > excuses[id])
    PROVE  IInv'
<1>1. /\ phase' = "dead" /\ busy' = FALSE
      /\ store' = [id \in Ids |-> None] /\ lastSeenAt' = [id \in Ids |-> None] /\ seeded' = {}
      /\ queue' = [id \in Ids |-> <<>>] /\ awaited' = [id \in Ids |-> 0]
      /\ UNCHANGED <<now, file, gone, used, covered, closes>>
  BY DEF process_ends
<1>2. Len(<<>>) = 0 /\ <<>> \in Seq(Record)
  BY EmptySeq
<1>3. ASSUME NEW id \in Ids
      PROVE  TaskInv(id)'
  <2>1. TaskInv(id) /\ store'[id] = None /\ queue'[id] = <<>> /\ lastSeenAt'[id] = None
        /\ \A i \in 1 .. Len(queue'[id]) : FALSE
    BY <1>1, <1>2 DEF IInv
  <2>2. /\ excuses[id] \in Nat /\ excuses'[id] \in Nat
        /\ \A t \in Schedule[id] : covered[id][t] \in Nat
    BY TaskTypes DEF IInv
  <2>3. ASSUME NEW t \in Schedule[id], Full(id, t)'
        PROVE  Full(id, t) /\ deciding(id) = 0
    <3>1. covered[id][t] > excuses'[id] /\ covered[id][t] <= 1 + excuses[id]
      BY <1>1, <2>1, <2>3 DEF Full, TaskInv, AtMostExcused
    <3>2. excuses'[id] >= excuses[id] /\ ~ (excuses'[id] > excuses[id])
      BY <2>2, <3>1
    <3> QED BY <2>2, <3>1, <3>2 DEF Full
  <2>4. FileBars(id)'
    BY <1>1, <2>1, <2>3 DEF TaskInv, FileBars, Bars
  <2>5. AtMostExcused(id)'
    BY <1>1, <2>1, <2>2 DEF TaskInv, AtMostExcused
  <2>6. StoreBars(id)' /\ SeenIsRecorded(id)' /\ IgnoredIsExcused(id)' /\ RemovalIsLast(id)'
    BY <2>1 DEF StoreBars, SeenIsRecorded, IgnoredIsExcused, RemovalIsLast
  <2>7. CursorsCover(id)'
    BY <1>1, <2>1 DEF TaskInv, CursorsCover, Covers
  <2>8. (id \in gone' => Absent(id)') /\ Unused(id)' /\ DeadIsEmpty(id)'
    BY <1>1, <2>1 DEF TaskInv, Absent, Unused, DeadIsEmpty
  <2> QED BY <2>4, <2>5, <2>6, <2>7, <2>8 DEF TaskInv
<1>4. TypeOK'
  <2>1. /\ store' \in [Ids -> Record] /\ lastSeenAt' \in [Ids -> Times \cup {None}]
        /\ queue' \in [Ids -> Seq(Record)] /\ awaited' \in [Ids -> Nat]
    BY <1>1, <1>2 DEF Record
  <2>2. \A id \in Ids : awaited'[id] <= Len(queue'[id])
    BY <1>1, <1>2
  <2> QED BY <1>1, <2>1, <2>2 DEF IInv, TypeOK, Record
<1> QED BY <1>3, <1>4 DEF IInv

\* A crash gives an excuse for the writes it loses.
LEMMA crashKeeps ==
    ASSUME IInv, crash
    PROVE  IInv'
<1>1. /\ process_ends /\ faults < MaxFaults /\ faults' = faults + 1
      /\ excuses' = [id \in Ids |-> IF queue[id] # <<>> THEN excuses[id] + 1 ELSE excuses[id]]
  BY DEF crash
<1>2. faults' \in 0 .. MaxFaults
  BY <1>1, CronAssumption DEF IInv, TypeOK
<1>3. ASSUME NEW id \in Ids
      PROVE  /\ excuses'[id] \in Nat /\ excuses'[id] >= excuses[id]
             /\ deciding(id) = 0 \/ excuses'[id] > excuses[id]
  <2>1. excuses[id] \in Nat /\ awaited[id] \in Nat /\ awaited[id] <= Len(queue[id])
    BY TaskTypes DEF IInv
  <2>2. CASE queue[id] # <<>>
    BY <1>1, <2>1, <2>2
  <2>3. CASE queue[id] = <<>>
    <3>1. Len(queue[id]) = 0
      BY <2>3, EmptySeq
    <3>2. deciding(id) = 0
      BY <2>1, <3>1 DEF deciding
    <3> QED BY <1>1, <2>1, <2>3, <3>2
  <2> QED BY <2>2, <2>3
<1>4. excuses' \in [Ids -> Nat]
  BY <1>1, <1>3
<1> QED BY <1>1, <1>2, <1>3, <1>4, ProcessEndsKeeps

\* A session is closed when the awaited writes are over: the file is the one that decides.
LEMMA closedKeeps ==
    ASSUME IInv, closed
    PROVE  IInv'
<1>1. process_ends /\ UNCHANGED <<excuses, faults>> /\ \A id \in Ids : deciding(id) = 0
  BY DEF closed, deciding
<1>2. \A id \in Ids : excuses'[id] >= excuses[id]
  BY <1>1, TaskTypes DEF IInv
<1> QED BY <1>1, <1>2, ProcessEndsKeeps DEF IInv, TypeOK

\* The next session takes its tasks from the files, and its cursors with the first tick.
LEMMA loadFromDiskKeeps ==
    ASSUME IInv, loadFromDisk
    PROVE  IInv'
<1>1. /\ phase = "dead" /\ phase' = "live" /\ store' = file
      /\ UNCHANGED <<now, busy, lastSeenAt, seeded, file, queue, awaited, gone, used, covered, excuses,
                     faults, closes>>
  BY DEF loadFromDisk, scheduler, disk, history
<1>2. ASSUME NEW id \in Ids
      PROVE  TaskInv(id)'
  <2>1. /\ TaskInv(id) /\ store'[id] = file[id]
        /\ queue[id] = <<>> /\ lastSeenAt[id] = None /\ id \notin seeded
    BY <1>1 DEF IInv, TaskInv, DeadIsEmpty
  <2>2. Len(queue[id]) = 0 /\ \A i \in 1 .. Len(queue[id]) : FALSE
    BY <2>1, EmptySeq
  <2>3. deciding(id) = 0 /\ deciding(id)' = 0
    BY <1>1, <2>2 DEF deciding
  <2>4. \A t \in Schedule[id] : Full(id, t)' <=> Full(id, t)
    BY <1>1 DEF Full
  <2>5. AtMostExcused(id)' /\ StoreBars(id)' /\ FileBars(id)'
    BY <1>1, <2>1, <2>2, <2>3, <2>4 DEF TaskInv, AtMostExcused, StoreBars, FileBars, Bars
  <2>6. SeenIsRecorded(id)' /\ IgnoredIsExcused(id)' /\ CursorsCover(id)' /\ RemovalIsLast(id)'
    BY <1>1, <2>1, <2>2 DEF TaskInv, SeenIsRecorded, IgnoredIsExcused, CursorsCover, Covers, RemovalIsLast
  <2>7. (id \in gone' => Absent(id)') /\ Unused(id)' /\ DeadIsEmpty(id)'
    BY <1>1, <2>1 DEF TaskInv, Absent, Unused, DeadIsEmpty
  <2> QED BY <2>5, <2>6, <2>7 DEF TaskInv
<1>3. TypeOK'
  BY <1>1 DEF IInv, TypeOK
<1> QED BY <1>2, <1>3 DEF IInv

-----------------------------------------------------------------------------
\* The invariant.

\* A session without tasks satisfies the inductive invariant.
LEMMA InitIInv == Init => IInv
<1> SUFFICES ASSUME Init PROVE IInv
  OBVIOUS
<1>1. Len(<<>>) = 0 /\ <<>> \in Seq(Record)
  BY EmptySeq
<1>2. TypeOK
  <2>1. /\ store \in [Ids -> Record] /\ lastSeenAt \in [Ids -> Times \cup {None}]
        /\ file \in [Ids -> Record] /\ excuses \in [Ids -> Nat]
        /\ queue \in [Ids -> Seq(Record)] /\ awaited \in [Ids -> Nat]
        /\ DOMAIN covered = Ids /\ \A id \in Ids : covered[id] \in [Schedule[id] -> Nat]
    BY <1>1 DEF Init, Record
  <2>2. \A id \in Ids : awaited[id] <= Len(queue[id])
    BY <1>1 DEF Init
  <2>3. now \in Times /\ faults \in 0 .. MaxFaults /\ closes \in 0 .. MaxCloses
    BY CronAssumption DEF Init, Times
  <2> QED BY <2>1, <2>2, <2>3 DEF Init, TypeOK, Record
<1>3. ASSUME NEW id \in Ids
      PROVE  TaskInv(id)
  <2>1. /\ store[id] = None /\ file[id] = None /\ queue[id] = <<>> /\ lastSeenAt[id] = None
        /\ seeded = {} /\ gone = {} /\ phase = "live" /\ excuses[id] = 0
        /\ \A t \in Schedule[id] : covered[id][t] = 0
        /\ \A i \in 1 .. Len(queue[id]) : FALSE
    BY <1>1 DEF Init
  <2>2. \A t \in Schedule[id] : ~ Full(id, t)
    BY <2>1 DEF Full
  <2>3. AtMostExcused(id) /\ StoreBars(id) /\ FileBars(id) /\ SeenIsRecorded(id)
    BY <2>1, <2>2 DEF AtMostExcused, StoreBars, FileBars, SeenIsRecorded
  <2>4. CursorsCover(id) /\ IgnoredIsExcused(id) /\ RemovalIsLast(id)
    BY <2>1 DEF CursorsCover, Covers, IgnoredIsExcused, RemovalIsLast
  <2>5. (id \in gone => Absent(id)) /\ Unused(id) /\ DeadIsEmpty(id)
    BY <2>1 DEF Absent, Unused, DeadIsEmpty
  <2> QED BY <2>3, <2>4, <2>5 DEF TaskInv
<1> QED BY <1>2, <1>3 DEF IInv

\* Every step of cron keeps the inductive invariant.
LEMMA StepIInv == IInv /\ [Next]_vars => IInv'
<1> SUFFICES ASSUME IInv, [Next]_vars PROVE IInv'
  OBVIOUS
<1>1. CASE \E thrown \in SUBSET {id \in Ids : Due(id)} : tick(thrown)
  BY <1>1, TickKeeps
<1>2. CASE \E id \in Ids : addTask(id) \/ removeTasks(id)
  BY <1>2, addTaskKeeps, removeTasksKeeps
<1>3. CASE \E id \in Ids : persistEnqueue(id) \/ persistFails(id)
  BY <1>3, persistEnqueueKeeps, persistFailsKeeps
<1>4. CASE stop \/ closed \/ crash \/ loadFromDisk
  BY <1>4, stopKeeps, closedKeeps, crashKeeps, loadFromDiskKeeps
<1>5. CASE (\E starts \in BOOLEAN : turn(starts)) \/ Pass \/ SetBack \/ UNCHANGED vars
  <2>1. UNCHANGED <<phase, store, lastSeenAt, seeded, file, queue, awaited, gone, used,
                    covered, excuses, closes>>
    BY <1>5 DEF turn, Pass, SetBack, vars, scheduler, disk, history
  <2>2. now' \in Times /\ busy' \in BOOLEAN /\ faults' \in 0 .. MaxFaults
    BY <1>5, CronAssumption DEF turn, Pass, SetBack, vars, IInv, TypeOK, Times
  <2>3. TypeOK'
    BY <2>1, <2>2 DEF IInv, TypeOK
  <2>4. \A id \in Ids : Same(id)
    BY <2>1 DEF Same, SameHistory
  <2> QED BY <2>1, <2>3, <2>4, SameKeeps DEF IInv
<1> QED BY <1>1, <1>2, <1>3, <1>4, <1>5 DEF Next

\* What holds of every task in memory, in the queue of its writes and in its file:
\* its cursor has passed what was delivered, and only that (tick of scheduler.ts,
\* manager.ts, session-store.ts).
THEOREM CronInvariant == Spec => []IInv
  BY InitIInv, StepIInv, PTL DEF Spec

\* The tasks, the cursors, the files and their writes keep their shapes.
THEOREM CronTypeCorrect == Spec => []TypeOK
<1>1. IInv => TypeOK
  BY DEF IInv
<1> QED BY <1>1, CronInvariant, PTL

\* No run of a task is delivered twice but for a lost write or a record that was
\* ignored, each for one repeat: over all sessions, crashes and clock changes.
THEOREM DeliveredOnce == Spec => []CoveredOnce
<1>1. IInv => CoveredOnce
  BY DEF IInv, TaskInv, AtMostExcused, CoveredOnce
<1> QED BY <1>1, CronInvariant, PTL

\* No cursor, the scheduler's or the one on disk, passes a run that was not
\* delivered (countCoalesced with its cap, advanceCursor).
THEOREM NothingSkipped == Spec => []NoneSkipped
<1>1. IInv => NoneSkipped
  <2> SUFFICES ASSUME IInv, NEW id \in Ids, NEW t \in Schedule[id], covered[id][t] = 0
               PROVE  /\ (store[id] # None /\ store[id].createdAt < t /\ lastSeenAt[id] # None)
                            => lastSeenAt[id] < t
                      /\ (file[id] # None /\ file[id].createdAt < t /\ file[id].lastFiredAt # None)
                            => file[id].lastFiredAt < t
    BY DEF NoneSkipped
  <2>1. /\ store[id] \in Record /\ file[id] \in Record /\ t \in Nat
        /\ Covers(store[id], id) /\ Covers(file[id], id) /\ SeenIsRecorded(id)
    BY TaskTypes DEF IInv, TaskInv, CursorsCover
  <2>2. ASSUME NEW task \in Record, Covers(task, id), task # None, task.createdAt < t,
               task.lastFiredAt # None
        PROVE  task.lastFiredAt < t
    <3>1. task.lastFiredAt \in Nat
      BY <2>2, CronAssumption DEF Record, Task, Times
    <3>2. ~ (t <= task.lastFiredAt)
      BY <2>2 DEF Covers
    <3> QED BY <2>1, <3>1, <3>2
  <2> QED BY <2>1, <2>2 DEF SeenIsRecorded
<1> QED BY <1>1, CronInvariant, PTL

\* A task whose file was removed does not come back, in memory or on disk, in
\* whatever order its writes and the session's ends fall (removeTasks, tick).
THEOREM RemovedStaysAway == Spec => []GoneStaysGone
<1>1. IInv => GoneStaysGone
  BY DEF IInv, TypeOK, TaskInv, Absent, GoneStaysGone
<1> QED BY <1>1, CronInvariant, PTL

\* CronList shows the fire that the next tick will compute, but for a cursor that
\* was ignored, which has cost a repeat (nextFireFor, tick).
THEOREM ListIsTrue == Spec => []ListTellsTheTick
<1>1. IInv => ListTellsTheTick
  <2> SUFFICES ASSUME IInv, NEW id \in Ids, store[id] # None, nextFireFor(id) # nextFireAt(id)
               PROVE  id \in seeded /\ lastSeenAt[id] = None /\ excuses[id] > 0
    BY DEF ListTellsTheTick
  <2>1. /\ lastSeenAt[id] = None /\ persisted(id) /\ id \in seeded
    BY DEF nextFireFor, nextFireAt, baseOf, seenByTick
  <2>2. store[id].lastFiredAt # None
    BY <2>1 DEF persisted
  <2> QED BY <2>1, <2>2 DEF IInv, TaskInv, IgnoredIsExcused
<1> QED BY <1>1, CronInvariant, PTL

=============================================================================
