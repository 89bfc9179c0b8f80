----------------------- MODULE BackgroundTasks_proofs -----------------------
(***************************************************************************)
(* Proofs about background tasks, for any tasks, callers and number of     *)
(* crashes.                                                                *)
(*                                                                         *)
(* A task has one end.  It goes through the queue of the task's writes, so *)
(* it is in the task file before it is announced, and every later write    *)
(* repeats it; whatever the process remembers or the records keep, an      *)
(* announcement is of the end that the file tells.  A task is silenced     *)
(* only while it runs, so never behind its announcement.  What a crash left*)
(* waiting behind a call may be announced again and wait again: none of it *)
(* comes out of there.                                                     *)
(***************************************************************************)
EXTENDS BackgroundTasks, FiniteSetTheorems, SequenceTheorems, TLAPS

USE DEF context, records

\* What waits to be written of a live task: what it was, never ahead of what it
\* is, its end from some write on, and each continuation of TaskStop once.
Pending(t, w) ==
    /\ w.info.status \in {"running", tasks[t].status}
    /\ w.then = "settle" => w.info.status # "running"
    /\ ~ tasks[t].suppressed => ~ w.info.suppressed
    /\ w.then \in Caller => caller[w.then] = [pc |-> "suppress", task |-> t]
Snapshots(t) ==
    /\ \A i \in DOMAIN writes[t] : Pending(t, writes[t][i])
    /\ \A i, j \in DOMAIN writes[t] :
          i < j /\ writes[t][i].info.status # "running" => writes[t][j].info.status # "running"
    /\ \A i, j \in DOMAIN writes[t] :
          writes[t][i].then = writes[t][j].then /\ writes[t][i].then \in Caller => i = j

\* Its file is behind it in the same way.
FileBehind(t) ==
    disk[t] # Absent =>
        /\ disk[t].status \in {"running", tasks[t].status}
        /\ disk[t].status # "running" =>
              \A i \in DOMAIN writes[t] : writes[t][i].info.status # "running"
        /\ ~ tasks[t].suppressed => ~ disk[t].suppressed

\* A task is live, or it is what its file says and nothing of it is written.
TaskInv(t) ==
    /\ Live(t) => phase = "live" /\ ghosts[t] = Absent /\ Snapshots(t) /\ FileBehind(t)
    /\ ~ Live(t) => writes[t] = <<>> /\ disk[t] = ghosts[t]
    /\ phase = "restore" => ~ Running(t)

\* An announcement, made or under way, is of the task's one end.
Scheduled(key) == Live(key[1]) \/ ghosts[key[1]] # Absent
Tells(key) ==
    /\ Live(key[1]) => tasks[key[1]].status = key[2]
    /\ key[1] \notin unsafe => disk[key[1]].status = key[2]
\* What the model is told of, now or by a replay of the records.
Mentioned == Announced \cup Elements(saved.deferred)
KeysTell ==
    /\ \A key \in scheduled : Scheduled(key) /\ Tells(key)
    /\ \A key \in Mentioned : Tells(key)
AllSilent == \A key \in Mentioned : ~ Suppressed(key[1])

\* It is in one place at most.  Among those is what waits for the results of a
\* live turn, and not what waits behind a call that a crash left.
NoRepeats(s) == \A i, j \in DOMAIN s : s[i] = s[j] => i = j
Awaited == IF pending = "live" THEN Elements(deferred) ELSE {}
Taken == Elements(history) \cup Awaited
OnePlace ==
    /\ building \subseteq scheduled /\ steered \subseteq scheduled /\ Awaited \subseteq scheduled
    /\ building \cap steered = {}
    /\ building \cap Taken = {} /\ steered \cap Taken = {}
    /\ Awaited \cap Elements(history) = {}
    /\ NoRepeats(history) /\ (pending = "live" => NoRepeats(deferred))
    /\ IsFiniteSet(steered)

\* Nothing is deferred unless results are missing.
Deferring ==
    /\ pending = "none" => deferred = <<>>
    /\ saved.pending = "none" => saved.deferred = <<>>

CallersHold ==
    \A c \in Caller :
        caller[c].pc # "idle" => caller[c].task \in Task /\ Live(caller[c].task)

IInv ==
    /\ TypeOK
    /\ \A t \in Task : TaskInv(t)
    /\ KeysTell
    /\ OnePlace
    /\ Deferring
    /\ CallersHold
    /\ AllSilent

-----------------------------------------------------------------------------
\* Sequences.

\* One more element.
LEMMA ElementsAppend ==
    ASSUME NEW S, NEW s \in Seq(S), NEW e \in S
    PROVE  /\ Elements(Append(s, e)) = Elements(s) \cup {e}
           /\ Append(s, e) \in Seq(S) /\ Len(Append(s, e)) = Len(s) + 1
<1> DEFINE r == Append(s, e)
<1>1. /\ r \in Seq(S) /\ Len(s) \in Nat /\ DOMAIN s = 1 .. Len(s)
      /\ Len(r) = Len(s) + 1 /\ DOMAIN r = 1 .. Len(s) + 1
      /\ \A i \in DOMAIN s : r[i] = s[i] /\ i \in DOMAIN r
      /\ r[Len(s) + 1] = e
  OBVIOUS
<1> HIDE DEF r
<1>2. \A i \in DOMAIN r : i \in DOMAIN s \/ i = Len(s) + 1
  BY <1>1
<1>3. Len(s) + 1 \in DOMAIN r
  BY <1>1
<1>4. Elements(r) = Elements(s) \cup {e}
  BY <1>1, <1>2, <1>3, Zenon DEF Elements
<1>5. QED
  BY <1>1, <1>4 DEF r

\* The elements of two sequences.
LEMMA ElementsConcat ==
    ASSUME NEW S, NEW s \in Seq(S), NEW u \in Seq(S)
    PROVE  /\ Elements(s \o u) = Elements(s) \cup Elements(u)
           /\ s \o u \in Seq(S) /\ Len(s \o u) = Len(s) + Len(u)
<1> DEFINE r == s \o u
<1>1. /\ r \in Seq(S) /\ Len(s) \in Nat /\ Len(u) \in Nat
      /\ DOMAIN s = 1 .. Len(s) /\ DOMAIN u = 1 .. Len(u)
      /\ Len(r) = Len(s) + Len(u) /\ DOMAIN r = 1 .. Len(s) + Len(u)
      /\ \A i \in DOMAIN s : r[i] = s[i] /\ i \in DOMAIN r
      /\ \A i \in DOMAIN u : r[Len(s) + i] = u[i] /\ Len(s) + i \in DOMAIN r
  OBVIOUS
<1> HIDE DEF r
<1>2. \A i \in DOMAIN r : i \in DOMAIN s \/ \E j \in DOMAIN u : i = Len(s) + j
  <2> SUFFICES ASSUME NEW i \in DOMAIN r, i \notin DOMAIN s
               PROVE  \E j \in DOMAIN u : i = Len(s) + j
    OBVIOUS
  <2>1. i - Len(s) \in DOMAIN u /\ i = Len(s) + (i - Len(s))
    BY <1>1
  <2>2. QED
    BY <2>1
<1>3. ASSUME NEW x \in Elements(r)
      PROVE  x \in Elements(s) \/ x \in Elements(u)
  <2>1. PICK i \in DOMAIN r : x = r[i]
    BY <1>3 DEF Elements
  <2>2. CASE i \in DOMAIN s
    BY <1>1, <2>1, <2>2, Zenon DEF Elements
  <2>3. CASE \E j \in DOMAIN u : i = Len(s) + j
    BY <1>1, <2>1, <2>3, Zenon DEF Elements
  <2>4. QED
    BY <1>2, <2>2, <2>3
<1>4. \A x \in Elements(s) : x \in Elements(r)
  BY <1>1, Zenon DEF Elements
<1>5. \A x \in Elements(u) : x \in Elements(r)
  BY <1>1, Zenon DEF Elements
<1>6. QED
  BY <1>1, <1>3, <1>4, <1>5 DEF r

\* A prefix has some of the elements, and repeats none that the whole does not.
LEMMA ElementsPrefix ==
    ASSUME NEW S, NEW s \in Seq(S), NEW n \in 0 .. Len(s)
    PROVE  /\ SubSeq(s, 1, n) \in Seq(S) /\ Len(SubSeq(s, 1, n)) = n
           /\ Elements(SubSeq(s, 1, n)) \subseteq Elements(s)
           /\ NoRepeats(s) => NoRepeats(SubSeq(s, 1, n))
<1> DEFINE r == SubSeq(s, 1, n)
<1>1. /\ r \in Seq(S) /\ Len(r) = n /\ DOMAIN r = 1 .. n
      /\ \A i \in DOMAIN r : i \in DOMAIN s /\ r[i] = s[i]
  OBVIOUS
<1> HIDE DEF r
<1>2. Elements(r) \subseteq Elements(s)
  BY <1>1, Zenon DEF Elements
<1>3. NoRepeats(s) => NoRepeats(r)
  BY <1>1, Zenon DEF NoRepeats
<1>4. QED
  BY <1>1, <1>2, <1>3 DEF r

\* Two sequences without a common element repeat none together.
LEMMA NoRepeatsConcat ==
    ASSUME NEW S, NEW s \in Seq(S), NEW u \in Seq(S), NoRepeats(s), NoRepeats(u),
           Elements(s) \cap Elements(u) = {}
    PROVE  NoRepeats(s \o u)
<1> DEFINE r == s \o u
<1>1. /\ Len(s) \in Nat /\ Len(u) \in Nat
      /\ DOMAIN s = 1 .. Len(s) /\ DOMAIN u = 1 .. Len(u)
      /\ DOMAIN r = 1 .. Len(s) + Len(u)
      /\ \A i \in DOMAIN s : r[i] = s[i]
      /\ \A i \in DOMAIN u : r[Len(s) + i] = u[i]
  OBVIOUS
<1> HIDE DEF r
<1>2. \A i \in DOMAIN s, j \in DOMAIN u : s[i] # u[j]
  BY Zenon DEF Elements
<1> SUFFICES ASSUME NEW i \in DOMAIN r, NEW j \in DOMAIN r, r[i] = r[j]
             PROVE  i = j
  BY DEF NoRepeats, r
<1>3. \A k \in DOMAIN r : k \in DOMAIN s \/ k - Len(s) \in DOMAIN u
  BY <1>1
<1>4. \A k \in DOMAIN r : k - Len(s) \in DOMAIN u => r[k] = u[k - Len(s)]
  <2> SUFFICES ASSUME NEW k \in DOMAIN r, k - Len(s) \in DOMAIN u
               PROVE  r[k] = u[k - Len(s)]
    OBVIOUS
  <2>1. k = Len(s) + (k - Len(s))
    BY <1>1
  <2>2. QED
    BY <1>1, <2>1
<1>5. CASE i \in DOMAIN s /\ j \in DOMAIN s
  BY <1>1, <1>5 DEF NoRepeats
<1>6. CASE i \in DOMAIN s /\ j - Len(s) \in DOMAIN u
  BY <1>1, <1>2, <1>4, <1>6
<1>7. CASE j \in DOMAIN s /\ i - Len(s) \in DOMAIN u
  BY <1>1, <1>2, <1>4, <1>7
<1>8. CASE i - Len(s) \in DOMAIN u /\ j - Len(s) \in DOMAIN u
  <2>1. i - Len(s) = j - Len(s)
    BY <1>4, <1>8 DEF NoRepeats
  <2>2. QED
    BY <1>1, <2>1
<1>9. QED
  BY <1>3, <1>5, <1>6, <1>7, <1>8

\* A sequence as long as the set it runs through meets each element once.
LEMMA AllInSomeOrder ==
    ASSUME NEW S, IsFiniteSet(S), NEW s \in [1 .. Cardinality(S) -> S], Elements(s) = S
    PROVE  s \in Seq(S) /\ NoRepeats(s)
<1> DEFINE n == Cardinality(S)
<1>1. n \in Nat
  BY FS_CardinalityType
<1>2. s \in Seq(S)
  BY <1>1, SeqDef
<1>3. IsFiniteSet(1 .. n) /\ Cardinality(1 .. n) = n
  BY <1>1, FS_Interval
<1>4. s \in Surjection(1 .. n, S)
  <2>1. \A x \in S : \E i \in 1 .. n : s[i] = x
    BY Zenon DEF Elements
  <2>2. QED
    BY <2>1 DEF Surjection
<1>5. s \in Injection(1 .. n, S)
  BY <1>3, <1>4, FS_SurjSameCardinalityImpliesInj
<1>6. QED
  BY <1>2, <1>5 DEF Injection, IsInjective, NoRepeats

\* A sequence of one key.
LEMMA OneKey ==
    ASSUME NEW key \in Key
    PROVE  /\ <<key>> \in Seq(Key) /\ Len(<<key>>) = 1
           /\ Elements(<<key>>) = {key} /\ NoRepeats(<<key>>)
BY DEF Elements, NoRepeats

-----------------------------------------------------------------------------
\* Entries, and what the actions change in them.

Ends == {"running"} \cup Outcomes

\* A task is never absent, and its status is one that a task can have.
LEMMA Entries ==
    /\ \A e \in Entry : /\ e # Absent
                        /\ e.status \in Ends
                        /\ e.suppressed \in BOOLEAN
    /\ \A e \in Info : /\ e # Absent
                       /\ e.status \in Status
                       /\ e.suppressed \in BOOLEAN
    /\ Absent.status = "absent"
<1>1. ASSUME NEW e \in Entry
      PROVE  e.status \in Ends /\ e.suppressed \in BOOLEAN
  BY DEF Entry, Ends
<1>2. ASSUME NEW e \in Info
      PROVE  e.status \in Status /\ e.suppressed \in BOOLEAN
  BY DEF Info
<1>3. Absent.status = "absent"
  BY DEF Absent
<1>4. "absent" \notin Ends /\ "absent" \notin Status
  BY DEF Ends, Status, Terminal, Outcomes
<1>5. QED
  BY <1>1, <1>2, <1>3, <1>4

\* What is written of a task is its status and whether it is silenced (toInfo).
LEMMA EntryInfo ==
    ASSUME NEW e \in Entry
    PROVE  /\ toInfo(e) \in Info
           /\ toInfo(e).status = e.status /\ toInfo(e).suppressed = e.suppressed
<1>1. e.status \in Ends /\ e.suppressed \in BOOLEAN
  BY Entries
<1>2. QED
  BY <1>1 DEF toInfo, Info, Ends, Status, Terminal

\* The changes that the manager makes in a task keep its type.
LEMMA EntryUpdates ==
    ASSUME NEW e \in Entry
    PROVE  /\ LET f == [e EXCEPT !.alive = FALSE]
              IN  f \in Entry /\ f.status = e.status /\ f.suppressed = e.suppressed
           /\ LET f == [e EXCEPT !.aborted = TRUE]
              IN  f \in Entry /\ f.status = e.status /\ f.suppressed = e.suppressed
           /\ LET f == [e EXCEPT !.terminalFired = TRUE]
              IN  f \in Entry /\ f.status = e.status /\ f.suppressed = e.suppressed
           /\ LET f == [e EXCEPT !.suppressed = TRUE]
              IN  f \in Entry /\ f.status = e.status /\ f.suppressed = TRUE
           /\ \A outcome \in Outcomes :
                 LET f == [e EXCEPT !.status = outcome]
                 IN  f \in Entry /\ f.status = outcome /\ f.suppressed = e.suppressed
BY DEF Entry

\* What is known of one task.
LEMMA Typed ==
    ASSUME TypeOK, NEW t \in Task
    PROVE  /\ Live(t) => tasks[t] \in Entry
           /\ ghosts[t] # Absent => ghosts[t] \in Info
           /\ disk[t] # Absent => disk[t] \in Info
           /\ writes[t] \in Seq([info : Info, then : Then])
           /\ Ended(t) => Live(t)
           /\ tasks[t].status = "running" => Live(t)
<1>1. "absent" \notin Terminal /\ "absent" # "running"
  BY DEF Terminal, Outcomes
<1>2. QED
  BY <1>1, Entries DEF TypeOK, Live, Ended

\* A task changes in place: nothing else does, and its file is not told.
Changes(t, entry) ==
    /\ tasks' = [tasks EXCEPT ![t] = entry]
    /\ writes' = writes
\* A change of a task that its file is told of.
Persists(t, entry, then) ==
    /\ tasks' = [tasks EXCEPT ![t] = entry]
    /\ writes' = [writes EXCEPT ![t] = Append(@, [info |-> toInfo(entry), then |-> then])]

\* A change in place keeps the types.
LEMMA ChangesTypes ==
    ASSUME TypeOK, NEW t \in Task, NEW entry \in Entry, Changes(t, entry)
    PROVE  /\ tasks' \in [Task -> Entry \cup {Absent}]
           /\ writes' \in [Task -> Seq([info : Info, then : Then])]
           /\ tasks'[t] = entry
           /\ \A u \in Task : u # t => tasks'[u] = tasks[u]
           /\ \A u \in Task : writes'[u] = writes[u]
<1>1. tasks \in [Task -> Entry \cup {Absent}] /\ writes \in [Task -> Seq([info : Info, then : Then])]
  BY DEF TypeOK
<1>2. QED
  BY <1>1, Zenon DEF Changes

\* So does a change that is written.
LEMMA PersistsTypes ==
    ASSUME TypeOK, NEW t \in Task, NEW entry \in Entry, NEW then \in Then,
           Persists(t, entry, then)
    PROVE  /\ tasks' \in [Task -> Entry \cup {Absent}]
           /\ writes' \in [Task -> Seq([info : Info, then : Then])]
           /\ tasks'[t] = entry
           /\ writes'[t] = Append(writes[t], [info |-> toInfo(entry), then |-> then])
           /\ \A u \in Task : u # t => tasks'[u] = tasks[u] /\ writes'[u] = writes[u]
<1> DEFINE W == [info : Info, then : Then]
           w == [info |-> toInfo(entry), then |-> then]
<1>1. tasks \in [Task -> Entry \cup {Absent}] /\ writes \in [Task -> Seq(W)]
  BY DEF TypeOK
<1>2. w \in W
  BY EntryInfo
<1>3. tasks' = [tasks EXCEPT ![t] = entry] /\ writes' = [writes EXCEPT ![t] = Append(writes[t], w)]
  BY DEF Persists
<1> HIDE DEF W, w
<1>4. writes[t] \in Seq(W)
  BY <1>1
<1>5. Append(writes[t], w) \in Seq(W)
  BY <1>2, <1>4
<1>6. /\ tasks' \in [Task -> Entry \cup {Absent}] /\ writes' \in [Task -> Seq(W)]
      /\ tasks'[t] = entry /\ writes'[t] = Append(writes[t], w)
      /\ \A u \in Task : u # t => tasks'[u] = tasks[u] /\ writes'[u] = writes[u]
  BY <1>1, <1>3, <1>5, Zenon
<1>7. QED
  BY <1>6 DEF W, w

\* settleTask ends a running task and has the end written; a task that has ended
\* keeps its end.
LEMMA Settles ==
    ASSUME TypeOK, NEW t \in Task, NEW entry \in Entry, NEW outcome \in Outcomes,
           settleTask(t, entry, outcome)
    PROVE  /\ UNCHANGED <<scheduled, building>>
           /\ \/ entry.status # "running" /\ Changes(t, entry)
              \/ entry.status # "running" /\ Persists(t, entry, "settle")
              \/ /\ entry.status = "running"
                 /\ \E e \in Entry : /\ e.status \in Outcomes /\ e.suppressed = entry.suppressed
                                     /\ Persists(t, e, "settle")
<1>1. entry.status \in Ends
  BY Entries
<1>2. entry.status \in Terminal <=> entry.status # "running"
  BY <1>1 DEF Ends, Terminal, Outcomes
<1>3. QED
  BY <1>2, EntryUpdates DEF settleTask, persistLive, Changes, Persists

-----------------------------------------------------------------------------
\* Types.

ContextTyped ==
    /\ history \in Seq(Key)
    /\ pending \in Exchange /\ deferred \in Seq(Key)
    /\ recorded \in 0 .. Len(history) /\ saved \in Saved
    /\ dropped \subseteq Task
TasksTyped ==
    /\ tasks \in [Task -> Entry \cup {Absent}]
    /\ writes \in [Task -> Seq([info : Info, then : Then])]

\* Where a call of stop goes next: a task it holds, or none.
LEMMA CallerTypes ==
    ASSUME TypeOK, NEW c \in Caller
    PROVE  /\ caller[c] \in CallerState
           /\ \A t \in Task, pc \in {"suppress", "grace", "force"} :
                 At(c, pc, t) => caller' \in [Caller -> CallerState]
           /\ caller' = [caller EXCEPT ![c] = Idle] => caller' \in [Caller -> CallerState]
           /\ caller' = [caller EXCEPT ![c].pc = "stop"] => caller' \in [Caller -> CallerState]
<1>1. caller \in [Caller -> CallerState]
  BY DEF TypeOK
<1>2. Idle \in CallerState
  BY DEF Idle, CallerState
<1>3. \A t \in Task, pc \in {"suppress", "grace", "force"} : [pc |-> pc, task |-> t] \in CallerState
  BY DEF CallerState
<1>4. [caller[c] EXCEPT !.pc = "stop"] \in CallerState
  BY <1>1 DEF CallerState
<1>5. QED
  BY <1>1, <1>2, <1>3, <1>4 DEF At

\* Stop leaves the task as it was, but for being aborted.
LEMMA Stops ==
    ASSUME TypeOK, NEW c \in Caller, NEW t \in Task, Live(t), Stop(c, t)
    PROVE  /\ Changes(t, tasks[t]) \/ Changes(t, [tasks[t] EXCEPT !.aborted = TRUE])
           /\ caller' = [caller EXCEPT ![c] = Idle] \/ At(c, "grace", t)
<1>1. tasks' = tasks => tasks' = [tasks EXCEPT ![t] = tasks[t]]
  BY DEF TypeOK
<1>2. tasks' = [tasks EXCEPT ![t].aborted = TRUE]
          => tasks' = [tasks EXCEPT ![t] = [tasks[t] EXCEPT !.aborted = TRUE]]
  OBVIOUS
<1>3. QED
  BY <1>1, <1>2 DEF Stop, Changes

\* What every step of a live process makes of one task t.
Moves(t) ==
    \/ /\ Fresh(t) /\ ~ Live(t)
       /\ \E e \in Entry : e.status = "running" /\ ~ e.suppressed /\ Persists(t, e, "nothing")
    \/ /\ Live(t)
       /\ \E e \in Entry :
             /\ e.status = tasks[t].status /\ e.suppressed = tasks[t].suppressed
             /\ \/ Changes(t, e)
                \/ e.status # "running" /\ Persists(t, e, "settle")
    \/ /\ Live(t) /\ tasks[t].status = "running"
       /\ \E e \in Entry :
             /\ e.status \in Outcomes /\ e.suppressed = tasks[t].suppressed
             /\ Persists(t, e, "settle")

\* registerTask moves a task that was not known.
LEMMA Registers ==
    ASSUME NEW t \in Task, registerTask(t)
    PROVE  Moves(t)
<1>1. \A kind \in {"process", "agent"} :
         LET e == [kind |-> kind, status |-> "running", suppressed |-> FALSE,
                   aborted |-> FALSE, alive |-> TRUE, terminalFired |-> FALSE]
         IN  e \in Entry /\ e.status = "running" /\ ~ e.suppressed
  BY DEF Entry
<1>2. QED
  BY <1>1 DEF registerTask, persistLive, Persists, Moves, Fresh

\* A settlement moves the task: it was running and ends, or it has ended.
LEMMA SettleMoves ==
    ASSUME TypeOK, NEW t \in Task, Live(t), NEW entry \in Entry, NEW outcome \in Outcomes,
           entry.status = tasks[t].status, entry.suppressed = tasks[t].suppressed,
           settleTask(t, entry, outcome)
    PROVE  Moves(t) /\ UNCHANGED <<scheduled, building>>
BY Settles DEF Moves

\* So does the end of its process, its agent or its question.
LEMMA TaskOverMoves ==
    ASSUME TypeOK, NEW t \in Task, TaskOver(t)
    PROVE  Moves(t) /\ UNCHANGED <<scheduled, building>>
<1>1. Live(t) /\ tasks[t] \in Entry
  BY Typed DEF TaskOver
<1>2. PICK outcome \in Reports(tasks[t]) : settleTask(t, [tasks[t] EXCEPT !.alive = FALSE], outcome)
  BY DEF TaskOver
<1>3. outcome \in Outcomes
  BY DEF Reports, Outcomes
<1>4. QED
  BY <1>1, <1>2, <1>3, EntryUpdates, SettleMoves

\* So does a caller that stops it ...
LEMMA StopMoves ==
    ASSUME TypeOK, NEW c \in Caller, NEW t \in Task, Live(t), Stop(c, t)
    PROVE  Moves(t)
<1>1. tasks[t] \in Entry
  BY Typed
<1>2. QED
  BY <1>1, Stops, EntryUpdates DEF Moves

\* ... and one that gives up waiting for its end.
LEMMA ProceedMoves ==
    ASSUME TypeOK, CallersHold, NEW c \in Caller, StopProceeds(c)
    PROVE  /\ caller[c].pc # "idle" /\ caller[c].pc # "suppress"
           /\ caller[c].task \in Task /\ Live(caller[c].task)
           /\ \/ Moves(caller[c].task)
              \/ UNCHANGED <<tasks, writes>>
           /\ UNCHANGED <<scheduled, building>>
           /\ \/ caller' = [caller EXCEPT ![c] = Idle]
              \/ At(c, "grace", caller[c].task)
              \/ At(c, "force", caller[c].task)
<1> DEFINE t == caller[c].task
<1>1. /\ caller[c].pc # "idle" /\ caller[c].pc # "suppress"
  BY DEF StopProceeds, StopSilenced, GraceOver, Forced
<1>2. t \in Task /\ Live(t)
  BY <1>1 DEF CallersHold
<1>3. tasks[t] \in Entry
  BY <1>2, Typed
<1>4. CASE StopSilenced(c)
  BY <1>1, <1>2, <1>4, StopMoves, Stops DEF StopSilenced
<1>5. CASE GraceOver(c)
  BY <1>1, <1>2, <1>5 DEF GraceOver
<1>6. CASE Forced(c)
  BY <1>1, <1>2, <1>3, <1>6, SettleMoves DEF Forced, Outcomes
<1>7. QED
  BY <1>4, <1>5, <1>6 DEF StopProceeds

\* Every move keeps the types.
LEMMA MovesTypes ==
    ASSUME TypeOK, NEW t \in Task, Moves(t)
    PROVE  TasksTyped'
BY ChangesTypes, PersistsTypes DEF Moves, TasksTyped, Then

-----------------------------------------------------------------------------
\* The write of a task that has come to its end.

Write == [info : Info, then : Then]

\* What the invariant says of a task with a write under way.
LEMMA Written ==
    ASSUME TypeOK, NEW t \in Task, TaskInv(t), writes[t] # <<>>
    PROVE  /\ Live(t) /\ Snapshots(t) /\ FileBehind(t) /\ phase = "live" /\ ghosts[t] = Absent
           /\ Head(writes[t]) \in Write /\ Head(writes[t]) = writes[t][1]
           /\ 1 \in DOMAIN writes[t]
           /\ Tail(writes[t]) \in Seq(Write)
           /\ \A i \in DOMAIN Tail(writes[t]) :
                 /\ i + 1 \in DOMAIN writes[t] /\ Tail(writes[t])[i] = writes[t][i + 1]
                 /\ i \in Nat /\ 1 < i + 1
<1>1. writes[t] \in Seq(Write)
  BY Typed DEF Write
<1>2. QED
  BY <1>1 DEF TaskInv

\* What fireTerminalEffects and its Schedule leave.
Fires(t) ==
    /\ tasks' = [tasks EXCEPT ![t].terminalFired = TRUE]
    /\ ~ Suppressed(t)
    /\ <<t, tasks[t].status>> \in Key
    /\ <<t, tasks[t].status>> \notin scheduled /\ <<t, tasks[t].status>> \notin Elements(history)
    /\ scheduled' = scheduled \cup {<<t, tasks[t].status>>}
    /\ building' = building \cup {<<t, tasks[t].status>>}

\* A write that is over moves the file, or fails, and its continuation runs.
LEMMA WriteEnds ==
    ASSUME TypeOK, NEW t \in Task, TaskInv(t), WriteDone(t)
    PROVE  LET w == Head(writes[t])
           IN  /\ \/ disk' = [disk EXCEPT ![t] = w.info] /\ unsafe' = unsafe
                  \/ unsafe' = unsafe \cup {t} /\ disk' = disk
               /\ writes' = [writes EXCEPT ![t] = Tail(@)]
               /\ waiting' \in [Waiter -> Task \cup {None}]
               /\ UNCHANGED <<phase, ghosts, steered, context, records, crashes>>
               /\ \/ /\ w.then = "settle" /\ tasks[t].status = w.info.status
                     /\ tasks[t].status \in Terminal
                     /\ caller' = caller
                     /\ \/ Fires(t)
                        \/ /\ tasks' = tasks \/ tasks' = [tasks EXCEPT ![t].terminalFired = TRUE]
                           /\ UNCHANGED <<scheduled, building>>
                  \/ /\ w.then \in Caller /\ caller' = [caller EXCEPT ![w.then].pc = "stop"]
                     /\ UNCHANGED <<tasks, scheduled, building>>
                  \/ w.then \notin Caller /\ UNCHANGED <<tasks, caller, scheduled, building>>
<1> DEFINE w == Head(writes[t])
<1>1. writes[t] # <<>>
  BY DEF WriteDone
<1>2. /\ Live(t) /\ w \in Write /\ Pending(t, w) /\ tasks[t] \in Entry
  BY <1>1, Written, Typed DEF Snapshots
<1>3. waiting \in [Waiter -> Task \cup {None}]
  BY DEF TypeOK
<1>4. CASE w.then = "settle"
  <2>1. tasks[t].status = w.info.status /\ tasks[t].status \in Terminal
    <3>1. tasks[t].status \in Ends
      BY <1>2, Entries
    <3>2. QED
      BY <1>2, <1>4, <3>1 DEF Pending, Ends, Terminal
  <2>2. fireTerminalEffects(t) /\ UNCHANGED caller
    BY <1>4, TaskAssumption DEF WriteDone
  <2>3. waiting' \in [Waiter -> Task \cup {None}]
    BY <1>3, <2>2 DEF fireTerminalEffects, resolveWaiters
  <2>4. <<t, tasks[t].status>> \in Key
    BY <2>1 DEF Key
  <2>5. \/ Fires(t)
        \/ /\ tasks' = tasks \/ tasks' = [tasks EXCEPT ![t].terminalFired = TRUE]
           /\ UNCHANGED <<scheduled, building>>
    BY <2>2, <2>4 DEF fireTerminalEffects, Schedule, Fires
  <2>6. QED
    BY <1>4, <2>1, <2>2, <2>3, <2>5 DEF WriteDone
<1>5. CASE w.then # "settle"
  <2>1. waiting' = waiting
    BY <1>5 DEF WriteDone
  <2>2. QED
    BY <1>3, <1>5, <2>1 DEF WriteDone
<1>6. QED
  BY <1>4, <1>5

\* It changes one task and one file, and neither status nor silence.
LEMMA WriteTypes ==
    ASSUME TypeOK, NEW t \in Task, TaskInv(t), WriteDone(t)
    PROVE  /\ TasksTyped'
           /\ tasks'[t] \in Entry /\ tasks'[t].status = tasks[t].status
           /\ tasks'[t].suppressed = tasks[t].suppressed
           /\ writes'[t] = Tail(writes[t])
           /\ \A u \in Task : u # t => /\ tasks'[u] = tasks[u] /\ writes'[u] = writes[u]
                                       /\ disk'[u] = disk[u]
           /\ disk'[t] = disk[t] \/ disk'[t] = Head(writes[t]).info
           /\ disk' \in [Task -> Info \cup {Absent}]
<1>1. /\ writes[t] # <<>> /\ writes' = [writes EXCEPT ![t] = Tail(@)]
      /\ disk' = disk \/ disk' = [disk EXCEPT ![t] = Head(writes[t]).info]
      /\ tasks' = tasks \/ tasks' = [tasks EXCEPT ![t].terminalFired = TRUE]
  BY WriteEnds DEF WriteDone, Fires
<1>2. /\ tasks \in [Task -> Entry \cup {Absent}] /\ tasks[t] \in Entry
      /\ disk \in [Task -> Info \cup {Absent}]
      /\ writes \in [Task -> Seq(Write)]
  BY <1>1, Written, Typed DEF TypeOK, Write
<1>3. Tail(writes[t]) \in Seq(Write) /\ Head(writes[t]) \in Write
  BY <1>1, Written
<1>4. Head(writes[t]).info \in Info
  BY <1>3 DEF Write
<1>5. /\ writes' \in [Task -> Seq(Write)] /\ writes'[t] = Tail(writes[t])
      /\ \A u \in Task : u # t => writes'[u] = writes[u]
  BY <1>1, <1>2, <1>3, Zenon
<1>6. /\ disk' \in [Task -> Info \cup {Absent}]
      /\ disk'[t] = disk[t] \/ disk'[t] = Head(writes[t]).info
      /\ \A u \in Task : u # t => disk'[u] = disk[u]
  BY <1>1, <1>2, <1>4
<1>7. /\ tasks' \in [Task -> Entry \cup {Absent}]
      /\ tasks'[t] \in Entry /\ tasks'[t].status = tasks[t].status
      /\ tasks'[t].suppressed = tasks[t].suppressed
      /\ \A u \in Task : u # t => tasks'[u] = tasks[u]
  <2> DEFINE e == [tasks[t] EXCEPT !.terminalFired = TRUE]
  <2>1. e \in Entry /\ e.status = tasks[t].status /\ e.suppressed = tasks[t].suppressed
    BY <1>2, EntryUpdates
  <2>2. tasks' = tasks \/ tasks' = [tasks EXCEPT ![t] = e]
    BY <1>1
  <2> HIDE DEF e
  <2>3. QED
    BY <1>2, <2>1, <2>2
<1>8. QED
  BY <1>5, <1>6, <1>7 DEF TasksTyped, Write

\* What is written of the records, with some messages that come into the context.
LEMMA RecordTypes ==
    ASSUME ContextTyped, NEW u \in Seq(Key), Record(u)
    PROVE  /\ saved' \in Saved
           /\ Elements(saved'.deferred) \subseteq Elements(deferred) \cup Elements(u)
           /\ saved'.pending = "none" => saved'.deferred = <<>>
           /\ recorded' = IF pending = "none" THEN Len(history) + Len(u) ELSE Len(history)
<1> DEFINE d == deferred \o u
<1>1. d \in Seq(Key) /\ Elements(d) = Elements(deferred) \cup Elements(u)
  BY ElementsConcat DEF ContextTyped
<1>2. <<>> \in Seq(Key) /\ Elements(<<>>) = {}
  BY DEF Elements
<1>3. pending \in Exchange /\ "none" \in Exchange
  BY DEF ContextTyped, Exchange
<1>4. saved' = IF pending = "none" THEN [pending |-> "none", deferred |-> <<>>]
                                   ELSE [pending |-> pending, deferred |-> d]
  BY DEF Record
<1> HIDE DEF d
<1>5. \A p \in Exchange, e \in Seq(Key) : [pending |-> p, deferred |-> e] \in Saved
  BY DEF Saved
<1>6. QED
  BY <1>1, <1>2, <1>3, <1>4, <1>5 DEF Record

\* Messages that come into the context, recorded or not, in part or in whole.
LEMMA AppendTypes ==
    ASSUME ContextTyped, NEW s \in Seq(Key), appendMessages(s),
           UNCHANGED records \/ \E n \in DOMAIN s : Record(SubSeq(s, 1, n))
    PROVE  ContextTyped'
<1>1. /\ history \in Seq(Key) /\ deferred \in Seq(Key) /\ pending \in Exchange
      /\ recorded \in 0 .. Len(history) /\ saved \in Saved /\ dropped \subseteq Task
      /\ Len(s) \in Nat /\ Len(history) \in Nat
  BY DEF ContextTyped
<1>2. /\ history \o s \in Seq(Key) /\ Len(history \o s) = Len(history) + Len(s)
      /\ deferred \o s \in Seq(Key)
  BY <1>1, ElementsConcat
<1>3. /\ history' \in Seq(Key) /\ deferred' \in Seq(Key)
      /\ pending' = pending /\ dropped' = dropped
      /\ IF pending = "none" THEN Len(history') = Len(history) + Len(s)
                             ELSE Len(history') = Len(history)
  BY <1>1, <1>2 DEF appendMessages
<1>4. CASE UNCHANGED records
  BY <1>1, <1>3, <1>4 DEF ContextTyped
<1>5. ASSUME NEW n \in DOMAIN s, Record(SubSeq(s, 1, n))
      PROVE  ContextTyped'
  <2>1. n \in 0 .. Len(s)
    BY <1>1
  <2>2. SubSeq(s, 1, n) \in Seq(Key) /\ Len(SubSeq(s, 1, n)) = n
    BY <2>1, ElementsPrefix
  <2>3. /\ saved' \in Saved
        /\ recorded' = IF pending = "none" THEN Len(history) + n ELSE Len(history)
    BY <1>5, <2>2, RecordTypes
  <2>4. recorded' \in 0 .. Len(history')
    BY <1>1, <1>3, <2>1, <2>3
  <2>5. QED
    BY <1>1, <1>3, <2>3, <2>4 DEF ContextTyped
<1>6. QED
  BY <1>4, <1>5

\* The other steps of the context.
LEMMA ContextStepTypes ==
    ASSUME ContextTyped, flushRecords \/ toolCall \/ toolResult \/ undoOrClear
    PROVE  ContextTyped'
<1>1. /\ history \in Seq(Key) /\ deferred \in Seq(Key) /\ pending \in Exchange
      /\ recorded \in 0 .. Len(history) /\ saved \in Saved /\ dropped \subseteq Task
      /\ Len(deferred) \in Nat /\ Len(history) \in Nat
      /\ <<>> \in Seq(Key) /\ Len(<<>>) = 0
  BY DEF ContextTyped
<1>2. CASE flushRecords
  <2>1. /\ saved' \in Saved
        /\ recorded' = IF pending = "none" THEN Len(history) + 0 ELSE Len(history)
    BY <1>1, <1>2, RecordTypes DEF flushRecords
  <2>2. recorded' \in 0 .. Len(history)
    BY <1>1, <2>1
  <2>3. QED
    BY <1>1, <1>2, <2>1, <2>2 DEF flushRecords, ContextTyped
<1>3. CASE toolCall
  BY <1>1, <1>3 DEF toolCall, ContextTyped, Exchange
<1>4. CASE toolResult
  <2>1. /\ history' \in Seq(Key) /\ Len(history') = Len(history) + Len(deferred)
    BY <1>1, <1>4, ElementsConcat DEF toolResult
  <2>2. recorded \in 0 .. Len(history')
    BY <1>1, <2>1
  <2>3. QED
    BY <1>1, <1>4, <2>1, <2>2 DEF toolResult, ContextTyped, Exchange
<1>5. CASE undoOrClear
  <2>1. TasksIn(deferred) \subseteq Task
    BY <1>1 DEF TasksIn, Key
  <2>2. QED
    BY <1>1, <1>5, <2>1 DEF undoOrClear, ContextTyped, Exchange
<1>6. QED
  BY <1>2, <1>3, <1>4, <1>5

\* Every step keeps the types.
LEMMA TypeKept ==
    ASSUME IInv, [Next]_vars
    PROVE  TypeOK'
<1>1. TypeOK /\ CallersHold /\ \A t \in Task : TaskInv(t)
  BY DEF IInv
<1>2. TypeOK <=> /\ TasksTyped
                 /\ phase \in {"live", "reconcile", "restore"}
                 /\ ghosts \in [Task -> Info \cup {Absent}]
                 /\ disk \in [Task -> Info \cup {Absent}]
                 /\ caller \in [Caller -> CallerState]
                 /\ waiting \in [Waiter -> Task \cup {None}]
                 /\ scheduled \subseteq Key /\ building \subseteq Key /\ steered \subseteq Key
                 /\ ContextTyped
                 /\ crashes \in 0 .. MaxCrashes
                 /\ unsafe \subseteq Task
  BY DEF TypeOK, TasksTyped, ContextTyped
<1>3. CASE UNCHANGED vars
  BY <1>1, <1>3 DEF vars, memory, TypeOK
<1>4. ASSUME NEW t \in Task, Moves(t),
             caller' \in [Caller -> CallerState],
             UNCHANGED <<phase, ghosts, disk, waiting, scheduled, building, steered,
                         context, records, crashes, unsafe>>
      PROVE  TypeOK'
  <2>1. TasksTyped'
    BY <1>1, <1>4, MovesTypes
  <2>2. QED
    BY <1>1, <1>4, <2>1 DEF TypeOK, TasksTyped
<1>5. ASSUME NEW t \in Task, registerTask(t) \/ TaskOver(t)
      PROVE  TypeOK'
  <2>1. caller' = caller
    BY <1>5 DEF registerTask, TaskOver
  <2>2. Moves(t)
    BY <1>1, <1>5, Registers, TaskOverMoves
  <2>3. UNCHANGED <<scheduled, building>>
    BY <1>1, <1>5, TaskOverMoves DEF registerTask
  <2>4. QED
    BY <1>1, <1>4, <1>5, <2>1, <2>2, <2>3 DEF registerTask, TaskOver, TypeOK
<1>6. ASSUME NEW t \in Task, WriteDone(t)
      PROVE  TypeOK'
  <2>1. TasksTyped' /\ disk' \in [Task -> Info \cup {Absent}]
    BY <1>1, <1>6, WriteTypes
  <2>2. /\ unsafe' \subseteq Task
        /\ waiting' \in [Waiter -> Task \cup {None}]
        /\ caller' \in [Caller -> CallerState]
        /\ scheduled' \subseteq Key /\ building' \subseteq Key
        /\ UNCHANGED <<phase, ghosts, steered, context, records, crashes>>
    <3>1. unsafe \subseteq Task /\ scheduled \subseteq Key /\ building \subseteq Key
          /\ caller \in [Caller -> CallerState]
      BY <1>1 DEF TypeOK
    <3>2. unsafe' \subseteq Task
      BY <1>1, <1>6, <3>1, WriteEnds
    <3>3. \/ caller' = caller
          \/ \E c \in Caller : caller' = [caller EXCEPT ![c].pc = "stop"]
      BY <1>1, <1>6, WriteEnds
    <3>4. caller' \in [Caller -> CallerState]
      BY <1>1, <3>1, <3>3, CallerTypes
    <3>5. \/ UNCHANGED <<scheduled, building>>
          \/ Fires(t)
      BY <1>1, <1>6, WriteEnds
    <3>6. scheduled' \subseteq Key /\ building' \subseteq Key
      BY <3>1, <3>5 DEF Fires
    <3>7. QED
      BY <1>1, <1>6, <3>2, <3>4, <3>6, WriteEnds
  <2>3. QED
    BY <1>1, <2>1, <2>2 DEF TypeOK, TasksTyped
<1>7. ASSUME NEW c \in Caller, NEW t \in Task, stop(c, t)
      PROVE  TypeOK'
  <2>1. Moves(t) /\ caller' \in [Caller -> CallerState]
    BY <1>1, <1>7, StopMoves, Stops, CallerTypes DEF stop
  <2>2. QED
    BY <1>4, <1>7, <2>1 DEF stop
<1>8. ASSUME NEW c \in Caller, NEW t \in Task, TaskStop(c, t)
      PROVE  TypeOK'
  <2>1. CASE tasks[t].suppressed
    <3>1. Moves(t) /\ caller' \in [Caller -> CallerState]
      BY <1>1, <1>8, <2>1, StopMoves, Stops, CallerTypes DEF TaskStop
    <3>2. QED
      BY <1>4, <1>8, <3>1 DEF TaskStop
  <2>2. CASE ~ tasks[t].suppressed
    <3>1. tasks[t] \in Entry
      BY <1>1, <1>8, Typed DEF TaskStop
    <3>2. [tasks[t] EXCEPT !.suppressed = TRUE] \in Entry /\ c \in Then
      BY <3>1, EntryUpdates DEF Then
    <3>3. TasksTyped'
      BY <1>1, <1>8, <2>2, <3>2, PersistsTypes DEF TaskStop, persistLive, Persists, TasksTyped
    <3>4. caller' \in [Caller -> CallerState]
      BY <1>1, <1>8, <2>2, CallerTypes DEF TaskStop
    <3>5. QED
      BY <1>1, <1>8, <3>3, <3>4 DEF TaskStop, TypeOK, TasksTyped
  <2>3. QED
    BY <2>1, <2>2
<1>9. ASSUME NEW c \in Caller, StopProceeds(c)
      PROVE  TypeOK'
  <2>1. caller' \in [Caller -> CallerState]
    BY <1>1, <1>9, ProceedMoves, CallerTypes
  <2>2. TasksTyped'
    BY <1>1, <1>9, ProceedMoves, MovesTypes DEF TypeOK, TasksTyped
  <2>3. UNCHANGED <<scheduled, building>>
    BY <1>1, <1>9, ProceedMoves
  <2>4. QED
    BY <1>1, <1>9, <2>1, <2>2, <2>3 DEF StopProceeds, TypeOK, TasksTyped
<1>10. ASSUME NEW w \in Waiter, WaitTimeout(w) \/ \E t \in Task : wait(w, t)
       PROVE  TypeOK'
  BY <1>1, <1>10 DEF WaitTimeout, wait, TypeOK
<1>11. ContextTyped
  BY <1>1, <1>2
<1>12. ASSUME NEW key \in Key, notifyBackgroundTask(key)
       PROVE  TypeOK'
  <2>1. /\ steered' \subseteq Key /\ building' \subseteq Key
    BY <1>1, <1>12 DEF notifyBackgroundTask, TypeOK
  <2>2. UNCHANGED context \/ appendMessages(<<key>>)
    BY <1>12 DEF notifyBackgroundTask
  <2>3. UNCHANGED records
    BY <1>12 DEF notifyBackgroundTask
  <2>4. ContextTyped'
    BY <1>11, <2>2, <2>3, OneKey, AppendTypes DEF ContextTyped
  <2>5. QED
    BY <1>1, <1>2, <1>12, <2>1, <2>4 DEF notifyBackgroundTask, TypeOK, ContextTyped
<1>13. CASE flushSteerBuffer
  <2>1. PICK s \in [1 .. Cardinality(steered) -> steered] :
           /\ Elements(s) = steered /\ appendMessages(s)
           /\ UNCHANGED records \/ \E n \in DOMAIN s : Record(SubSeq(s, 1, n))
    BY <1>13 DEF flushSteerBuffer
  <2>2. s \in Seq(steered) /\ steered \subseteq Key
    BY <1>1, <2>1, AllInSomeOrder DEF IInv, OnePlace, TypeOK
  <2>3. s \in Seq(Key)
    BY <2>2, SeqMonotonic
  <2>4. ContextTyped'
    <3>1. CASE UNCHANGED records
      BY <1>11, <2>1, <2>3, <3>1, AppendTypes
    <3>2. CASE \E n \in DOMAIN s : Record(SubSeq(s, 1, n))
      BY <1>11, <2>1, <2>3, <3>2, AppendTypes
    <3>3. QED
      BY <2>1, <3>1, <3>2
  <2>5. QED
    BY <1>1, <1>13, <2>4 DEF flushSteerBuffer, TypeOK, ContextTyped
<1>14. CASE flushRecords \/ toolCall \/ toolResult \/ undoOrClear
  <2>1. ContextTyped'
    BY <1>11, <1>14, ContextStepTypes
  <2>2. QED
    BY <1>1, <1>14, <2>1 DEF flushRecords, toolCall, toolResult, undoOrClear, memory, TypeOK, ContextTyped
<1>15. CASE Crash
  <2>1. ContextTyped'
    <3>1. history' \in Seq(Key) /\ recorded' \in 0 .. Len(history')
      BY <1>1, <1>15, ElementsPrefix DEF Crash, TypeOK
    <3>2. QED
      BY <1>11, <1>15, <3>1 DEF Crash, ContextTyped, Exchange, Saved
  <2>2. TasksTyped'
    BY <1>15 DEF Crash, EmptyMemory, TasksTyped
  <2>3. /\ caller' \in [Caller -> CallerState] /\ waiting' \in [Waiter -> Task \cup {None}]
        /\ scheduled' = {} /\ building' = {} /\ steered' = {}
    BY <1>15 DEF Crash, EmptyMemory, Idle, CallerState
  <2>4. /\ phase' = "reconcile" /\ ghosts' = disk /\ disk' = disk /\ unsafe' = unsafe
        /\ crashes' \in 0 .. MaxCrashes
    BY <1>1, <1>15, BoundsAssumption DEF Crash, TypeOK
  <2>5. QED
    BY <1>1, <2>1, <2>2, <2>3, <2>4 DEF TypeOK, TasksTyped, ContextTyped
<1>16. ASSUME NEW t \in Task, markLoadedTasksLost(t)
       PROVE  TypeOK'
  <2>1. ghosts[t] # Absent
    BY <1>16, Entries DEF markLoadedTasksLost, Running
  <2>2. ghosts[t] \in Info
    BY <1>1, <2>1, Typed
  <2>3. [ghosts[t] EXCEPT !.status = "lost"] \in Info
    BY <2>2 DEF Info, Status, Terminal
  <2>4. /\ ghosts' \in [Task -> Info \cup {Absent}] /\ ghosts'[t] \in Info
        /\ disk' \in [Task -> Info \cup {Absent}]
    <3>1. ghosts' = [ghosts EXCEPT ![t] = [ghosts[t] EXCEPT !.status = "lost"]]
      BY <1>16 DEF markLoadedTasksLost
    <3>2. ghosts' \in [Task -> Info \cup {Absent}] /\ ghosts'[t] \in Info
      BY <1>1, <2>3, <3>1, Zenon DEF TypeOK
    <3>3. QED
      BY <1>1, <1>16, <3>2 DEF markLoadedTasksLost, TypeOK
  <2>5. QED
    BY <1>1, <1>16, <2>4 DEF markLoadedTasksLost, TypeOK
<1>17. ASSUME NEW t \in Task, restoreBackgroundTaskNotification(t)
       PROVE  TypeOK'
  <2> DEFINE key == <<t, ghosts[t].status>>
  <2>1. ghosts[t] \in Info /\ ~ Running(t)
    BY <1>1, <1>17, Typed DEF restoreBackgroundTaskNotification, ToRestore, TaskInv
  <2>2. key \in Key
    BY <2>1, Entries DEF Key, Running, Status
  <2>3. ContextTyped'
    <3>1. appendMessages(<<key>>) /\ UNCHANGED records
      BY <1>17 DEF restoreBackgroundTaskNotification
    <3>2. QED
      BY <1>11, <2>2, <3>1, OneKey, AppendTypes
  <2>4. scheduled' \subseteq Key
    BY <1>1, <1>17, <2>2 DEF restoreBackgroundTaskNotification, TypeOK
  <2>5. QED
    BY <1>1, <1>17, <2>3, <2>4 DEF restoreBackgroundTaskNotification, TypeOK, ContextTyped
<1>18. CASE AllMarked \/ Resumed
  BY <1>1, <1>18 DEF AllMarked, Resumed, memory, TypeOK
<1>19. QED
  BY <1>3, <1>5, <1>6, <1>7, <1>8, <1>9, <1>10, <1>12, <1>13, <1>14, <1>15, <1>16, <1>17, <1>18
     DEF Next, Resume

-----------------------------------------------------------------------------
\* Each task.

\* The calls that wait for a write of t still do.
CallersFor(t) ==
    \A c \in Caller : caller[c] = [pc |-> "suppress", task |-> t] => caller'[c] = caller[c]

\* A step that leaves a task's end, its writes and its file alone.
LEMMA TaskFrame ==
    ASSUME NEW t \in Task, TaskInv(t),
           Live(t)' <=> Live(t),
           Live(t) => tasks'[t].status = tasks[t].status /\ tasks'[t].suppressed = tasks[t].suppressed,
           writes'[t] = writes[t], disk'[t] = disk[t], ghosts'[t] = ghosts[t],
           phase' = phase, CallersFor(t)
    PROVE  TaskInv(t)'
<1>1. CASE Live(t)
  <2>1. ASSUME NEW w, Pending(t, w) PROVE Pending(t, w)'
    BY <1>1, <2>1 DEF Pending, CallersFor
  <2>2. Snapshots(t)'
    BY <1>1, <2>1 DEF TaskInv, Snapshots
  <2>3. FileBehind(t)'
    BY <1>1 DEF TaskInv, FileBehind
  <2>4. QED
    BY <1>1, <2>2, <2>3 DEF TaskInv, Running
<1>2. CASE ~ Live(t)
  BY <1>2 DEF TaskInv, Running
<1>3. QED
  BY <1>1, <1>2

\* A change whose write joins the queue: the end of a task comes last, and a task
\* is silenced from then on.
LEMMA TaskPersists ==
    ASSUME TypeOK, NEW t \in Task, TaskInv(t), Live(t),
           NEW e \in Entry, NEW then \in Then, Persists(t, e, then),
           tasks[t].status \in {"running", e.status},
           tasks[t].suppressed => e.suppressed,
           then = "settle" => e.status # "running",
           then \in Caller => /\ caller[then].pc = "idle"
                              /\ caller'[then] = [pc |-> "suppress", task |-> t],
           disk'[t] = disk[t], ghosts'[t] = ghosts[t], phase' = phase, CallersFor(t)
    PROVE  TaskInv(t)'
<1> DEFINE w == [info |-> toInfo(e), then |-> then]
           n == Len(writes[t]) + 1
<1>1. /\ tasks'[t] = e /\ writes'[t] = Append(writes[t], w)
  BY PersistsTypes
<1>2. /\ w.info.status = e.status /\ w.info.suppressed = e.suppressed /\ w.then = then
  BY EntryInfo
<1>3. /\ Len(writes[t]) \in Nat /\ DOMAIN writes[t] = 1 .. Len(writes[t])
      /\ DOMAIN writes'[t] = 1 .. n /\ n \in Nat
      /\ \A i \in DOMAIN writes[t] : writes'[t][i] = writes[t][i] /\ i < n
      /\ writes'[t][n] = w
      /\ \A i \in DOMAIN writes'[t] : (i \in DOMAIN writes[t] \/ i = n) /\ i \in Nat
      /\ n \notin DOMAIN writes[t]
  <2>1. writes[t] \in Seq([info : Info, then : Then])
    BY Typed
  <2> HIDE DEF w
  <2>2. QED
    BY <1>1, <2>1
<1>4. /\ Snapshots(t) /\ FileBehind(t) /\ phase = "live" /\ ghosts[t] = Absent
  BY DEF TaskInv
<1>5. Live(t)'
  BY <1>1, Entries DEF Live
<1> HIDE DEF w, n
<1>6. ASSUME NEW i \in DOMAIN writes'[t] PROVE Pending(t, writes[t][i])'
  <2>1. CASE i \in DOMAIN writes[t]
    <3>1. Pending(t, writes[t][i]) /\ writes'[t][i] = writes[t][i]
      BY <1>3, <1>4, <2>1 DEF Snapshots
    <3>2. QED
      BY <1>1, <3>1 DEF Pending, CallersFor
  <2>2. CASE i = n
    BY <1>1, <1>2, <1>3, <2>2 DEF Pending
  <2>3. QED
    BY <1>3, <2>1, <2>2
<1>7. ASSUME NEW i \in DOMAIN writes'[t], NEW j \in DOMAIN writes'[t],
             i < j, writes'[t][i].info.status # "running"
      PROVE  writes'[t][j].info.status # "running"
  <2>1. i \in DOMAIN writes[t]
    BY <1>3, <1>7
  <2>2. CASE j \in DOMAIN writes[t]
    BY <1>3, <1>4, <1>7, <2>1, <2>2 DEF Snapshots
  <2>3. CASE j = n
    <3>1. Pending(t, writes[t][i]) /\ writes[t][i].info.status # "running"
      BY <1>3, <1>4, <1>7, <2>1 DEF Snapshots
    <3>2. QED
      BY <1>2, <1>3, <2>3, <3>1 DEF Pending
  <2>4. QED
    BY <1>3, <2>2, <2>3
<1>8. \A i \in DOMAIN writes[t] : then \in Caller => writes[t][i].then # then
  BY <1>4 DEF Snapshots, Pending
<1>9. ASSUME NEW i \in DOMAIN writes'[t], NEW j \in DOMAIN writes'[t],
             writes'[t][i].then = writes'[t][j].then, writes'[t][i].then \in Caller
      PROVE  i = j
  BY <1>2, <1>3, <1>4, <1>8, <1>9 DEF Snapshots
<1>10. Snapshots(t)'
  BY <1>6, <1>7, <1>9 DEF Snapshots
<1>11. FileBehind(t)'
  <2> SUFFICES ASSUME disk[t] # Absent
               PROVE  /\ disk[t].status \in {"running", e.status}
                      /\ disk[t].status # "running" =>
                            \A i \in DOMAIN writes'[t] : writes'[t][i].info.status # "running"
                      /\ ~ e.suppressed => ~ disk[t].suppressed
    BY <1>1 DEF FileBehind
  <2>1. /\ disk[t].status \in {"running", tasks[t].status}
        /\ disk[t].status # "running" =>
              \A i \in DOMAIN writes[t] : writes[t][i].info.status # "running"
        /\ ~ tasks[t].suppressed => ~ disk[t].suppressed
    BY <1>4 DEF FileBehind
  <2>2. QED
    BY <1>2, <1>3, <2>1
<1>12. QED
  BY <1>4, <1>5, <1>10, <1>11 DEF TaskInv

\* The first write of a task.
LEMMA TaskRegistered ==
    ASSUME TypeOK, NEW t \in Task, TaskInv(t), Fresh(t), phase = "live",
           NEW e \in Entry, e.status = "running", ~ e.suppressed, Persists(t, e, "nothing"),
           disk'[t] = disk[t], ghosts'[t] = ghosts[t], phase' = phase
    PROVE  TaskInv(t)'
<1> DEFINE w == [info |-> toInfo(e), then |-> "nothing"]
<1>1. /\ tasks'[t] = e /\ writes'[t] = Append(writes[t], w) /\ writes[t] = <<>>
  BY PersistsTypes DEF Then, TaskInv, Fresh
<1>2. /\ w.info.status = "running" /\ ~ w.info.suppressed /\ w.then = "nothing"
  BY EntryInfo
<1> HIDE DEF w
<1>3. DOMAIN writes'[t] = {1} /\ writes'[t][1] = w
  BY <1>1
<1>4. Live(t)' /\ ghosts'[t] = Absent /\ disk'[t] = Absent
  BY <1>1, Entries DEF Live, Fresh
<1>5. "nothing" \notin Caller
  BY TaskAssumption
<1>6. Snapshots(t)'
  <2>1. \A i \in DOMAIN writes'[t] : i = 1 /\ writes'[t][i] = w
    BY <1>3
  <2>2. ASSUME NEW i \in DOMAIN writes'[t] PROVE Pending(t, writes[t][i])'
    BY <1>1, <1>2, <1>5, <2>1 DEF Pending
  <2>3. QED
    BY <1>2, <2>1, <2>2 DEF Snapshots
<1>7. FileBehind(t)'
  BY <1>4 DEF FileBehind
<1>8. QED
  BY <1>4, <1>6, <1>7 DEF TaskInv

\* A change of a task keeps what its writes and its file tell of every task.
LEMMA MovesTasks ==
    ASSUME TypeOK, \A t \in Task : TaskInv(t), NEW t \in Task, Moves(t), phase = "live",
           UNCHANGED <<phase, ghosts, disk>>, \A u \in Task : CallersFor(u)
    PROVE  \A u \in Task : TaskInv(u)'
<1>1. ASSUME NEW e \in Entry, Changes(t, e)
      PROVE  /\ tasks'[t] = e
             /\ \A u \in Task : u # t => tasks'[u] = tasks[u]
             /\ \A u \in Task : writes'[u] = writes[u]
  BY <1>1, ChangesTypes
<1>2. ASSUME NEW e \in Entry, NEW then \in Then, Persists(t, e, then)
      PROVE  \A u \in Task : u # t => tasks'[u] = tasks[u] /\ writes'[u] = writes[u]
  BY <1>2, PersistsTypes
<1>3. {"nothing", "settle"} \subseteq Then
  BY DEF Then
<1>4. ASSUME NEW u \in Task, u # t PROVE TaskInv(u)'
  <2>1. tasks'[u] = tasks[u] /\ writes'[u] = writes[u]
    BY <1>1, <1>2, <1>3, <1>4 DEF Moves
  <2>2. QED
    BY <2>1, TaskFrame DEF Live
<1>5. TaskInv(t)'
  <2>1. CASE /\ Fresh(t)
             /\ \E e \in Entry : e.status = "running" /\ ~ e.suppressed /\ Persists(t, e, "nothing")
    BY <2>1, TaskRegistered
  <2>2. ASSUME Live(t), NEW e \in Entry, e.status = tasks[t].status,
               e.suppressed = tasks[t].suppressed, Changes(t, e)
        PROVE  TaskInv(t)'
    <3>1. tasks'[t] = e /\ writes'[t] = writes[t] /\ e # Absent
      BY <1>1, <2>2, Entries
    <3>2. QED
      BY <2>2, <3>1, TaskFrame DEF Live
  <2>3. ASSUME Live(t), NEW e \in Entry, tasks[t].status \in {"running", e.status},
               e.status # "running", e.suppressed = tasks[t].suppressed,
               Persists(t, e, "settle")
        PROVE  TaskInv(t)'
    BY <1>3, <2>3, TaskPersists, TaskAssumption
  <2>4. \A e \in Entry : e.status \in Outcomes => e.status # "running"
    BY DEF Outcomes
  <2>5. QED
    BY <2>1, <2>2, <2>3, <2>4 DEF Moves
<1>6. QED
  BY <1>4, <1>5

\* A write of t may only be waited for by a call of TaskStop for t.
LEMMA WriteCallers ==
    ASSUME TypeOK, NEW t \in Task, TaskInv(t), WriteDone(t)
    PROVE  /\ \A u \in Task : u # t => CallersFor(u)
           /\ \A c \in Caller : c # Head(writes[t]).then => caller'[c] = caller[c]
           /\ Head(writes[t]).then \in Caller =>
                 LET c == Head(writes[t]).then
                 IN  /\ caller[c] = [pc |-> "suppress", task |-> t]
                     /\ caller'[c].pc = "stop" /\ caller'[c].task = t
<1> DEFINE w == Head(writes[t])
<1>1. writes[t] # <<>>
  BY DEF WriteDone
<1>2. /\ Pending(t, w)
  BY <1>1, Written DEF Snapshots
<1>3. \/ caller' = caller /\ w.then \notin Caller
      \/ w.then \in Caller /\ caller' = [caller EXCEPT ![w.then].pc = "stop"]
  BY WriteEnds, TaskAssumption
<1>4. \A c \in Caller : caller[c] \in CallerState /\ caller \in [Caller -> CallerState]
  BY DEF TypeOK
<1>5. \A c \in Caller : c # w.then => caller'[c] = caller[c]
  BY <1>3, <1>4
<1>6. w.then \in Caller => caller[w.then] = [pc |-> "suppress", task |-> t]
  BY <1>2 DEF Pending
<1>7. w.then \in Caller => caller'[w.then] = [caller[w.then] EXCEPT !.pc = "stop"]
  BY <1>3, <1>4
<1>8. w.then \in Caller => caller'[w.then].pc = "stop" /\ caller'[w.then].task = t
  BY <1>6, <1>7
<1>9. ASSUME NEW u \in Task, u # t PROVE CallersFor(u)
  <2>1. [pc |-> "suppress", task |-> t] # [pc |-> "suppress", task |-> u]
    BY <1>9
  <2>2. QED
    BY <1>5, <1>6, <2>1 DEF CallersFor
<1>10. QED
  BY <1>5, <1>6, <1>8, <1>9

\* The oldest write is gone, and the file has caught up with it or has not.
LEMMA TaskWritten ==
    ASSUME TypeOK, NEW t \in Task, TaskInv(t), WriteDone(t)
    PROVE  TaskInv(t)'
<1> DEFINE w == Head(writes[t])
           r == Tail(writes[t])
<1>1. writes[t] # <<>>
  BY DEF WriteDone
<1>2. /\ Live(t) /\ Snapshots(t) /\ FileBehind(t) /\ phase = "live" /\ ghosts[t] = Absent
      /\ w = writes[t][1] /\ 1 \in DOMAIN writes[t] /\ w \in Write
      /\ \A i \in DOMAIN r : /\ i + 1 \in DOMAIN writes[t] /\ r[i] = writes[t][i + 1]
                             /\ i \in Nat /\ 1 < i + 1
  BY <1>1, Written
<1>3. /\ tasks'[t] \in Entry /\ tasks'[t].status = tasks[t].status
      /\ tasks'[t].suppressed = tasks[t].suppressed
      /\ writes'[t] = r
      /\ disk'[t] = disk[t] \/ disk'[t] = w.info
  BY WriteTypes
<1>4. /\ \A c \in Caller : c # w.then => caller'[c] = caller[c]
  BY WriteCallers
<1>5. phase' = phase /\ ghosts' = ghosts
  BY WriteEnds
<1> HIDE DEF w, r
<1>6. ASSUME NEW i \in DOMAIN r
      PROVE  /\ Pending(t, r[i]) /\ (r[i].then \in Caller => r[i].then # w.then)
             /\ w.info.status # "running" => r[i].info.status # "running"
  <2>1. 1 # i + 1 /\ 1 < i + 1
    BY <1>2
  <2>2. QED
    BY <1>2, <2>1 DEF Snapshots
<1>7. ASSUME NEW i \in DOMAIN r PROVE Pending(t, writes[t][i])'
  BY <1>3, <1>4, <1>6 DEF Pending
<1>8. \A i, j \in DOMAIN r :
         i < j /\ r[i].info.status # "running" => r[j].info.status # "running"
  BY <1>2 DEF Snapshots
<1>9. \A i, j \in DOMAIN r : r[i].then = r[j].then /\ r[i].then \in Caller => i = j
  <2> SUFFICES ASSUME NEW i \in DOMAIN r, NEW j \in DOMAIN r,
                      r[i].then = r[j].then, r[i].then \in Caller
               PROVE  i = j
    OBVIOUS
  <2>1. i + 1 = j + 1
    BY <1>2 DEF Snapshots
  <2>2. QED
    BY <1>2, <2>1
<1>10. Snapshots(t)'
  BY <1>3, <1>7, <1>8, <1>9 DEF Snapshots
<1>11. Pending(t, w)
  BY <1>2 DEF Snapshots
<1>12. FileBehind(t)'
  <2>1. CASE disk'[t] = disk[t]
    <3>1. \A i \in DOMAIN r : r[i].info.status = "running" =>
             \E j \in DOMAIN writes[t] : writes[t][j].info.status = "running"
      BY <1>2
    <3>2. QED
      BY <1>2, <1>3, <2>1, <3>1 DEF FileBehind
  <2>2. CASE disk'[t] = w.info
    BY <1>3, <1>6, <1>11, <2>2 DEF FileBehind, Pending
  <2>3. QED
    BY <1>3, <2>1, <2>2
<1>13. Live(t)'
  BY <1>3, Entries DEF Live
<1>14. QED
  BY <1>2, <1>5, <1>10, <1>12, <1>13 DEF TaskInv

\* Every step does.
LEMMA TasksKept ==
    ASSUME IInv, [Next]_vars
    PROVE  \A t \in Task : TaskInv(t)'
<1>1. TypeOK /\ CallersHold /\ \A t \in Task : TaskInv(t)
  BY DEF IInv
<1>2. caller' = caller => \A u \in Task : CallersFor(u)
  BY DEF CallersFor
<1>3. ASSUME UNCHANGED <<phase, tasks, ghosts, disk, writes>>, \A u \in Task : CallersFor(u)
      PROVE  \A u \in Task : TaskInv(u)'
  BY <1>1, <1>3, TaskFrame DEF Live
<1>4. ASSUME NEW c \in Caller, caller[c].pc # "suppress",
             \A d \in Caller : d # c => caller'[d] = caller[d]
      PROVE  \A u \in Task : CallersFor(u)
  BY <1>4 DEF CallersFor
<1>5. ASSUME NEW c \in Caller,
             \/ \E pc : \E t \in Task : At(c, pc, t)
             \/ caller' = [caller EXCEPT ![c] = Idle]
      PROVE  \A d \in Caller : d # c => caller'[d] = caller[d]
  BY <1>1, <1>5 DEF At, TypeOK
<1>6. CASE UNCHANGED vars
  BY <1>2, <1>3, <1>6 DEF vars, memory
<1>7. ASSUME NEW t \in Task, registerTask(t) \/ TaskOver(t)
      PROVE  \A u \in Task : TaskInv(u)'
  BY <1>1, <1>2, <1>7, Registers, TaskOverMoves, MovesTasks DEF registerTask, TaskOver
<1>8. ASSUME NEW t \in Task, WriteDone(t)
      PROVE  \A u \in Task : TaskInv(u)'
  <2>1. ASSUME NEW u \in Task, u # t PROVE TaskInv(u)'
    <3>1. /\ tasks'[u] = tasks[u] /\ writes'[u] = writes[u] /\ disk'[u] = disk[u]
      BY <1>1, <1>8, <2>1, WriteTypes
    <3>2. CallersFor(u) /\ ghosts' = ghosts /\ phase' = phase
      BY <1>1, <1>8, <2>1, WriteCallers, WriteEnds
    <3>3. QED
      BY <1>1, <3>1, <3>2, TaskFrame DEF Live
  <2>2. QED
    BY <1>1, <1>8, <2>1, TaskWritten
<1>9. ASSUME NEW c \in Caller, NEW t \in Task, Live(t), caller[c].pc = "idle", phase = "live",
             Stop(c, t), UNCHANGED <<phase, ghosts, disk>>
      PROVE  \A u \in Task : TaskInv(u)'
  <2>1. \A d \in Caller : d # c => caller'[d] = caller[d]
    BY <1>1, <1>5, <1>9, Stops
  <2>2. QED
    BY <1>1, <1>4, <1>9, <2>1, StopMoves, MovesTasks
<1>10. ASSUME NEW c \in Caller, NEW t \in Task, stop(c, t)
       PROVE  \A u \in Task : TaskInv(u)'
  BY <1>9, <1>10 DEF stop
<1>11. ASSUME NEW c \in Caller, NEW t \in Task, TaskStop(c, t)
       PROVE  \A u \in Task : TaskInv(u)'
  <2>1. CASE tasks[t].suppressed
    BY <1>9, <1>11, <2>1 DEF TaskStop
  <2>2. CASE ~ tasks[t].suppressed
    <3> DEFINE e == [tasks[t] EXCEPT !.suppressed = TRUE]
    <3>1. Live(t) /\ caller[c].pc = "idle" /\ phase = "live" /\ tasks[t].status = "running"
      BY <1>11 DEF TaskStop, CanSilence, runningTasks
    <3>2. e \in Entry /\ e.suppressed = TRUE /\ e.status = "running"
      BY <1>1, <3>1, Typed, EntryUpdates
    <3>3. Persists(t, e, c) /\ At(c, "suppress", t) /\ UNCHANGED <<phase, ghosts, disk>>
      BY <1>11, <2>2 DEF TaskStop, persistLive, Persists
    <3>4. caller'[c] = [pc |-> "suppress", task |-> t]
      BY <1>1, <3>3 DEF At, TypeOK
    <3>5. \A u \in Task : CallersFor(u)
      BY <1>4, <1>5, <3>1, <3>3
    <3>6. c \in Then /\ c # "settle"
      BY TaskAssumption DEF Then
    <3> HIDE DEF e
    <3>7. TaskInv(t)'
      BY <1>1, <3>1, <3>2, <3>3, <3>4, <3>5, <3>6, TaskPersists
    <3>8. ASSUME NEW u \in Task, u # t PROVE TaskInv(u)'
      <4>1. tasks'[u] = tasks[u] /\ writes'[u] = writes[u]
        BY <1>1, <3>2, <3>3, <3>6, <3>8, PersistsTypes
      <4>2. QED
        BY <1>1, <3>3, <3>5, <4>1, TaskFrame DEF Live
    <3>9. QED
      BY <3>7, <3>8
  <2>3. QED
    BY <2>1, <2>2
<1>12. ASSUME NEW c \in Caller, StopProceeds(c)
       PROVE  \A u \in Task : TaskInv(u)'
  <2>1. \A d \in Caller : d # c => caller'[d] = caller[d]
    BY <1>1, <1>5, <1>12, ProceedMoves
  <2>2. \A u \in Task : CallersFor(u)
    BY <1>1, <1>4, <1>12, <2>1, ProceedMoves
  <2>3. UNCHANGED <<phase, ghosts, disk>> /\ phase = "live"
    BY <1>12 DEF StopProceeds
  <2>4. QED
    BY <1>1, <1>3, <1>12, <2>2, <2>3, ProceedMoves, MovesTasks
<1>13. CASE \/ \E w \in Waiter : WaitTimeout(w) \/ \E t \in Task : wait(w, t)
            \/ \E key \in Key : notifyBackgroundTask(key)
            \/ flushSteerBuffer \/ flushRecords
            \/ toolCall \/ toolResult \/ undoOrClear
  BY <1>2, <1>3, <1>13 DEF WaitTimeout, wait, notifyBackgroundTask, flushSteerBuffer,
     flushRecords, toolCall, toolResult, undoOrClear, memory
<1>14. CASE Crash
  BY <1>14 DEF Crash, EmptyMemory, TaskInv, Live
<1>15. \A u \in Task : phase # "live" => ~ Live(u)
  BY <1>1 DEF TaskInv
<1>16. ASSUME NEW t \in Task, markLoadedTasksLost(t)
       PROVE  \A u \in Task : TaskInv(u)'
  <2>1. /\ phase = "reconcile" /\ UNCHANGED <<phase, tasks, writes>>
        /\ ghosts' = [ghosts EXCEPT ![t].status = "lost"]
        /\ disk' = [disk EXCEPT ![t] = ghosts'[t]]
    BY <1>16 DEF markLoadedTasksLost
  <2>2. \A u \in Task : writes[u] = <<>> /\ disk[u] = ghosts[u] /\ ~ Live(u)
    BY <1>1, <1>15, <2>1 DEF TaskInv
  <2>3. \A u \in Task : disk'[u] = ghosts'[u]
    BY <1>1, <2>1, <2>2 DEF TypeOK
  <2>4. QED
    BY <2>1, <2>2, <2>3 DEF TaskInv, Live
<1>17. ASSUME NEW t \in Task, restoreBackgroundTaskNotification(t)
       PROVE  \A u \in Task : TaskInv(u)'
  BY <1>2, <1>3, <1>17 DEF restoreBackgroundTaskNotification
<1>18. CASE AllMarked \/ Resumed
  BY <1>1, <1>15, <1>18 DEF AllMarked, Resumed, memory, TaskInv, Live, Running
<1>19. QED
  BY <1>6, <1>7, <1>8, <1>10, <1>11, <1>12, <1>13, <1>14, <1>16, <1>17, <1>18 DEF Next, Resume

-----------------------------------------------------------------------------
\* What a step other than a crash never does to a task: lose it, change its end
\* in memory or on disk, silence it once it has ended, or reuse its id.

StaysLive(t) ==
    /\ Live(t) => Live(t)'
    /\ Live(t) /\ tasks[t].status # "running" =>
          tasks'[t].status = tasks[t].status /\ tasks'[t].suppressed = tasks[t].suppressed
    /\ ~ Live(t) /\ Live(t)' => Fresh(t) /\ ~ tasks'[t].suppressed
StaysOnDisk(t) ==
    /\ disk[t].status \in Terminal => disk'[t].status = disk[t].status
    /\ ghosts'[t] = Absent <=> ghosts[t] = Absent
    /\ ghosts[t] # Absent => ghosts'[t].suppressed = ghosts[t].suppressed

\* No change brings a task back from its end.
LEMMA MovesStay ==
    ASSUME TypeOK, NEW t \in Task, Moves(t)
    PROVE  \A u \in Task : StaysLive(u)
<1>1. ASSUME NEW u \in Task, u # t PROVE StaysLive(u)
  <2>1. tasks'[u] = tasks[u]
    BY <1>1, ChangesTypes, PersistsTypes DEF Moves, Then
  <2>2. QED
    BY <2>1 DEF StaysLive, Live
<1>2. CASE /\ Fresh(t) /\ ~ Live(t)
           /\ \E e \in Entry : e.status = "running" /\ ~ e.suppressed /\ Persists(t, e, "nothing")
  <2>1. ~ tasks'[t].suppressed
    BY <1>2, PersistsTypes DEF Then
  <2>2. QED
    BY <1>1, <1>2, <2>1 DEF StaysLive
<1>3. ASSUME NEW e \in Entry, Live(t), tasks'[t] = e,
             tasks[t].status # "running" =>
                e.status = tasks[t].status /\ e.suppressed = tasks[t].suppressed
      PROVE  StaysLive(t)
  BY <1>3, Entries DEF StaysLive, Live
<1>4. CASE Live(t)
  <2>1. StaysLive(t)
    BY <1>3, <1>4, ChangesTypes, PersistsTypes DEF Moves, Fresh, Then
  <2>2. QED
    BY <1>1, <2>1
<1>5. QED
  BY <1>1, <1>2, <1>4 DEF Moves

\* Nor does any step of a live process: an end stays, in memory and in the file.
LEMMA StepStays ==
    ASSUME IInv, [Next]_vars, ~ Crash
    PROVE  /\ \A t \in Task : StaysLive(t)
           /\ \A t \in Task : StaysOnDisk(t)
           /\ unsafe \subseteq unsafe'
<1>1. TypeOK /\ CallersHold /\ \A t \in Task : TaskInv(t)
  BY DEF IInv
<1>2. tasks' = tasks => \A t \in Task : StaysLive(t)
  BY DEF StaysLive, Live
<1>3. UNCHANGED <<ghosts, disk>> => \A t \in Task : StaysOnDisk(t)
  BY DEF StaysOnDisk
<1>4. CASE /\ UNCHANGED <<ghosts, disk, unsafe>>
           /\ UNCHANGED tasks \/ \E t \in Task : Moves(t)
  BY <1>1, <1>2, <1>3, <1>4, MovesStay
<1>5. ASSUME NEW t \in Task, registerTask(t) \/ TaskOver(t)
      PROVE  UNCHANGED <<ghosts, disk, unsafe>> /\ Moves(t)
  BY <1>1, <1>5, Registers, TaskOverMoves DEF registerTask, TaskOver
<1>6. ASSUME NEW c \in Caller, NEW t \in Task, stop(c, t)
      PROVE  UNCHANGED <<ghosts, disk, unsafe>> /\ Moves(t)
  BY <1>1, <1>6, StopMoves DEF stop
<1>7. ASSUME NEW c \in Caller, StopProceeds(c)
      PROVE  /\ UNCHANGED <<ghosts, disk, unsafe>>
             /\ UNCHANGED tasks \/ \E t \in Task : Moves(t)
  BY <1>1, <1>7, ProceedMoves DEF StopProceeds
<1>8. CASE \/ \E w \in Waiter : WaitTimeout(w) \/ \E t \in Task : wait(w, t)
           \/ \E key \in Key : notifyBackgroundTask(key)
           \/ flushSteerBuffer \/ flushRecords
           \/ toolCall \/ toolResult \/ undoOrClear
           \/ \E t \in Task : restoreBackgroundTaskNotification(t)
           \/ AllMarked \/ Resumed
           \/ UNCHANGED vars
  BY <1>4, <1>8 DEF WaitTimeout, wait, notifyBackgroundTask, flushSteerBuffer, flushRecords,
     toolCall, toolResult, undoOrClear, restoreBackgroundTaskNotification, AllMarked, Resumed,
     memory, vars
<1>9. ASSUME NEW c \in Caller, NEW t \in Task, TaskStop(c, t)
      PROVE  /\ UNCHANGED <<ghosts, disk, unsafe>>
             /\ \A u \in Task : StaysLive(u)
  <2>1. UNCHANGED <<ghosts, disk, unsafe>> /\ Live(t) /\ tasks[t].status = "running"
    BY <1>9 DEF TaskStop, CanSilence, runningTasks
  <2>2. CASE tasks[t].suppressed
    BY <1>1, <1>9, <2>1, <2>2, StopMoves, MovesStay DEF TaskStop
  <2>3. CASE ~ tasks[t].suppressed
    <3> DEFINE e == [tasks[t] EXCEPT !.suppressed = TRUE]
    <3>1. e \in Entry /\ Persists(t, e, c) /\ c \in Then
      BY <1>1, <1>9, <2>1, <2>3, Typed, EntryUpdates DEF TaskStop, persistLive, Persists, Then
    <3>2. tasks'[t] = e /\ e # Absent /\ \A u \in Task : u # t => tasks'[u] = tasks[u]
      BY <1>1, <3>1, PersistsTypes, Entries
    <3> HIDE DEF e
    <3>3. QED
      BY <2>1, <3>2 DEF StaysLive, Live
  <2>4. QED
    BY <2>1, <2>2, <2>3
<1>10. ASSUME NEW t \in Task, WriteDone(t)
       PROVE  /\ \A u \in Task : StaysLive(u) /\ StaysOnDisk(u)
              /\ unsafe \subseteq unsafe'
  <2>1. /\ tasks'[t] \in Entry /\ tasks'[t].status = tasks[t].status
        /\ tasks'[t].suppressed = tasks[t].suppressed
        /\ \A u \in Task : u # t => tasks'[u] = tasks[u] /\ disk'[u] = disk[u]
        /\ disk'[t] = disk[t] \/ disk'[t] = Head(writes[t]).info
    BY <1>1, <1>10, WriteTypes
  <2>2. ghosts' = ghosts /\ unsafe \subseteq unsafe'
    BY <1>1, <1>10, WriteEnds
  <2>3. Live(t) /\ Live(t)'
    BY <1>1, <1>10, <2>1, Written, Entries DEF WriteDone, Live
  <2>4. \A u \in Task : StaysLive(u)
    BY <2>1, <2>3 DEF StaysLive, Live
  <2>5. disk[t].status \in Terminal => Head(writes[t]).info.status = disk[t].status
    <3>1. /\ Pending(t, Head(writes[t])) /\ FileBehind(t)
          /\ 1 \in DOMAIN writes[t] /\ Head(writes[t]) = writes[t][1]
      BY <1>1, <1>10, Written DEF WriteDone, Snapshots
    <3>2. "running" \notin Terminal /\ Absent.status \notin Terminal
      BY Entries DEF Terminal, Outcomes
    <3>3. QED
      BY <3>1, <3>2 DEF Pending, FileBehind
  <2>6. \A u \in Task : StaysOnDisk(u)
    BY <2>1, <2>2, <2>5 DEF StaysOnDisk
  <2>7. QED
    BY <2>2, <2>4, <2>6
<1>11. ASSUME NEW t \in Task, markLoadedTasksLost(t)
       PROVE  /\ \A u \in Task : StaysLive(u) /\ StaysOnDisk(u)
              /\ unsafe \subseteq unsafe'
  <2>1. /\ phase = "reconcile" /\ Running(t) /\ UNCHANGED <<tasks, unsafe>>
        /\ ghosts' = [ghosts EXCEPT ![t].status = "lost"]
        /\ disk' = [disk EXCEPT ![t] = ghosts'[t]]
    BY <1>11 DEF markLoadedTasksLost
  <2>2. disk[t] = ghosts[t] /\ disk[t].status \notin Terminal /\ ghosts[t] # Absent
    BY <1>1, <2>1, Entries DEF TaskInv, Running, Terminal, Outcomes
  <2>3. ghosts[t] \in Info
    BY <1>1, <2>2, Typed
  <2> DEFINE g == [ghosts[t] EXCEPT !.status = "lost"]
  <2>4. g \in Info /\ g.suppressed = ghosts[t].suppressed
    BY <2>3 DEF Info, Status, Terminal
  <2>5. /\ ghosts' = [ghosts EXCEPT ![t] = g]
        /\ \A u \in Task : u # t => disk'[u] = disk[u] /\ ghosts'[u] = ghosts[u]
        /\ ghosts'[t] = g
    BY <1>1, <2>1 DEF TypeOK
  <2> HIDE DEF g
  <2>6. \A u \in Task : StaysOnDisk(u)
    BY <2>2, <2>4, <2>5, Entries DEF StaysOnDisk
  <2>7. QED
    BY <1>2, <2>1, <2>6
<1>12. QED
  BY <1>3, <1>4, <1>5, <1>6, <1>7, <1>8, <1>9, <1>10, <1>11 DEF Next, Resume

-----------------------------------------------------------------------------
\* How an announcement travels: it is built once, then taken up or steered, or
\* restored by a resume; in the context it may wait for results.

Built(key) ==
    /\ key \in Key /\ key \notin scheduled
    /\ scheduled' = scheduled \cup {key} /\ building' = building \cup {key}
    /\ key \notin Elements(history)
    /\ UNCHANGED <<steered, context, saved>>
    /\ Scheduled(key)' /\ Tells(key)'
Hushed(key) ==
    /\ key \in building /\ building' = building \ {key}
    /\ UNCHANGED <<scheduled, steered, context, saved>>
TakenUp(key) ==
    /\ key \in building /\ building' = building \ {key} /\ ~ Suppressed(key[1])
    /\ appendMessages(<<key>>)
    /\ UNCHANGED <<scheduled, steered, saved>>
Steered(key) ==
    /\ key \in building /\ building' = building \ {key} /\ ~ Suppressed(key[1])
    /\ steered' = steered \cup {key}
    /\ UNCHANGED <<scheduled, context, saved>>
Restored(key) ==
    /\ key \in Key /\ key \notin scheduled /\ key \notin Elements(history)
    /\ ~ Suppressed(key[1])
    /\ scheduled' = scheduled \cup {key} /\ appendMessages(<<key>>)
    /\ UNCHANGED <<building, steered, saved>>
    /\ Scheduled(key)' /\ Tells(key)' /\ ~ Live(key[1])'

\* An announcement travels one place at a time, and all steered ones together.
LEMMA Travels ==
    ASSUME IInv, [Next]_vars, ~ Crash
    PROVE  \/ UNCHANGED <<scheduled, building, steered, context, saved>>
           \/ \E key \in Key : \/ Built(key)
                               \/ Hushed(key)
                               \/ TakenUp(key)
                               \/ Steered(key)
                               \/ Restored(key)
           \/ flushSteerBuffer
           \/ flushRecords \/ toolCall \/ toolResult \/ undoOrClear
<1>1. TypeOK /\ CallersHold /\ \A t \in Task : TaskInv(t)
  BY DEF IInv
<1>2. CASE \/ \E w \in Waiter : WaitTimeout(w) \/ \E t \in Task : wait(w, t)
           \/ \E t \in Task : registerTask(t) \/ TaskOver(t) \/ markLoadedTasksLost(t)
           \/ \E c \in Caller, t \in Task : stop(c, t) \/ TaskStop(c, t)
           \/ \E c \in Caller : StopProceeds(c)
           \/ AllMarked \/ Resumed
           \/ UNCHANGED vars
  BY <1>1, <1>2, TaskOverMoves, ProceedMoves
     DEF WaitTimeout, wait, registerTask, TaskOver, markLoadedTasksLost, stop, TaskStop,
         StopProceeds, AllMarked, Resumed, memory, vars
<1>3. ASSUME NEW t \in Task, WriteDone(t)
      PROVE  \/ UNCHANGED <<scheduled, building, steered, context, saved>>
             \/ \E key \in Key : Built(key)
  <2> DEFINE key == <<t, tasks[t].status>>
  <2>1. UNCHANGED <<steered, context, saved>>
    BY <1>1, <1>3, WriteEnds
  <2>2. CASE Fires(t)
    <3>1. /\ key \in Key /\ key \notin scheduled /\ key \notin Elements(history)
          /\ scheduled' = scheduled \cup {key} /\ building' = building \cup {key}
          /\ key[1] = t /\ key[2] = tasks[t].status
      BY <2>2 DEF Fires
    <3>2. tasks[t].status = Head(writes[t]).info.status
      <4>1. Head(writes[t]).then # "settle" => tasks' = tasks /\ scheduled' = scheduled
        BY <1>1, <1>3, WriteEnds
      <4>2. Head(writes[t]).then = "settle"
        BY <3>1, <4>1
      <4>3. QED
        BY <1>1, <1>3, <3>1, <4>2, WriteEnds, TaskAssumption
    <3>3. tasks'[t] \in Entry /\ tasks'[t].status = tasks[t].status
      BY <1>1, <1>3, WriteTypes
    <3>4. t \notin unsafe' => disk'[t].status = tasks[t].status
      <4>1. t \notin unsafe' => disk' = [disk EXCEPT ![t] = Head(writes[t]).info]
        BY <1>1, <1>3, WriteEnds
      <4>2. QED
        BY <1>1, <3>2, <4>1 DEF TypeOK
    <3>5. Live(t)'
      BY <3>3, Entries DEF Live
    <3>6. Scheduled(key)' /\ Tells(key)'
      BY <3>1, <3>3, <3>4, <3>5 DEF Scheduled, Tells
    <3> HIDE DEF key
    <3>7. Built(key)
      BY <2>1, <3>1, <3>6 DEF Built
    <3>8. QED
      BY <3>1, <3>7
  <2>3. CASE UNCHANGED <<scheduled, building>>
    BY <2>1, <2>3
  <2>4. QED
    BY <1>1, <1>3, <2>2, <2>3, WriteEnds
<1>4. ASSUME NEW key \in Key, notifyBackgroundTask(key)
      PROVE  Hushed(key) \/ TakenUp(key) \/ Steered(key)
  BY <1>4 DEF notifyBackgroundTask, Hushed, TakenUp, Steered
<1>5. ASSUME NEW t \in Task, restoreBackgroundTaskNotification(t)
      PROVE  \E key \in Key : Restored(key)
  <2> DEFINE key == <<t, ghosts[t].status>>
  <2>1. /\ phase = "restore" /\ ghosts[t] # Absent /\ ~ Suppressed(t)
        /\ key \notin scheduled /\ key \notin Elements(history)
        /\ scheduled' = scheduled \cup {key} /\ appendMessages(<<key>>)
        /\ UNCHANGED <<tasks, ghosts, disk, building, steered, saved, unsafe>>
    BY <1>5 DEF restoreBackgroundTaskNotification, ToRestore
  <2>2. ghosts[t] \in Info /\ ~ Running(t) /\ ~ Live(t) /\ disk[t] = ghosts[t]
    BY <1>1, <2>1, Typed DEF TaskInv
  <2>3. key \in Key /\ key[1] = t /\ key[2] = ghosts[t].status
    BY <2>2, Entries DEF Key, Running, Status
  <2>4. Scheduled(key)' /\ Tells(key)' /\ ~ Live(key[1])'
    BY <2>1, <2>2, <2>3 DEF Scheduled, Tells, Live
  <2>5. ~ Suppressed(key[1])
    BY <2>1, <2>3
  <2> HIDE DEF key
  <2>6. Restored(key)
    BY <2>1, <2>3, <2>4, <2>5 DEF Restored
  <2>7. QED
    BY <2>3, <2>6
<1>6. QED
  BY <1>2, <1>3, <1>4, <1>5 DEF Next, Resume

\* Announcements that come into the context for the first time, one after the
\* other, are there once.
LEMMA Comes ==
    ASSUME TypeOK, OnePlace, Deferring,
           NEW s \in Seq(Key), NoRepeats(s), Elements(s) \cap Taken = {}, appendMessages(s)
    PROVE  /\ Elements(history') \cup Elements(deferred')
                 = Elements(history) \cup Elements(deferred) \cup Elements(s)
           /\ Taken' \subseteq Taken \cup Elements(s)
           /\ Awaited' \subseteq Awaited \cup Elements(s)
           /\ Awaited' \cap Elements(history') = {}
           /\ NoRepeats(history') /\ (pending' = "live" => NoRepeats(deferred'))
           /\ pending' = "none" => deferred' = <<>>
<1>1. /\ history \in Seq(Key) /\ deferred \in Seq(Key)
      /\ NoRepeats(history) /\ (pending = "live" => NoRepeats(deferred))
      /\ Awaited \cap Elements(history) = {}
      /\ pending = "none" => deferred = <<>>
      /\ pending' = pending
  BY DEF TypeOK, OnePlace, Deferring, appendMessages
<1>2. /\ Elements(history \o s) = Elements(history) \cup Elements(s)
      /\ Elements(deferred \o s) = Elements(deferred) \cup Elements(s)
  BY <1>1, ElementsConcat
<1>3. CASE pending = "none"
  <2>1. history' = history \o s /\ deferred' = deferred
    BY <1>3 DEF appendMessages
  <2>2. Awaited = {} /\ Awaited' = {} /\ Elements(history) \cap Elements(s) = {}
    BY <1>1, <1>3 DEF Awaited, Taken
  <2>3. NoRepeats(history')
    BY <1>1, <2>1, <2>2, NoRepeatsConcat
  <2>4. QED
    BY <1>1, <1>2, <1>3, <2>1, <2>2, <2>3 DEF Taken
<1>4. CASE pending # "none"
  <2>1. deferred' = deferred \o s /\ history' = history
    BY <1>4 DEF appendMessages
  <2>2. pending = "live" => NoRepeats(deferred')
    <3> SUFFICES ASSUME pending = "live" PROVE NoRepeats(deferred')
      OBVIOUS
    <3>1. Elements(deferred) \cap Elements(s) = {}
      BY DEF Awaited, Taken
    <3>2. QED
      BY <1>1, <2>1, <3>1, NoRepeatsConcat
  <2>3. Awaited' \subseteq Awaited \cup Elements(s)
    BY <1>1, <1>2, <2>1 DEF Awaited
  <2>4. Elements(s) \cap Elements(history) = {}
    BY DEF Taken
  <2>5. QED
    BY <1>1, <1>2, <1>4, <2>1, <2>2, <2>3, <2>4 DEF Taken
<1>5. QED
  BY <1>3, <1>4

\* Steered announcements come into the context in some order, and the records of
\* them that are written mention no other.
LEMMA Flushed ==
    ASSUME IInv, flushSteerBuffer
    PROVE  /\ \E s \in Seq(Key) : /\ NoRepeats(s) /\ Elements(s) = steered
                                  /\ Elements(s) \cap Taken = {} /\ appendMessages(s)
           /\ Elements(saved'.deferred)
                 \subseteq Elements(saved.deferred) \cup Elements(deferred) \cup steered
           /\ saved'.pending = "none" => saved'.deferred = <<>>
           /\ steered' = {} /\ UNCHANGED <<scheduled, building>>
<1>1. PICK s \in [1 .. Cardinality(steered) -> steered] :
         /\ Elements(s) = steered /\ appendMessages(s)
         /\ UNCHANGED records \/ \E n \in DOMAIN s : Record(SubSeq(s, 1, n))
  BY DEF flushSteerBuffer
<1>2. /\ s \in Seq(steered) /\ NoRepeats(s) /\ steered \subseteq Key
      /\ steered \cap Taken = {} /\ ContextTyped /\ Deferring
  BY <1>1, AllInSomeOrder DEF IInv, OnePlace, TypeOK, ContextTyped
<1>3. s \in Seq(Key) /\ Len(s) \in Nat /\ DOMAIN s = 1 .. Len(s)
  <2>1. s \in Seq(Key)
    BY <1>2, SeqMonotonic
  <2>2. QED
    BY <2>1
<1>4. ASSUME NEW n \in DOMAIN s, Record(SubSeq(s, 1, n))
      PROVE  /\ Elements(saved'.deferred) \subseteq Elements(deferred) \cup steered
             /\ saved'.pending = "none" => saved'.deferred = <<>>
  <2>1. n \in 0 .. Len(s)
    BY <1>3
  <2>2. SubSeq(s, 1, n) \in Seq(Key) /\ Elements(SubSeq(s, 1, n)) \subseteq steered
    BY <1>1, <1>3, <2>1, ElementsPrefix
  <2>3. QED
    BY <1>2, <1>4, <2>2, RecordTypes
<1>5. QED
  BY <1>1, <1>2, <1>3, <1>4 DEF flushSteerBuffer, Deferring

\* A replay brings back only what the records mention.
LEMMA CrashMentions ==
    ASSUME IInv, Crash
    PROVE  Mentioned' \subseteq Mentioned
<1>1. history \in Seq(Key) /\ recorded \in 0 .. Len(history)
  BY DEF IInv, TypeOK
<1>2. /\ Elements(history') \subseteq Elements(history)
      /\ deferred' = saved.deferred /\ saved' = saved /\ steered' = {}
  BY <1>1, ElementsPrefix DEF Crash, EmptyMemory
<1>3. QED
  BY <1>2 DEF Mentioned, Announced

\* What is mentioned anew has been built, or is restored.
LEMMA NewlyMentioned ==
    ASSUME IInv, [Next]_vars
    PROVE  \/ Mentioned' \subseteq Mentioned
           \/ \E key \in Key : /\ Mentioned' \subseteq Mentioned \cup {key}
                               /\ TakenUp(key) \/ Steered(key) \/ Restored(key)
<1>1. /\ TypeOK /\ OnePlace /\ Deferring
      /\ history \in Seq(Key) /\ deferred \in Seq(Key) /\ recorded \in 0 .. Len(history)
  BY DEF IInv, TypeOK
<1>2. Elements(<<>>) = {} /\ <<>> \in Seq(Key)
  BY DEF Elements
<1>3. CASE Crash
  BY <1>3, CrashMentions
<1>4. CASE UNCHANGED <<scheduled, building, steered, context, saved>>
  BY <1>4 DEF Mentioned, Announced
<1>5. ASSUME NEW key \in Key, Built(key) \/ Hushed(key)
      PROVE  Mentioned' \subseteq Mentioned
  BY <1>5 DEF Mentioned, Announced, Built, Hushed
<1>6. ASSUME NEW key \in Key, Steered(key)
      PROVE  Mentioned' \subseteq Mentioned \cup {key}
  BY <1>6 DEF Mentioned, Announced, Steered
<1>7. ASSUME NEW key \in Key, TakenUp(key) \/ Restored(key)
      PROVE  Mentioned' \subseteq Mentioned \cup {key}
  <2>1. /\ appendMessages(<<key>>) /\ UNCHANGED <<steered, saved>> /\ key \notin Taken
    BY <1>1, <1>7 DEF TakenUp, Restored, OnePlace, Taken
  <2>2. Elements(history') \cup Elements(deferred') = Elements(history) \cup Elements(deferred) \cup {key}
    <3>1. Elements(<<key>>) \cap Taken = {}
      BY <2>1, OneKey
    <3>2. QED
      BY <1>1, <2>1, <3>1, OneKey, Comes
  <2>3. QED
    BY <2>1, <2>2 DEF Mentioned, Announced
<1>8. CASE flushSteerBuffer
  <2>1. PICK s \in Seq(Key) : /\ NoRepeats(s) /\ Elements(s) = steered
                              /\ Elements(s) \cap Taken = {} /\ appendMessages(s)
    BY <1>8, Flushed
  <2>2. Elements(history') \cup Elements(deferred') = Elements(history) \cup Elements(deferred) \cup steered
    BY <1>1, <2>1, Comes
  <2>3. QED
    BY <1>8, <2>2, Flushed DEF Mentioned, Announced
<1>9. CASE flushRecords
  <2>1. Elements(saved'.deferred) \subseteq Elements(deferred)
    BY <1>1, <1>2, <1>9, RecordTypes DEF flushRecords, TypeOK, ContextTyped
  <2>2. QED
    BY <1>9, <2>1 DEF flushRecords, memory, Mentioned, Announced
<1>10. CASE toolCall
  BY <1>10 DEF toolCall, memory, Mentioned, Announced
<1>11. CASE toolResult
  <2>1. Elements(history') = Elements(history) \cup Elements(deferred)
    BY <1>1, <1>11, ElementsConcat DEF toolResult
  <2>2. QED
    BY <1>2, <1>11, <2>1 DEF toolResult, memory, Mentioned, Announced
<1>12. CASE undoOrClear
  BY <1>2, <1>12 DEF undoOrClear, memory, Mentioned, Announced
<1>13. QED
  BY <1>3, <1>4, <1>5, <1>6, <1>7, <1>8, <1>9, <1>10, <1>11, <1>12, Travels

\* Every step keeps announcements to the task's one end.
LEMMA KeysKept ==
    ASSUME IInv, [Next]_vars
    PROVE  KeysTell'
<1>1. /\ TypeOK /\ KeysTell /\ \A t \in Task : TaskInv(t)
      /\ building \subseteq scheduled /\ steered \subseteq scheduled /\ OnePlace
  BY DEF IInv, OnePlace
<1>2. \A key \in Key : key[1] \in Task /\ key[2] \in Terminal
  BY DEF Key
<1>3. scheduled \subseteq Key /\ Mentioned \subseteq Key
  BY <1>1 DEF TypeOK, Mentioned, Announced, Elements, Saved
<1>4. "running" \notin Terminal
  BY DEF Terminal, Outcomes
<1>5. CASE Crash
  <2>1. /\ scheduled' = {} /\ disk' = disk /\ unsafe' = unsafe /\ \A t \in Task : ~ Live(t)'
    BY <1>5 DEF Crash, EmptyMemory, Live
  <2>2. Mentioned' \subseteq Mentioned
    BY <1>5, CrashMentions
  <2>3. QED
    BY <1>1, <1>2, <1>3, <2>1, <2>2 DEF KeysTell, Tells
<1>6. CASE ~ Crash
  <2>1. ASSUME NEW key \in Key, Tells(key),
               \/ Scheduled(key)
               \/ key \in Mentioned
        PROVE  Tells(key)'
    <3> DEFINE t == key[1]
    <3>1. t \in Task /\ key[2] \in Terminal /\ StaysLive(t) /\ StaysOnDisk(t) /\ unsafe \subseteq unsafe'
      BY <1>2, <1>6, StepStays
    <3>2. Fresh(t) /\ ~ Live(t) => ~ Scheduled(key) /\ key \notin Mentioned
      <4>1. Fresh(t) /\ ~ Live(t) => ~ Scheduled(key)
        BY DEF Fresh, Scheduled
      <4>2. Fresh(t) => key \notin Elements(history) \cup Elements(deferred) \cup Elements(saved.deferred)
        BY DEF Fresh, TasksIn, Elements
      <4>3. key \in steered => Scheduled(key)
        BY <1>1 DEF KeysTell
      <4>4. QED
        BY <4>1, <4>2, <4>3 DEF Mentioned, Announced
    <3>3. ~ Live(t) => ~ Live(t)'
      BY <2>1, <3>1, <3>2 DEF StaysLive
    <3>4. Live(t)' => tasks'[t].status = key[2]
      BY <1>4, <2>1, <3>1, <3>3 DEF StaysLive, Tells
    <3>5. t \notin unsafe' => disk'[t].status = key[2]
      BY <2>1, <3>1 DEF StaysOnDisk, Tells
    <3>6. QED
      BY <3>4, <3>5 DEF Tells
  <2>2. ASSUME NEW key \in Key, Scheduled(key)
        PROVE  Scheduled(key)'
    BY <1>2, <1>6, <2>2, StepStays DEF Scheduled, StaysLive, StaysOnDisk
  <2>3. /\ \A key \in scheduled : Scheduled(key)' /\ Tells(key)'
        /\ \A key \in Mentioned : Tells(key)'
    BY <1>1, <1>3, <2>1, <2>2 DEF KeysTell
  <2>4. \/ scheduled' = scheduled
        \/ \E key \in Key : /\ Built(key) \/ Restored(key)
                            /\ scheduled' = scheduled \cup {key}
    BY <1>6, Travels, Flushed
       DEF Built, Hushed, TakenUp, Steered, Restored, flushRecords, toolCall, toolResult,
           undoOrClear, memory
  <2>5. \A key \in scheduled' : Scheduled(key)' /\ Tells(key)'
    BY <2>3, <2>4 DEF Built, Restored
  <2>6. ASSUME NEW key \in Key, TakenUp(key) \/ Steered(key) \/ Restored(key)
        PROVE  Tells(key)'
    BY <1>1, <2>3, <2>6 DEF TakenUp, Steered, Restored
  <2>7. \A key \in Mentioned' : Tells(key)'
    BY <2>3, <2>6, NewlyMentioned
  <2>8. QED
    BY <2>5, <2>7 DEF KeysTell
<1>7. QED
  BY <1>5, <1>6

\* Every step keeps an announcement in one place.
LEMMA OnePlaceKept ==
    ASSUME IInv, [Next]_vars
    PROVE  OnePlace'
<1>1. /\ TypeOK /\ OnePlace /\ Deferring
      /\ history \in Seq(Key) /\ deferred \in Seq(Key) /\ recorded \in 0 .. Len(history)
  BY DEF IInv, TypeOK
<1>2. IsFiniteSet({}) /\ Elements(<<>>) = {} /\ NoRepeats(<<>>)
  BY FS_EmptySet DEF Elements, NoRepeats
<1>3. CASE Crash
  <2>1. NoRepeats(history')
    BY <1>1, <1>3, ElementsPrefix DEF Crash, OnePlace
  <2>2. building' = {} /\ steered' = {} /\ pending' # "live"
    BY <1>3 DEF Crash, EmptyMemory
  <2>3. QED
    BY <1>2, <2>1, <2>2 DEF OnePlace, Awaited
<1>4. CASE UNCHANGED <<scheduled, building, steered, context, saved>>
  BY <1>1, <1>4 DEF OnePlace, Taken, Awaited
<1>5. CASE flushSteerBuffer
  <2>1. PICK s \in Seq(Key) : /\ NoRepeats(s) /\ Elements(s) = steered
                              /\ Elements(s) \cap Taken = {} /\ appendMessages(s)
    BY <1>5, Flushed
  <2>2. /\ Taken' \subseteq Taken \cup steered /\ Awaited' \subseteq Awaited \cup steered
        /\ Awaited' \cap Elements(history') = {}
        /\ NoRepeats(history') /\ (pending' = "live" => NoRepeats(deferred'))
    BY <1>1, <2>1, Comes
  <2>3. steered' = {} /\ UNCHANGED <<scheduled, building>>
    BY <1>5, Flushed
  <2>4. QED
    BY <1>1, <1>2, <2>2, <2>3 DEF OnePlace
<1>6. ASSUME NEW key \in Key, Built(key)
      PROVE  OnePlace'
  <2>1. key \notin Taken /\ key \notin steered
    BY <1>1, <1>6 DEF OnePlace, Taken, Built
  <2>2. Taken' = Taken /\ Awaited' = Awaited
    BY <1>6 DEF Built, Taken, Awaited
  <2>3. QED
    BY <1>1, <1>6, <2>1, <2>2 DEF OnePlace, Built
<1>7. ASSUME NEW key \in Key, Hushed(key) \/ Steered(key)
      PROVE  OnePlace'
  <2>1. Taken' = Taken /\ Awaited' = Awaited
    BY <1>7 DEF Hushed, Steered, Taken, Awaited
  <2>2. IsFiniteSet(steered')
    BY <1>1, <1>7, FS_AddElement DEF OnePlace, Hushed, Steered
  <2>3. QED
    BY <1>1, <1>7, <2>1, <2>2 DEF OnePlace, Hushed, Steered
<1>8. ASSUME NEW key \in Key, key \notin Taken, appendMessages(<<key>>)
      PROVE  /\ Taken' \subseteq Taken \cup {key} /\ Awaited' \subseteq Awaited \cup {key}
             /\ Awaited' \cap Elements(history') = {}
             /\ NoRepeats(history') /\ (pending' = "live" => NoRepeats(deferred'))
  <2>1. Elements(<<key>>) \cap Taken = {}
    BY <1>8, OneKey
  <2>2. QED
    BY <1>1, <1>8, <2>1, OneKey, Comes
<1>9. ASSUME NEW key \in Key, TakenUp(key)
      PROVE  OnePlace'
  <2>1. key \notin Taken /\ key \notin steered /\ key \in scheduled
    BY <1>1, <1>9 DEF OnePlace, TakenUp
  <2>2. QED
    BY <1>1, <1>8, <1>9, <2>1 DEF OnePlace, TakenUp
<1>10. ASSUME NEW key \in Key, Restored(key)
       PROVE  OnePlace'
  <2>1. key \notin Taken /\ key \notin steered /\ key \notin building
    BY <1>1, <1>10 DEF OnePlace, Taken, Restored
  <2>2. QED
    BY <1>1, <1>8, <1>10, <2>1 DEF OnePlace, Restored
<1>11. CASE flushRecords
  BY <1>1, <1>11 DEF flushRecords, memory, OnePlace, Taken, Awaited
<1>12. CASE toolCall
  <2>1. deferred' = <<>> /\ history' = history /\ UNCHANGED <<scheduled, building, steered>>
    BY <1>1, <1>12 DEF toolCall, Deferring, memory
  <2>2. Awaited' = {} /\ Taken' \subseteq Taken
    BY <1>2, <2>1 DEF Awaited, Taken
  <2>3. QED
    BY <1>1, <1>2, <2>1, <2>2 DEF OnePlace
<1>13. CASE toolResult
  <2>1. /\ history' = history \o deferred /\ pending = "live" /\ pending' = "none"
        /\ UNCHANGED <<scheduled, building, steered>>
    BY <1>13 DEF toolResult, memory
  <2>2. /\ Elements(history') = Elements(history) \cup Elements(deferred)
        /\ Awaited = Elements(deferred) /\ Awaited' = {}
    BY <1>1, <2>1, ElementsConcat DEF Awaited
  <2>3. Taken' = Taken
    BY <2>2 DEF Taken
  <2>4. NoRepeats(history')
    <3>1. Elements(history) \cap Elements(deferred) = {} /\ NoRepeats(history) /\ NoRepeats(deferred)
      BY <1>1, <2>1, <2>2 DEF OnePlace
    <3>2. QED
      BY <1>1, <2>1, <3>1, NoRepeatsConcat
  <2>5. QED
    BY <1>1, <2>1, <2>2, <2>3, <2>4 DEF OnePlace
<1>14. CASE undoOrClear
  <2>1. pending' = "none" /\ history' = history /\ UNCHANGED <<scheduled, building, steered>>
    BY <1>14 DEF undoOrClear, memory
  <2>2. Awaited' = {} /\ Taken' \subseteq Taken
    BY <2>1 DEF Awaited, Taken
  <2>3. QED
    BY <1>1, <2>1, <2>2 DEF OnePlace
<1>15. QED
  BY <1>3, <1>4, <1>5, <1>6, <1>7, <1>9, <1>10, <1>11, <1>12, <1>13, <1>14, Travels

\* Every step defers only behind results that are missing.
LEMMA DeferringKept ==
    ASSUME IInv, [Next]_vars
    PROVE  Deferring'
<1>1. Deferring
  BY DEF IInv
<1>2. CASE Crash
  BY <1>1, <1>2 DEF Crash, Deferring
<1>3. CASE UNCHANGED <<scheduled, building, steered, context, saved>>
  BY <1>1, <1>3 DEF Deferring
<1>4. ASSUME NEW key \in Key, Built(key) \/ Hushed(key) \/ TakenUp(key) \/ Steered(key) \/ Restored(key)
      PROVE  Deferring'
  BY <1>1, <1>4 DEF Built, Hushed, TakenUp, Steered, Restored, appendMessages, Deferring
<1>5. CASE flushSteerBuffer
  <2>1. pending' = pending /\ (pending = "none" => deferred' = deferred)
    BY <1>5 DEF flushSteerBuffer, appendMessages
  <2>2. QED
    BY <1>1, <1>5, <2>1, Flushed DEF Deferring
<1>6. CASE flushRecords
  BY <1>1, <1>6 DEF flushRecords, Record, Deferring
<1>7. CASE toolCall \/ toolResult \/ undoOrClear
  BY <1>1, <1>7 DEF toolCall, toolResult, undoOrClear, Deferring
<1>8. QED
  BY <1>2, <1>3, <1>4, <1>5, <1>6, <1>7, Travels

\* A task is silenced only while it runs; what is announced has ended.
LEMMA SilenceKept ==
    ASSUME IInv, [Next]_vars
    PROVE  AllSilent'
<1>1. /\ TypeOK /\ OnePlace /\ KeysTell /\ AllSilent /\ \A t \in Task : TaskInv(t)
      /\ building \subseteq scheduled /\ steered \subseteq scheduled
  BY DEF IInv, OnePlace
<1>2. \A key \in Key : key[1] \in Task /\ key[2] \in Terminal
  BY DEF Key
<1>3. scheduled \subseteq Key /\ Mentioned \subseteq Key
  BY <1>1 DEF TypeOK, Mentioned, Announced, Elements, Saved
<1>4. "running" \notin Terminal
  BY DEF Terminal, Outcomes
<1>5. CASE Crash
  <2>1. ghosts' = disk /\ \A t \in Task : ~ Live(t)'
    BY <1>5 DEF Crash, EmptyMemory, Live
  <2>2. ASSUME NEW t \in Task, ~ Suppressed(t)
        PROVE  ~ Suppressed(t)'
    <3>1. disk[t] # Absent => ~ disk[t].suppressed
      <4>1. CASE Live(t)
        BY <1>1, <2>2, <4>1 DEF Suppressed, TaskInv, FileBehind
      <4>2. CASE ~ Live(t)
        BY <1>1, <2>2, <4>2 DEF Suppressed, TaskInv
      <4>3. QED
        BY <4>1, <4>2
    <3>2. QED
      BY <2>1, <3>1 DEF Suppressed
  <2>3. Mentioned' \subseteq Mentioned
    BY <1>5, CrashMentions
  <2>4. QED
    BY <1>1, <1>2, <1>3, <2>2, <2>3 DEF AllSilent
<1>6. CASE ~ Crash
  <2>1. ASSUME NEW key \in Key, Tells(key), ~ Suppressed(key[1])
        PROVE  ~ Suppressed(key[1])'
    <3> DEFINE t == key[1]
    <3>1. t \in Task /\ key[2] \in Terminal /\ StaysLive(t) /\ StaysOnDisk(t)
      BY <1>2, <1>6, StepStays
    <3>2. Live(t)' => ~ tasks'[t].suppressed
      BY <1>4, <2>1, <3>1 DEF StaysLive, Tells, Suppressed
    <3>3. ghosts'[t] # Absent => ~ ghosts'[t].suppressed
      BY <2>1, <3>1 DEF StaysOnDisk, Suppressed
    <3>4. QED
      BY <3>2, <3>3 DEF Suppressed
  <2>2. \A key \in Mentioned : ~ Suppressed(key[1])'
    BY <1>1, <1>3, <2>1 DEF KeysTell, AllSilent
  <2>3. ASSUME NEW key \in Key, Steered(key) \/ TakenUp(key)
        PROVE  ~ Suppressed(key[1])'
    <3>1. key \in scheduled /\ ~ Suppressed(key[1])
      BY <1>1, <2>3 DEF Steered, TakenUp
    <3>2. QED
      BY <1>1, <2>1, <3>1 DEF KeysTell
  <2>4. ASSUME NEW key \in Key, Restored(key)
        PROVE  ~ Suppressed(key[1])'
    <3> DEFINE t == key[1]
    <3>1. t \in Task /\ StaysOnDisk(t) /\ ~ Suppressed(t) /\ ~ Live(t)'
      BY <1>2, <1>6, <2>4, StepStays DEF Restored
    <3>2. ghosts'[t] # Absent => ~ ghosts'[t].suppressed
      BY <3>1 DEF StaysOnDisk, Suppressed
    <3>3. QED
      BY <3>1, <3>2 DEF Suppressed
  <2>5. QED
    BY <2>2, <2>3, <2>4, NewlyMentioned DEF AllSilent
<1>7. QED
  BY <1>5, <1>6

\* Every step leaves the callers of stop with a task that is live.
LEMMA CallersKept ==
    ASSUME IInv, [Next]_vars
    PROVE  CallersHold'
<1>1. TypeOK /\ CallersHold /\ \A t \in Task : TaskInv(t)
  BY DEF IInv
<1>2. CASE Crash
  BY <1>2 DEF Crash, EmptyMemory, Idle, CallersHold
<1>3. CASE ~ Crash
  <2>1. \A t \in Task : Live(t) => Live(t)'
    BY <1>3, StepStays DEF StaysLive
  <2>2. CASE caller' = caller
    BY <1>1, <2>1, <2>2 DEF CallersHold
  <2>3. ASSUME NEW c \in Caller, NEW t \in Task, Live(t),
               \A d \in Caller : d # c => caller'[d] = caller[d],
               caller'[c] = Idle \/ caller'[c].task = t
        PROVE  CallersHold'
    BY <1>1, <2>1, <2>3 DEF CallersHold, Idle
  <2>4. ASSUME NEW c \in Caller, NEW t \in Task, Live(t),
               \/ caller' = [caller EXCEPT ![c] = Idle]
               \/ \E pc : At(c, pc, t)
        PROVE  CallersHold'
    <3>1. \A d \in Caller : d # c => caller'[d] = caller[d]
      BY <1>1, <2>4 DEF At, TypeOK
    <3>2. caller'[c] = Idle \/ caller'[c].task = t
      BY <1>1, <2>4 DEF At, TypeOK
    <3>3. QED
      BY <2>3, <2>4, <3>1, <3>2
  <2>5. ASSUME NEW t \in Task, WriteDone(t)
        PROVE  CallersHold'
    <3>1. CASE Head(writes[t]).then \in Caller
      <4>1. Live(t)
        BY <1>1, <2>5, Written DEF WriteDone
      <4>2. QED
        <5> DEFINE c == Head(writes[t]).then
        <5>1. c \in Caller /\ caller'[c].task = t
          BY <1>1, <2>5, <3>1, WriteCallers
        <5>2. \A d \in Caller : d # c => caller'[d] = caller[d]
          BY <1>1, <2>5, WriteCallers
        <5> HIDE DEF c
        <5>3. QED
          BY <2>3, <4>1, <5>1, <5>2
    <3>2. CASE Head(writes[t]).then \notin Caller
      <4> DEFINE c == Head(writes[t]).then
      <4>1. \A d \in Caller : d # c => caller'[d] = caller[d]
        BY <1>1, <2>5, WriteCallers
      <4>2. c \notin Caller
        BY <3>2
      <4> HIDE DEF c
      <4>3. \A d \in Caller : caller'[d] = caller[d]
        BY <4>1, <4>2, Zenon
      <4>4. QED
        BY <1>1, <2>1, <4>3 DEF CallersHold
    <3>3. QED
      BY <3>1, <3>2
  <2>6. ASSUME NEW c \in Caller, NEW t \in Task, stop(c, t) \/ TaskStop(c, t)
        PROVE  CallersHold'
    <3>1. Live(t)
      BY <2>6 DEF stop, TaskStop
    <3>2. \/ caller' = [caller EXCEPT ![c] = Idle]
          \/ \E pc : At(c, pc, t)
      BY <1>1, <2>6, <3>1, Stops DEF stop, TaskStop
    <3>3. QED
      BY <2>4, <3>1, <3>2
  <2>7. ASSUME NEW c \in Caller, StopProceeds(c)
        PROVE  CallersHold'
    BY <1>1, <2>4, <2>7, ProceedMoves
  <2>8. QED
    BY <1>3, <2>2, <2>5, <2>6, <2>7 DEF Next, Resume, registerTask, TaskOver, WaitTimeout, wait,
       notifyBackgroundTask, flushSteerBuffer, flushRecords, toolCall, toolResult, undoOrClear,
       AllMarked, Resumed, markLoadedTasksLost,
       restoreBackgroundTaskNotification, memory, vars
<1>4. QED
  BY <1>2, <1>3

-----------------------------------------------------------------------------
\* A session without tasks satisfies the inductive invariant.
LEMMA InitIInv == Init => IInv
<1> SUFFICES ASSUME Init PROVE IInv
  OBVIOUS
<1> USE DEF Init
<1>1. \A t \in Task : tasks[t] = Absent /\ ghosts[t] = Absent /\ disk[t] = Absent /\ writes[t] = <<>>
  OBVIOUS
<1>2. TypeOK
  <2>1. tasks \in [Task -> Entry \cup {Absent}] /\ writes \in [Task -> Seq([info : Info, then : Then])]
    OBVIOUS
  <2>2. caller \in [Caller -> CallerState] /\ waiting \in [Waiter -> Task \cup {None}]
    BY DEF Idle, CallerState
  <2>3. /\ history \in Seq(Key) /\ recorded \in 0 .. Len(history) /\ crashes \in 0 .. MaxCrashes
        /\ deferred \in Seq(Key) /\ pending \in Exchange /\ saved \in Saved
    BY BoundsAssumption DEF Exchange, Saved
  <2>4. QED
    BY <2>1, <2>2, <2>3 DEF TypeOK
<1>3. \A t \in Task : TaskInv(t)
  BY <1>1 DEF TaskInv, Live
<1>4. Elements(<<>>) = {} /\ NoRepeats(<<>>) /\ saved.deferred = <<>>
  BY DEF Elements, NoRepeats
<1>5. Mentioned = {} /\ Taken = {} /\ Awaited = {}
  BY <1>4 DEF Mentioned, Announced, Taken, Awaited
<1>6. KeysTell /\ OnePlace /\ Deferring /\ AllSilent
  BY <1>4, <1>5, FS_EmptySet DEF KeysTell, OnePlace, Deferring, AllSilent
<1>7. CallersHold
  BY DEF CallersHold, Idle
<1>8. QED
  BY <1>2, <1>3, <1>6, <1>7 DEF IInv

\* Every step of the background manager keeps the inductive invariant.
LEMMA StepIInv == IInv /\ [Next]_vars => IInv'
<1> SUFFICES ASSUME IInv, [Next]_vars PROVE IInv'
  OBVIOUS
<1>1. \A t \in Task : TaskInv(t)'
  BY TasksKept
<1>2. QED
  BY <1>1, TypeKept, KeysKept, OnePlaceKept, DeferringKept, CallersKept, SilenceKept DEF IInv

\* The inductive invariant of background tasks: a task has one end, every write
\* of it and every announcement tell the same, and an announcement is in one
\* place (BackgroundManager with the resume of an agent).
THEOREM BackgroundInvariant == Spec => []IInv
BY InitIInv, StepIInv, PTL DEF Spec

\* The variables keep their types (agent/background/index.ts).
THEOREM BackgroundTypeCorrect == Spec => []TypeOK
BY BackgroundInvariant, PTL DEF IInv

\* A task that the model itself stopped is not announced to it, over any number
\* of crashes (suppressTerminalNotification).
THEOREM SilencedStaysSilent == Spec => []SilencedIsSilent
<1>1. IInv => SilencedIsSilent
  BY DEF IInv, AllSilent, Mentioned, SilencedIsSilent
<1>2. QED
  BY <1>1, BackgroundInvariant, PTL

\* The model is told of one end of a task, once, over any number of crashes,
\* unless a write of the task's file has failed (notifyBackgroundTask, reconcile).
THEOREM ToldOnce == Spec => []AnnouncedOnce
<1>1. IInv => AnnouncedOnce
  <2> SUFFICES ASSUME IInv, NEW i \in DOMAIN history, NEW j \in DOMAIN history,
                      history[i][1] = history[j][1], history[i][1] \notin unsafe
               PROVE  i = j
    BY DEF AnnouncedOnce
  <2>1. history \in Seq(Key)
    BY DEF IInv, TypeOK
  <2>2. history[i] \in Key /\ history[j] \in Key
    BY <2>1
  <2>3. Tells(history[i]) /\ Tells(history[j])
    BY DEF IInv, KeysTell, Mentioned, Announced, Elements
  <2>4. history[i][2] = history[j][2]
    BY <2>3 DEF Tells
  <2>5. history[i] = history[j]
    BY <2>2, <2>4 DEF Key
  <2>6. QED
    BY <2>5 DEF IInv, OnePlace, NoRepeats
<1>2. QED
  BY <1>1, BackgroundInvariant, PTL

=============================================================================
