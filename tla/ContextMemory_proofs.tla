------------------------ MODULE ContextMemory_proofs -------------------------
(***************************************************************************)
(* Proofs about ContextMemory, for any modes, turns, messages and          *)
(* interventions: what a provider is sent, what a replay finds, what no    *)
(* step loses, and where a switch of modes ends.                           *)
(*                                                                         *)
(* The memory and what a replay of its records builds are two values of    *)
(* one kind, which drift apart when a turn's end switches partitions.  So  *)
(* every fact about a memory is stated of any memory and used of both.     *)
(***************************************************************************)
EXTENDS ContextMemory, SequenceTheorems, FiniteSetTheorems, TLAPS

\* The mode whose partition is in use once the deferred switch is applied.
Target(m) == IF m.switch = None THEN m.active ELSE m.switch

\* Only assistants call tools, and the steps of a history, and those that are open,
\* began before step n.
Formed(x, n) ==
    /\ x.role # "assistant" => x.calls = <<>>
    /\ x.role = "assistant" => x.id < n
PartFormed(p, n) ==
    /\ \A x \in Range(p.history) : Formed(x, n)
    /\ \A x \in Range(p.deferred) : x.role \in UserRole /\ x.calls = <<>>
    /\ \A s \in p.openSteps : s < n

\* A memory that any sequence of operations may leave.
Sound(m, n) ==
    /\ m \in Memory
    /\ \A k \in Mode : PartFormed(m.part[k], n)

\* Every call of history h has its result at its place, but the calls of c, which
\* end the exchange that is open at the end of h.
Answers(h, c) ==
    \A i \in DOMAIN h : \A j \in DOMAIN h[i].calls :
       IF i + j <= Len(h)
         THEN h[i + j].role = "tool" /\ h[i + j].id = h[i].calls[j]
         ELSE i + j - Len(h) \in DOMAIN c /\ h[i].calls[j] = c[i + j - Len(h)]

Awaits(p, c) == Answers(p.history, c) /\ p.pendingResults = Range(c)

\* h ends with the message of step s, which has called c so far.
EndsWith(h, s, c) ==
    /\ h # <<>>
    /\ h[Len(h)].role = "assistant" /\ h[Len(h)].id = s /\ h[Len(h)].calls = c
    /\ \A i \in 1 .. Len(h) - 1 : h[i].role = "assistant" => h[i].id # s

\* The step of a turn in state s is open in memory m, and not undone or cleared; then
\* m waits for the turn's calls.
Open(m, s) == s.step \in Active(m).openSteps
Awaited(m, s) == IF Open(m, s) THEN s.calls ELSE <<>>

\* Memory m is where a turn in state s, the only one alive, has left it: what it
\* waits for is open in the active partition and nothing in any other, and while it
\* calls tools its message is the last.
Follows(m, s) ==
    /\ \A k \in Mode : Awaits(m.part[k], IF k = m.active THEN Awaited(m, s) ELSE <<>>)
    /\ \A k \in Mode : k # m.active => s.step \notin m.part[k].openSteps
    /\ s.pc \in {"step", "calls"} /\ Open(m, s) =>
          EndsWith(Active(m).history, s.step, s.calls)

\* The calls of a turn that still wait for results: distinct, and only in a step.
InStep == {"step", "calls", "results"}
TurnFormed(s, n) ==
    /\ s \in TurnState
    /\ s.pc \notin {"calls", "results"} => s.calls = <<>>
    /\ s.pc \notin InStep => s.step = 0
    /\ s.pc = "calls" => s.calls # <<>>
    /\ \A i \in DOMAIN s.calls : s.calls[i] < n
    /\ \A i, j \in DOMAIN s.calls : s.calls[i] = s.calls[j] => i = j

CompactionFormed(c) == c \in Compaction /\ c.count <= Len(c.original)

Alone(t) == \A u \in Turn \ {t} : ~ Alive(u)

\* The memory l and the replay d agree on whether the step of a turn in state s is
\* open, and where steps were kept it is.
Followed(l, d, kept, s) ==
    /\ Follows(l, s) /\ Follows(d, s)
    /\ s.pc \in InStep => (Open(l, s) <=> Open(d, s)) /\ (kept => Open(l, s))

\* What the loss of intact ends.
InOrder ==
    /\ stepsKept => ~ disk.threw
    /\ \A t, u \in Turn : Alive(t) /\ Alive(u) => t = u
    /\ \A t \in Turn : Alone(t) => Followed(live, disk, stepsKept, turn[t])

\* The memory aims at the mode of the session, but at the normal one while a mode is
\* being entered; a replay always aims at its mode.
Aimed ==
    /\ Target(disk) = disk.mode
    /\ ~ overtaken =>
          /\ Target(live) = IF Entering THEN "normal" ELSE live.mode
          /\ \A k \in Mode : entering[k] > 0 => entering[k] = 1 /\ live.mode = k

Counters ==
    /\ activeTurn \in Turn \cup {None}
    /\ nextId \in 1 .. MaxIds + 1 /\ acts \in 0 .. MaxActs
    /\ entering \in [Mode -> Nat]
    /\ intact \in BOOLEAN /\ stepsKept \in BOOLEAN /\ overtaken \in BOOLEAN
Turns ==
    /\ turn \in [Turn -> TurnState]
    /\ \A t \in Turn : TurnFormed(turn[t], nextId)
Compactions ==
    /\ compaction \in [Mode -> Compaction]
    /\ \A k \in Mode : CompactionFormed(compaction[k])

IInv ==
    /\ Sound(live, nextId) /\ Sound(disk, nextId)
    /\ Counters /\ Turns /\ Compactions
    /\ Aimed
    /\ intact => InOrder

-----------------------------------------------------------------------------
\* Histories of which some messages are kept.

\* How many positions are counted is a number, and the counted set is finite.
LEMMA RankType ==
    ASSUME NEW S \in SUBSET Nat, IsFiniteSet(S), NEW i
    PROVE  IsFiniteSet({j \in S : j < i}) /\ Rank(S, i) \in Nat /\ Cardinality(S) \in Nat
<1>1. {j \in S : j < i} \in SUBSET S
  OBVIOUS
<1>2. QED
  BY <1>1, FS_Subset, FS_CardinalityType DEF Rank

\* A later position has a greater rank, and no rank exceeds the count.
LEMMA RankGrows ==
    ASSUME NEW S \in SUBSET Nat, IsFiniteSet(S), NEW i \in S
    PROVE  /\ Rank(S, i) \in 0 .. Cardinality(S) - 1
           /\ \A j \in S : i < j => Rank(S, i) < Rank(S, j)
<1> DEFINE Before(j) == {x \in S : x < j}
<1>1. \A j : IsFiniteSet(Before(j)) /\ Rank(S, j) = Cardinality(Before(j)) /\ Rank(S, j) \in Nat
  BY RankType DEF Rank
<1>2. Cardinality(Before(i) \cup {i}) = Rank(S, i) + 1 /\ IsFiniteSet(Before(i) \cup {i})
  <2>1. i \notin Before(i)
    OBVIOUS
  <2> HIDE DEF Before
  <2>2. QED
    BY <1>1, <2>1, FS_AddElement
<1>3. Cardinality(S) \in Nat
  BY FS_CardinalityType
<1>4. Rank(S, i) + 1 <= Cardinality(S)
  <2>1. Before(i) \cup {i} \in SUBSET S
    OBVIOUS
  <2>2. QED
    BY <1>2, <2>1, FS_Subset
<1>5. ASSUME NEW j \in S, i < j PROVE Rank(S, i) < Rank(S, j)
  <2>1. i \in Nat /\ j \in Nat /\ \A x \in S : x \in Nat
    OBVIOUS
  <2>2. \A x \in S : x < i => x < j
    BY <1>5, <2>1
  <2>3. Before(i) \cup {i} \in SUBSET Before(j)
    BY <1>5, <2>2
  <2> HIDE DEF Before
  <2>4. Cardinality(Before(i) \cup {i}) <= Cardinality(Before(j))
    BY <1>1, <2>3, FS_Subset
  <2>5. QED
    BY <1>1, <1>2, <2>4
<1> HIDE DEF Before
<1>6. Rank(S, i) \in 0 .. Cardinality(S) - 1
  BY <1>1, <1>3, <1>4
<1>7. QED
  BY <1>5, <1>6

\* Every rank is that of one position.
LEMMA RankOnto ==
    ASSUME NEW S \in SUBSET Nat, IsFiniteSet(S), NEW n \in 0 .. Cardinality(S) - 1
    PROVE  \E i \in S : Rank(S, i) = n
<1> DEFINE T == 0 .. Cardinality(S) - 1
           f == [i \in S |-> Rank(S, i)]
<1>1. Cardinality(S) \in Nat
  BY FS_CardinalityType
<1>2. f \in [S -> T]
  BY RankGrows
<1>3. ASSUME NEW i \in S, NEW j \in S, f[i] = f[j] PROVE i = j
  <2>1. Rank(S, i) = Rank(S, j) /\ Rank(S, i) \in Nat
    BY <1>3, RankType
  <2>2. ~ (i < j) /\ ~ (j < i)
    BY <2>1, RankGrows
  <2>3. QED
    BY <2>2
<1>4. f \in Injection(S, T)
  BY <1>2, <1>3 DEF Injection, IsInjective
<1>5. IsFiniteSet(T) /\ Cardinality(T) = Cardinality(S)
  BY <1>1, FS_Interval
<1> HIDE DEF f, T
<1>6. f \in Surjection(S, T)
  BY <1>4, <1>5, FS_Injection
<1>7. \E i \in S : f[i] = n
  BY <1>6 DEF Surjection, T
<1>8. QED
  BY <1>7 DEF f

\* What Keeping holds: at the rank of each kept position the message there, and
\* nothing else.
LEMMA KeepingIs ==
    ASSUME NEW h, NEW S \in SUBSET Nat, IsFiniteSet(S)
    PROVE  /\ Cardinality(S) \in Nat
           /\ DOMAIN Keeping(h, S) = 1 .. Cardinality(S)
           /\ \A i \in S : /\ Rank(S, i) + 1 \in 1 .. Cardinality(S)
                           /\ Keeping(h, S)[Rank(S, i) + 1] = h[i]
           /\ \A n \in 1 .. Cardinality(S) : \E i \in S : n = Rank(S, i) + 1
<1>1. Cardinality(S) \in Nat
  BY FS_CardinalityType
<1>2. DOMAIN Keeping(h, S) = 1 .. Cardinality(S)
  BY DEF Keeping
<1>3. ASSUME NEW i \in S
      PROVE  /\ Rank(S, i) + 1 \in 1 .. Cardinality(S)
             /\ Keeping(h, S)[Rank(S, i) + 1] = h[i]
  <2>1. Rank(S, i) \in 0 .. Cardinality(S) - 1
    BY RankGrows
  <2>2. Rank(S, i) + 1 \in 1 .. Cardinality(S) /\ (Rank(S, i) + 1) - 1 = Rank(S, i)
    BY <1>1, <2>1
  <2>3. ASSUME NEW j \in S, Rank(S, j) = Rank(S, i) PROVE j = i
    <3>1. Rank(S, i) \in Nat
      BY RankType
    <3>2. ~ (i < j) /\ ~ (j < i)
      BY <2>3, <3>1, RankGrows
    <3>3. QED
      BY <3>2
  <2>4. (CHOOSE j \in S : Rank(S, j) = (Rank(S, i) + 1) - 1) = i
    BY <2>2, <2>3
  <2>5. QED
    BY <2>2, <2>4 DEF Keeping
<1>4. ASSUME NEW n \in 1 .. Cardinality(S) PROVE \E i \in S : n = Rank(S, i) + 1
  <2>1. n - 1 \in 0 .. Cardinality(S) - 1
    BY <1>1
  <2>2. PICK i \in S : Rank(S, i) = n - 1
    BY <2>1, RankOnto
  <2>3. QED
    BY <2>2
<1>5. QED
  BY <1>1, <1>2, <1>3, <1>4

\* Positions of a sequence are a finite set of numbers.
LEMMA Positions ==
    ASSUME NEW X, NEW h \in Seq(X), NEW S \in SUBSET DOMAIN h
    PROVE  S \in SUBSET Nat /\ IsFiniteSet(S)
<1>1. DOMAIN h = 1 .. Len(h) /\ Len(h) \in Nat
  BY LenProperties
<1>2. IsFiniteSet(1 .. Len(h))
  BY <1>1, FS_Interval
<1>3. QED
  BY <1>1, <1>2, FS_Subset

\* What is kept of a sequence is a sequence of its elements.
LEMMA KeepingSeq ==
    ASSUME NEW X, NEW h \in Seq(X), NEW S \in SUBSET DOMAIN h
    PROVE  /\ Keeping(h, S) \in Seq(X)
           /\ Len(Keeping(h, S)) = Cardinality(S)
           /\ \A n \in DOMAIN Keeping(h, S) : \E i \in S : Keeping(h, S)[n] = h[i]
<1>1. S \in SUBSET Nat /\ IsFiniteSet(S)
  BY Positions
<1> DEFINE r == Keeping(h, S)
<1>2. Cardinality(S) \in Nat /\ DOMAIN r = 1 .. Cardinality(S)
  BY <1>1, KeepingIs
<1>3. \A n \in DOMAIN r : \E i \in S : r[n] = h[i]
  BY <1>1, KeepingIs
<1>4. \A i \in S : h[i] \in X
  BY ElementOfSeq, LenProperties
<1>5. \A n \in 1 .. Cardinality(S) : r[n] \in X
  BY <1>2, <1>3, <1>4
<1>6. r = [n \in 1 .. Cardinality(S) |-> r[n]]
  BY DEF Keeping
<1> HIDE DEF r
<1>7. r \in Seq(X) /\ Len(r) = Cardinality(S)
  BY <1>2, <1>5, <1>6, IsASeq, SMT
<1>8. QED
  BY <1>3, <1>7 DEF r

\* Positions that follow one another without a gap keep their distance.
LEMMA RankAcross ==
    ASSUME NEW S \in SUBSET Nat, IsFiniteSet(S), NEW i \in S, NEW j \in Nat,
           \A k \in 0 .. j : i + k \in S
    PROVE  Rank(S, i + j) = Rank(S, i) + j
<1>1. i \in Nat
  OBVIOUS
<1> DEFINE A == {x \in S : x < i}
           B == i .. i + j - 1
<1>2. {x \in S : x < i + j} = A \cup B
  <2>1. \A x \in B : x \in S /\ x < i + j
    <3>1. ASSUME NEW x \in B PROVE x \in S /\ x < i + j
      <4>1. x - i \in 0 .. j /\ i + (x - i) = x /\ x < i + j
        BY <1>1
      <4>2. QED
        BY <4>1
    <3>2. QED
      BY <3>1
  <2>2. \A x \in S : x < i + j => x < i \/ x \in B
    BY <1>1
  <2>3. \A x \in A : x \in S /\ x < i + j
    BY <1>1
  <2>4. QED
    BY <2>1, <2>2, <2>3
<1>3. A \cap B = {}
  BY <1>1
<1>4. IsFiniteSet(A) /\ Cardinality(A) \in Nat /\ Cardinality(A) = Rank(S, i)
  BY RankType DEF Rank
<1>5. IsFiniteSet(B) /\ Cardinality(B) = j
  BY <1>1, FS_Interval
<1>6. Rank(S, i + j) = Cardinality(A \cup B)
  BY <1>2 DEF Rank
<1> HIDE DEF A, B
<1>7. Cardinality(A \cup B) = Cardinality(A) + Cardinality(B) - Cardinality(A \cap B)
  BY <1>4, <1>5, FS_Union
<1>8. Cardinality(A \cap B) = 0
  BY <1>3, FS_EmptySet
<1>9. QED
  BY <1>4, <1>5, <1>6, <1>7, <1>8

-----------------------------------------------------------------------------
\* Sequences.

\* A sequence with one more element.
LEMMA Grown ==
    ASSUME NEW X, NEW s \in Seq(X), NEW e \in X
    PROVE  /\ Append(s, e) \in Seq(X) /\ Append(s, e) # <<>>
           /\ Len(s) \in Nat /\ Len(Append(s, e)) = Len(s) + 1
           /\ DOMAIN s = 1 .. Len(s) /\ DOMAIN Append(s, e) = 1 .. Len(s) + 1
           /\ \A i \in 1 .. Len(s) : Append(s, e)[i] = s[i]
           /\ Append(s, e)[Len(s) + 1] = e
BY AppendProperties, LenProperties

\* A sequence behind another.
LEMMA Joined ==
    ASSUME NEW X, NEW s \in Seq(X), NEW r \in Seq(X)
    PROVE  /\ s \o r \in Seq(X)
           /\ Len(s) \in Nat /\ Len(r) \in Nat /\ Len(s \o r) = Len(s) + Len(r)
           /\ DOMAIN s = 1 .. Len(s) /\ DOMAIN r = 1 .. Len(r)
           /\ DOMAIN (s \o r) = 1 .. Len(s) + Len(r)
           /\ \A i \in 1 .. Len(s) : (s \o r)[i] = s[i]
           /\ \A i \in 1 .. Len(r) : (s \o r)[Len(s) + i] = r[i]
<1>1. Len(s) \in Nat /\ Len(r) \in Nat /\ s \o r \in Seq(X) /\ Len(s \o r) = Len(s) + Len(r)
      /\ DOMAIN s = 1 .. Len(s) /\ DOMAIN r = 1 .. Len(r)
  BY ConcatProperties, LenProperties
<1>2. DOMAIN (s \o r) = 1 .. Len(s) + Len(r)
  BY <1>1, LenProperties
<1>3. \A i \in 1 .. Len(s) + Len(r) :
         (s \o r)[i] = IF i <= Len(s) THEN s[i] ELSE r[i - Len(s)]
  BY ConcatProperties
<1>4. \A i \in 1 .. Len(s) : (s \o r)[i] = s[i]
  BY <1>1, <1>3
<1>5. ASSUME NEW i \in 1 .. Len(r) PROVE (s \o r)[Len(s) + i] = r[i]
  <2>1. /\ Len(s) + i \in 1 .. Len(s) + Len(r) /\ ~ (Len(s) + i <= Len(s))
        /\ (Len(s) + i) - Len(s) = i
    BY <1>1
  <2>2. QED
    BY <1>3, <2>1
<1>6. QED
  BY <1>1, <1>2, <1>4, <1>5

\* A sequence without its first element.
LEMMA Shortened ==
    ASSUME NEW X, NEW s \in Seq(X), s # <<>>
    PROVE  /\ Tail(s) \in Seq(X) /\ Len(s) \in Nat \ {0} /\ Len(Tail(s)) = Len(s) - 1
           /\ DOMAIN s = 1 .. Len(s) /\ DOMAIN Tail(s) = 1 .. Len(s) - 1
           /\ \A i \in 1 .. Len(s) - 1 : Tail(s)[i] = s[i + 1]
           /\ Head(s) = s[1] /\ Head(s) \in X
<1>1. Len(s) \in Nat \ {0} /\ DOMAIN s = 1 .. Len(s)
  BY EmptySeq, LenProperties
<1>2. /\ Tail(s) \in Seq(X) /\ Len(Tail(s)) = Len(s) - 1 /\ Head(s) \in X
      /\ \A i \in 1 .. Len(Tail(s)) : Tail(s)[i] = s[i + 1]
  BY HeadTailProperties
<1>3. DOMAIN Tail(s) = 1 .. Len(s) - 1
  BY <1>2, LenProperties
<1>4. QED
  BY <1>1, <1>2, <1>3

\* Nothing is the sequence of no elements.
LEMMA Nothing ==
    /\ \A X : <<>> \in Seq(X)
    /\ Len(<<>>) = 0 /\ DOMAIN <<>> = {} /\ Range(<<>>) = {}
    /\ \A X : \A s \in Seq(X) : Range(s) = {} => s = <<>>
<1>1. Len(<<>>) = 0 /\ DOMAIN <<>> = {} /\ Range(<<>>) = {} /\ \A X : <<>> \in Seq(X)
  BY DEF Range
<1>2. ASSUME NEW X, NEW s \in Seq(X), Range(s) = {} PROVE s = <<>>
  <2>1. DOMAIN s = {} /\ DOMAIN s = 1 .. Len(s) /\ Len(s) \in Nat
    BY <1>2, LenProperties DEF Range
  <2>2. ~ (1 <= Len(s))
    BY <2>1
  <2>3. s = <<>> \/ Len(s) \in Nat \ {0}
    BY EmptySeq
  <2>4. QED
    BY <2>1, <2>2, <2>3
<1>3. QED
  BY <1>1, <1>2

-----------------------------------------------------------------------------
\* The operations of a partition.

Roles == UserRole \cup {"assistant", "tool", "summary"}

\* A message with no calls is a message.
LEMMA MessageIs ==
    ASSUME NEW role \in Roles, NEW id \in Id
    PROVE  /\ Message(role, id) \in Msg
           /\ Message(role, id).role = role /\ Message(role, id).id = id
           /\ Message(role, id).calls = <<>>
BY Nothing DEF Message, Msg, Roles

\* The fields of a message and of a partition.
LEMMA MsgFields ==
    ASSUME NEW x \in Msg
    PROVE  x.role \in Roles /\ x.id \in Id /\ x.calls \in Seq(Id)
BY DEF Msg, Roles

\* The fields of a partition.
LEMMA PartFields ==
    ASSUME NEW p \in Part
    PROVE  /\ p.history \in Seq(Msg) /\ p.deferred \in Seq(Msg)
           /\ p.openSteps \in SUBSET Id /\ p.pendingResults \in SUBSET Id
           /\ Len(p.history) \in Nat /\ DOMAIN p.history = 1 .. Len(p.history)
           /\ Len(p.deferred) \in Nat /\ DOMAIN p.deferred = 1 .. Len(p.deferred)
           /\ \A i \in DOMAIN p.history : p.history[i] \in Msg
           /\ \A i \in DOMAIN p.deferred : p.deferred[i] \in Msg
<1>1. /\ p.history \in Seq(Msg) /\ p.deferred \in Seq(Msg)
      /\ p.openSteps \in SUBSET Id /\ p.pendingResults \in SUBSET Id
  BY DEF Part
<1>2. QED
  BY <1>1, LenProperties, ElementOfSeq

\* The messages of a history, and those that a partition holds.
IdsOf(h) == {x.id : x \in Range(h)}
PartIds(p) == IdsOf(p.history) \cup IdsOf(p.deferred)

\* The elements of sequences that are put together.
LEMMA Elements ==
    ASSUME NEW X, NEW s \in Seq(X), NEW r \in Seq(X)
    PROVE  /\ Range(s) \in SUBSET X
           /\ Range(s \o r) = Range(s) \cup Range(r)
           /\ \A e \in X : Range(Append(s, e)) = Range(s) \cup {e}
           /\ IdsOf(s \o r) = IdsOf(s) \cup IdsOf(r)
           /\ \A e \in X : IdsOf(Append(s, e)) = IdsOf(s) \cup {e.id}
<1>1. Range(s) \in SUBSET X
  BY ElementOfSeq, LenProperties DEF Range
<1>2. Range(s \o r) = Range(s) \cup Range(r)
  BY RangeConcatenation
<1>3. ASSUME NEW e \in X PROVE Range(Append(s, e)) = Range(s) \cup {e}
  <2>1. Append(s, e) = s \o <<e>> /\ <<e>> \in Seq(X)
    BY AppendIsConcat
  <2>2. Range(<<e>>) = {e}
    BY DEF Range
  <2>3. \A r1 \in Seq(X) : Range(s \o r1) = Range(s) \cup Range(r1)
    BY RangeConcatenation
  <2>4. Range(s \o <<e>>) = Range(s) \cup Range(<<e>>)
    BY <2>1, <2>3, Zenon
  <2>5. QED
    BY <2>1, <2>2, <2>4, Zenon
<1>4. QED
  BY <1>1, <1>2, <1>3 DEF IdsOf

\* What stands in a history and what waits may be read off one after the other.
LEMMA IdsOfPart ==
    ASSUME NEW p \in Part
    PROVE  {x.id : x \in Range(p.history \o p.deferred)} = PartIds(p)
BY PartFields, Elements DEF PartIds, IdsOf

\* What is formed stays formed as the numbers grow.
LEMMA FormedLater ==
    ASSUME NEW p \in Part, NEW n \in Nat, NEW l \in Nat, n <= l, PartFormed(p, n)
    PROVE  PartFormed(p, l)
<1>1. ASSUME NEW x \in Range(p.history) PROVE Formed(x, l)
  <2>1. Formed(x, n) /\ x \in Msg
    BY PartFields, Elements DEF PartFormed
  <2>2. x.id \in Nat
    BY <2>1, MsgFields DEF Id
  <2>3. QED
    BY <2>1, <2>2 DEF Formed
<1>2. \A s \in p.openSteps : s < l
  <2>1. \A s \in p.openSteps : s < n /\ s \in Nat
    BY PartFields DEF PartFormed, Id
  <2>2. QED
    BY <2>1
<1>3. QED
  BY <1>1, <1>2 DEF PartFormed

\* An exchange that is over stays so when messages without calls follow.
LEMMA AnswersJoined ==
    ASSUME NEW h \in Seq(Msg), NEW g \in Seq(Msg), Answers(h, <<>>),
           \A i \in DOMAIN g : g[i].calls = <<>>
    PROVE  Answers(h \o g, <<>>)
<1> USE Nothing
<1>1. SUFFICES ASSUME NEW i \in DOMAIN (h \o g), NEW j \in DOMAIN (h \o g)[i].calls
               PROVE  /\ i + j <= Len(h \o g)
                      /\ (h \o g)[i + j].role = "tool"
                      /\ (h \o g)[i + j].id = (h \o g)[i].calls[j]
  BY DEF Answers
<1>2. /\ Len(h) \in Nat /\ Len(g) \in Nat /\ Len(h \o g) = Len(h) + Len(g)
      /\ DOMAIN h = 1 .. Len(h) /\ DOMAIN g = 1 .. Len(g)
      /\ DOMAIN (h \o g) = 1 .. Len(h) + Len(g)
      /\ \A l \in 1 .. Len(h) : (h \o g)[l] = h[l]
      /\ \A l \in 1 .. Len(g) : (h \o g)[Len(h) + l] = g[l]
  BY Joined
<1>3. i <= Len(h)
  <2>1. SUFFICES ASSUME ~ (i <= Len(h)) PROVE FALSE
    OBVIOUS
  <2>2. i - Len(h) \in 1 .. Len(g) /\ Len(h) + (i - Len(h)) = i
    BY <1>2, <2>1
  <2>3. (h \o g)[i].calls = <<>>
    BY <1>2, <2>2
  <2>4. QED
    BY <1>1, <2>3
<1>4. i \in DOMAIN h /\ (h \o g)[i] = h[i]
  BY <1>2, <1>3
<1>5. j \in DOMAIN h[i].calls /\ j \in Nat \ {0}
  <2>1. h[i] \in Msg
    BY <1>2, <1>4, ElementOfSeq
  <2>2. DOMAIN h[i].calls = 1 .. Len(h[i].calls) /\ Len(h[i].calls) \in Nat
    BY <2>1, MsgFields, LenProperties
  <2>3. QED
    BY <1>1, <1>4, <2>2
<1>6. i + j <= Len(h) /\ h[i + j].role = "tool" /\ h[i + j].id = h[i].calls[j]
  BY <1>4, <1>5 DEF Answers
<1>7. i + j \in 1 .. Len(h)
  BY <1>2, <1>4, <1>5, <1>6
<1>8. QED
  BY <1>2, <1>4, <1>6, <1>7

\* The position and the number of a call.
LEMMA CallAt ==
    ASSUME NEW h \in Seq(Msg), NEW i \in DOMAIN h
    PROVE  /\ Len(h) \in Nat /\ DOMAIN h = 1 .. Len(h)
           /\ h[i] \in Msg /\ h[i].calls \in Seq(Id) /\ Len(h[i].calls) \in Nat
           /\ DOMAIN h[i].calls = 1 .. Len(h[i].calls)
           /\ \A j \in DOMAIN h[i].calls : j \in Nat \ {0} /\ i + j \in Nat
<1>1. Len(h) \in Nat /\ DOMAIN h = 1 .. Len(h) /\ h[i] \in Msg
  BY LenProperties, ElementOfSeq
<1>2. h[i].calls \in Seq(Id)
  BY <1>1, MsgFields
<1>3. Len(h[i].calls) \in Nat /\ DOMAIN h[i].calls = 1 .. Len(h[i].calls)
  BY <1>2, LenProperties
<1>4. QED
  BY <1>1, <1>2, <1>3

\* The result of the first awaited call takes its place.
LEMMA ResultAnswers ==
    ASSUME NEW h \in Seq(Msg), NEW c \in Seq(Id), c # <<>>, Answers(h, c),
           NEW x \in Msg, x.role = "tool", x.id = Head(c), x.calls = <<>>
    PROVE  Answers(Append(h, x), Tail(c))
<1> DEFINE g == Append(h, x)
           N == Len(h)
<1>1. /\ N \in Nat /\ Len(g) = N + 1 /\ DOMAIN h = 1 .. N /\ DOMAIN g = 1 .. N + 1
      /\ \A i \in 1 .. N : g[i] = h[i]
      /\ g[N + 1] = x
  BY Grown
<1>2. /\ Len(c) \in Nat \ {0} /\ DOMAIN c = 1 .. Len(c) /\ DOMAIN Tail(c) = 1 .. Len(c) - 1
      /\ \A i \in 1 .. Len(c) - 1 : Tail(c)[i] = c[i + 1]
      /\ Head(c) = c[1]
  BY Shortened
<1> HIDE DEF g
<1>3. SUFFICES ASSUME NEW i \in DOMAIN g, NEW j \in DOMAIN g[i].calls
               PROVE  IF i + j <= Len(g)
                        THEN g[i + j].role = "tool" /\ g[i + j].id = g[i].calls[j]
                        ELSE /\ i + j - Len(g) \in DOMAIN Tail(c)
                             /\ g[i].calls[j] = Tail(c)[i + j - Len(g)]
  BY DEF Answers, g
<1>4. i \in 1 .. N
  BY <1>1, <1>3, Nothing
<1>5. g[i] = h[i] /\ i \in DOMAIN h /\ j \in DOMAIN h[i].calls
  BY <1>1, <1>3, <1>4
<1>6. j \in Nat \ {0}
  BY <1>5, CallAt
<1>7. IF i + j <= N THEN h[i + j].role = "tool" /\ h[i + j].id = h[i].calls[j]
                    ELSE i + j - N \in DOMAIN c /\ h[i].calls[j] = c[i + j - N]
  BY <1>5 DEF Answers
<1>8. CASE i + j <= N
  <2>1. i + j \in 1 .. N /\ i + j <= Len(g)
    BY <1>1, <1>4, <1>6, <1>8
  <2>2. g[i + j] = h[i + j]
    BY <1>1, <2>1
  <2>3. QED
    BY <1>5, <1>7, <1>8, <2>1, <2>2
<1>9. CASE i + j = N + 1
  <2>1. i + j <= Len(g) /\ ~ (i + j <= N) /\ i + j - N = 1
    BY <1>1, <1>4, <1>6, <1>9
  <2>2. g[i + j] = x
    BY <1>1, <1>9
  <2>3. h[i].calls[j] = Head(c)
    BY <1>2, <1>7, <2>1
  <2>4. QED
    BY <1>5, <2>1, <2>2, <2>3
<1>10. CASE i + j > N + 1
  <2>1. ~ (i + j <= N) /\ ~ (i + j <= Len(g))
    BY <1>1, <1>4, <1>6, <1>10
  <2>2. i + j - N \in 1 .. Len(c) /\ h[i].calls[j] = c[i + j - N]
    BY <1>2, <1>7, <2>1
  <2>3. i + j - Len(g) \in 1 .. Len(c) - 1 /\ (i + j - Len(g)) + 1 = i + j - N
    BY <1>1, <1>2, <1>4, <1>6, <1>10, <2>2
  <2>4. Tail(c)[i + j - Len(g)] = c[i + j - N]
    BY <1>2, <2>3
  <2>5. /\ i + j - Len(g) \in DOMAIN Tail(c)
        /\ g[i].calls[j] = Tail(c)[i + j - Len(g)]
    BY <1>2, <1>5, <2>2, <2>3, <2>4
  <2>6. QED
    BY <2>1, <2>5
<1>11. QED
  BY <1>1, <1>4, <1>6, <1>8, <1>9, <1>10

\* Another call of the step whose message ends the history.
LEMMA CallAnswers ==
    ASSUME NEW h \in Seq(Msg), NEW g \in Seq(Msg), NEW c \in Seq(Id), NEW s, NEW d \in Id,
           Answers(h, c), EndsWith(h, s, c), DOMAIN g = DOMAIN h,
           \A i \in DOMAIN h :
              /\ g[i].role = h[i].role /\ g[i].id = h[i].id
              /\ g[i].calls = IF h[i].role = "assistant" /\ h[i].id = s
                                THEN Append(h[i].calls, d) ELSE h[i].calls
    PROVE  Answers(g, Append(c, d)) /\ EndsWith(g, s, Append(c, d))
<1> DEFINE N == Len(h)
<1>1. /\ N \in Nat \ {0} /\ Len(g) = N /\ DOMAIN h = 1 .. N /\ DOMAIN g = 1 .. N /\ g # <<>>
  <2>1. h # <<>>
    BY DEF EndsWith
  <2>2. Len(h) \in Nat \ {0} /\ DOMAIN h = 1 .. Len(h) /\ DOMAIN g = 1 .. Len(g) /\ Len(g) \in Nat
    BY <2>1, EmptySeq, LenProperties
  <2>3. Len(g) = N
    BY <2>2
  <2>4. QED
    BY <2>2, <2>3, EmptySeq
<1>2. /\ Len(c) \in Nat /\ DOMAIN c = 1 .. Len(c) /\ DOMAIN Append(c, d) = 1 .. Len(c) + 1
      /\ \A i \in 1 .. Len(c) : Append(c, d)[i] = c[i]
      /\ Append(c, d)[Len(c) + 1] = d
  BY Grown
<1>3. /\ h[N].role = "assistant" /\ h[N].id = s /\ h[N].calls = c
      /\ \A i \in 1 .. N - 1 : h[i].role = "assistant" => h[i].id # s
  BY DEF EndsWith
<1>4. g[N].role = "assistant" /\ g[N].id = s /\ g[N].calls = Append(c, d)
  <2>1. N \in DOMAIN h
    BY <1>1
  <2> HIDE DEF N
  <2>2. /\ g[N].role = h[N].role /\ g[N].id = h[N].id
        /\ g[N].calls = IF h[N].role = "assistant" /\ h[N].id = s
                          THEN Append(h[N].calls, d) ELSE h[N].calls
    BY <2>1
  <2>3. QED
    BY <1>3, <2>2
<1>5. \A i \in 1 .. N - 1 : /\ g[i].role = h[i].role /\ g[i].id = h[i].id
                            /\ g[i].calls = h[i].calls
  <2>1. \A i \in 1 .. N - 1 : i \in DOMAIN h
    BY <1>1
  <2>2. QED
    BY <1>3, <2>1
<1>6. EndsWith(g, s, Append(c, d))
  BY <1>1, <1>3, <1>4, <1>5 DEF EndsWith
<1>7. ASSUME NEW i \in DOMAIN g, NEW j \in DOMAIN g[i].calls
      PROVE  IF i + j <= Len(g)
               THEN g[i + j].role = "tool" /\ g[i + j].id = g[i].calls[j]
               ELSE /\ i + j - Len(g) \in DOMAIN Append(c, d)
                    /\ g[i].calls[j] = Append(c, d)[i + j - Len(g)]
  <2>1. CASE i = N
    <3>1. j \in 1 .. Len(c) + 1 /\ g[i].calls[j] = Append(c, d)[j]
      BY <1>2, <1>4, <1>7, <2>1
    <3>2. ~ (i + j <= Len(g)) /\ i + j - Len(g) = j
      BY <1>1, <1>2, <2>1, <3>1
    <3>3. QED
      BY <1>2, <3>1, <3>2
  <2>2. CASE i \in 1 .. N - 1
    <3>1. i \in DOMAIN h /\ j \in DOMAIN h[i].calls /\ g[i].calls[j] = h[i].calls[j]
      BY <1>1, <1>5, <1>7, <2>2
    <3>2. j \in Nat \ {0}
      BY <3>1, CallAt
    <3>3. IF i + j <= N THEN h[i + j].role = "tool" /\ h[i + j].id = h[i].calls[j]
                        ELSE i + j - N \in DOMAIN c /\ h[i].calls[j] = c[i + j - N]
      BY <3>1 DEF Answers
    <3>4. CASE i + j <= N
      <4>1. i + j \in DOMAIN h
        BY <1>1, <2>2, <3>2, <3>4
      <4>2. QED
        BY <1>1, <3>1, <3>3, <3>4, <4>1
    <3>5. CASE ~ (i + j <= N)
      <4>1. i + j - N \in 1 .. Len(c) /\ h[i].calls[j] = c[i + j - N]
        BY <1>2, <3>3, <3>5
      <4>2. i + j - N \in DOMAIN Append(c, d) /\ Append(c, d)[i + j - N] = c[i + j - N]
        BY <1>2, <4>1
      <4>3. QED
        BY <1>1, <3>1, <3>5, <4>1, <4>2
    <3>6. QED
      BY <3>4, <3>5
  <2>3. QED
    BY <1>1, <2>1, <2>2
<1>8. QED
  BY <1>6, <1>7 DEF Answers

\* Behind a message without calls, what is left of a history keeps its exchanges.
LEMMA AnswersBehind ==
    ASSUME NEW h \in Seq(Msg), Answers(h, <<>>), NEW n \in 0 .. Len(h),
           NEW x \in Msg, x.calls = <<>>
    PROVE  Answers(<<x>> \o SubSeq(h, n + 1, Len(h)), <<>>)
<1> DEFINE r == SubSeq(h, n + 1, Len(h))
           g == <<x>> \o r
           N == Len(h)
<1>1. N \in Nat /\ DOMAIN h = 1 .. N /\ n \in Nat /\ n <= N
  BY LenProperties
<1>2. r \in Seq(Msg) /\ Len(r) = N - n /\ \A i \in 1 .. N - n : r[i] = h[n + i]
  <2>1. n + 1 \in Int /\ N \in Int /\ \A i \in n + 1 .. N : h[i] \in Msg
    BY <1>1, ElementOfSeq
  <2>2. /\ r \in Seq(Msg)
        /\ Len(r) = IF n + 1 <= N THEN N - (n + 1) + 1 ELSE 0
        /\ \A i \in 1 .. N - (n + 1) + 1 : r[i] = h[(n + 1) + i - 1]
    BY <2>1, SubSeqProperties
  <2>3. Len(r) = N - n
    <3> HIDE DEF r, N
    <3>1. n + 1 <= N => N - (n + 1) + 1 = N - n
      BY <1>1
    <3>2. ~ (n + 1 <= N) => N - n = 0
      BY <1>1
    <3>3. QED
      BY <2>2, <3>1, <3>2
  <2>4. ASSUME NEW i \in 1 .. N - n PROVE r[i] = h[n + i]
    <3>1. i \in 1 .. N - (n + 1) + 1 /\ (n + 1) + i - 1 = n + i
      BY <1>1
    <3>2. QED
      BY <2>2, <3>1
  <2>5. QED
    BY <2>2, <2>3, <2>4
<1> HIDE DEF r, N
<1>3. /\ DOMAIN g = 1 .. N - n + 1 /\ Len(g) = N - n + 1 /\ g[1] = x
      /\ \A i \in 1 .. N - n : g[1 + i] = r[i]
  <2>1. <<x>> \in Seq(Msg) /\ Len(<<x>>) = 1 /\ <<x>>[1] = x
    OBVIOUS
  <2>2. /\ Len(g) = 1 + Len(r) /\ DOMAIN g = 1 .. 1 + Len(r)
        /\ \A i \in 1 .. 1 : g[i] = <<x>>[i]
        /\ \A i \in 1 .. Len(r) : g[1 + i] = r[i]
    BY <1>2, <2>1, Joined
  <2>3. 1 + Len(r) = N - n + 1
    BY <1>1, <1>2
  <2>4. QED
    BY <1>2, <2>1, <2>2, <2>3
<1> HIDE DEF g
<1>4. \A i \in 2 .. N - n + 1 : g[i] = h[n + i - 1] /\ n + i - 1 \in DOMAIN h
  <2>1. ASSUME NEW i \in 2 .. N - n + 1 PROVE g[i] = h[n + i - 1] /\ n + i - 1 \in DOMAIN h
    <3>1. i - 1 \in 1 .. N - n /\ 1 + (i - 1) = i /\ n + (i - 1) = n + i - 1
      BY <1>1
    <3>2. n + i - 1 \in DOMAIN h
      BY <1>1
    <3>3. QED
      BY <1>2, <1>3, <3>1, <3>2
  <2>2. QED
    BY <2>1
<1>5. ASSUME NEW i \in DOMAIN g, NEW j \in DOMAIN g[i].calls
      PROVE  i + j <= Len(g) /\ g[i + j].role = "tool" /\ g[i + j].id = g[i].calls[j]
  <2>1. i \in 2 .. N - n + 1
    BY <1>1, <1>3, <1>5, Nothing
  <2> DEFINE l == n + i - 1
  <2>2. g[i] = h[l] /\ l \in DOMAIN h /\ j \in DOMAIN h[l].calls
    BY <1>4, <1>5, <2>1
  <2>3. j \in Nat \ {0}
    BY <2>2, CallAt
  <2>4. l + j <= N /\ h[l + j].role = "tool" /\ h[l + j].id = h[l].calls[j]
    BY <2>2, Nothing DEF Answers, N
  <2>5. i + j \in 2 .. N - n + 1 /\ n + (i + j) - 1 = l + j
    BY <1>1, <2>1, <2>3, <2>4
  <2>6. g[i + j] = h[l + j]
    BY <1>4, <2>5
  <2> HIDE DEF l
  <2>7. i + j <= Len(g)
    BY <1>1, <1>3, <2>5
  <2>8. QED
    BY <2>2, <2>4, <2>6, <2>7
<1>6. QED
  BY <1>5 DEF Answers, g, r, N

\* Whoever keeps the results of every call that is kept keeps the exchanges that
\* are over.
LEMMA AnswersKept ==
    ASSUME NEW h \in Seq(Msg), NEW S \in SUBSET DOMAIN h, NEW c, Answers(h, c),
           \A i \in S : \A j \in DOMAIN h[i].calls : i + j \in S
    PROVE  Answers(Keeping(h, S), <<>>)
<1> DEFINE r == Keeping(h, S)
<1>1. S \in SUBSET Nat /\ IsFiniteSet(S)
  BY Positions
<1>2. /\ Cardinality(S) \in Nat /\ DOMAIN r = 1 .. Cardinality(S)
      /\ \A i \in S : /\ Rank(S, i) + 1 \in 1 .. Cardinality(S)
                      /\ r[Rank(S, i) + 1] = h[i]
      /\ \A n \in 1 .. Cardinality(S) : \E i \in S : n = Rank(S, i) + 1
  BY <1>1, KeepingIs
<1>3. Len(r) = Cardinality(S)
  BY KeepingSeq
<1> HIDE DEF r
<1>4. ASSUME NEW n \in DOMAIN r, NEW j \in DOMAIN r[n].calls
      PROVE  n + j <= Len(r) /\ r[n + j].role = "tool" /\ r[n + j].id = r[n].calls[j]
  <2>1. PICK i \in S : n = Rank(S, i) + 1
    BY <1>2
  <2>2. r[n] = h[i] /\ i \in DOMAIN h /\ j \in DOMAIN h[i].calls
    BY <1>2, <1>4, <2>1
  <2>3. j \in Nat \ {0} /\ DOMAIN h[i].calls = 1 .. Len(h[i].calls)
        /\ Len(h[i].calls) \in Nat
    BY <2>2, CallAt
  <2>4. ASSUME NEW k \in 0 .. j PROVE i + k \in S
    <3>1. CASE k = 0
      BY <1>1, <3>1
    <3>2. CASE k # 0
      <4>1. k \in DOMAIN h[i].calls
        BY <2>2, <2>3, <3>2
      <4>2. QED
        BY <4>1
    <3>3. QED
      BY <3>1, <3>2
  <2>5. Rank(S, i + j) = Rank(S, i) + j
    BY <1>1, <2>3, <2>4, RankAcross
  <2>6. i + j \in S
    BY <2>2
  <2>7. Rank(S, i) \in Nat
    BY <1>1, RankType
  <2>8. n + j = Rank(S, i + j) + 1
    BY <2>1, <2>3, <2>5, <2>7
  <2>9. r[n + j] = h[i + j] /\ n + j \in 1 .. Cardinality(S)
    BY <1>2, <2>6, <2>8
  <2>10. h[i + j].role = "tool" /\ h[i + j].id = h[i].calls[j]
    <3>1. i + j <= Len(h)
      BY <2>6, LenProperties
    <3>2. QED
      BY <2>2, <3>1 DEF Answers
  <2>11. n + j <= Len(r)
    BY <1>2, <1>3, <2>9
  <2>12. QED
    BY <2>2, <2>9, <2>10, <2>11
<1>5. QED
  BY <1>4 DEF Answers, r

\* What is sent of a history in which every exchange is over is acceptable.
LEMMA SentIsAcceptable ==
    ASSUME NEW h \in Seq(Msg), Answers(h, <<>>)
    PROVE  Acceptable(Messages(h))
<1> DEFINE S == {n \in DOMAIN h : h[n].role = "tool"
                    => \E i \in 1 .. n - 1 : h[n].id \in Range(h[i].calls)}
<1>1. DOMAIN h = 1 .. Len(h) /\ Len(h) \in Nat
  BY LenProperties
<1>2. ASSUME NEW i \in S, NEW j \in DOMAIN h[i].calls PROVE i + j \in S
  <2>1. i \in DOMAIN h /\ j \in Nat \ {0}
    BY <1>2, CallAt
  <2>2. i + j <= Len(h) /\ h[i + j].id = h[i].calls[j]
    BY <1>2, <2>1, Nothing DEF Answers
  <2>3. i + j \in DOMAIN h /\ i \in 1 .. (i + j) - 1
    BY <1>1, <2>1, <2>2
  <2>4. h[i + j].id \in Range(h[i].calls)
    BY <1>2, <2>2 DEF Range
  <2>5. QED
    BY <2>3, <2>4
<1>3. Answers(Keeping(h, S), <<>>)
  <2> HIDE DEF S
  <2>1. S \in SUBSET DOMAIN h
    BY DEF S
  <2>2. QED
    BY <1>2, <2>1, AnswersKept
<1>4. Keeping(h, S) \in Seq(Msg)
  BY KeepingSeq
<1>5. Messages(h) = Keeping(h, S)
  BY DEF Messages
<1> HIDE DEF S
<1>6. ASSUME NEW g \in Seq(Msg), Answers(g, <<>>) PROVE Acceptable(g)
  <2>1. \A i \in DOMAIN g : DOMAIN g[i].calls = 1 .. Len(g[i].calls)
    BY CallAt
  <2>2. QED
    BY <1>6, <2>1, Nothing DEF Answers, Acceptable
<1>7. QED
  BY <1>3, <1>4, <1>5, <1>6

\* An empty queue of calls is awaited exactly when no result is missing.
LEMMA AwaitsNothing ==
    ASSUME NEW p, NEW c \in Seq(Id), Awaits(p, c)
    PROVE  hasOpenToolExchange(p) <=> c # <<>>
BY Nothing DEF Awaits, hasOpenToolExchange

\* Letting the waiting messages in.
LEMMA FlushDoes ==
    ASSUME NEW p \in Part
    PROVE  LET q == flushDeferredMessages(p)
           IN  /\ q \in Part
               /\ q.openSteps = p.openSteps /\ q.pendingResults = p.pendingResults
               /\ \A n \in Nat : PartFormed(p, n) => PartFormed(q, n)
               /\ PartIds(p) \subseteq PartIds(q)
               /\ \A n \in Nat, c \in Seq(Id) : PartFormed(p, n) /\ Awaits(p, c) => Awaits(q, c)
<1> DEFINE q == flushDeferredMessages(p)
           g == p.history \o p.deferred
<1>0. p.history \in Seq(Msg) /\ p.deferred \in Seq(Msg)
  BY PartFields
<1>1. CASE hasOpenToolExchange(p)
  BY <1>1 DEF flushDeferredMessages
<1>2. CASE ~ hasOpenToolExchange(p)
  <2>1. q = [p EXCEPT !.history = g, !.deferred = <<>>]
    BY <1>2 DEF flushDeferredMessages
  <2>2. g \in Seq(Msg)
    BY <1>0, ConcatProperties
  <2>3. Range(g) = Range(p.history) \cup Range(p.deferred)
        /\ IdsOf(g) = IdsOf(p.history) \cup IdsOf(p.deferred)
    BY <1>0, Elements
  <2>4. ASSUME NEW n \in Nat, NEW c \in Seq(Id), PartFormed(p, n), Awaits(p, c)
        PROVE  c = <<>> /\ Answers(g, <<>>)
    <3>1. c = <<>>
      BY <1>2, <2>4, AwaitsNothing
    <3>2. \A i \in DOMAIN p.deferred : p.deferred[i].calls = <<>>
      BY <2>4 DEF PartFormed, Range
    <3>3. QED
      BY <1>0, <2>4, <3>1, <3>2, AnswersJoined DEF Awaits
  <2> HIDE DEF g, q
  <2>5. /\ q \in Part /\ q.history = g /\ q.deferred = <<>>
        /\ q.openSteps = p.openSteps /\ q.pendingResults = p.pendingResults
    BY <2>1, <2>2, Nothing DEF Part
  <2>6. \A n \in Nat : PartFormed(p, n) => PartFormed(q, n)
    BY <2>3, <2>5, Nothing DEF PartFormed, Formed, UserRole
  <2>7. PartIds(p) \subseteq PartIds(q)
    BY <2>3, <2>5 DEF PartIds
  <2>8. \A n \in Nat, c \in Seq(Id) : PartFormed(p, n) /\ Awaits(p, c) => Awaits(q, c)
    BY <2>4, <2>5 DEF Awaits
  <2>9. QED
    BY <2>5, <2>6, <2>7, <2>8 DEF q
<1>3. QED
  BY <1>1, <1>2

\* A partition is made of its parts.
LEMMA PartIs ==
    ASSUME NEW p \in Part, NEW h \in Seq(Msg), NEW d \in Seq(Msg),
           NEW o \in SUBSET Id, NEW r \in SUBSET Id
    PROVE  /\ [p EXCEPT !.history = h] \in Part
           /\ [p EXCEPT !.deferred = d] \in Part
           /\ [p EXCEPT !.openSteps = o] \in Part
           /\ [p EXCEPT !.history = h, !.openSteps = o] \in Part
           /\ [p EXCEPT !.history = h, !.pendingResults = r] \in Part
BY DEF Part

\* A message that comes in stands at the end, or waits while results are missing.
LEMMA AppendMessageDoes ==
    ASSUME NEW p \in Part, NEW x \in Msg, x.role \in UserRole, x.calls = <<>>
    PROVE  LET q == appendMessage(p, x)
           IN  /\ q \in Part
               /\ q.openSteps = p.openSteps
               /\ \A n \in Nat : PartFormed(p, n) => PartFormed(q, n)
               /\ PartIds(p) \subseteq PartIds(q)
               /\ \A c \in Seq(Id) : Awaits(p, c) => Awaits(q, c)
               /\ p.pendingResults # {} => q.history = p.history
<1> DEFINE q == appendMessage(p, x)
<1>0. p.history \in Seq(Msg) /\ p.deferred \in Seq(Msg)
  BY PartFields
<1>1. \A n \in Nat : Formed(x, n)
  BY DEF Formed, UserRole
<1>2. CASE hasOpenToolExchange(p)
  <2> DEFINE d == Append(p.deferred, x)
  <2>1. q = [p EXCEPT !.deferred = d]
    BY <1>2 DEF appendMessage
  <2>2. d \in Seq(Msg) /\ Range(d) = Range(p.deferred) \cup {x}
        /\ IdsOf(d) = IdsOf(p.deferred) \cup {x.id}
    BY <1>0, Grown, Elements
  <2> HIDE DEF q, d
  <2>3. /\ q \in Part /\ q.deferred = d /\ q.history = p.history
        /\ q.openSteps = p.openSteps /\ q.pendingResults = p.pendingResults
    BY <2>1, <2>2, PartIs DEF Part
  <2>4. QED
    BY <2>2, <2>3 DEF PartFormed, PartIds, Awaits, q
<1>3. CASE ~ hasOpenToolExchange(p)
  <2> DEFINE h == Append(p.history, x)
  <2>1. q = [p EXCEPT !.history = h]
    BY <1>3 DEF appendMessage
  <2>2. h \in Seq(Msg) /\ Range(h) = Range(p.history) \cup {x}
        /\ IdsOf(h) = IdsOf(p.history) \cup {x.id}
    BY <1>0, Grown, Elements
  <2>3. ASSUME Answers(p.history, <<>>) PROVE Answers(h, <<>>)
    <3>1. h = p.history \o <<x>> /\ <<x>> \in Seq(Msg)
      BY <1>0, AppendIsConcat
    <3>2. \A i \in DOMAIN <<x>> : <<x>>[i].calls = <<>>
      OBVIOUS
    <3>3. QED
      BY <1>0, <2>3, <3>1, <3>2, AnswersJoined
  <2> HIDE DEF q, h
  <2>4. /\ q \in Part /\ q.deferred = p.deferred /\ q.history = h
        /\ q.openSteps = p.openSteps /\ q.pendingResults = p.pendingResults
    BY <2>1, <2>2, PartIs DEF Part
  <2>5. \A c \in Seq(Id) : Awaits(p, c) => Awaits(q, c)
    BY <1>3, <2>3, <2>4, AwaitsNothing DEF Awaits
  <2>6. p.pendingResults = {}
    BY <1>3 DEF hasOpenToolExchange
  <2>7. QED
    BY <1>1, <2>2, <2>4, <2>5, <2>6 DEF PartFormed, PartIds, q
<1>4. QED
  BY <1>2, <1>3

\* A step that begins ends the history with its empty message.
LEMMA StepBeginDoes ==
    ASSUME NEW p \in Part, NEW s \in Id
    PROVE  LET q == stepBegin(p, s)
           IN  /\ q \in Part
               /\ q.openSteps = p.openSteps \cup {s}
               /\ PartFormed(p, s) => PartFormed(q, s + 1) /\ EndsWith(q.history, s, <<>>)
               /\ PartIds(p) \subseteq PartIds(q)
               /\ Awaits(p, <<>>) => Awaits(q, <<>>)
<1> DEFINE q == stepBegin(p, s)
           x == Message("assistant", s)
           h == Append(p.history, x)
           N == Len(p.history)
<1>0. p.history \in Seq(Msg) /\ p.deferred \in Seq(Msg) /\ p.openSteps \in SUBSET Id
  BY PartFields
<1>1. x \in Msg /\ x.role = "assistant" /\ x.id = s /\ x.calls = <<>> /\ s \in Nat
  <2>1. "assistant" \in Roles
    BY DEF Roles
  <2>2. s \in Nat
    BY DEF Id
  <2>3. QED
    BY <2>1, <2>2, MessageIs
<1>2. q = [p EXCEPT !.history = h, !.openSteps = p.openSteps \cup {s}]
  BY DEF stepBegin
<1> HIDE DEF x
<1>3. h \in Seq(Msg) /\ Range(h) = Range(p.history) \cup {x}
      /\ IdsOf(h) = IdsOf(p.history) \cup {x.id}
  BY <1>0, <1>1, Grown, Elements
<1>4. /\ N \in Nat /\ Len(h) = N + 1 /\ h # <<>> /\ h[N + 1] = x
      /\ \A i \in 1 .. N : h[i] = p.history[i] /\ p.history[i] \in Range(p.history)
  BY <1>0, <1>1, Grown DEF Range
<1>5. ASSUME Answers(p.history, <<>>) PROVE Answers(h, <<>>)
  <2>1. h = p.history \o <<x>> /\ <<x>> \in Seq(Msg)
    BY <1>0, <1>1, AppendIsConcat
  <2>2. \A i \in DOMAIN <<x>> : <<x>>[i].calls = <<>>
    BY <1>1
  <2>3. QED
    BY <1>0, <1>5, <2>1, <2>2, AnswersJoined
<1>6. ASSUME PartFormed(p, s) PROVE EndsWith(h, s, <<>>)
  <2>1. \A i \in 1 .. N : h[i].role = "assistant" => h[i].id < s
    BY <1>4, <1>6 DEF PartFormed, Formed
  <2>2. \A i \in 1 .. N : h[i].role = "assistant" => h[i].id # s
    BY <1>1, <2>1
  <2> HIDE DEF h, N
  <2>3. N = Len(h) - 1 /\ h[Len(h)] = x
    BY <1>4
  <2>4. QED
    BY <1>1, <1>4, <2>2, <2>3 DEF EndsWith
<1> HIDE DEF q, h, N
<1>7. /\ q \in Part /\ q.deferred = p.deferred /\ q.history = h
      /\ q.openSteps = p.openSteps \cup {s} /\ q.pendingResults = p.pendingResults
  BY <1>0, <1>2, <1>3, PartIs DEF Part
<1>8. PartFormed(p, s) => PartFormed(q, s + 1)
  <2>1. Formed(x, s + 1)
    BY <1>1 DEF Formed
  <2>2. PartFormed(p, s) => PartFormed(p, s + 1)
    BY <1>1, FormedLater
  <2>3. ASSUME PartFormed(p, s), NEW i \in q.openSteps PROVE i < s + 1
    <3>1. i = s \/ (i \in p.openSteps /\ i < s)
      BY <1>7, <2>3 DEF PartFormed
    <3>2. i \in Nat
      BY <1>0, <1>1, <3>1 DEF Id
    <3>3. QED
      BY <1>1, <3>1, <3>2
  <2>4. QED
    BY <1>3, <1>7, <2>1, <2>2, <2>3 DEF PartFormed
<1>9. QED
  BY <1>3, <1>5, <1>6, <1>7, <1>8 DEF PartIds, Awaits, q

\* A call is added to the message of its step.
LEMMA ToolCallDoes ==
    ASSUME NEW p \in Part, NEW s \in Id, NEW d \in Id
    PROVE  LET q == toolCall(p, s, d)
           IN  /\ q \in Part
               /\ q.openSteps = p.openSteps
               /\ \A n \in Nat : PartFormed(p, n) => PartFormed(q, n)
               /\ PartIds(p) \subseteq PartIds(q)
               /\ \A c \in Seq(Id) : Awaits(p, c) /\ EndsWith(p.history, s, c)
                      => Awaits(q, Append(c, d)) /\ EndsWith(q.history, s, Append(c, d))
<1> DEFINE q == toolCall(p, s, d)
           h == p.history
           called(x) == IF x.role = "assistant" /\ x.id = s
                          THEN [x EXCEPT !.calls = Append(@, d)] ELSE x
           g == [i \in DOMAIN h |-> IF h[i].role = "assistant" /\ h[i].id = s
                                      THEN [h[i] EXCEPT !.calls = Append(@, d)] ELSE h[i]]
<1>0. /\ h \in Seq(Msg) /\ p.deferred \in Seq(Msg) /\ p.pendingResults \in SUBSET Id
      /\ Len(h) \in Nat /\ DOMAIN h = 1 .. Len(h) /\ \A i \in DOMAIN h : h[i] \in Msg
  BY PartFields
<1>1. q = [p EXCEPT !.history = g, !.pendingResults = p.pendingResults \cup {d}]
  BY DEF toolCall
<1>2. ASSUME NEW x \in Msg
      PROVE  /\ called(x) \in Msg /\ called(x).role = x.role /\ called(x).id = x.id
             /\ called(x).calls = IF x.role = "assistant" /\ x.id = s
                                    THEN Append(x.calls, d) ELSE x.calls
  <2>1. x.calls \in Seq(Id) /\ Append(x.calls, d) \in Seq(Id)
    BY MsgFields, Grown
  <2>2. QED
    BY <2>1 DEF Msg
<1>3. /\ DOMAIN g = DOMAIN h
      /\ \A i \in DOMAIN h : g[i] = called(h[i])
  OBVIOUS
<1> HIDE DEF called
<1>4. g \in Seq(Msg)
  <2>1. \A i \in 1 .. Len(h) : g[i] \in Msg
    <3> HIDE DEF g
    <3>1. QED
      BY <1>0, <1>2, <1>3
  <2>2. g = [i \in 1 .. Len(h) |-> g[i]]
    BY <1>0
  <2> HIDE DEF g
  <2>3. g \in [1 .. Len(h) -> Msg] /\ Len(h) \in Nat
    BY <1>0, <2>1, <2>2
  <2>4. Seq(Msg) = UNION {[1 .. n -> Msg] : n \in Nat}
    BY SeqDef
  <2>5. QED
    BY <2>3, <2>4, Zenon
<1> HIDE DEF q, g, h
<1>5. /\ q \in Part /\ q.deferred = p.deferred /\ q.history = g
      /\ q.openSteps = p.openSteps /\ q.pendingResults = p.pendingResults \cup {d}
  <2>1. p.pendingResults \cup {d} \in SUBSET Id
    BY <1>0
  <2>2. QED
    BY <1>1, <1>4, <2>1, PartIs DEF Part
<1>6. \A n \in Nat : PartFormed(p, n) => PartFormed(q, n)
  <2>1. SUFFICES ASSUME NEW n \in Nat, PartFormed(p, n), NEW i \in DOMAIN g
                 PROVE  Formed(g[i], n)
    BY <1>5 DEF PartFormed, Range
  <2>2. h[i] \in Range(h) /\ h[i] \in Msg /\ g[i] = called(h[i])
    BY <1>0, <1>3 DEF Range
  <2>3. Formed(h[i], n)
    BY <2>1, <2>2 DEF PartFormed, h
  <2>4. QED
    BY <1>2, <2>2, <2>3 DEF Formed
<1>7. PartIds(p) \subseteq PartIds(q)
  <2>1. \A i \in DOMAIN h : i \in DOMAIN g /\ g[i].id = h[i].id
    BY <1>0, <1>2, <1>3
  <2>2. IdsOf(h) \subseteq IdsOf(g)
    BY <2>1 DEF IdsOf, Range
  <2>3. QED
    BY <1>5, <2>2 DEF PartIds, h
<1>8. ASSUME NEW c \in Seq(Id), Awaits(p, c), EndsWith(h, s, c)
      PROVE  Awaits(q, Append(c, d)) /\ EndsWith(g, s, Append(c, d))
  <2>1. Answers(h, c) /\ p.pendingResults = Range(c)
    BY <1>8 DEF Awaits, h
  <2>2. \A i \in DOMAIN h :
           /\ g[i].role = h[i].role /\ g[i].id = h[i].id
           /\ g[i].calls = IF h[i].role = "assistant" /\ h[i].id = s
                             THEN Append(h[i].calls, d) ELSE h[i].calls
    BY <1>0, <1>2, <1>3
  <2>3. Answers(g, Append(c, d)) /\ EndsWith(g, s, Append(c, d))
    BY <1>0, <1>3, <1>4, <1>8, <2>1, <2>2, CallAnswers
  <2>4. Range(Append(c, d)) = Range(c) \cup {d}
    BY Elements
  <2>5. QED
    BY <1>5, <2>1, <2>3, <2>4 DEF Awaits
<1>9. QED
  BY <1>5, <1>6, <1>7, <1>8 DEF q, h

\* What is left of calls that differ when the first of them is answered.
LEMMA Others ==
    ASSUME NEW c \in Seq(Id), c # <<>>,
           \A i, j \in DOMAIN c : c[i] = c[j] => i = j
    PROVE  Range(Tail(c)) = Range(c) \ {Head(c)}
<1>1. /\ Len(c) \in Nat \ {0} /\ DOMAIN c = 1 .. Len(c) /\ DOMAIN Tail(c) = 1 .. Len(c) - 1
      /\ \A i \in 1 .. Len(c) - 1 : Tail(c)[i] = c[i + 1]
      /\ Head(c) = c[1]
  BY Shortened
<1>2. ASSUME NEW i \in DOMAIN Tail(c) PROVE Tail(c)[i] \in Range(c) \ {Head(c)}
  <2>1. i + 1 \in DOMAIN c /\ 1 \in DOMAIN c /\ i + 1 # 1 /\ Tail(c)[i] = c[i + 1]
    BY <1>1
  <2>2. c[i + 1] # c[1]
    BY <2>1
  <2>3. QED
    BY <1>1, <2>1, <2>2 DEF Range
<1>3. ASSUME NEW i \in DOMAIN c, c[i] # Head(c) PROVE c[i] \in Range(Tail(c))
  <2>1. i # 1
    BY <1>1, <1>3
  <2>2. i - 1 \in 1 .. Len(c) - 1 /\ (i - 1) + 1 = i
    BY <1>1, <2>1
  <2>3. Tail(c)[i - 1] = c[i] /\ i - 1 \in DOMAIN Tail(c)
    BY <1>1, <2>2
  <2>4. QED
    BY <2>3 DEF Range
<1>4. QED
  BY <1>2, <1>3 DEF Range

\* The result of the first awaited call arrives.
LEMMA ToolResultDoes ==
    ASSUME NEW p \in Part, NEW d \in Id
    PROVE  LET q == toolResult(p, d)
           IN  /\ q \in Part
               /\ q.openSteps = p.openSteps
               /\ \A n \in Nat : PartFormed(p, n) => PartFormed(q, n)
               /\ PartIds(p) \subseteq PartIds(q)
               /\ \A n \in Nat, c \in Seq(Id) :
                    (/\ PartFormed(p, n) /\ Awaits(p, c)
                     /\ c # <<>> /\ Head(c) = d
                     /\ \A i, j \in DOMAIN c : c[i] = c[j] => i = j)
                    => Awaits(q, Tail(c))
               /\ \A n \in Nat : PartFormed(p, n) /\ Awaits(p, <<>>) => Awaits(q, <<>>)
<1> DEFINE x == Message("tool", d)
           h == Append(p.history, x)
           r == [p EXCEPT !.history = h, !.pendingResults = p.pendingResults \ {d}]
           q == toolResult(p, d)
<1>0. /\ p.history \in Seq(Msg) /\ p.deferred \in Seq(Msg) /\ p.pendingResults \in SUBSET Id
  BY PartFields
<1>1. x \in Msg /\ x.role = "tool" /\ x.id = d /\ x.calls = <<>>
  <2>1. "tool" \in Roles
    BY DEF Roles
  <2>2. QED
    BY <2>1, MessageIs
<1>2. q = flushDeferredMessages(r)
  BY DEF toolResult
<1> HIDE DEF x
<1>3. h \in Seq(Msg) /\ Range(h) = Range(p.history) \cup {x}
      /\ IdsOf(h) = IdsOf(p.history) \cup {x.id}
  BY <1>0, <1>1, Grown, Elements
<1>4. \A c \in Seq(Id) : Answers(p.history, c) /\ c # <<>> /\ Head(c) = d
                           => Answers(h, Tail(c))
  BY <1>0, <1>1, ResultAnswers
<1>10. Answers(p.history, <<>>) => Answers(h, <<>>)
  <2>1. h = p.history \o <<x>> /\ <<x>> \in Seq(Msg)
    BY <1>0, <1>1, AppendIsConcat
  <2>2. \A i \in DOMAIN <<x>> : <<x>>[i].calls = <<>>
    BY <1>1
  <2>3. QED
    BY <1>0, <2>1, <2>2, AnswersJoined
<1> HIDE DEF h
<1>5. /\ r \in Part /\ r.deferred = p.deferred /\ r.history = h
      /\ r.openSteps = p.openSteps /\ r.pendingResults = p.pendingResults \ {d}
  <2>1. p.pendingResults \ {d} \in SUBSET Id
    BY <1>0
  <2>2. QED
    BY <1>3, <2>1, PartIs DEF Part
<1> HIDE DEF r, q
<1>6. \A n \in Nat : PartFormed(p, n) => PartFormed(r, n)
  <2>1. \A n \in Nat : Formed(x, n)
    BY <1>1 DEF Formed
  <2>2. QED
    BY <1>3, <1>5, <2>1 DEF PartFormed
<1>7. PartIds(p) \subseteq PartIds(r)
  BY <1>3, <1>5 DEF PartIds
<1>8. ASSUME NEW c \in Seq(Id), Awaits(p, c), c # <<>>, Head(c) = d,
             \A i, j \in DOMAIN c : c[i] = c[j] => i = j
      PROVE  Awaits(r, Tail(c)) /\ Tail(c) \in Seq(Id)
  <2>1. Range(Tail(c)) = Range(c) \ {d}
    BY <1>8, Others
  <2>2. Tail(c) \in Seq(Id)
    BY <1>8, Shortened
  <2>3. QED
    BY <1>4, <1>5, <1>8, <2>1, <2>2 DEF Awaits
<1>9. Awaits(p, <<>>) => Awaits(r, <<>>)
  BY <1>5, <1>10, Nothing DEF Awaits
<1>11. QED
  <2>1. <<>> \in Seq(Id)
    BY Nothing
  <2>2. QED
    BY <1>2, <1>5, <1>6, <1>7, <1>8, <1>9, <2>1, FlushDoes DEF q

\* A step that ends is no longer open.
LEMMA StepEndDoes ==
    ASSUME NEW p \in Part, NEW s
    PROVE  LET q == stepEnd(p, s)
           IN  /\ q \in Part
               /\ q.openSteps = p.openSteps \ {s}
               /\ \A n \in Nat : PartFormed(p, n) => PartFormed(q, n)
               /\ PartIds(p) \subseteq PartIds(q)
               /\ \A n \in Nat, c \in Seq(Id) : PartFormed(p, n) /\ Awaits(p, c) => Awaits(q, c)
<1> DEFINE r == [p EXCEPT !.openSteps = p.openSteps \ {s}]
           q == stepEnd(p, s)
<1>0. p.openSteps \ {s} \in SUBSET Id
  BY PartFields
<1>1. q = flushDeferredMessages(r)
  BY DEF stepEnd
<1>2. /\ r \in Part /\ r.deferred = p.deferred /\ r.history = p.history
      /\ r.openSteps = p.openSteps \ {s} /\ r.pendingResults = p.pendingResults
  BY <1>0, PartIs DEF Part
<1> HIDE DEF r, q
<1>3. \A n \in Nat : PartFormed(p, n) => PartFormed(r, n)
  BY <1>2 DEF PartFormed
<1>4. PartIds(p) \subseteq PartIds(r) /\ \A c \in Seq(Id) : Awaits(p, c) => Awaits(r, c)
  BY <1>2 DEF PartIds, Awaits
<1>5. QED
  BY <1>1, <1>2, <1>3, <1>4, FlushDoes DEF q

\* What undo keeps of a history keeps its exchanges, and not the open one: who calls
\* stands before the prompt that keeps it, and that prompt behind the results.
LEMMA UndoDoes ==
    ASSUME NEW p \in Part
    PROVE  LET q == undo(p)
           IN  /\ q \in Part
               /\ q.openSteps = {}
               /\ \A n \in Nat : PartFormed(p, n) => PartFormed(q, n)
               /\ \A n \in Nat, c \in Seq(Id) : PartFormed(p, n) /\ Awaits(p, c) => Awaits(q, <<>>)
<1> DEFINE q == undo(p)
           h == p.history
           S == {i \in DOMAIN h :
                   \/ h[i].role \in {"reminder", "summary"}
                   \/ \E j \in i + 1 .. Len(h) : h[j].role \in {"prompt", "summary"}}
           g == Keeping(h, S)
<1>0. h \in Seq(Msg) /\ Len(h) \in Nat /\ DOMAIN h = 1 .. Len(h)
  BY PartFields
<1>1. q = [EmptyPart EXCEPT !.history = g]
  BY DEF undo, Undone
<1>2. S \in SUBSET DOMAIN h
  OBVIOUS
<1>3. ASSUME NEW n \in Nat, PartFormed(p, n), NEW c, Answers(h, c),
             NEW i \in S, NEW j \in DOMAIN h[i].calls
      PROVE  i + j \in S
  <2>1. /\ i \in DOMAIN h /\ h[i] \in Range(h) /\ j \in Nat \ {0}
        /\ Len(h[i].calls) \in Nat /\ DOMAIN h[i].calls = 1 .. Len(h[i].calls)
    BY <1>0, <1>3, CallAt DEF Range
  <2>2. h[i].role = "assistant"
    BY <1>3, <2>1, Nothing DEF PartFormed, Formed
  <2>3. PICK k \in i + 1 .. Len(h) : h[k].role \in {"prompt", "summary"}
    BY <2>2
  <2>4. k > i + j
    <3>1. SUFFICES ASSUME ~ (k > i + j) PROVE FALSE
      OBVIOUS
    <3>2. i \in Nat /\ k \in Nat /\ i + 1 <= k /\ k <= Len(h) /\ k <= i + j
      BY <1>0, <2>1, <2>3, <3>1
    <3>3. k - i \in 1 .. j /\ i + (k - i) = k
      BY <2>1, <3>2
    <3>4. 1 .. j \subseteq DOMAIN h[i].calls
      BY <1>3, <2>1
    <3>5. h[k].role = "tool"
      <4>1. k - i \in DOMAIN h[i].calls /\ i + (k - i) <= Len(h)
        BY <3>2, <3>3, <3>4
      <4>2. h[i + (k - i)].role = "tool"
        BY <1>3, <2>1, <4>1 DEF Answers
      <4>3. QED
        BY <3>3, <4>2
    <3>6. QED
      BY <2>3, <3>5
  <2>5. i + j \in DOMAIN h /\ k \in (i + j) + 1 .. Len(h)
    BY <1>0, <2>1, <2>3, <2>4
  <2>6. QED
    BY <2>3, <2>5
<1> HIDE DEF S
<1>4. g \in Seq(Msg) /\ Range(g) \subseteq Range(h)
  <2>1. g \in Seq(Msg) /\ \A n \in DOMAIN g : \E i \in S : g[n] = h[i]
    BY <1>0, <1>2, KeepingSeq
  <2>2. QED
    BY <1>2, <2>1 DEF Range
<1>5. ASSUME NEW n \in Nat, PartFormed(p, n), NEW c, Answers(h, c) PROVE Answers(g, <<>>)
  BY <1>0, <1>2, <1>3, <1>5, AnswersKept
<1> HIDE DEF g, q
<1>6. /\ q \in Part /\ q.history = g /\ q.deferred = <<>>
      /\ q.openSteps = {} /\ q.pendingResults = {}
  BY <1>1, <1>4, Nothing DEF EmptyPart, Part
<1>7. QED
  BY <1>4, <1>5, <1>6, Nothing DEF PartFormed, Awaits, q, h

\* What is left of a history behind its first n messages.
LEMMA Left ==
    ASSUME NEW h \in Seq(Msg), NEW n \in Nat
    PROVE  LET r == SubSeq(h, n + 1, Len(h))
           IN  /\ r \in Seq(Msg)
               /\ Range(r) \subseteq Range(h)
               /\ \A i \in DOMAIN h : h[i] \in Range(r) \/ i <= n
               /\ \E m \in 0 .. Len(h) : r = SubSeq(h, m + 1, Len(h))
<1> DEFINE N == Len(h)
           r == SubSeq(h, n + 1, N)
<1>0. N \in Nat /\ DOMAIN h = 1 .. N /\ \A i \in 1 .. N : h[i] \in Msg
  BY LenProperties, ElementOfSeq
<1> HIDE DEF N
<1>1. CASE n <= N
  <2>1. /\ r \in Seq(Msg)
        /\ Len(r) = IF n + 1 <= N THEN N - (n + 1) + 1 ELSE 0
        /\ \A i \in 1 .. N - (n + 1) + 1 : r[i] = h[(n + 1) + i - 1]
    <3>1. n + 1 \in Int /\ N \in Int /\ \A i \in n + 1 .. N : h[i] \in Msg
      BY <1>0
    <3>2. QED
      BY <3>1, SubSeqProperties
  <2> HIDE DEF r
  <2>2. Len(r) = N - n
    <3>1. n + 1 <= N => N - (n + 1) + 1 = N - n
      BY <1>0
    <3>2. ~ (n + 1 <= N) => N - n = 0
      BY <1>0, <1>1
    <3>3. QED
      BY <2>1, <3>1, <3>2
  <2>3. DOMAIN r = 1 .. N - n
    BY <2>1, <2>2, LenProperties
  <2>4. \A i \in 1 .. N - n : r[i] = h[n + i] /\ n + i \in DOMAIN h
    <3>1. ASSUME NEW i \in 1 .. N - n PROVE r[i] = h[n + i] /\ n + i \in DOMAIN h
      <4>1. i \in 1 .. N - (n + 1) + 1 /\ (n + 1) + i - 1 = n + i /\ n + i \in 1 .. N
        BY <1>0, <1>1
      <4>2. QED
        BY <1>0, <2>1, <4>1
    <3>2. QED
      BY <3>1
  <2>5. Range(r) \subseteq Range(h)
    BY <2>3, <2>4 DEF Range
  <2>6. ASSUME NEW i \in DOMAIN h, ~ (i <= n) PROVE h[i] \in Range(r)
    <3>1. i - n \in DOMAIN r /\ n + (i - n) = i
      BY <1>0, <1>1, <2>3, <2>6
    <3>2. r[i - n] = h[i]
      BY <2>3, <2>4, <3>1
    <3>3. QED
      BY <3>1, <3>2 DEF Range
  <2>7. n \in 0 .. N
    BY <1>0, <1>1
  <2>8. QED
    BY <2>1, <2>5, <2>6, <2>7 DEF r, N
<1>2. CASE ~ (n <= N)
  <2>1. N < n + 1 /\ N < N + 1 /\ n + 1 \in Int /\ N \in Int /\ N + 1 \in Int
    BY <1>0, <1>2
  <2>2. r = <<>> /\ SubSeq(h, N + 1, N) = <<>>
    BY <2>1, SubSeqEmpty
  <2>3. \A i \in DOMAIN h : i <= n
    BY <1>0, <1>2
  <2>4. N \in 0 .. N
    BY <1>0
  <2> HIDE DEF r
  <2>5. QED
    BY <2>2, <2>3, <2>4, Nothing DEF r, N
<1>3. QED
  BY <1>1, <1>2

\* A message before a sequence.
LEMMA Headed ==
    ASSUME NEW x \in Msg, NEW r \in Seq(Msg)
    PROVE  <<x>> \o r \in Seq(Msg) /\ Range(<<x>> \o r) = {x} \cup Range(r)
<1> DEFINE s == <<x>>
<1>1. s \in Seq(Msg) /\ Range(s) = {x}
  BY DEF Range
<1> HIDE DEF s
<1>2. s \o r \in Seq(Msg)
  BY <1>1, ConcatProperties
<1>3. Range(s \o r) = Range(s) \cup Range(r)
  BY <1>1, RangeConcatenation
<1>4. QED
  BY <1>1, <1>2, <1>3 DEF s

\* A compaction puts its summary in the place of the first n messages.
LEMMA CompactionDoes ==
    ASSUME NEW p \in Part, NEW n \in Nat, NEW id \in Id
    PROVE  LET q == applyCompaction(p, n, id)
           IN  /\ q \in Part
               /\ \A l \in Nat : PartFormed(p, l) => PartFormed(q, l)
               /\ \A i \in DOMAIN p.history : p.history[i].id \in PartIds(q) \/ i <= n
               /\ IdsOf(p.deferred) \subseteq PartIds(q)
               /\ \A l \in Nat : PartFormed(p, l) /\ Awaits(p, <<>>) => Awaits(q, <<>>)
<1> DEFINE q == applyCompaction(p, n, id)
           h == p.history
           x == Message("summary", id)
           r == SubSeq(h, n + 1, Len(h))
           g == <<x>> \o r
           b == [p EXCEPT !.history = g, !.openSteps = {}]
<1>0. h \in Seq(Msg) /\ p.deferred \in Seq(Msg)
  BY PartFields
<1>1. x \in Msg /\ x.role = "summary" /\ x.id = id /\ x.calls = <<>>
  <2>1. "summary" \in Roles
    BY DEF Roles
  <2>2. QED
    BY <2>1, MessageIs
<1>2. q = flushDeferredMessages(b)
  BY DEF applyCompaction
<1> HIDE DEF x
<1>3. /\ r \in Seq(Msg)
      /\ Range(r) \subseteq Range(h)
      /\ \A i \in DOMAIN h : h[i] \in Range(r) \/ i <= n
      /\ \E m \in 0 .. Len(h) : r = SubSeq(h, m + 1, Len(h))
  BY <1>0, Left
<1>4. g \in Seq(Msg) /\ Range(g) = {x} \cup Range(r)
  <2> HIDE DEF r
  <2>1. QED
    BY <1>1, <1>3, Headed
<1>5. Answers(h, <<>>) => Answers(g, <<>>)
  BY <1>0, <1>1, <1>3, AnswersBehind
<1> HIDE DEF r, g
<1>6. /\ b \in Part /\ b.deferred = p.deferred /\ b.history = g
      /\ b.openSteps = {} /\ b.pendingResults = p.pendingResults
  BY <1>4, PartIs DEF Part
<1> HIDE DEF b, q
<1>7. \A l \in Nat : PartFormed(p, l) => PartFormed(b, l)
  <2>1. \A l \in Nat : Formed(x, l)
    BY <1>1 DEF Formed
  <2>2. QED
    BY <1>3, <1>4, <1>6, <2>1 DEF PartFormed
<1>8. Awaits(p, <<>>) => Awaits(b, <<>>)
  BY <1>5, <1>6 DEF Awaits
<1>9. PartIds(b) \subseteq PartIds(q)
  BY <1>2, <1>6, FlushDoes
<1>10. \A i \in DOMAIN h : h[i].id \in PartIds(q) \/ i <= n
  BY <1>3, <1>4, <1>6, <1>9 DEF PartIds, IdsOf
<1>11. IdsOf(p.deferred) \subseteq PartIds(q)
  BY <1>6, <1>9 DEF PartIds
<1>12. /\ q \in Part
       /\ \A l \in Nat : PartFormed(p, l) => PartFormed(q, l)
       /\ \A l \in Nat : PartFormed(p, l) /\ Awaits(p, <<>>) => Awaits(q, <<>>)
  <2>1. <<>> \in Seq(Id)
    BY Nothing
  <2>2. QED
    BY <1>2, <1>6, <1>7, <1>8, <2>1, FlushDoes
<1>13. QED
  BY <1>10, <1>11, <1>12 DEF q, h

\* A cleared partition is as good as new.
LEMMA EmptyPartIs ==
    /\ EmptyPart \in Part /\ \A n \in Nat : PartFormed(EmptyPart, n)
    /\ Awaits(EmptyPart, <<>>)
BY Nothing DEF EmptyPart, Part, PartFormed, Awaits, Answers

-----------------------------------------------------------------------------
\* The operations of a memory.

\* The fields of a memory.
LEMMA MemoryFields ==
    ASSUME NEW m \in Memory
    PROVE  /\ m.active \in Mode /\ m.mode \in Mode /\ m.switch \in Mode \cup {None}
           /\ m.threw \in BOOLEAN
           /\ m.part \in [Mode -> Part] /\ Active(m) \in Part
           /\ Active(m) = m.part[m.active]
BY DEF Memory, Active

\* Only the active partition changes.
LEMMA PutDoes ==
    ASSUME NEW m \in Memory, NEW q \in Part
    PROVE  LET w == Put(m, q)
           IN  /\ w \in Memory
               /\ w.active = m.active /\ w.mode = m.mode /\ w.switch = m.switch
               /\ w.threw = m.threw /\ Target(w) = Target(m)
               /\ w.part[m.active] = q /\ Active(w) = q
               /\ \A k \in Mode \ {m.active} : w.part[k] = m.part[k]
<1> DEFINE w == Put(m, q)
<1>1. w = [m EXCEPT !.part = [m.part EXCEPT ![m.active] = q]]
  BY DEF Put
<1>2. [m.part EXCEPT ![m.active] = q] \in [Mode -> Part]
  BY MemoryFields
<1>3. /\ w \in Memory
      /\ w.active = m.active /\ w.mode = m.mode /\ w.switch = m.switch
      /\ w.threw = m.threw
      /\ w.part = [m.part EXCEPT ![m.active] = q]
  BY <1>1, <1>2 DEF Memory
<1> HIDE DEF w
<1>4. QED
  BY <1>3, MemoryFields DEF Target, Active, w

\* A memory is as sound as the partition that is put into it.
LEMMA PutSound ==
    ASSUME NEW m, NEW n \in Nat, NEW l \in Nat, n <= l, Sound(m, n),
           NEW q \in Part, PartFormed(q, l)
    PROVE  Sound(Put(m, q), l)
<1>1. m \in Memory /\ \A k \in Mode : PartFormed(m.part[k], n)
  BY DEF Sound
<1>2. \A k \in Mode : PartFormed(m.part[k], l)
  <2>1. \A k \in Mode : m.part[k] \in Part
    BY <1>1, MemoryFields
  <2>2. QED
    BY <1>1, <2>1, FormedLater
<1>3. QED
  BY <1>1, <1>2, PutDoes DEF Sound

\* The turn is followed when the active partition waits for what it calls, and no
\* other one knows its step.
LEMMA PutFollows ==
    ASSUME NEW m \in Memory, NEW a, Follows(m, a), NEW q \in Part, NEW b,
           Awaits(q, IF b.step \in q.openSteps THEN b.calls ELSE <<>>),
           \A k \in Mode : k # m.active => b.step \notin m.part[k].openSteps,
           b.pc \in {"step", "calls"} /\ b.step \in q.openSteps
              => EndsWith(q.history, b.step, b.calls)
    PROVE  Follows(Put(m, q), b)
<1> DEFINE w == Put(m, q)
<1>1. /\ w.active = m.active /\ w.part[m.active] = q /\ Active(w) = q
      /\ \A k \in Mode \ {m.active} : w.part[k] = m.part[k]
  BY PutDoes
<1> HIDE DEF w
<1>2. Awaited(w, b) = (IF b.step \in q.openSteps THEN b.calls ELSE <<>>)
      /\ (Open(w, b) <=> b.step \in q.openSteps)
  BY <1>1 DEF Awaited, Open
<1>3. ASSUME NEW k \in Mode
      PROVE  Awaits(w.part[k], IF k = w.active THEN Awaited(w, b) ELSE <<>>)
  <2>1. CASE k = m.active
    BY <1>1, <1>2, <2>1
  <2>2. CASE k # m.active
    <3>1. Awaits(m.part[k], <<>>)
      BY <2>2 DEF Follows
    <3>2. QED
      BY <1>1, <2>2, <3>1
  <2>3. QED
    BY <2>1, <2>2
<1>4. \A k \in Mode : k # w.active => b.step \notin w.part[k].openSteps
  BY <1>1
<1>5. b.pc \in {"step", "calls"} /\ Open(w, b) => EndsWith(Active(w).history, b.step, b.calls)
  BY <1>1, <1>2
<1>6. QED
  BY <1>3, <1>4, <1>5 DEF Follows, w

\* What a memory keeps is what its partitions hold.
LEMMA KeptIs ==
    ASSUME NEW m \in Memory
    PROVE  Kept(m) = UNION {PartIds(m.part[k]) : k \in Mode}
<1>1. \A k \in Mode : {x.id : x \in Range(m.part[k].history \o m.part[k].deferred)}
                        = PartIds(m.part[k])
  BY MemoryFields, IdsOfPart
<1>2. QED
  BY <1>1 DEF Kept

\* What the new partition does not hold is all that is lost.
LEMMA PutKeeps ==
    ASSUME NEW m \in Memory, NEW q \in Part, NEW X,
           PartIds(Active(m)) \subseteq PartIds(q) \cup X
    PROVE  Kept(m) \subseteq Kept(Put(m, q)) \cup X
<1> DEFINE w == Put(m, q)
<1>1. /\ w \in Memory /\ w.part[m.active] = q
      /\ \A k \in Mode \ {m.active} : w.part[k] = m.part[k]
      /\ m.active \in Mode /\ Active(m) = m.part[m.active]
  BY PutDoes, MemoryFields
<1> HIDE DEF w
<1>2. ASSUME NEW k \in Mode PROVE PartIds(m.part[k]) \subseteq PartIds(w.part[k]) \cup X
  BY <1>1
<1>3. Kept(m) = UNION {PartIds(m.part[k]) : k \in Mode}
      /\ Kept(w) = UNION {PartIds(w.part[k]) : k \in Mode}
  BY <1>1, KeptIs
<1>4. QED
  BY <1>2, <1>3 DEF w

\* What a followed turn still waits for is open in the active partition.
LEMMA FollowsActive ==
    ASSUME NEW m \in Memory, NEW a, Follows(m, a)
    PROVE  /\ Awaits(Active(m), Awaited(m, a))
           /\ a.calls = <<>> => Awaited(m, a) = <<>>
           /\ a.calls \in Seq(Id) => Awaited(m, a) \in Seq(Id)
           /\ Open(m, a) => Awaited(m, a) = a.calls
<1>1. Awaits(Active(m), Awaited(m, a))
  BY MemoryFields DEF Follows
<1>2. <<>> \in Seq(Id)
  BY Nothing
<1>3. QED
  BY <1>1, <1>2 DEF Awaited

\* A turn that is between its steps, blocked or over.
Outside(s) == s.calls = <<>> /\ s.step = 0 /\ s.pc \notin InStep

\* No step has the number 0.
LEMMA NoStep ==
    ASSUME NEW m \in Memory, NEW b, b.step = 0
    PROVE  ~ Open(m, b) /\ \A k \in Mode : b.step \notin m.part[k].openSteps
<1>1. \A k \in Mode : m.part[k].openSteps \in SUBSET Id
  BY MemoryFields, PartFields
<1>2. 0 \notin Id
  BY DEF Id
<1>3. QED
  BY <1>1, <1>2, MemoryFields DEF Open

\* Outside its steps a turn is followed by every memory in which nothing is missing.
LEMMA OutsideFollows ==
    ASSUME NEW m \in Memory, NEW a, Follows(m, a), Awaited(m, a) = <<>>,
           NEW w \in Memory, w.part = m.part, NEW b, Outside(b)
    PROVE  Follows(w, b)
<1>1. \A k \in Mode : Awaits(w.part[k], <<>>)
  BY DEF Follows
<1>2. ~ Open(w, b) /\ \A k \in Mode : b.step \notin w.part[k].openSteps
  BY NoStep DEF Outside
<1>3. Awaited(w, b) = <<>>
  BY <1>2 DEF Awaited
<1>4. QED
  BY <1>1, <1>2, <1>3 DEF Follows

\* Two memories that aim at the same partition in the same mode.
SameAim(w, m) == Target(w) = Target(m) /\ w.mode = m.mode

\* A turn outside its steps is followed when nothing is missing in the partition that
\* is put.
LEMMA OutsidePut ==
    ASSUME NEW m \in Memory, NEW a, Follows(m, a), NEW q \in Part, Awaits(q, <<>>),
           NEW b, Outside(b)
    PROVE  Follows(Put(m, q), b)
<1>1. \A k \in Mode : b.step \notin m.part[k].openSteps
  BY NoStep DEF Outside
<1>2. b.step \notin q.openSteps
  BY PartFields DEF Outside, Id
<1>3. QED
  BY <1>1, <1>2, PutFollows DEF Outside

\* A message that comes in.
LEMMA ReceivedDoes ==
    ASSUME NEW m, NEW n \in Nat, Sound(m, n), NEW role \in UserRole, NEW id \in Id
    PROVE  LET w == Received(m, Message(role, id))
           IN  /\ Sound(w, n) /\ w.threw = m.threw /\ Kept(m) \subseteq Kept(w)
               /\ SameAim(w, m) /\ \A s : Open(w, s) <=> Open(m, s)
               /\ \A s \in TurnState :
                     Follows(m, s) /\ (s.pc \in {"step", "calls"} => s.calls # <<>>)
                       => Follows(w, s)
<1> DEFINE x == Message(role, id)
           q == appendMessage(Active(m), x)
           w == Received(m, x)
<1>1. x \in Msg /\ x.role \in UserRole /\ x.calls = <<>>
  BY MessageIs DEF Roles
<1>2. m \in Memory /\ Active(m) \in Part /\ PartFormed(Active(m), n) /\ m.active \in Mode
  BY MemoryFields DEF Sound, Active
<1> HIDE DEF x
<1>3. /\ q \in Part
      /\ q.openSteps = Active(m).openSteps
      /\ PartFormed(q, n)
      /\ PartIds(Active(m)) \subseteq PartIds(q)
      /\ \A c \in Seq(Id) : Awaits(Active(m), c) => Awaits(q, c)
      /\ Active(m).pendingResults # {} => q.history = Active(m).history
  BY <1>1, <1>2, AppendMessageDoes
<1>4. w = Put(m, q)
  BY DEF Received
<1> HIDE DEF q, w
<1>5. Sound(w, n)
  BY <1>2, <1>3, <1>4, PutSound
<1>6. Kept(m) \subseteq Kept(w)
  <2>1. Kept(m) \subseteq Kept(w) \cup {}
    BY <1>2, <1>3, <1>4, PutKeeps
  <2>2. QED
    BY <2>1
<1>7. ASSUME NEW s \in TurnState, Follows(m, s), s.pc \in {"step", "calls"} => s.calls # <<>>
      PROVE  Follows(w, s)
  <2>1. s.calls \in Seq(Id)
    BY DEF TurnState
  <2>2. Awaits(Active(m), Awaited(m, s)) /\ Awaited(m, s) \in Seq(Id)
    BY <1>2, <1>7, <2>1, FollowsActive
  <2>3. Awaits(q, IF s.step \in q.openSteps THEN s.calls ELSE <<>>)
    BY <1>3, <2>2 DEF Awaited, Open
  <2>4. s.pc \in {"step", "calls"} /\ s.step \in q.openSteps
          => EndsWith(q.history, s.step, s.calls)
    <3>1. SUFFICES ASSUME s.pc \in {"step", "calls"}, s.step \in q.openSteps
                   PROVE  EndsWith(q.history, s.step, s.calls)
      OBVIOUS
    <3>2. Open(m, s) /\ Awaited(m, s) = s.calls /\ s.calls # <<>>
      BY <1>3, <1>7, <3>1 DEF Awaited, Open
    <3>3. q.history = Active(m).history
      BY <1>3, <2>2, <3>2, AwaitsNothing DEF hasOpenToolExchange
    <3>4. QED
      BY <1>7, <3>1, <3>2, <3>3 DEF Follows
  <2>5. \A k \in Mode : k # m.active => s.step \notin m.part[k].openSteps
    BY <1>7 DEF Follows
  <2>6. QED
    BY <1>2, <1>3, <1>4, <1>7, <2>3, <2>4, <2>5, PutFollows
<1>8. SameAim(w, m) /\ w.threw = m.threw /\ Active(w) = q
  BY <1>2, <1>3, <1>4, PutDoes DEF SameAim
<1>9. QED
  BY <1>3, <1>5, <1>6, <1>7, <1>8 DEF w, x, Open

\* A step that begins, numbered n.
LEMMA StepBegunDoes ==
    ASSUME NEW m, NEW n \in Id, Sound(m, n)
    PROVE  LET w == StepBegun(m, n)
           IN  /\ Sound(w, n + 1) /\ w.threw = m.threw /\ Kept(m) \subseteq Kept(w)
               /\ SameAim(w, m)
               /\ \A a, b : Follows(m, a) /\ a.calls = <<>>
                            /\ b.pc = "step" /\ b.step = n /\ b.calls = <<>>
                              => Follows(w, b) /\ Open(w, b)
<1> DEFINE q == stepBegin(Active(m), n)
           w == StepBegun(m, n)
<1>1. m \in Memory /\ Active(m) \in Part /\ PartFormed(Active(m), n) /\ m.active \in Mode
      /\ n \in Nat /\ n + 1 \in Nat /\ n <= n + 1
  BY MemoryFields DEF Sound, Active, Id
<1>2. /\ q \in Part
      /\ q.openSteps = Active(m).openSteps \cup {n}
      /\ PartFormed(q, n + 1) /\ EndsWith(q.history, n, <<>>)
      /\ PartIds(Active(m)) \subseteq PartIds(q)
      /\ Awaits(Active(m), <<>>) => Awaits(q, <<>>)
  BY <1>1, StepBeginDoes
<1>3. w = Put(m, q)
  BY DEF StepBegun
<1> HIDE DEF q, w
<1>4. Sound(w, n + 1)
  BY <1>1, <1>2, <1>3, PutSound
<1>5. Kept(m) \subseteq Kept(w)
  <2>1. Kept(m) \subseteq Kept(w) \cup {}
    BY <1>1, <1>2, <1>3, PutKeeps
  <2>2. QED
    BY <2>1
<1>6. SameAim(w, m) /\ w.threw = m.threw /\ Active(w) = q
  BY <1>1, <1>2, <1>3, PutDoes DEF SameAim
<1>7. ASSUME NEW a, NEW b, Follows(m, a), a.calls = <<>>,
             b.pc = "step", b.step = n, b.calls = <<>>
      PROVE  Follows(w, b) /\ Open(w, b)
  <2>1. Awaits(Active(m), <<>>)
    BY <1>1, <1>7, FollowsActive
  <2>2. \A k \in Mode : n \notin m.part[k].openSteps
    <3>1. \A k \in Mode : \A s \in m.part[k].openSteps : s < n
      BY DEF Sound, PartFormed
    <3>2. QED
      BY <1>1, <3>1
  <2>3. Awaits(q, IF b.step \in q.openSteps THEN b.calls ELSE <<>>)
    BY <1>2, <1>7, <2>1
  <2>4. Follows(w, b)
    BY <1>1, <1>2, <1>3, <1>7, <2>2, <2>3, PutFollows
  <2>5. QED
    BY <1>2, <1>6, <1>7, <2>4 DEF Open
<1>8. QED
  BY <1>4, <1>5, <1>6, <1>7 DEF w

\* A call d of step s.
LEMMA CalledDoes ==
    ASSUME NEW m, NEW n \in Nat, Sound(m, n), NEW s, NEW d \in Id
    PROVE  LET w == Called(m, s, d)
           IN  /\ Sound(w, n) /\ Kept(m) \subseteq Kept(w)
               /\ SameAim(w, m) /\ \A b : Open(w, b) <=> Open(m, b)
               /\ s \in Active(m).openSteps => w.threw = m.threw
               /\ s \notin Active(m).openSteps => w.part = m.part /\ w.active = m.active
               /\ \A a \in TurnState : \A b :
                     Follows(m, a) /\ Open(m, a) /\ a.pc \in {"step", "calls"} /\ a.step = s
                     /\ b.pc = "calls" /\ b.step = s /\ b.calls = Append(a.calls, d)
                       => Follows(w, b) /\ w.threw = m.threw
<1> DEFINE q == toolCall(Active(m), s, d)
           w == Called(m, s, d)
<1>1. m \in Memory /\ Active(m) \in Part /\ PartFormed(Active(m), n) /\ m.active \in Mode
  BY MemoryFields DEF Sound, Active
<1>2. CASE s \in Active(m).openSteps
  <2>1. /\ q \in Part
        /\ q.openSteps = Active(m).openSteps
        /\ PartFormed(q, n)
        /\ PartIds(Active(m)) \subseteq PartIds(q)
        /\ \A c \in Seq(Id) : Awaits(Active(m), c) /\ EndsWith(Active(m).history, s, c)
               => Awaits(q, Append(c, d)) /\ EndsWith(q.history, s, Append(c, d))
    <3>1. s \in Id
      BY <1>1, <1>2, PartFields
    <3>2. QED
      BY <1>1, <3>1, ToolCallDoes
  <2>2. w = Put(m, q)
    BY <1>2 DEF Called
  <2> HIDE DEF q, w
  <2>3. Sound(w, n)
    BY <1>1, <2>1, <2>2, PutSound
  <2>4. Kept(m) \subseteq Kept(w)
    <3>1. Kept(m) \subseteq Kept(w) \cup {}
      BY <1>1, <2>1, <2>2, PutKeeps
    <3>2. QED
      BY <3>1
  <2>5. ASSUME NEW a \in TurnState, NEW b, Follows(m, a), Open(m, a),
               a.pc \in {"step", "calls"},
               a.step = s, b.pc = "calls", b.step = s, b.calls = Append(a.calls, d)
        PROVE  Follows(w, b)
    <3>1. a.calls \in Seq(Id)
      BY DEF TurnState
    <3>2. Awaits(Active(m), a.calls)
      BY <1>1, <2>5, FollowsActive
    <3>3. EndsWith(Active(m).history, s, a.calls)
      BY <2>5 DEF Follows
    <3>4. Awaits(q, Append(a.calls, d)) /\ EndsWith(q.history, s, Append(a.calls, d))
      BY <2>1, <3>1, <3>2, <3>3
    <3>5. b.step \in q.openSteps
      BY <1>2, <2>1, <2>5
    <3>6. \A k \in Mode : k # m.active => b.step \notin m.part[k].openSteps
      BY <2>5 DEF Follows
    <3>7. QED
      BY <1>1, <2>1, <2>2, <2>5, <3>4, <3>5, <3>6, PutFollows
  <2>6. w.threw = m.threw /\ SameAim(w, m) /\ Active(w) = q
    BY <1>1, <2>1, <2>2, PutDoes DEF SameAim
  <2>7. \A b : Open(w, b) <=> Open(m, b)
    BY <2>1, <2>6 DEF Open
  <2>8. QED
    BY <1>2, <2>3, <2>4, <2>5, <2>6, <2>7 DEF w
<1>3. CASE s \notin Active(m).openSteps
  <2>1. w = [m EXCEPT !.threw = TRUE]
    BY <1>3 DEF Called
  <2> HIDE DEF w
  <2>2. /\ w \in Memory /\ w.active = m.active /\ w.mode = m.mode /\ w.switch = m.switch
        /\ w.part = m.part
    BY <1>1, <2>1 DEF Memory
  <2>3. Sound(w, n) /\ SameAim(w, m)
    BY <2>2 DEF Sound, SameAim, Target
  <2>4. Kept(w) = Kept(m)
    BY <2>2 DEF Kept
  <2>5. \A b : Open(w, b) <=> Open(m, b)
    BY <2>2 DEF Open, Active
  <2>6. \A a : Open(m, a) => a.step # s
    BY <1>3 DEF Open
  <2>7. QED
    BY <1>3, <2>2, <2>3, <2>4, <2>5, <2>6 DEF w
<1>4. QED
  BY <1>2, <1>3

\* The result of call d, which may have been undone or cleared with its step.
LEMMA AnsweredDoes ==
    ASSUME NEW m, NEW n \in Nat, Sound(m, n), NEW d \in Id
    PROVE  LET w == Answered(m, d)
           IN  /\ Sound(w, n) /\ w.threw = m.threw /\ Kept(m) \subseteq Kept(w)
               /\ SameAim(w, m) /\ \A s : Open(w, s) <=> Open(m, s)
               /\ \A a, b : Follows(m, a) /\ TurnFormed(a, n) /\ a.calls # <<>>
                            /\ Head(a.calls) = d /\ a.pc = "results"
                            /\ b.pc = "results" /\ b.step = a.step /\ b.calls = Tail(a.calls)
                              => Follows(w, b)
<1> DEFINE q == toolResult(Active(m), d)
           w == Answered(m, d)
<1>1. m \in Memory /\ Active(m) \in Part /\ PartFormed(Active(m), n) /\ m.active \in Mode
  BY MemoryFields DEF Sound, Active
<1>2. /\ q \in Part
      /\ q.openSteps = Active(m).openSteps
      /\ PartFormed(q, n)
      /\ PartIds(Active(m)) \subseteq PartIds(q)
      /\ \A c \in Seq(Id) :
           (/\ Awaits(Active(m), c) /\ c # <<>> /\ Head(c) = d
            /\ \A i, j \in DOMAIN c : c[i] = c[j] => i = j)
           => Awaits(q, Tail(c))
      /\ Awaits(Active(m), <<>>) => Awaits(q, <<>>)
  BY <1>1, ToolResultDoes
<1>3. w = Put(m, q)
  BY DEF Answered
<1> HIDE DEF q, w
<1>4. Sound(w, n)
  BY <1>1, <1>2, <1>3, PutSound
<1>5. Kept(m) \subseteq Kept(w)
  <2>1. Kept(m) \subseteq Kept(w) \cup {}
    BY <1>1, <1>2, <1>3, PutKeeps
  <2>2. QED
    BY <2>1
<1>6. ASSUME NEW a, NEW b, Follows(m, a), TurnFormed(a, n), a.calls # <<>>,
             Head(a.calls) = d, a.pc = "results",
             b.pc = "results", b.step = a.step, b.calls = Tail(a.calls)
      PROVE  Follows(w, b)
  <2>1. a.calls \in Seq(Id) /\ \A i, j \in DOMAIN a.calls : a.calls[i] = a.calls[j] => i = j
    BY <1>6 DEF TurnFormed, TurnState
  <2>2. Awaits(Active(m), Awaited(m, a))
    BY <1>1, <1>6, FollowsActive
  <2>3. Awaits(q, IF b.step \in q.openSteps THEN b.calls ELSE <<>>)
    <3>1. CASE Open(m, a)
      <4>1. Awaits(q, Tail(a.calls)) /\ b.step \in q.openSteps
        BY <1>2, <1>6, <2>1, <2>2, <3>1 DEF Awaited, Open
      <4>2. QED
        BY <1>6, <4>1
    <3>2. CASE ~ Open(m, a)
      <4>1. Awaits(q, <<>>) /\ b.step \notin q.openSteps
        BY <1>2, <1>6, <2>2, <3>2 DEF Awaited, Open
      <4>2. QED
        BY <4>1
    <3>3. QED
      BY <3>1, <3>2
  <2>4. \A k \in Mode : k # m.active => b.step \notin m.part[k].openSteps
    BY <1>6 DEF Follows
  <2>5. QED
    BY <1>1, <1>2, <1>3, <1>6, <2>3, <2>4, PutFollows
<1>7. SameAim(w, m) /\ w.threw = m.threw /\ Active(w) = q
  BY <1>1, <1>2, <1>3, PutDoes DEF SameAim
<1>8. QED
  BY <1>2, <1>4, <1>5, <1>6, <1>7 DEF w, Open

\* A switch that is applied: no other one is left.
LEMMA SwitchedDoes ==
    ASSUME NEW m, NEW n, Sound(m, n)
    PROVE  LET w == flushDeferredContextSwitch(m)
           IN  /\ Sound(w, n) /\ w.threw = m.threw /\ Kept(w) = Kept(m)
               /\ w.part = m.part /\ SameAim(w, m)
               /\ w.switch = None
<1> DEFINE w == flushDeferredContextSwitch(m)
<1>1. m \in Memory /\ \A k \in Mode : PartFormed(m.part[k], n)
  BY DEF Sound
<1>2. CASE m.switch = None
  BY <1>1, <1>2 DEF flushDeferredContextSwitch, Sound, SameAim
<1>3. CASE m.switch # None
  <2>1. w = [m EXCEPT !.active = m.switch, !.switch = None]
    BY <1>3 DEF flushDeferredContextSwitch
  <2>2. m.switch \in Mode
    BY <1>1, <1>3, MemoryFields
  <2> HIDE DEF w
  <2>3. /\ w \in Memory /\ w.active = m.switch /\ w.switch = None /\ w.mode = m.mode
        /\ w.threw = m.threw /\ w.part = m.part
    BY <1>1, <2>1, <2>2 DEF Memory
  <2>4. QED
    BY <1>1, <1>3, <2>3 DEF Sound, SameAim, Target, Kept, w
<1>4. QED
  BY <1>2, <1>3

\* A step that ends, and the switch that waited for it.
LEMMA StepEndedDoes ==
    ASSUME NEW m, NEW n \in Nat, Sound(m, n), NEW s
    PROVE  LET w == StepEnded(m, s)
           IN  /\ Sound(w, n) /\ w.threw = m.threw /\ Kept(m) \subseteq Kept(w)
               /\ SameAim(w, m)
               /\ \A a, b : Follows(m, a) /\ a.calls = <<>> /\ Outside(b) => Follows(w, b)
<1> DEFINE q == stepEnd(Active(m), s)
           v == Put(m, q)
           w == StepEnded(m, s)
<1>1. m \in Memory /\ Active(m) \in Part /\ PartFormed(Active(m), n) /\ m.active \in Mode
  BY MemoryFields DEF Sound, Active
<1>2. /\ q \in Part
      /\ PartFormed(q, n)
      /\ PartIds(Active(m)) \subseteq PartIds(q)
      /\ Awaits(Active(m), <<>>) => Awaits(q, <<>>)
  BY <1>1, StepEndDoes, Nothing
<1>3. w = flushDeferredContextSwitch(v)
  BY DEF StepEnded
<1> HIDE DEF q, w
<1>4. Sound(v, n) /\ v.threw = m.threw /\ SameAim(v, m)
  BY <1>1, <1>2, PutSound, PutDoes DEF SameAim
<1>5. Kept(m) \subseteq Kept(v) \cup {}
  BY <1>1, <1>2, PutKeeps
<1>6. ASSUME NEW a, NEW b, Follows(m, a), a.calls = <<>>, Outside(b)
      PROVE  Follows(v, b)
  BY <1>1, <1>2, <1>6, FollowsActive, OutsidePut
<1> HIDE DEF v
<1>7. /\ Sound(w, n) /\ w.threw = v.threw /\ Kept(w) = Kept(v) /\ w.part = v.part
      /\ SameAim(w, v)
  BY <1>3, <1>4, SwitchedDoes
<1>8. v \in Memory /\ w \in Memory
  BY <1>4, <1>7 DEF Sound
<1>9. ASSUME NEW a, NEW b, Follows(m, a), a.calls = <<>>, Outside(b)
      PROVE  Follows(w, b)
  <2>1. Follows(v, b) /\ b.calls = <<>>
    BY <1>6, <1>9 DEF Outside
  <2>2. Awaited(v, b) = <<>>
    BY <1>8, <2>1, FollowsActive
  <2>3. QED
    BY <1>7, <1>8, <1>9, <2>1, <2>2, OutsideFollows
<1>10. QED
  BY <1>4, <1>5, <1>7, <1>9 DEF w, SameAim

\* The partition is emptied, or goes back behind its last prompt, and with it the
\* step that is open.
LEMMA ResetDoes ==
    ASSUME NEW m, NEW n \in Nat, Sound(m, n), NEW w, w \in {Cleared(m), UndoneIn(m)}
    PROVE  /\ Sound(w, n) /\ w.threw = m.threw /\ SameAim(w, m)
           /\ \A a \in TurnState : ~ Open(w, a) /\ (Follows(m, a) => Follows(w, a))
<1>1. m \in Memory /\ Active(m) \in Part /\ PartFormed(Active(m), n) /\ m.active \in Mode
  BY MemoryFields DEF Sound, Active
<1>2. PICK q \in {EmptyPart, undo(Active(m))} : w = Put(m, q)
  BY DEF Cleared, UndoneIn
<1>3. /\ q \in Part /\ PartFormed(q, n) /\ q.openSteps = {}
      /\ \A c \in Seq(Id) : Awaits(Active(m), c) => Awaits(q, <<>>)
  <2>1. EmptyPart.openSteps = {}
    BY DEF EmptyPart
  <2>2. QED
    BY <1>1, <2>1, UndoDoes, EmptyPartIs
<1>4. Sound(w, n) /\ w.threw = m.threw /\ SameAim(w, m) /\ Active(w) = q
  BY <1>1, <1>2, <1>3, PutSound, PutDoes DEF SameAim
<1>5. ASSUME NEW a \in TurnState, Follows(m, a) PROVE Follows(w, a)
  <2>1. a.calls \in Seq(Id)
    BY DEF TurnState
  <2>2. Awaits(q, <<>>)
    BY <1>1, <1>3, <1>5, <2>1, FollowsActive
  <2>3. \A k \in Mode : k # m.active => a.step \notin m.part[k].openSteps
    BY <1>5 DEF Follows
  <2>4. QED
    BY <1>1, <1>2, <1>3, <1>5, <2>2, <2>3, PutFollows
<1>6. QED
  BY <1>3, <1>4, <1>5 DEF Open

\* The summary of the first n messages takes their place.
LEMMA CompactedDoes ==
    ASSUME NEW m, NEW l \in Nat, Sound(m, l), NEW n \in Nat, NEW id \in Id
    PROVE  LET w == CompactedTo(m, n, id)
               h == Active(m).history
           IN  /\ Sound(w, l) /\ w.threw = m.threw /\ SameAim(w, m)
               /\ Kept(m) \subseteq Kept(w) \cup {h[i].id : i \in {j \in DOMAIN h : j <= n}}
               /\ \A a, b : Follows(m, a) /\ a.calls = <<>> /\ Outside(b) => Follows(w, b)
<1> DEFINE p == Active(m)
           h == p.history
           X == {h[i].id : i \in {j \in DOMAIN h : j <= n}}
           q == applyCompaction(p, n, id)
           w == CompactedTo(m, n, id)
<1>1. m \in Memory /\ p \in Part /\ PartFormed(p, l) /\ m.active \in Mode
  BY MemoryFields DEF Sound, Active
<1> HIDE DEF p
<1>2. /\ q \in Part
      /\ PartFormed(q, l)
      /\ \A i \in DOMAIN h : h[i].id \in PartIds(q) \/ i <= n
      /\ IdsOf(p.deferred) \subseteq PartIds(q)
      /\ Awaits(p, <<>>) => Awaits(q, <<>>)
  BY <1>1, CompactionDoes
<1>3. w = Put(m, q)
  BY DEF CompactedTo, p
<1> HIDE DEF q, w, h
<1>4. PartIds(p) \subseteq PartIds(q) \cup X
  <2>1. IdsOf(h) \subseteq PartIds(q) \cup X
    BY <1>2 DEF IdsOf, Range
  <2>2. PartIds(p) = IdsOf(h) \cup IdsOf(p.deferred)
    BY DEF PartIds, h
  <2> HIDE DEF X
  <2>3. QED
    BY <1>2, <2>1, <2>2
<1>5. Kept(m) \subseteq Kept(w) \cup X
  <2> HIDE DEF X
  <2>1. PartIds(Active(m)) \subseteq PartIds(q) \cup X
    BY <1>4 DEF p
  <2>2. QED
    BY <1>1, <1>2, <1>3, <2>1, PutKeeps
<1>6. Sound(w, l) /\ w.threw = m.threw /\ SameAim(w, m)
  BY <1>1, <1>2, <1>3, PutSound, PutDoes DEF SameAim
<1>7. ASSUME NEW a, NEW b, Follows(m, a), a.calls = <<>>, Outside(b)
      PROVE  Follows(w, b)
  BY <1>1, <1>2, <1>3, <1>7, FollowsActive, OutsidePut DEF p
<1>8. QED
  BY <1>5, <1>6, <1>7 DEF w, h, p

\* A switch to mode k is done at once, or waits for the step that is open.
LEMMA SetModeDoes ==
    ASSUME NEW m, NEW n \in Nat, Sound(m, n), NEW k \in Mode
    PROVE  LET w == setContextMode(m, k)
           IN  /\ Sound(w, n) /\ w.threw = m.threw /\ Kept(w) = Kept(m)
               /\ Target(w) = k /\ w.mode = m.mode
               /\ \A a : Follows(m, a) => Follows(w, a) /\ (Open(w, a) <=> Open(m, a))
<1> DEFINE w == setContextMode(m, k)
<1>1. m \in Memory /\ \A j \in Mode : PartFormed(m.part[j], n)
  BY DEF Sound
<1>2. k # None
  BY ModeAssumption
<1>3. CASE Active(m).openSteps # {}
  <2>1. w = [m EXCEPT !.switch = k]
    BY <1>3 DEF setContextMode
  <2> HIDE DEF w
  <2>2. /\ w \in Memory /\ w.mode = m.mode /\ w.part = m.part /\ w.threw = m.threw
        /\ w.active = m.active /\ w.switch = k
    BY <1>1, <2>1 DEF Memory
  <2>3. Sound(w, n) /\ Kept(w) = Kept(m) /\ Target(w) = k
    BY <1>1, <1>2, <2>2 DEF Sound, Target, Kept
  <2>4. \A a : Open(w, a) <=> Open(m, a)
    BY <2>2 DEF Open, Active
  <2>5. \A a : Follows(m, a) => Follows(w, a)
    BY <2>2, <2>4 DEF Follows, Active, Awaited
  <2>6. QED
    BY <2>2, <2>3, <2>4, <2>5 DEF w
<1>4. CASE Active(m).openSteps = {}
  <2>1. w = [m EXCEPT !.active = k, !.switch = None]
    BY <1>4 DEF setContextMode
  <2> HIDE DEF w
  <2>2. /\ w \in Memory /\ w.mode = m.mode /\ w.part = m.part /\ w.threw = m.threw
        /\ w.active = k /\ w.switch = None
    BY <1>1, <2>1 DEF Memory
  <2>3. Sound(w, n) /\ Kept(w) = Kept(m) /\ Target(w) = k
    BY <1>1, <2>2 DEF Sound, Target, Kept
  <2>4. ASSUME NEW a, Follows(m, a)
        PROVE  Follows(w, a) /\ ~ Open(w, a) /\ ~ Open(m, a)
    <3>1. \A j \in Mode : a.step \notin m.part[j].openSteps
      BY <1>1, <1>4, <2>4, MemoryFields DEF Follows
    <3>2. ~ Open(m, a) /\ ~ Open(w, a)
      BY <1>1, <2>2, <3>1, MemoryFields DEF Open
    <3>3. \A j \in Mode : Awaits(m.part[j], <<>>)
      BY <2>4, <3>2 DEF Follows, Awaited
    <3>4. QED
      BY <2>2, <3>1, <3>2, <3>3 DEF Follows, Awaited
  <2>5. QED
    BY <2>2, <2>3, <2>4 DEF w
<1>5. QED
  BY <1>3, <1>4

\* The mode of a session is only a name.
LEMMA NamedDoes ==
    ASSUME NEW m, NEW n, Sound(m, n), NEW k \in Mode
    PROVE  LET w == [m EXCEPT !.mode = k]
           IN  /\ Sound(w, n) /\ w.threw = m.threw /\ Kept(w) = Kept(m)
               /\ Target(w) = Target(m) /\ w.mode = k
               /\ \A a : Follows(m, a) => Follows(w, a) /\ (Open(w, a) <=> Open(m, a))
<1> DEFINE w == [m EXCEPT !.mode = k]
<1>1. /\ w \in Memory /\ w.mode = k /\ w.part = m.part /\ w.threw = m.threw
      /\ w.active = m.active /\ w.switch = m.switch
  BY DEF Sound, Memory
<1> HIDE DEF w
<1>2. Sound(w, n) /\ Kept(w) = Kept(m) /\ Target(w) = Target(m)
  BY <1>1 DEF Sound, Target, Kept
<1>3. \A a : Open(w, a) <=> Open(m, a)
  BY <1>1 DEF Open, Active
<1>4. \A a : Follows(m, a) => Follows(w, a)
  BY <1>1, <1>3 DEF Follows, Active, Awaited
<1>5. QED
  BY <1>1, <1>2, <1>3, <1>4 DEF w

\* What a switch of modes leaves of a memory: all but where messages go from now on.
Moved(w, m, n) ==
    /\ Sound(w, n) /\ w.threw = m.threw /\ Kept(w) = Kept(m)
    /\ \A a : Follows(m, a) => Follows(w, a) /\ (Open(w, a) <=> Open(m, a))

\* Entering a mode and leaving it, as a replay does, and at once.
LEMMA MovedMode ==
    ASSUME NEW m, NEW n \in Nat, Sound(m, n), NEW k \in Mode
    PROVE  /\ Moved(m, m, n)
           /\ Moved([m EXCEPT !.mode = k], m, n)
           /\ Target([m EXCEPT !.mode = k]) = Target(m) /\ [m EXCEPT !.mode = k].mode = k
           /\ Moved(setContextMode(m, k), m, n)
           /\ Target(setContextMode(m, k)) = k /\ setContextMode(m, k).mode = m.mode
           /\ Moved(enter(m, k), m, n) /\ Target(enter(m, k)) = k /\ enter(m, k).mode = k
           /\ Moved(leave(m), m, n) /\ Target(leave(m)) = "normal" /\ leave(m).mode = "normal"
           /\ Moved(exit(m), m, n) /\ exit(m).mode = "normal"
           /\ Target(m) = m.mode \/ m.mode # "normal" => Target(exit(m)) = "normal"
<1> DEFINE named(j) == [m EXCEPT !.mode = j]
<1>1. ASSUME NEW j \in Mode
      PROVE  Moved(named(j), m, n) /\ Target(named(j)) = Target(m) /\ named(j).mode = j
  BY NamedDoes DEF Moved
<1>2. ASSUME NEW j \in Mode
      PROVE  /\ Moved(setContextMode(m, j), m, n) /\ Target(setContextMode(m, j)) = j
             /\ setContextMode(m, j).mode = m.mode
  BY SetModeDoes DEF Moved
<1>3. ASSUME NEW j \in Mode
      PROVE  LET w == setContextMode(named(j), j)
             IN  Moved(w, m, n) /\ Target(w) = j /\ w.mode = j
  <2> DEFINE v == named(j)
             w == setContextMode(v, j)
  <2>1. Moved(v, m, n) /\ v.mode = j
    BY <1>1
  <2> HIDE DEF v, named
  <2>2. Sound(v, n)
    BY <2>1 DEF Moved
  <2>3. /\ Sound(w, n) /\ w.threw = v.threw /\ Kept(w) = Kept(v)
        /\ Target(w) = j /\ w.mode = v.mode
        /\ \A a : Follows(v, a) => Follows(w, a) /\ (Open(w, a) <=> Open(v, a))
    BY <2>2, SetModeDoes
  <2> HIDE DEF w
  <2>4. QED
    BY <2>1, <2>3 DEF Moved, w, v
<1>4. "normal" \in Mode
  BY ModeAssumption
<1>5. Moved(enter(m, k), m, n) /\ Target(enter(m, k)) = k /\ enter(m, k).mode = k
  BY <1>3 DEF enter
<1>6. Moved(leave(m), m, n) /\ Target(leave(m)) = "normal" /\ leave(m).mode = "normal"
  BY <1>3, <1>4 DEF leave
<1>7. Moved(m, m, n)
  BY DEF Moved
<1> HIDE DEF named
<1>8. /\ Moved(exit(m), m, n) /\ exit(m).mode = "normal"
      /\ Target(m) = m.mode \/ m.mode # "normal" => Target(exit(m)) = "normal"
  BY <1>6, <1>7 DEF exit
<1>9. QED
  BY <1>1, <1>2, <1>5, <1>6, <1>7, <1>8 DEF named

-----------------------------------------------------------------------------
\* The states of the whole.

\* What is sound, and what is formed, stays so as the numbers grow.
LEMMA Later ==
    ASSUME NEW n \in Nat, NEW l \in Nat, n <= l
    PROVE  /\ \A m : Sound(m, n) => Sound(m, l)
           /\ \A s : TurnFormed(s, n) => TurnFormed(s, l)
<1>1. ASSUME NEW m, Sound(m, n) PROVE Sound(m, l)
  <2>1. m \in Memory /\ \A k \in Mode : PartFormed(m.part[k], n)
    BY <1>1 DEF Sound
  <2>2. \A k \in Mode : m.part[k] \in Part
    BY <2>1, MemoryFields
  <2>3. QED
    BY <2>1, <2>2, FormedLater DEF Sound
<1>2. ASSUME NEW s, TurnFormed(s, n) PROVE TurnFormed(s, l)
  <2> DEFINE c == s.calls
  <2>1. c \in Seq(Id) /\ \A i \in DOMAIN c : c[i] < n
    BY <1>2 DEF TurnFormed, TurnState
  <2> HIDE DEF c
  <2>2. ASSUME NEW i \in DOMAIN c PROVE c[i] < l
    <3>1. c[i] \in Nat
      <4>1. c[i] \in Id
        BY <2>1, ElementOfSeq, LenProperties
      <4>2. QED
        BY <4>1 DEF Id
    <3>2. QED
      BY <2>1, <3>1
  <2>3. QED
    BY <1>2, <2>2 DEF TurnFormed, c
<1>3. QED
  BY <1>1, <1>2

\* The numbers.
LEMMA Numbers ==
    ASSUME Counters
    PROVE  /\ nextId \in Nat
           /\ Numbered => /\ nextId \in Id /\ nextId' \in 1 .. MaxIds + 1 /\ nextId' \in Nat
                          /\ nextId' = nextId + 1 /\ nextId <= nextId'
           /\ Intervenes => acts' \in 0 .. MaxActs
<1>1. MaxIds \in Nat /\ MaxActs \in Nat /\ nextId \in 1 .. MaxIds + 1 /\ acts \in 0 .. MaxActs
  BY BoundAssumption DEF Counters
<1>2. nextId \in Nat
  BY <1>1
<1>3. ASSUME Numbered
      PROVE  /\ nextId \in Id /\ nextId' \in 1 .. MaxIds + 1 /\ nextId' \in Nat
             /\ nextId' = nextId + 1 /\ nextId <= nextId'
  <2>1. nextId' = nextId + 1 /\ nextId <= MaxIds
    BY <1>3 DEF Numbered
  <2>2. QED
    BY <1>1, <2>1 DEF Id
<1>4. Intervenes => acts' \in 0 .. MaxActs
  BY <1>1 DEF Intervenes
<1>5. QED
  BY <1>2, <1>3, <1>4

\* A free turn.
LEMMA FreeTurnIs ==
    /\ FreeTurn \in TurnState /\ \A n : TurnFormed(FreeTurn, n)
    /\ Outside(FreeTurn) /\ FreeTurn.pc = "free" /\ FreeTurn.calls = <<>>
BY Nothing DEF FreeTurn, TurnState, TurnFormed, Outside, InStep

\* One turn goes on to another state.
LEMMA TurnsGo ==
    ASSUME Turns, Counters, nextId' \in Nat, nextId <= nextId',
           NEW t \in Turn, NEW state, TurnFormed(state, nextId'), Goto(t, state)
    PROVE  Turns' /\ turn'[t] = state /\ \A u \in Turn \ {t} : turn'[u] = turn[u]
<1>1. nextId \in Nat /\ state \in TurnState
  BY Numbers DEF TurnFormed
<1>2. /\ turn' \in [Turn -> TurnState] /\ turn'[t] = state
      /\ \A u \in Turn \ {t} : turn'[u] = turn[u]
  BY <1>1 DEF Goto, Turns
<1>3. ASSUME NEW u \in Turn PROVE TurnFormed(turn'[u], nextId')
  <2>1. TurnFormed(turn[u], nextId')
    BY <1>1, Later DEF Turns
  <2>2. QED
    BY <1>2, <2>1
<1>4. QED
  BY <1>2, <1>3 DEF Turns

\* No turn moves.
LEMMA TurnsStay ==
    ASSUME Turns, Counters, nextId' \in Nat, nextId <= nextId', turn' = turn
    PROVE  Turns'
BY Numbers, Later DEF Turns

\* Turn t, the only one alive, goes on.
LEMMA OrderGoes ==
    ASSUME NEW t \in Turn, Alone(t), NEW state, state.pc # "free",
           turn'[t] = state, \A u \in Turn \ {t} : turn'[u] = turn[u],
           stepsKept' => ~ disk'.threw, Followed(live', disk', stepsKept', state)
    PROVE  InOrder'
<1>1. \A u \in Turn \ {t} : turn'[u].pc = "free"
  BY DEF Alone, Alive
<1>2. \A u, v \in Turn : turn'[u].pc # "free" /\ turn'[v].pc # "free" => u = v
  BY <1>1
<1>3. ASSUME NEW u \in Turn, \A v \in Turn \ {u} : turn'[v].pc = "free"
      PROVE  Followed(live', disk', stepsKept', turn'[u])
  <2>1. u = t
    BY <1>3
  <2>2. QED
    BY <2>1
<1>4. QED
  BY <1>2, <1>3 DEF InOrder, Alone, Alive

\* No turn is left alive.
LEMMA OrderEnds ==
    ASSUME \A u \in Turn : turn'[u].pc = "free" /\ Outside(turn'[u]),
           live' \in Memory, disk' \in Memory, stepsKept' => ~ disk'.threw,
           NEW a, Follows(live', a), Follows(disk', a),
           Awaited(live', a) = <<>>, Awaited(disk', a) = <<>>
    PROVE  InOrder'
<1>1. \A u \in Turn : Follows(live', turn'[u]) /\ Follows(disk', turn'[u])
  BY OutsideFollows
<1>2. \A u \in Turn : turn'[u].pc \notin InStep
  BY DEF Outside
<1>3. \A u \in Turn : Followed(live', disk', stepsKept', turn'[u])
  BY <1>1, <1>2 DEF Followed
<1>4. QED
  BY <1>3 DEF InOrder, Alone, Alive

\* The turns stay where they are.
LEMMA OrderStays ==
    ASSUME InOrder, turn' = turn, stepsKept' => ~ disk'.threw,
           \A t \in Turn : Alone(t) /\ Followed(live, disk, stepsKept, turn[t])
               => Followed(live', disk', stepsKept', turn[t])
    PROVE  InOrder'
BY DEF InOrder, Alone, Alive

\* The memories aim where they did.
LEMMA AimStays ==
    ASSUME Aimed, SameAim(live', live), SameAim(disk', disk),
           entering' = entering, overtaken' = overtaken
    PROVE  Aimed'
BY DEF Aimed, SameAim, Entering

\* A memory that is left alone aims where it did.
LEMMA AimSame == \A m : SameAim(m, m)
BY DEF SameAim

USE DEF ghosts

-----------------------------------------------------------------------------
\* What each action preserves.

\* A message that comes in, now and in a replay.
LEMMA MessageKeeps ==
    ASSUME IInv, NEW role \in UserRole, Numbered,
           live' = Received(live, Message(role, nextId)),
           disk' = Received(disk, Message(role, nextId))
    PROVE  /\ Sound(live', nextId') /\ Sound(disk', nextId')
           /\ Kept(live) \subseteq Kept(live') /\ disk'.threw = disk.threw
           /\ entering' = entering /\ overtaken' = overtaken => Aimed'
           /\ \A s \in TurnState :
                 Followed(live, disk, stepsKept, s)
                 /\ (s.pc \in {"step", "calls"} => s.calls # <<>>)
                   => Followed(live', disk', stepsKept, s)
<1>1. /\ nextId \in Id /\ nextId \in Nat /\ nextId' \in Nat /\ nextId <= nextId'
      /\ Sound(live, nextId) /\ Sound(disk, nextId) /\ Aimed
  BY Numbers DEF IInv
<1>2. /\ Sound(live', nextId) /\ Kept(live) \subseteq Kept(live')
      /\ SameAim(live', live) /\ \A s : Open(live', s) <=> Open(live, s)
      /\ \A s \in TurnState :
            Follows(live, s) /\ (s.pc \in {"step", "calls"} => s.calls # <<>>)
              => Follows(live', s)
  BY <1>1, ReceivedDoes
<1>3. /\ Sound(disk', nextId) /\ disk'.threw = disk.threw
      /\ SameAim(disk', disk) /\ \A s : Open(disk', s) <=> Open(disk, s)
      /\ \A s \in TurnState :
            Follows(disk, s) /\ (s.pc \in {"step", "calls"} => s.calls # <<>>)
              => Follows(disk', s)
  BY <1>1, ReceivedDoes
<1>4. Sound(live', nextId') /\ Sound(disk', nextId')
  BY <1>1, <1>2, <1>3, Later
<1>5. entering' = entering /\ overtaken' = overtaken => Aimed'
  BY <1>1, <1>2, <1>3, AimStays
<1>6. ASSUME NEW s \in TurnState, Followed(live, disk, stepsKept, s),
             s.pc \in {"step", "calls"} => s.calls # <<>>
      PROVE  Followed(live', disk', stepsKept, s)
  BY <1>2, <1>3, <1>6 DEF Followed
<1>7. QED
  BY <1>2, <1>3, <1>4, <1>5, <1>6

\* A notice, which breaks the order when the model answers.
LEMMA NoticeKeeps ==
    ASSUME IInv, appendNotice
    PROVE  IInv' /\ Kept(live) \subseteq Kept(live')
<1>1. /\ "notice" \in UserRole /\ Numbered
      /\ live' = Received(live, Message("notice", nextId))
      /\ disk' = Received(disk, Message("notice", nextId))
      /\ UNCHANGED <<activeTurn, turn, compaction, entering, acts, stepsKept, overtaken>>
      /\ intact' = (intact /\ \A t \in Turn : turn[t].pc # "step")
  BY DEF appendNotice, append, Logged, UserRole
<1>2. /\ Sound(live', nextId') /\ Sound(disk', nextId')
      /\ Kept(live) \subseteq Kept(live') /\ disk'.threw = disk.threw
      /\ Aimed'
      /\ \A s \in TurnState :
            Followed(live, disk, stepsKept, s)
            /\ (s.pc \in {"step", "calls"} => s.calls # <<>>)
              => Followed(live', disk', stepsKept, s)
  BY <1>1, MessageKeeps
<1>3. Counters' /\ Turns' /\ Compactions'
  <2>1. Counters /\ Turns /\ Compactions
    BY DEF IInv
  <2>2. Counters'
    BY <1>1, <2>1, Numbers DEF Counters
  <2>3. Turns'
    BY <1>1, <2>1, Numbers, TurnsStay
  <2>4. QED
    BY <1>1, <2>1, <2>2, <2>3 DEF Compactions
<1>4. ASSUME intact' PROVE InOrder'
  <2>1. intact /\ InOrder /\ \A t \in Turn : turn[t].pc # "step"
    BY <1>1, <1>4 DEF IInv
  <2>2. ASSUME NEW t \in Turn, Followed(live, disk, stepsKept, turn[t])
        PROVE  Followed(live', disk', stepsKept', turn[t])
    <3>1. turn[t] \in TurnState /\ (turn[t].pc \in {"step", "calls"} => turn[t].calls # <<>>)
      BY <2>1 DEF IInv, Turns, TurnFormed
    <3>2. QED
      BY <1>1, <1>2, <2>2, <3>1
  <2>3. stepsKept' => ~ disk'.threw
    BY <1>1, <1>2, <2>1 DEF InOrder
  <2>4. QED
    BY <1>1, <2>1, <2>2, <2>3, OrderStays
<1>5. QED
  BY <1>2, <1>3, <1>4 DEF IInv

\* Input that is steered into a turn.
LEMMA SteeredKeeps ==
    ASSUME IInv, NEW t \in Turn, NEW role \in {"prompt", "reminder"}, appendInTurn(t, role)
    PROVE  IInv' /\ Kept(live) \subseteq Kept(live')
<1>1. /\ role \in UserRole /\ Numbered
      /\ live' = Received(live, Message(role, nextId))
      /\ disk' = Received(disk, Message(role, nextId))
      /\ UNCHANGED <<activeTurn, turn, compaction, entering, acts, stepsKept, overtaken>>
      /\ intact' = intact
      /\ turn[t].pc = "load" \/ turn[t].calls # <<>>
  BY DEF appendInTurn, append, Logged, UserRole
<1>2. /\ Sound(live', nextId') /\ Sound(disk', nextId')
      /\ Kept(live) \subseteq Kept(live') /\ disk'.threw = disk.threw
      /\ Aimed'
      /\ \A s \in TurnState :
            Followed(live, disk, stepsKept, s)
            /\ (s.pc \in {"step", "calls"} => s.calls # <<>>)
              => Followed(live', disk', stepsKept, s)
  BY <1>1, MessageKeeps
<1>3. Counters' /\ Turns' /\ Compactions'
  <2>1. Counters /\ Turns /\ Compactions
    BY DEF IInv
  <2>2. Counters'
    BY <1>1, <2>1, Numbers DEF Counters
  <2>3. Turns'
    BY <1>1, <2>1, Numbers, TurnsStay
  <2>4. QED
    BY <1>1, <2>1, <2>2, <2>3 DEF Compactions
<1>4. ASSUME intact' PROVE InOrder'
  <2>1. intact /\ InOrder
    BY <1>1, <1>4 DEF IInv
  <2>2. ASSUME NEW u \in Turn, Alone(u), Followed(live, disk, stepsKept, turn[u])
        PROVE  Followed(live', disk', stepsKept', turn[u])
    <3>1. Alive(t)
      BY <1>1 DEF IInv, Turns, TurnFormed, Alive
    <3>2. u = t
      BY <2>2, <3>1 DEF Alone
    <3>3. turn[u] \in TurnState /\ (turn[u].pc \in {"step", "calls"} => turn[u].calls # <<>>)
      BY <1>1, <3>2 DEF IInv, Turns
    <3>4. QED
      BY <1>1, <1>2, <2>2, <3>3
  <2>3. stepsKept' => ~ disk'.threw
    BY <1>1, <1>2, <2>1 DEF InOrder
  <2>4. QED
    BY <1>1, <2>1, <2>2, <2>3, OrderStays
<1>5. QED
  BY <1>2, <1>3, <1>4 DEF IInv

\* A turn that is launched.
LEMMA LaunchKeeps ==
    ASSUME IInv, NEW t \in Turn, NEW role \in {"prompt", "notice"}, launch(t, role)
    PROVE  IInv' /\ Kept(live) \subseteq Kept(live')
<1> DEFINE state == [FreeTurn EXCEPT !.pc = "load"]
<1>1. /\ role \in UserRole /\ Numbered
      /\ live' = Received(live, Message(role, nextId))
      /\ disk' = Received(disk, Message(role, nextId))
      /\ activeTurn' = t /\ UNCHANGED <<compaction, entering, acts, stepsKept, overtaken>>
      /\ Goto(t, state)
      /\ intact' = (intact /\ Idle)
  BY DEF launch, Logged, UserRole, Goto
<1>2. /\ Sound(live', nextId') /\ Sound(disk', nextId')
      /\ Kept(live) \subseteq Kept(live') /\ disk'.threw = disk.threw
      /\ Aimed'
      /\ \A s \in TurnState :
            Followed(live, disk, stepsKept, s)
            /\ (s.pc \in {"step", "calls"} => s.calls # <<>>)
              => Followed(live', disk', stepsKept, s)
  BY <1>1, MessageKeeps
<1>3. state.pc = "load" /\ Outside(state) /\ \A n : TurnFormed(state, n)
  BY FreeTurnIs, Nothing DEF FreeTurn, TurnState, TurnFormed, Outside, InStep
<1> HIDE DEF state
<1>4. Counters /\ Turns /\ Compactions
  BY DEF IInv
<1>5. Turns' /\ turn'[t] = state /\ \A u \in Turn \ {t} : turn'[u] = turn[u]
  BY <1>1, <1>3, <1>4, Numbers, TurnsGo
<1>6. Counters' /\ Compactions'
  BY <1>1, <1>4, Numbers DEF Counters, Compactions
<1>7. ASSUME intact' PROVE InOrder'
  <2>1. intact /\ InOrder /\ Idle /\ Alone(t)
    BY <1>1, <1>7 DEF IInv, Idle, Alone
  <2>2. Followed(live, disk, stepsKept, turn[t])
    BY <2>1 DEF InOrder
  <2>3. turn[t] \in TurnState /\ turn[t].pc = "free" /\ turn[t].calls = <<>>
    BY <1>4, <2>1 DEF Turns, TurnFormed, Idle, Alive
  <2>4. Follows(live', turn[t]) /\ Follows(disk', turn[t])
    BY <1>2, <2>2, <2>3 DEF Followed
  <2>5. live' \in Memory /\ disk' \in Memory
    BY <1>2 DEF Sound
  <2>6. Follows(live', state) /\ Follows(disk', state)
    BY <1>3, <2>3, <2>4, <2>5, FollowsActive, OutsideFollows
  <2>7. Followed(live', disk', stepsKept', state)
    BY <1>3, <2>6 DEF Followed, Outside
  <2>8. stepsKept' => ~ disk'.threw
    BY <1>1, <1>2, <2>1 DEF InOrder
  <2>9. QED
    BY <1>3, <1>5, <2>1, <2>7, <2>8, OrderGoes
<1>8. QED
  BY <1>2, <1>5, <1>6, <1>7 DEF IInv

\* A turn that goes on where it is, or is let go on, is followed as before.
LEMMA OrderAlike ==
    ASSUME InOrder, live' = live, disk' = disk, stepsKept' = stepsKept,
           \A u \in Turn :
              /\ turn'[u].calls = turn[u].calls /\ turn'[u].step = turn[u].step
              /\ turn'[u].pc = turn[u].pc \/ (turn[u].pc = "blocked" /\ turn'[u].pc = "load")
    PROVE  InOrder'
<1>1. \A u \in Turn : turn'[u].pc = "free" <=> turn[u].pc = "free"
  OBVIOUS
<1>2. \A u \in Turn : (\A v \in Turn \ {u} : turn'[v].pc = "free") => Alone(u)
  BY <1>1 DEF Alone, Alive
<1>3. ASSUME NEW u \in Turn
      PROVE  /\ \A m : /\ Open(m, turn'[u]) <=> Open(m, turn[u])
                       /\ Follows(m, turn[u]) => Follows(m, turn'[u])
             /\ turn'[u].pc \in InStep => turn[u].pc \in InStep
  <2>1. /\ turn'[u].calls = turn[u].calls /\ turn'[u].step = turn[u].step
        /\ turn'[u].pc = turn[u].pc \/ turn'[u].pc = "load"
    OBVIOUS
  <2>2. \A m : Open(m, turn'[u]) <=> Open(m, turn[u])
    BY <2>1 DEF Open
  <2>3. \A m : Awaited(m, turn'[u]) = Awaited(m, turn[u])
    BY <2>1, <2>2 DEF Awaited
  <2>4. \A m : Follows(m, turn[u]) => Follows(m, turn'[u])
    BY <2>1, <2>2, <2>3 DEF Follows
  <2>5. QED
    BY <2>1, <2>2, <2>4 DEF InStep
<1>4. \A u \in Turn : Followed(live, disk, stepsKept, turn[u])
                        => Followed(live', disk', stepsKept', turn'[u])
  BY <1>3 DEF Followed
<1>5. QED
  BY <1>1, <1>2, <1>4 DEF InOrder, Alone, Alive

\* Cancelling.
LEMMA CancelKeeps ==
    ASSUME IInv, cancel
    PROVE  IInv'
<1>1. /\ activeTurn \in Turn /\ activeTurn' = None /\ Intervenes
      /\ UNCHANGED <<live, disk, entering, nextId, intact, stepsKept, overtaken>>
  BY DEF cancel, IInv, Counters
<1> DEFINE state == [turn[activeTurn] EXCEPT !.aborted = TRUE,
                       !.pc = IF turn[activeTurn].pc = "blocked" THEN "load"
                                ELSE turn[activeTurn].pc]
<1>2. Counters /\ Turns /\ Compactions /\ Aimed
  BY DEF IInv
<1>3. turn[activeTurn] \in TurnState /\ TurnFormed(turn[activeTurn], nextId)
  BY <1>1, <1>2 DEF Turns
<1>4. Goto(activeTurn, state)
  <2>1. turn' = [turn EXCEPT ![activeTurn].aborted = TRUE,
                             ![activeTurn].pc = IF @ = "blocked" THEN "load" ELSE @]
    BY DEF cancel
  <2>2. turn \in [Turn -> TurnState]
    BY <1>2 DEF Turns
  <2>3. QED
    BY <1>1, <1>3, <2>1, <2>2 DEF Goto, TurnState
<1>5. /\ state.calls = turn[activeTurn].calls /\ state.step = turn[activeTurn].step
      /\ state.pc = IF turn[activeTurn].pc = "blocked" THEN "load" ELSE turn[activeTurn].pc
      /\ state \in TurnState
  BY <1>3 DEF TurnState
<1> HIDE DEF state
<1>6. TurnFormed(state, nextId')
  BY <1>1, <1>3, <1>5 DEF TurnFormed, InStep
<1>7. Turns' /\ turn'[activeTurn] = state
      /\ \A u \in Turn \ {activeTurn} : turn'[u] = turn[u]
  BY <1>1, <1>2, <1>4, <1>6, Numbers, TurnsGo
<1>8. Counters' /\ Aimed'
  BY <1>1, <1>2, Numbers, AimSame, AimStays DEF Counters
<1>9. Compactions'
  <2>1. compaction' = [k \in Mode |-> IF Blocks(k) THEN NotCompacting ELSE compaction[k]]
    BY DEF cancel
  <2>2. NotCompacting \in Compaction /\ CompactionFormed(NotCompacting)
    BY Nothing DEF NotCompacting, Compaction, CompactionFormed
  <2>3. QED
    BY <1>2, <2>1, <2>2 DEF Compactions
<1>10. InOrder => InOrder'
  BY <1>1, <1>5, <1>7, OrderAlike
<1>11. QED
  BY <1>1, <1>7, <1>8, <1>9, <1>10 DEF IInv

\* In order, a turn that is alive is alone and followed.
LEMMA FollowedAlive ==
    ASSUME IInv, intact, NEW t \in Turn, Alive(t)
    PROVE  /\ Alone(t) /\ (stepsKept => ~ disk.threw)
           /\ Followed(live, disk, stepsKept, turn[t])
           /\ Follows(live, turn[t]) /\ Follows(disk, turn[t])
           /\ InOrder
<1>1. InOrder
  BY DEF IInv
<1>2. Alone(t)
  BY <1>1 DEF InOrder, Alone
<1>3. QED
  BY <1>1, <1>2 DEF InOrder, Followed

\* A step that begins.
LEMMA BeginStepKeeps ==
    ASSUME IInv, NEW t \in Turn, beginStep(t)
    PROVE  IInv' /\ Kept(live) \subseteq Kept(live')
<1> DEFINE state == [turn[t] EXCEPT !.pc = "step", !.step = nextId]
<1>1. /\ Numbered /\ Goto(t, state) /\ turn[t].pc = "load"
      /\ live' = StepBegun(live, nextId) /\ disk' = StepBegun(disk, nextId)
      /\ UNCHANGED <<activeTurn, compaction, entering, acts, intact, stepsKept, overtaken>>
  BY DEF beginStep, Logged
<1>2. /\ Counters /\ Turns /\ Compactions /\ Aimed
      /\ Sound(live, nextId) /\ Sound(disk, nextId)
  BY DEF IInv
<1>3. /\ nextId \in Id /\ nextId' \in Nat /\ nextId <= nextId' /\ nextId' = nextId + 1
      /\ nextId \in Nat
  BY <1>1, <1>2, Numbers
<1>4. turn[t] \in TurnState /\ TurnFormed(turn[t], nextId) /\ turn[t].calls = <<>>
  BY <1>1, <1>2 DEF Turns, TurnFormed
<1>5. state \in TurnState /\ state.pc = "step" /\ state.step = nextId /\ state.calls = <<>>
  BY <1>3, <1>4 DEF TurnState
<1> HIDE DEF state
<1>6. TurnFormed(state, nextId')
  BY <1>5, Nothing DEF TurnFormed, InStep
<1>7. Turns' /\ turn'[t] = state /\ \A u \in Turn \ {t} : turn'[u] = turn[u]
  BY <1>1, <1>2, <1>3, <1>6, TurnsGo
<1>8. Counters' /\ Compactions'
  BY <1>1, <1>2, Numbers DEF Counters, Compactions
<1>9. /\ Sound(live', nextId') /\ Kept(live) \subseteq Kept(live') /\ SameAim(live', live)
      /\ \A a : Follows(live, a) /\ a.calls = <<>> => Follows(live', state) /\ Open(live', state)
  BY <1>1, <1>2, <1>3, <1>5, StepBegunDoes
<1>10. /\ Sound(disk', nextId') /\ disk'.threw = disk.threw /\ SameAim(disk', disk)
       /\ \A a : Follows(disk, a) /\ a.calls = <<>> => Follows(disk', state) /\ Open(disk', state)
  BY <1>1, <1>2, <1>3, <1>5, StepBegunDoes
<1>11. Aimed'
  BY <1>1, <1>2, <1>9, <1>10, AimStays
<1>12. ASSUME intact' PROVE InOrder'
  <2>1. intact /\ Alive(t)
    BY <1>1, <1>12 DEF Alive
  <2>2. /\ Alone(t) /\ (stepsKept => ~ disk.threw)
        /\ Follows(live, turn[t]) /\ Follows(disk, turn[t])
    BY <2>1, FollowedAlive
  <2>3. Followed(live', disk', stepsKept', state)
    BY <1>4, <1>9, <1>10, <2>2 DEF Followed
  <2>4. QED
    BY <1>1, <1>5, <1>7, <1>10, <2>2, <2>3, OrderGoes
<1>13. QED
  BY <1>7, <1>8, <1>9, <1>10, <1>11, <1>12 DEF IInv

\* However a turn ends, no switch waits any more.
LEMMA TurnEnds ==
    ASSUME IInv, NEW t \in Turn, EndTurn(t), nextId' \in Nat, nextId <= nextId'
    PROVE  /\ Sound(live', nextId') /\ Kept(live') = Kept(live)
           /\ live'.switch = None /\ SameAim(live', live)
           /\ Turns' /\ Compactions'
           /\ activeTurn' \in Turn \cup {None}
           /\ UNCHANGED <<entering, acts, intact, stepsKept, overtaken>>
           /\ (/\ intact /\ Alive(t)
               /\ Awaited(live, turn[t]) = <<>> /\ Awaited(disk, turn[t]) = <<>>
               /\ disk' \in Memory /\ disk'.part = disk.part
               /\ stepsKept => ~ disk'.threw) => InOrder'
<1>1. /\ Goto(t, FreeTurn) /\ activeTurn' = (IF activeTurn = t THEN None ELSE activeTurn)
      /\ UNCHANGED <<compaction, entering, acts, intact, stepsKept, overtaken>>
      /\ live' = flushDeferredContextSwitch(live)
  BY DEF EndTurn, TurnOver
<1>2. Counters /\ Turns /\ Compactions /\ Sound(live, nextId) /\ Sound(disk, nextId)
      /\ nextId \in Nat
  BY Numbers DEF IInv
<1>3. /\ Sound(live', nextId) /\ Kept(live') = Kept(live) /\ live'.part = live.part
      /\ live'.switch = None /\ SameAim(live', live)
  BY <1>1, <1>2, SwitchedDoes
<1>4. Turns' /\ turn'[t] = FreeTurn /\ \A u \in Turn \ {t} : turn'[u] = turn[u]
  BY <1>1, <1>2, FreeTurnIs, TurnsGo
<1>5. ASSUME intact, Alive(t), Awaited(live, turn[t]) = <<>>, Awaited(disk, turn[t]) = <<>>,
             disk' \in Memory, disk'.part = disk.part, stepsKept => ~ disk'.threw
      PROVE  InOrder'
  <2>1. Alone(t) /\ Follows(live, turn[t]) /\ Follows(disk, turn[t])
    BY <1>5, FollowedAlive
  <2>2. \A u \in Turn : turn'[u].pc = "free" /\ Outside(turn'[u])
    <3>1. ASSUME NEW u \in Turn \ {t} PROVE turn'[u].pc = "free" /\ Outside(turn'[u])
      <4>1. turn[u].pc = "free" /\ TurnFormed(turn[u], nextId)
        BY <1>2, <2>1 DEF Alone, Alive, Turns
      <4>2. QED
        BY <1>4, <4>1 DEF TurnFormed, Outside, InStep
    <3>2. QED
      BY <1>4, <3>1, FreeTurnIs
  <2>3. live \in Memory /\ disk \in Memory /\ live' \in Memory
    BY <1>2, <1>3 DEF Sound
  <2>4. Follows(live', FreeTurn) /\ Follows(disk', FreeTurn) /\ FreeTurn.calls = <<>>
    BY <1>3, <1>5, <2>1, <2>3, FreeTurnIs, OutsideFollows
  <2>5. Awaited(live', FreeTurn) = <<>> /\ Awaited(disk', FreeTurn) = <<>>
    BY <1>5, <2>3, <2>4, FollowsActive
  <2>6. QED
    BY <1>1, <1>5, <2>2, <2>3, <2>4, <2>5, OrderEnds
<1>6. activeTurn' \in Turn \cup {None} /\ Compactions'
  BY <1>1, <1>2 DEF Counters, Compactions
<1>7. Sound(live', nextId')
  BY <1>2, <1>3, Later
<1>8. QED
  BY <1>1, <1>3, <1>4, <1>5, <1>6, <1>7

\* A turn that ends with its records as they are, waiting for no call.
LEMMA TurnEndsKeeps ==
    ASSUME IInv, NEW t \in Turn, EndTurn(t), disk' = disk, nextId' = nextId,
           Alive(t), turn[t].calls = <<>>
    PROVE  IInv' /\ Kept(live) \subseteq Kept(live') /\ live'.switch = None
<1>1. Counters /\ Turns /\ Aimed /\ nextId \in Nat
      /\ Sound(live, nextId) /\ Sound(disk, nextId)
  BY Numbers DEF IInv
<1>2. /\ Sound(live', nextId') /\ Kept(live') = Kept(live)
      /\ live'.switch = None /\ SameAim(live', live)
      /\ Turns' /\ Compactions'
      /\ activeTurn' \in Turn \cup {None}
      /\ UNCHANGED <<entering, acts, intact, stepsKept, overtaken>>
      /\ (/\ intact /\ Alive(t)
          /\ Awaited(live, turn[t]) = <<>> /\ Awaited(disk, turn[t]) = <<>>
          /\ disk' \in Memory /\ disk'.part = disk.part
          /\ stepsKept => ~ disk'.threw) => InOrder'
  BY <1>1, TurnEnds
<1>3. Counters' /\ Aimed'
  BY <1>1, <1>2, AimSame, AimStays DEF Counters
<1>4. Awaited(live, turn[t]) = <<>> /\ Awaited(disk, turn[t]) = <<>>
  BY DEF Awaited
<1>5. intact => InOrder'
  BY <1>1, <1>2, <1>4, FollowedAlive DEF Sound
<1>6. QED
  BY <1>1, <1>2, <1>3, <1>5 DEF IInv

\* A turn that ends between two steps, or in a step.
LEMMA StopTurnKeeps ==
    ASSUME IInv, NEW t \in Turn, stopTurn(t)
    PROVE  IInv' /\ Kept(live) \subseteq Kept(live') /\ live'.switch = None
<1>1. /\ EndTurn(t) /\ turn[t].pc \in {"load", "step"} /\ disk' = disk /\ nextId' = nextId
  BY DEF stopTurn
<1>2. Alive(t) /\ turn[t].calls = <<>>
  BY <1>1 DEF Alive, IInv, Turns, TurnFormed
<1>3. QED
  BY <1>1, <1>2, TurnEndsKeeps

\* A call.
LEMMA ToolCallKeeps ==
    ASSUME IInv, NEW t \in Turn, tool_call(t)
    PROVE  IInv' /\ Kept(live) \subseteq Kept(live')
<1> DEFINE s == turn[t].step
           c == turn[t].calls
           state == [turn[t] EXCEPT !.pc = "calls", !.calls = Append(c, nextId)]
<1>1. /\ Numbered /\ Goto(t, state) /\ turn[t].pc \in {"step", "calls"} /\ Open(live, turn[t])
      /\ live' = Called(live, s, nextId) /\ disk' = Called(disk, s, nextId)
      /\ UNCHANGED <<activeTurn, compaction, entering, acts, intact, stepsKept, overtaken>>
  BY DEF tool_call, Logged, StepKnown, Open
<1>2. /\ Counters /\ Turns /\ Compactions /\ Aimed
      /\ Sound(live, nextId) /\ Sound(disk, nextId)
  BY DEF IInv
<1>3. /\ nextId \in Id /\ nextId' \in Nat /\ nextId <= nextId' /\ nextId' = nextId + 1
      /\ nextId \in Nat
  BY <1>1, <1>2, Numbers
<1>4. turn[t] \in TurnState /\ TurnFormed(turn[t], nextId) /\ c \in Seq(Id)
  BY <1>2 DEF Turns, TurnState
<1>5. Append(c, nextId) \in Seq(Id) /\ Append(c, nextId) # <<>>
  BY <1>3, <1>4, Grown
<1>6. /\ state \in TurnState /\ state.pc = "calls" /\ state.step = s
      /\ state.calls = Append(c, nextId)
  BY <1>4, <1>5 DEF TurnState
<1> HIDE DEF state
<1>7. TurnFormed(state, nextId')
  <2> DEFINE d == Append(c, nextId)
  <2>1. /\ Len(c) \in Nat /\ DOMAIN c = 1 .. Len(c) /\ DOMAIN d = 1 .. Len(c) + 1
        /\ \A i \in 1 .. Len(c) : d[i] = c[i]
        /\ d[Len(c) + 1] = nextId
    BY <1>3, <1>4, Grown
  <2>2. /\ \A i \in DOMAIN c : c[i] < nextId /\ c[i] \in Nat
        /\ \A i, j \in DOMAIN c : c[i] = c[j] => i = j
    <3>1. \A i \in DOMAIN c : c[i] \in Id
      BY <1>4, ElementOfSeq, LenProperties
    <3>2. QED
      BY <1>4, <3>1 DEF TurnFormed, Id
  <2> HIDE DEF c, d
  <2>3. \A i \in DOMAIN d : \/ i \in DOMAIN c /\ d[i] = c[i]
                            \/ i = Len(c) + 1 /\ d[i] = nextId
    BY <2>1
  <2>4. \A i \in DOMAIN d : d[i] < nextId'
    BY <1>3, <2>2, <2>3
  <2>5. \A i, j \in DOMAIN d : d[i] = d[j] => i = j
    <3>1. \A i \in DOMAIN c : c[i] # nextId
      BY <1>3, <2>2
    <3>2. QED
      BY <2>2, <2>3, <3>1
  <2>6. state.calls = d /\ d # <<>>
    BY <1>5, <1>6 DEF d
  <2>7. QED
    BY <1>6, <2>4, <2>5, <2>6 DEF TurnFormed, InStep
<1>8. Turns' /\ turn'[t] = state /\ \A u \in Turn \ {t} : turn'[u] = turn[u]
  BY <1>1, <1>2, <1>3, <1>7, TurnsGo
<1>9. Counters' /\ Compactions'
  BY <1>1, <1>2, Numbers DEF Counters, Compactions
<1>10. /\ Sound(live', nextId) /\ Kept(live) \subseteq Kept(live') /\ SameAim(live', live)
       /\ \A b : Open(live', b) <=> Open(live, b)
       /\ Follows(live, turn[t]) /\ Open(live, turn[t]) => Follows(live', state)
  BY <1>1, <1>2, <1>3, <1>4, <1>6, CalledDoes
<1>11. /\ Sound(disk', nextId) /\ SameAim(disk', disk)
       /\ \A b : Open(disk', b) <=> Open(disk, b)
       /\ Follows(disk, turn[t]) /\ Open(disk, turn[t])
            => Follows(disk', state) /\ disk'.threw = disk.threw
  BY <1>1, <1>2, <1>3, <1>4, <1>6, CalledDoes
<1>12. Sound(live', nextId') /\ Sound(disk', nextId') /\ Aimed'
  BY <1>1, <1>2, <1>3, <1>10, <1>11, Later, AimStays
<1>13. ASSUME intact' PROVE InOrder'
  <2>1. intact /\ Alive(t)
    BY <1>1, <1>13 DEF Alive
  <2>2. /\ Alone(t) /\ (stepsKept => ~ disk.threw)
        /\ Followed(live, disk, stepsKept, turn[t])
        /\ Follows(live, turn[t]) /\ Follows(disk, turn[t])
    BY <2>1, FollowedAlive
  <2>3. Open(disk, turn[t])
    BY <1>1, <2>2 DEF Followed, InStep
  <2>4. \A m : Open(m, state) <=> Open(m, turn[t])
    BY <1>6 DEF Open
  <2>5. Followed(live', disk', stepsKept', state)
    BY <1>1, <1>10, <1>11, <2>2, <2>3, <2>4 DEF Followed
  <2>6. QED
    BY <1>1, <1>6, <1>8, <1>11, <2>2, <2>3, <2>5, OrderGoes
<1>14. QED
  BY <1>8, <1>9, <1>10, <1>12, <1>13 DEF IInv

\* A call of a step that is not open: in order, one that was undone or cleared.
LEMMA UnknownStepKeeps ==
    ASSUME IInv, NEW t \in Turn, unknownStep(t)
    PROVE  IInv' /\ Kept(live) \subseteq Kept(live') /\ live'.switch = None
<1>1. /\ EndTurn(t) /\ turn[t].pc \in {"step", "calls"} /\ ~ Open(live, turn[t]) /\ Numbered
      /\ disk' = Called(disk, turn[t].step, nextId)
  BY DEF unknownStep, StepKnown, Open
<1>2. Counters /\ Turns /\ Aimed /\ Sound(live, nextId) /\ Sound(disk, nextId) /\ nextId \in Nat
  BY Numbers DEF IInv
<1>3. /\ nextId \in Id /\ nextId' \in Nat /\ nextId <= nextId' /\ nextId' \in 1 .. MaxIds + 1
  BY <1>1, <1>2, Numbers
<1>4. /\ Sound(live', nextId') /\ Kept(live') = Kept(live)
      /\ live'.switch = None /\ SameAim(live', live)
      /\ Turns' /\ Compactions'
      /\ activeTurn' \in Turn \cup {None}
      /\ UNCHANGED <<entering, acts, intact, stepsKept, overtaken>>
      /\ (/\ intact /\ Alive(t)
          /\ Awaited(live, turn[t]) = <<>> /\ Awaited(disk, turn[t]) = <<>>
          /\ disk' \in Memory /\ disk'.part = disk.part
          /\ stepsKept => ~ disk'.threw) => InOrder'
  BY <1>1, <1>3, TurnEnds
<1>5. /\ Sound(disk', nextId) /\ SameAim(disk', disk)
      /\ turn[t].step \notin Active(disk).openSteps => disk'.part = disk.part
  BY <1>1, <1>2, <1>3, CalledDoes
<1>6. Sound(disk', nextId') /\ Aimed'
  BY <1>2, <1>3, <1>4, <1>5, Later, AimStays
<1>7. ASSUME intact' PROVE InOrder'
  <2>1. intact /\ Alive(t)
    BY <1>1, <1>4, <1>7 DEF Alive
  <2>2. Followed(live, disk, stepsKept, turn[t]) /\ turn[t].pc \in InStep
    BY <1>1, <2>1, FollowedAlive DEF InStep
  <2>3. ~ Open(disk, turn[t]) /\ ~ stepsKept
    BY <1>1, <2>2 DEF Followed
  <2>4. Awaited(live, turn[t]) = <<>> /\ Awaited(disk, turn[t]) = <<>>
    BY <1>1, <2>3 DEF Awaited
  <2>5. disk' \in Memory /\ disk'.part = disk.part
    BY <1>5, <2>3 DEF Sound, Open
  <2>6. QED
    BY <1>4, <2>1, <2>3, <2>4, <2>5
<1>8. Counters'
  BY <1>2, <1>3, <1>4 DEF Counters
<1>9. QED
  BY <1>4, <1>6, <1>7, <1>8 DEF IInv

\* All calls are made.
LEMMA AllCalledKeeps ==
    ASSUME IInv, NEW t \in Turn, allCalled(t)
    PROVE  IInv' /\ Kept(live) \subseteq Kept(live')
<1> DEFINE state == [turn[t] EXCEPT !.pc = "results"]
<1>1. /\ Goto(t, state) /\ turn[t].pc = "calls"
      /\ UNCHANGED <<live, disk, activeTurn, compaction, entering, nextId, acts,
                     intact, stepsKept, overtaken>>
  BY DEF allCalled
<1>2. /\ Counters /\ Turns /\ Compactions /\ Aimed
      /\ Sound(live, nextId) /\ Sound(disk, nextId) /\ nextId \in Nat
  BY Numbers DEF IInv
<1>3. turn[t] \in TurnState /\ TurnFormed(turn[t], nextId)
  BY <1>2 DEF Turns
<1>4. /\ state \in TurnState /\ state.pc = "results" /\ state.step = turn[t].step
      /\ state.calls = turn[t].calls
  BY <1>3 DEF TurnState
<1> HIDE DEF state
<1>5. TurnFormed(state, nextId')
  BY <1>1, <1>3, <1>4 DEF TurnFormed, InStep
<1>6. Turns' /\ turn'[t] = state /\ \A u \in Turn \ {t} : turn'[u] = turn[u]
  BY <1>1, <1>2, <1>5, TurnsGo
<1>7. Counters' /\ Compactions' /\ Aimed'
  BY <1>1, <1>2, AimSame, AimStays DEF Counters, Compactions
<1>8. ASSUME intact' PROVE InOrder'
  <2>1. intact /\ Alive(t)
    BY <1>1, <1>8 DEF Alive
  <2>2. /\ Alone(t) /\ (stepsKept => ~ disk.threw)
        /\ Followed(live, disk, stepsKept, turn[t])
    BY <2>1, FollowedAlive
  <2>3. \A m : /\ Open(m, state) <=> Open(m, turn[t])
               /\ Awaited(m, state) = Awaited(m, turn[t])
    BY <1>4 DEF Awaited, Open
  <2>4. \A m : Follows(m, turn[t]) => Follows(m, state)
    BY <1>1, <1>4, <2>3 DEF Follows
  <2>5. Followed(live', disk', stepsKept', state)
    BY <1>1, <1>4, <2>2, <2>3, <2>4 DEF Followed, InStep
  <2>6. QED
    BY <1>1, <1>4, <1>6, <2>2, <2>5, OrderGoes
<1>9. QED
  BY <1>1, <1>2, <1>6, <1>7, <1>8 DEF IInv

\* A result.
LEMMA ToolResultKeeps ==
    ASSUME IInv, NEW t \in Turn, tool_result(t)
    PROVE  IInv' /\ Kept(live) \subseteq Kept(live')
<1> DEFINE c == turn[t].calls
           state == [turn[t] EXCEPT !.calls = Tail(c)]
<1>1. /\ Goto(t, state) /\ turn[t].pc = "results" /\ c # <<>>
      /\ live' = Answered(live, Head(c)) /\ disk' = Answered(disk, Head(c))
      /\ UNCHANGED <<activeTurn, compaction, entering, nextId, acts,
                     intact, stepsKept, overtaken>>
  BY DEF tool_result, Logged
<1>2. /\ Counters /\ Turns /\ Compactions /\ Aimed
      /\ Sound(live, nextId) /\ Sound(disk, nextId) /\ nextId \in Nat
  BY Numbers DEF IInv
<1>3. turn[t] \in TurnState /\ TurnFormed(turn[t], nextId) /\ c \in Seq(Id)
  BY <1>2 DEF Turns, TurnState
<1>4. /\ Tail(c) \in Seq(Id) /\ Len(c) \in Nat \ {0} /\ Head(c) \in Id
      /\ DOMAIN c = 1 .. Len(c) /\ DOMAIN Tail(c) = 1 .. Len(c) - 1
      /\ \A i \in 1 .. Len(c) - 1 : Tail(c)[i] = c[i + 1]
  BY <1>1, <1>3, Shortened
<1>5. /\ state \in TurnState /\ state.pc = "results" /\ state.step = turn[t].step
      /\ state.calls = Tail(c)
  BY <1>1, <1>3, <1>4 DEF TurnState
<1> HIDE DEF state
<1>6. TurnFormed(state, nextId')
  <2>1. \A i \in DOMAIN Tail(c) : i + 1 \in DOMAIN c /\ Tail(c)[i] = c[i + 1]
    BY <1>4
  <2>2. \A i \in DOMAIN Tail(c) : Tail(c)[i] < nextId
    BY <1>3, <2>1 DEF TurnFormed
  <2>3. \A i, j \in DOMAIN Tail(c) : Tail(c)[i] = Tail(c)[j] => i = j
    <3>1. SUFFICES ASSUME NEW i \in DOMAIN Tail(c), NEW j \in DOMAIN Tail(c),
                          Tail(c)[i] = Tail(c)[j]
                   PROVE  i = j
      OBVIOUS
    <3>2. i + 1 = j + 1
      BY <1>3, <2>1, <3>1 DEF TurnFormed
    <3>3. QED
      BY <1>4, <3>2
  <2>4. QED
    BY <1>1, <1>5, <2>2, <2>3 DEF TurnFormed, InStep
<1>7. Turns' /\ turn'[t] = state /\ \A u \in Turn \ {t} : turn'[u] = turn[u]
  BY <1>1, <1>2, <1>6, TurnsGo
<1>8. Counters' /\ Compactions'
  BY <1>1, <1>2 DEF Counters, Compactions
<1>9. /\ Sound(live', nextId) /\ Kept(live) \subseteq Kept(live') /\ SameAim(live', live)
      /\ \A b : Open(live', b) <=> Open(live, b)
      /\ Follows(live, turn[t]) => Follows(live', state)
  BY <1>1, <1>2, <1>3, <1>4, <1>5, AnsweredDoes
<1>10. /\ Sound(disk', nextId) /\ disk'.threw = disk.threw /\ SameAim(disk', disk)
       /\ \A b : Open(disk', b) <=> Open(disk, b)
       /\ Follows(disk, turn[t]) => Follows(disk', state)
  BY <1>1, <1>2, <1>3, <1>4, <1>5, AnsweredDoes
<1>11. Aimed'
  BY <1>1, <1>2, <1>9, <1>10, AimStays
<1>12. ASSUME intact' PROVE InOrder'
  <2>1. intact /\ Alive(t)
    BY <1>1, <1>12 DEF Alive
  <2>2. /\ Alone(t) /\ (stepsKept => ~ disk.threw)
        /\ Followed(live, disk, stepsKept, turn[t])
        /\ Follows(live, turn[t]) /\ Follows(disk, turn[t])
    BY <2>1, FollowedAlive
  <2>3. \A m : Open(m, state) <=> Open(m, turn[t])
    BY <1>5 DEF Open
  <2>4. Followed(live', disk', stepsKept', state)
    BY <1>1, <1>5, <1>9, <1>10, <2>2, <2>3 DEF Followed
  <2>5. QED
    BY <1>1, <1>5, <1>7, <1>10, <2>2, <2>4, OrderGoes
<1>13. QED
  BY <1>1, <1>7, <1>8, <1>9, <1>10, <1>11, <1>12 DEF IInv

\* The end of a step, or, when the turn was cancelled, of the turn.
LEMMA EndStepKeeps ==
    ASSUME IInv, NEW t \in Turn, endStep(t)
    PROVE  /\ IInv' /\ Kept(live) \subseteq Kept(live')
           /\ turn'[t].pc = "free" => live'.switch = None
<1> DEFINE state == [turn[t] EXCEPT !.pc = "load", !.step = 0]
<1>1. /\ Counters /\ Turns /\ Compactions /\ Aimed
      /\ Sound(live, nextId) /\ Sound(disk, nextId) /\ nextId \in Nat
  BY Numbers DEF IInv
<1>2. turn[t] \in TurnState /\ TurnFormed(turn[t], nextId)
  BY <1>1 DEF Turns
<1>3. Alive(t) /\ turn[t].calls = <<>>
  BY <1>2 DEF endStep, Alive, TurnFormed
<1>4. CASE turn[t].aborted
  <2>1. EndTurn(t) /\ disk' = disk /\ nextId' = nextId
    BY <1>4 DEF endStep
  <2>2. QED
    BY <1>3, <2>1, TurnEndsKeeps
<1>5. CASE ~ turn[t].aborted
  <2>1. /\ Goto(t, state)
        /\ live' = StepEnded(live, turn[t].step) /\ disk' = StepEnded(disk, turn[t].step)
        /\ UNCHANGED <<activeTurn, compaction, entering, nextId, acts,
                       intact, stepsKept, overtaken>>
    BY <1>5 DEF endStep, Logged
  <2>2. /\ state \in TurnState /\ state.pc = "load" /\ state.calls = turn[t].calls
        /\ state.step = 0
    BY <1>2 DEF TurnState
  <2> HIDE DEF state
  <2>3. TurnFormed(state, nextId') /\ Outside(state)
    BY <1>2, <1>3, <2>1, <2>2, Nothing DEF TurnFormed, Outside, InStep
  <2>4. Turns' /\ turn'[t] = state /\ \A u \in Turn \ {t} : turn'[u] = turn[u]
    BY <1>1, <2>1, <2>3, TurnsGo
  <2>5. Counters' /\ Compactions'
    BY <1>1, <2>1 DEF Counters, Compactions
  <2>6. /\ Sound(live', nextId) /\ Kept(live) \subseteq Kept(live') /\ SameAim(live', live)
        /\ Follows(live, turn[t]) => Follows(live', state)
    BY <1>1, <1>3, <2>1, <2>3, StepEndedDoes
  <2>7. /\ Sound(disk', nextId) /\ disk'.threw = disk.threw /\ SameAim(disk', disk)
        /\ Follows(disk, turn[t]) => Follows(disk', state)
    BY <1>1, <1>3, <2>1, <2>3, StepEndedDoes
  <2>8. Aimed'
    BY <1>1, <2>1, <2>6, <2>7, AimStays
  <2>9. ASSUME intact' PROVE InOrder'
    <3>1. intact
      BY <2>1, <2>9
    <3>2. /\ Alone(t) /\ (stepsKept => ~ disk.threw)
          /\ Follows(live, turn[t]) /\ Follows(disk, turn[t])
      BY <1>3, <3>1, FollowedAlive
    <3>3. Followed(live', disk', stepsKept', state)
      BY <2>3, <2>6, <2>7, <3>2 DEF Followed, Outside
    <3>4. QED
      BY <2>1, <2>2, <2>4, <2>7, <3>2, <3>3, OrderGoes
  <2>10. QED
    BY <2>1, <2>2, <2>4, <2>5, <2>6, <2>7, <2>8, <2>9 DEF IInv
<1>6. QED
  BY <1>4, <1>5

\* A compaction that begins has counted messages of the history it keeps.
LEMMA BeginFormed ==
    ASSUME IInv, NEW blocks \in BOOLEAN, begin(blocks)
    PROVE  Compactions'
<1> DEFINE h == Active(live).history
           c(n) == [original |-> Ids(h), count |-> n, blockedByTurn |-> blocks]
<1>1. Compactions /\ live \in Memory
  BY DEF IInv, Sound
<1>2. h \in Seq(Msg) /\ live.active \in Mode /\ Len(h) \in Nat /\ DOMAIN h = 1 .. Len(h)
      /\ \A i \in DOMAIN h : h[i] \in Msg
  BY <1>1, MemoryFields, PartFields
<1> HIDE DEF h
<1>3. CASE \E n \in Splits(h) : compaction' = [compaction EXCEPT ![live.active] = c(n)]
  <2>1. PICK n \in 1 .. Len(h) : compaction' = [compaction EXCEPT ![live.active] = c(n)]
    BY <1>3 DEF Splits
  <2>2. Ids(h) \in Seq(Id) /\ Len(Ids(h)) = Len(h)
    <3>1. Ids(h) \in [1 .. Len(h) -> Id]
      BY <1>2, MsgFields DEF Ids
    <3>2. Seq(Id) = UNION {[1 .. l -> Id] : l \in Nat}
      BY SeqDef
    <3>3. Ids(h) \in Seq(Id)
      BY <1>2, <3>1, <3>2, Zenon
    <3>4. DOMAIN Ids(h) = 1 .. Len(h) /\ DOMAIN Ids(h) = 1 .. Len(Ids(h))
          /\ Len(Ids(h)) \in Nat
      BY <3>1, <3>3, LenProperties
    <3>5. QED
      BY <1>2, <3>3, <3>4
  <2>3. c(n) \in Compaction /\ CompactionFormed(c(n))
    BY <1>2, <2>2 DEF Compaction, CompactionFormed
  <2> HIDE DEF c
  <2>4. QED
    BY <1>1, <1>2, <2>1, <2>3 DEF Compactions
<1>4. CASE blocks /\ compaction' = [compaction EXCEPT ![live.active].blockedByTurn = TRUE]
  <2> DEFINE d == [compaction[live.active] EXCEPT !.blockedByTurn = TRUE]
  <2>1. compaction' = [compaction EXCEPT ![live.active] = d]
    BY <1>4
  <2>2. d \in Compaction /\ CompactionFormed(d)
    BY <1>1, <1>2 DEF Compactions, Compaction, CompactionFormed
  <2> HIDE DEF d
  <2>3. QED
    BY <1>1, <1>2, <2>1, <2>2 DEF Compactions
<1>5. QED
  BY <1>3, <1>4 DEF begin, h

\* /compact.
LEMMA BeginManualKeeps ==
    ASSUME IInv, beginManual
    PROVE  IInv' /\ Kept(live) \subseteq Kept(live')
<1>1. begin(FALSE) /\ Intervenes /\ turn' = turn
      /\ UNCHANGED <<live, disk, activeTurn, entering, nextId, intact, stepsKept, overtaken>>
  BY DEF beginManual, begin
<1>2. Compactions'
  BY <1>1, BeginFormed
<1>3. Counters' /\ Turns'
  BY <1>1, Numbers DEF IInv, Counters, Turns
<1>4. Aimed'
  BY <1>1, AimSame, AimStays DEF IInv
<1>5. InOrder => InOrder'
  BY <1>1 DEF InOrder, Alone, Alive
<1>6. QED
  BY <1>1, <1>2, <1>3, <1>4, <1>5 DEF IInv

\* A turn that compacts, or waits for the compaction that runs.
LEMMA BeginAutoKeeps ==
    ASSUME IInv, NEW t \in Turn, beginAuto(t)
    PROVE  IInv' /\ Kept(live) \subseteq Kept(live')
<1> DEFINE state == [turn[t] EXCEPT !.pc = "blocked", !.step = 0]
<1>1. begin(TRUE) /\ turn[t].pc \in {"load", "step"} /\ Goto(t, state)
      /\ UNCHANGED <<live, disk, activeTurn, entering, nextId, acts,
                     intact, stepsKept, overtaken>>
  BY DEF beginAuto, begin
<1>2. /\ Counters /\ Turns /\ Sound(live, nextId) /\ Sound(disk, nextId) /\ nextId \in Nat
      /\ Aimed
  BY Numbers DEF IInv
<1>3. turn[t] \in TurnState /\ TurnFormed(turn[t], nextId) /\ turn[t].calls = <<>>
  BY <1>1, <1>2 DEF Turns, TurnFormed
<1>4. state \in TurnState /\ state.pc = "blocked" /\ state.calls = <<>> /\ state.step = 0
  BY <1>3 DEF TurnState
<1> HIDE DEF state
<1>5. TurnFormed(state, nextId') /\ Outside(state)
  BY <1>4, Nothing DEF TurnFormed, Outside, InStep
<1>6. Turns' /\ turn'[t] = state /\ \A u \in Turn \ {t} : turn'[u] = turn[u]
  BY <1>1, <1>2, <1>5, TurnsGo
<1>7. Compactions'
  BY <1>1, BeginFormed
<1>8. ASSUME intact' PROVE InOrder'
  <2>1. intact /\ Alive(t)
    BY <1>1, <1>8 DEF Alive
  <2>2. /\ Alone(t) /\ (stepsKept => ~ disk.threw)
        /\ Follows(live, turn[t]) /\ Follows(disk, turn[t])
    BY <2>1, FollowedAlive
  <2>3. live \in Memory /\ disk \in Memory
    BY <1>2 DEF Sound
  <2>4. Follows(live', state) /\ Follows(disk', state)
    BY <1>1, <1>3, <1>5, <2>2, <2>3, FollowsActive, OutsideFollows
  <2>5. Followed(live', disk', stepsKept', state)
    BY <1>5, <2>4 DEF Followed, Outside
  <2>6. QED
    BY <1>1, <1>4, <1>6, <2>2, <2>5, OrderGoes
<1>9. Counters' /\ Aimed'
  BY <1>1, <1>2, AimSame, AimStays DEF Counters
<1>10. QED
  BY <1>1, <1>2, <1>6, <1>7, <1>8, <1>9 DEF IInv

\* The turns that a compaction lets go on.
LEMMA Unblocked ==
    ASSUME Turns, Counters, nextId' \in Nat, nextId <= nextId', NEW k \in Mode, Unblock(k)
    PROVE  /\ Turns'
           /\ \A u \in Turn :
                 /\ turn'[u].calls = turn[u].calls /\ turn'[u].step = turn[u].step
                 /\ turn'[u].pc = turn[u].pc \/ (turn[u].pc = "blocked" /\ turn'[u].pc = "load")
<1>1. nextId \in Nat
  BY Numbers
<1>2. ASSUME NEW u \in Turn
      PROVE  /\ turn'[u] \in TurnState /\ TurnFormed(turn'[u], nextId')
             /\ turn'[u].calls = turn[u].calls /\ turn'[u].step = turn[u].step
             /\ turn'[u].pc = turn[u].pc \/ (turn[u].pc = "blocked" /\ turn'[u].pc = "load")
  <2>1. turn[u] \in TurnState /\ TurnFormed(turn[u], nextId')
    BY <1>1, Later DEF Turns
  <2>2. turn'[u] = turn[u]
        \/ (turn[u].pc = "blocked" /\ turn'[u] = [turn[u] EXCEPT !.pc = "load"])
    BY DEF Unblock
  <2>3. CASE turn'[u] = turn[u]
    BY <2>1, <2>3
  <2>4. CASE turn[u].pc = "blocked" /\ turn'[u] = [turn[u] EXCEPT !.pc = "load"]
    <3>1. /\ turn'[u] \in TurnState /\ turn'[u].pc = "load"
          /\ turn'[u].calls = turn[u].calls /\ turn'[u].step = turn[u].step
      BY <2>1, <2>4 DEF TurnState
    <3>2. QED
      BY <2>1, <2>4, <3>1 DEF TurnFormed, InStep
  <2>5. QED
    BY <2>2, <2>3, <2>4
<1>3. turn' = [u \in Turn |-> turn'[u]]
  BY DEF Unblock
<1>4. turn' \in [Turn -> TurnState]
  BY <1>2, <1>3
<1>5. QED
  BY <1>2, <1>4 DEF Turns

\* A compaction that is given up.
LEMMA CompactionFailsKeeps ==
    ASSUME IInv, NEW k \in Mode, compactionFails(k)
    PROVE  IInv' /\ Kept(live) \subseteq Kept(live')
<1>1. /\ compaction' = [compaction EXCEPT ![k] = NotCompacting] /\ Unblock(k)
      /\ UNCHANGED <<live, disk, activeTurn, entering, nextId, acts,
                     intact, stepsKept, overtaken>>
  BY DEF compactionFails
<1>2. Counters /\ Turns /\ Compactions /\ Aimed /\ nextId \in Nat
  BY Numbers DEF IInv
<1>3. /\ Turns'
      /\ \A u \in Turn :
            /\ turn'[u].calls = turn[u].calls /\ turn'[u].step = turn[u].step
            /\ turn'[u].pc = turn[u].pc \/ (turn[u].pc = "blocked" /\ turn'[u].pc = "load")
  BY <1>1, <1>2, Unblocked
<1>4. NotCompacting \in Compaction /\ CompactionFormed(NotCompacting)
  BY Nothing DEF NotCompacting, Compaction, CompactionFormed
<1>5. Counters' /\ Compactions' /\ Aimed'
  BY <1>1, <1>2, <1>4, AimSame, AimStays DEF Counters, Compactions
<1>6. InOrder => InOrder'
  BY <1>1, <1>3, OrderAlike
<1>7. QED
  BY <1>1, <1>3, <1>5, <1>6 DEF IInv

\* The memory that a compaction leaves, with the reminder of a goal or without.
LEMMA CompactedMemory ==
    ASSUME NEW m, NEW n \in Nat, Sound(m, n), NEW count \in Nat, NEW id \in Id, NEW rid \in Id,
           NEW w, w \in {CompactedTo(m, count, id),
                         Received(CompactedTo(m, count, id), Message("reminder", rid))}
    PROVE  LET h == Active(m).history
           IN  /\ Sound(w, n) /\ w.threw = m.threw /\ SameAim(w, m)
               /\ Kept(m) \subseteq Kept(w) \cup {h[i].id : i \in {j \in DOMAIN h : j <= count}}
               /\ \A a : \A b \in TurnState :
                     Follows(m, a) /\ a.calls = <<>> /\ Outside(b) => Follows(w, b)
<1> DEFINE v == CompactedTo(m, count, id)
           h == Active(m).history
           X == {h[i].id : i \in {j \in DOMAIN h : j <= count}}
<1>1. /\ Sound(v, n) /\ v.threw = m.threw /\ SameAim(v, m)
      /\ Kept(m) \subseteq Kept(v) \cup X
      /\ \A a, b : Follows(m, a) /\ a.calls = <<>> /\ Outside(b) => Follows(v, b)
  BY CompactedDoes
<1> HIDE DEF v, X
<1>2. CASE w = v
  BY <1>1, <1>2 DEF v, X
<1>3. CASE w = Received(v, Message("reminder", rid))
  <2>1. "reminder" \in UserRole
    BY DEF UserRole
  <2>2. /\ Sound(w, n) /\ w.threw = v.threw /\ Kept(v) \subseteq Kept(w)
        /\ SameAim(w, v)
        /\ \A s \in TurnState :
              Follows(v, s) /\ (s.pc \in {"step", "calls"} => s.calls # <<>>)
                => Follows(w, s)
    BY <1>1, <1>3, <2>1, ReceivedDoes
  <2>3. QED
    BY <1>1, <2>2 DEF Outside, InStep, SameAim, X
<1>4. QED
  BY <1>2, <1>3 DEF v

\* A worker that finds its history unchanged has summarised the messages it removes.
LEMMA SummarisedThem ==
    ASSUME IInv, NEW k \in Mode, Unchanged(k)
    PROVE  LET h == Active(live).history
           IN  {h[i].id : i \in {j \in DOMAIN h : j <= compaction[k].count}} \subseteq Summarised(k)
<1> DEFINE h == Active(live).history
           now == Ids(h)
           original == compaction[k].original
           L == Len(original)
           count == compaction[k].count
<1>1. /\ original \in Seq(Id) /\ count \in Nat /\ count <= L /\ L \in Nat
  <2>1. compaction[k] \in Compaction /\ count <= L
    BY DEF IInv, Compactions, CompactionFormed
  <2>2. original \in Seq(Id) /\ count \in Nat
    BY <2>1 DEF Compaction
  <2>3. QED
    BY <2>1, <2>2, LenProperties
<1>2. live \in Memory
  BY DEF IInv, Sound
<1>3. h \in Seq(Msg) /\ Len(h) \in Nat /\ DOMAIN h = 1 .. Len(h)
      /\ \A i \in DOMAIN h : h[i] \in Msg
  BY <1>2, MemoryFields, PartFields
<1>4. Len(now) >= L /\ SubSeq(now, 1, L) = original
  BY DEF Unchanged
<1> HIDE DEF h, original, L, count
<1>5. DOMAIN now = 1 .. Len(h) /\ \A i \in DOMAIN h : now[i] = h[i].id
  BY <1>3 DEF Ids
<1>6. Len(now) = Len(h)
  <2>1. now \in [1 .. Len(h) -> Id]
    BY <1>3, MsgFields DEF Ids
  <2>2. Seq(Id) = UNION {[1 .. l -> Id] : l \in Nat}
    BY SeqDef
  <2>3. now \in Seq(Id)
    BY <1>3, <2>1, <2>2, Zenon
  <2>4. DOMAIN now = 1 .. Len(now) /\ Len(now) \in Nat
    BY <2>3, LenProperties
  <2> HIDE DEF now
  <2>5. QED
    BY <1>3, <1>5, <2>4
<1>7. \A i \in 1 .. L : original[i] = now[i]
  <2>1. \A i \in 1 .. L : now[i] \in Id
    <3>1. \A i \in 1 .. L : i \in DOMAIN h
      BY <1>1, <1>3, <1>4, <1>6
    <3>2. QED
      BY <1>3, <1>5, <3>1, MsgFields
  <2>2. \A i \in 1 .. L - 1 + 1 : SubSeq(now, 1, L)[i] = now[1 + i - 1]
    BY <1>1, <2>1, SubSeqProperties
  <2>3. L - 1 + 1 = L /\ \A i \in 1 .. L : 1 + i - 1 = i
    BY <1>1
  <2> HIDE DEF now
  <2>4. QED
    BY <1>4, <2>2, <2>3
<1>8. ASSUME NEW i \in DOMAIN h, i <= count PROVE h[i].id \in Summarised(k)
  <2>1. i \in 1 .. count /\ i \in 1 .. L
    BY <1>1, <1>3, <1>8
  <2>2. h[i].id = original[i]
    BY <1>5, <1>7, <2>1
  <2>3. QED
    BY <2>1, <2>2 DEF Summarised, original, count
<1>9. QED
  BY <1>8 DEF h, count

\* A compaction that ends well.
LEMMA CompactedKeeps ==
    ASSUME IInv, NEW k \in Mode, compacted(k)
    PROVE  IInv' /\ Kept(live) \subseteq Kept(live') \cup Summarised(k)
<1>1. /\ compaction' = [compaction EXCEPT ![k] = NotCompacting] /\ Unblock(k)
      /\ UNCHANGED <<activeTurn, entering, acts, stepsKept, overtaken>>
  BY DEF compacted
<1>2. /\ Counters /\ Turns /\ Compactions /\ Aimed /\ nextId \in Nat
      /\ Sound(live, nextId) /\ Sound(disk, nextId)
  BY Numbers DEF IInv
<1>3. Compactions'
  <2>1. NotCompacting \in Compaction /\ CompactionFormed(NotCompacting)
    BY Nothing DEF NotCompacting, Compaction, CompactionFormed
  <2>2. QED
    BY <1>1, <1>2, <2>1 DEF Compactions
<1>4. CASE ~ Unchanged(k)
  <2>1. UNCHANGED <<live, disk, nextId, intact>>
    BY <1>4 DEF compacted
  <2>2. /\ Turns'
        /\ \A u \in Turn :
              /\ turn'[u].calls = turn[u].calls /\ turn'[u].step = turn[u].step
              /\ turn'[u].pc = turn[u].pc \/ (turn[u].pc = "blocked" /\ turn'[u].pc = "load")
    BY <1>1, <1>2, <2>1, Unblocked
  <2>3. InOrder => InOrder'
    BY <1>1, <2>1, <2>2, OrderAlike
  <2>4. Counters' /\ Aimed'
    BY <1>1, <1>2, <2>1, AimSame, AimStays DEF Counters
  <2>5. QED
    BY <1>2, <1>3, <2>1, <2>2, <2>3, <2>4 DEF IInv
<1>5. CASE Unchanged(k)
  <2> DEFINE count == compaction[k].count
             h == Active(live).history
  <2>1. /\ \/ /\ Numbered
              /\ live' = CompactedTo(live, count, nextId)
              /\ disk' = CompactedTo(disk, count, nextId)
           \/ /\ nextId < MaxIds /\ nextId' = nextId + 2
              /\ live' = Received(CompactedTo(live, count, nextId),
                                  Message("reminder", nextId + 1))
              /\ disk' = Received(CompactedTo(disk, count, nextId),
                                  Message("reminder", nextId + 1))
        /\ intact' = (intact /\ \A t \in Turn : turn[t].pc \notin InStep)
    BY <1>5 DEF compacted, Logged, MidStep, InStep
  <2>2. count \in Nat
    BY <1>2 DEF Compactions, Compaction
  <2> HIDE DEF count
  <2>3. PICK rid \in Id :
          /\ nextId \in Id /\ nextId' \in 1 .. MaxIds + 1 /\ nextId' \in Nat /\ nextId <= nextId'
          /\ live' \in {CompactedTo(live, count, nextId),
                        Received(CompactedTo(live, count, nextId), Message("reminder", rid))}
          /\ disk' \in {CompactedTo(disk, count, nextId),
                        Received(CompactedTo(disk, count, nextId), Message("reminder", rid))}
    <3>1. CASE Numbered /\ live' = CompactedTo(live, count, nextId)
                        /\ disk' = CompactedTo(disk, count, nextId)
      BY <1>2, <3>1, Numbers
    <3>2. CASE /\ nextId < MaxIds /\ nextId' = nextId + 2
               /\ live' = Received(CompactedTo(live, count, nextId),
                                   Message("reminder", nextId + 1))
               /\ disk' = Received(CompactedTo(disk, count, nextId),
                                   Message("reminder", nextId + 1))
      <4>1. nextId \in 1 .. MaxIds + 1 /\ MaxIds \in Nat
        BY <1>2, BoundAssumption DEF Counters
      <4>2. nextId + 1 \in Id /\ nextId \in Id /\ nextId' \in 1 .. MaxIds + 1
            /\ nextId' \in Nat /\ nextId <= nextId'
        BY <3>2, <4>1 DEF Id
      <4>3. QED
        BY <3>2, <4>2
    <3>3. QED
      BY <2>1, <3>1, <3>2
  <2>4. /\ Sound(live', nextId) /\ SameAim(live', live)
        /\ Kept(live) \subseteq Kept(live') \cup {h[i].id : i \in {j \in DOMAIN h : j <= count}}
        /\ \A a : \A b \in TurnState :
              Follows(live, a) /\ a.calls = <<>> /\ Outside(b) => Follows(live', b)
    BY <1>2, <2>2, <2>3, CompactedMemory
  <2>5. /\ Sound(disk', nextId) /\ disk'.threw = disk.threw /\ SameAim(disk', disk)
        /\ \A a : \A b \in TurnState :
              Follows(disk, a) /\ a.calls = <<>> /\ Outside(b) => Follows(disk', b)
    <3> HIDE DEF h
    <3>1. /\ Sound(disk', nextId) /\ disk'.threw = disk.threw /\ SameAim(disk', disk)
          /\ Kept(disk) \subseteq Kept(disk')
               \cup {Active(disk).history[i].id :
                       i \in {j \in DOMAIN Active(disk).history : j <= count}}
          /\ \A a : \A b \in TurnState :
                Follows(disk, a) /\ a.calls = <<>> /\ Outside(b) => Follows(disk', b)
      BY <1>2, <2>2, <2>3, CompactedMemory
    <3>2. QED
      BY <3>1
  <2>6. Kept(live) \subseteq Kept(live') \cup Summarised(k)
    <3>1. {h[i].id : i \in {j \in DOMAIN h : j <= count}} \subseteq Summarised(k)
      BY <1>5, SummarisedThem DEF count
    <3>2. QED
      BY <2>4, <3>1
  <2>7. Sound(live', nextId') /\ Sound(disk', nextId')
    BY <1>2, <2>3, <2>4, <2>5, Later
  <2>8. /\ Turns'
        /\ \A u \in Turn :
              /\ turn'[u].calls = turn[u].calls /\ turn'[u].step = turn[u].step
              /\ turn'[u].pc = turn[u].pc \/ (turn[u].pc = "blocked" /\ turn'[u].pc = "load")
    BY <1>1, <1>2, <2>3, Unblocked
  <2>9. Counters' /\ Aimed'
    BY <1>1, <1>2, <2>1, <2>3, <2>4, <2>5, AimStays DEF Counters
  <2>10. ASSUME intact' PROVE InOrder'
    <3>1. intact /\ InOrder /\ \A t \in Turn : turn[t].pc \notin InStep
      BY <2>1, <2>10 DEF IInv
    <3>2. \A u \in Turn : /\ turn[u].calls = <<>> /\ Outside(turn'[u]) /\ turn'[u] \in TurnState
                          /\ turn'[u].pc = "free" <=> turn[u].pc = "free"
      <4>1. ASSUME NEW u \in Turn
            PROVE  /\ turn[u].calls = <<>> /\ Outside(turn'[u]) /\ turn'[u] \in TurnState
                   /\ turn'[u].pc = "free" <=> turn[u].pc = "free"
        <5>1. TurnFormed(turn[u], nextId) /\ turn'[u] \in TurnState
          BY <1>2, <2>8 DEF Turns
        <5>2. turn[u].calls = <<>> /\ turn[u].step = 0
          BY <3>1, <5>1 DEF TurnFormed, InStep
        <5>3. QED
          BY <2>8, <3>1, <5>1, <5>2 DEF Outside, InStep
      <4>2. QED
        BY <4>1
    <3>3. \A u \in Turn : Alone(u)' => Alone(u)
      BY <3>2 DEF Alone, Alive
    <3>4. \A u \in Turn : Alone(u) => Follows(live, turn[u]) /\ Follows(disk, turn[u])
      BY <3>1 DEF InOrder, Followed
    <3>5. \A u \in Turn : Alone(u)' => Followed(live', disk', stepsKept', turn'[u])
      BY <2>4, <2>5, <3>2, <3>3, <3>4 DEF Followed, Outside
    <3>6. \A t, u \in Turn : Alive(t)' /\ Alive(u)' => t = u
      BY <3>1, <3>2 DEF InOrder, Alive
    <3>7. stepsKept' => ~ disk'.threw
      BY <1>1, <2>5, <3>1 DEF InOrder
    <3>8. QED
      BY <3>5, <3>6, <3>7 DEF InOrder
  <2>11. QED
    BY <1>3, <2>6, <2>7, <2>8, <2>9, <2>10 DEF IInv
<1>6. QED
  BY <1>4, <1>5

\* What has moved twice has moved.
LEMMA MovedTwice ==
    ASSUME NEW m, NEW n, NEW v, NEW w, Moved(v, m, n), Moved(w, v, n)
    PROVE  Moved(w, m, n)
BY DEF Moved

\* While no enter is overtaken, at most one waits, and its mode is the session's.
LEMMA OneEnters ==
    ASSUME Counters, Aimed, ~ overtaken, NEW k \in Mode, entering[k] > 0,
           entering' = [entering EXCEPT ![k] = @ - 1]
    PROVE  live.mode = k /\ entering' \in [Mode -> Nat] /\ \A j \in Mode : entering'[j] = 0
<1>1. \A j \in Mode : entering[j] > 0 => entering[j] = 1 /\ live.mode = j
  BY DEF Aimed
<1>2. entering \in [Mode -> Nat]
  BY DEF Counters
<1>3. ASSUME NEW j \in Mode PROVE entering'[j] = 0
  <2>1. CASE j = k
    BY <1>1, <1>2, <2>1
  <2>2. CASE j # k
    <3>1. ~ entering[j] > 0 /\ entering[j] \in Nat
      BY <1>1, <1>2, <2>2
    <3>2. QED
      BY <1>2, <2>2, <3>1
  <2>3. QED
    BY <2>1, <2>2
<1>4. QED
  BY <1>1, <1>2, <1>3

\* What entering and leaving modes does to the two memories, and where they aim then.
LEMMA SwitchMoves ==
    ASSUME IInv,
           (\E k \in Mode : enterMode(k) \/ entered(k) \/ enterFails(k)) \/ exitMode
    PROVE  /\ Moved(live', live, nextId) /\ Moved(disk', disk, nextId)
           /\ Aimed' /\ Counters'
           /\ UNCHANGED <<turn, compaction, nextId, intact, stepsKept>>
<1>1. /\ Counters /\ Aimed /\ nextId \in Nat
      /\ Sound(live, nextId) /\ Sound(disk, nextId)
      /\ entering \in [Mode -> Nat] /\ "normal" \in Mode
  BY Numbers, ModeAssumption DEF IInv, Counters
<1>2. Target(disk) = disk.mode
  BY <1>1 DEF Aimed
<1>3. /\ Moved(exit(live), live, nextId)
      /\ Target(live) = live.mode \/ live.mode # "normal" => Target(exit(live)) = "normal"
      /\ exit(live).mode = "normal"
  BY <1>1, MovedMode
<1>4. /\ Moved(exit(disk), disk, nextId) /\ Moved(disk, disk, nextId)
      /\ Target(exit(disk)) = "normal" /\ exit(disk).mode = "normal"
  BY <1>1, <1>2, MovedMode
<1>5. ASSUME Switches
      PROVE  /\ UNCHANGED <<activeTurn, turn, compaction, nextId, intact, stepsKept>>
             /\ acts' \in 0 .. MaxActs /\ overtaken' \in BOOLEAN
             /\ ~ overtaken' =>
                   /\ ~ overtaken /\ Target(live) = live.mode
                   /\ \A j \in Mode : entering[j] = 0
  <2>1. /\ Intervenes /\ UNCHANGED <<activeTurn, turn, compaction, nextId, intact, stepsKept>>
        /\ overtaken' = (overtaken \/ Entering)
    BY <1>5 DEF Switches
  <2>2. acts' \in 0 .. MaxActs /\ overtaken' \in BOOLEAN
    BY <1>1, <2>1, Numbers DEF Counters, Entering
  <2>3. ASSUME ~ overtaken'
        PROVE  /\ ~ overtaken /\ Target(live) = live.mode
               /\ \A j \in Mode : entering[j] = 0
    <3>1. ~ overtaken /\ ~ Entering
      BY <2>1, <2>3
    <3>2. Target(live) = live.mode
      BY <1>1, <3>1 DEF Aimed
    <3>3. \A j \in Mode : ~ entering[j] > 0 /\ entering[j] \in Nat
      BY <1>1, <3>1 DEF Entering
    <3>4. \A j \in Mode : entering[j] = 0
      BY <3>3
    <3>5. QED
      BY <3>1, <3>2, <3>4
  <2>4. QED
    BY <2>1, <2>2, <2>3
<1>6. ASSUME NEW k \in Mode, Entered(k)
      PROVE  /\ UNCHANGED <<turn, compaction, nextId, intact, stepsKept>> /\ Counters'
             /\ overtaken' = overtaken
             /\ ~ overtaken => live.mode = k /\ \A j \in Mode : entering'[j] = 0
  <2>1. /\ entering[k] > 0 /\ entering' = [entering EXCEPT ![k] = @ - 1]
        /\ UNCHANGED <<activeTurn, turn, compaction, nextId, acts, intact, stepsKept, overtaken>>
    BY <1>6 DEF Entered
  <2>2. entering[k] \in Nat /\ entering[k] - 1 \in Nat
    BY <1>1, <2>1
  <2>3. entering' \in [Mode -> Nat]
    BY <1>1, <2>1, <2>2
  <2>4. QED
    BY <1>1, <2>1, <2>3, OneEnters DEF Counters
<1>7. CASE \E k \in Mode : enterMode(k)
  <2>1. PICK k \in Mode : enterMode(k)
    BY <1>7
  <2>2. /\ Switches /\ k \notin {"normal", live.mode}
        /\ live' = [exit(live) EXCEPT !.mode = k]
        /\ disk' = IF live.mode = "normal" THEN disk ELSE exit(disk)
        /\ entering' = [entering EXCEPT ![k] = @ + 1]
    BY <2>1 DEF enterMode
  <2> DEFINE v == exit(live)
  <2>3. /\ Moved(v, live, nextId) /\ v.mode = "normal"
        /\ Target(live) = live.mode => Target(v) = "normal"
    BY <1>3
  <2>4. live' = [v EXCEPT !.mode = k]
    BY <2>2
  <2> HIDE DEF v
  <2>5. Moved(live', v, nextId) /\ Target(live') = Target(v) /\ live'.mode = k
    <3>1. Sound(v, nextId)
      BY <2>3 DEF Moved
    <3>2. QED
      BY <1>1, <2>4, <3>1, MovedMode
  <2>6. Moved(live', live, nextId)
    BY <2>3, <2>5, MovedTwice
  <2>7. Moved(disk', disk, nextId) /\ Target(disk') = disk'.mode
    <3>1. CASE live.mode = "normal"
      <4>1. disk' = disk
        BY <2>2, <3>1
      <4>2. QED
        BY <1>2, <1>4, <4>1
    <3>2. CASE live.mode # "normal"
      <4>1. disk' = exit(disk)
        BY <2>2, <3>2
      <4>2. QED
        BY <1>4, <4>1
    <3>3. QED
      BY <3>1, <3>2
  <2>8. entering' \in [Mode -> Nat] /\ Counters'
    <3>1. entering[k] + 1 \in Nat
      BY <1>1
    <3>2. entering' \in [Mode -> Nat]
      BY <1>1, <2>2, <3>1
    <3>3. QED
      BY <1>1, <1>5, <2>2, <3>2 DEF Counters
  <2>9. ASSUME ~ overtaken'
        PROVE  /\ Target(live') = "normal" /\ Entering'
               /\ \A j \in Mode : entering'[j] > 0 => entering'[j] = 1 /\ live'.mode = j
    <3>1. Target(live) = live.mode /\ \A j \in Mode : entering[j] = 0
      BY <1>5, <2>2, <2>9
    <3>2. entering'[k] = 1 /\ \A j \in Mode \ {k} : entering'[j] = 0
      BY <1>1, <2>2, <3>1
    <3>3. Entering'
      BY <3>2 DEF Entering
    <3>4. QED
      BY <2>3, <2>5, <3>1, <3>2, <3>3
  <2>10. Aimed'
    BY <2>7, <2>9 DEF Aimed
  <2>11. QED
    BY <1>5, <2>2, <2>6, <2>7, <2>8, <2>10
<1>8. CASE \E k \in Mode : entered(k)
  <2>1. PICK k \in Mode : entered(k)
    BY <1>8
  <2>2. Entered(k) /\ live' = setContextMode(live, k) /\ disk' = enter(disk, k)
    BY <2>1 DEF entered
  <2>3. /\ Moved(live', live, nextId) /\ Target(live') = k /\ live'.mode = live.mode
    BY <1>1, <2>2, MovedMode
  <2>4. /\ Moved(disk', disk, nextId) /\ Target(disk') = disk'.mode
    <3>1. /\ Moved(enter(disk, k), disk, nextId)
          /\ Target(enter(disk, k)) = k /\ enter(disk, k).mode = k
      BY <1>1, MovedMode
    <3>2. disk' = enter(disk, k)
      BY <2>2
    <3>3. QED
      BY <3>1, <3>2
  <2>5. Aimed'
    BY <1>6, <2>2, <2>3, <2>4 DEF Aimed, Entering
  <2>6. QED
    BY <1>6, <2>2, <2>3, <2>4, <2>5
<1>9. CASE \E k \in Mode : enterFails(k)
  <2>1. PICK k \in Mode : enterFails(k)
    BY <1>9
  <2>2. Entered(k) /\ live' = leave(live) /\ disk' = disk
    BY <2>1 DEF enterFails
  <2>3. /\ Moved(live', live, nextId) /\ Target(live') = "normal" /\ live'.mode = "normal"
    BY <1>1, <2>2, MovedMode
  <2>4. Aimed'
    BY <1>2, <1>6, <2>2, <2>3 DEF Aimed, Entering
  <2>5. QED
    BY <1>4, <1>6, <2>2, <2>3, <2>4
<1>10. CASE exitMode
  <2>1. /\ Switches /\ live.mode # "normal" /\ entering' = entering
        /\ live' = exit(live) /\ disk' = exit(disk)
    BY <1>10 DEF exitMode, Logged
  <2>2. Counters'
    BY <1>1, <1>5, <2>1 DEF Counters
  <2>3. ASSUME ~ overtaken' PROVE ~ Entering'
    BY <1>5, <2>1, <2>3 DEF Entering
  <2>4. Aimed'
    BY <1>3, <1>4, <1>5, <2>1, <2>3 DEF Aimed, Entering
  <2>5. QED
    BY <1>3, <1>4, <1>5, <2>1, <2>2, <2>4
<1>11. QED
  BY <1>7, <1>8, <1>9, <1>10

\* Entering a mode and leaving it.
LEMMA ModeKeeps ==
    ASSUME IInv,
           (\E k \in Mode : enterMode(k) \/ entered(k) \/ enterFails(k)) \/ exitMode
    PROVE  IInv' /\ Kept(live) \subseteq Kept(live') /\ turn' = turn
<1>1. /\ Moved(live', live, nextId) /\ Moved(disk', disk, nextId)
      /\ Aimed' /\ Counters'
      /\ UNCHANGED <<turn, compaction, nextId, intact, stepsKept>>
  BY SwitchMoves
<1>2. Turns' /\ Compactions'
  BY <1>1 DEF IInv, Turns, Compactions
<1>3. /\ Sound(live', nextId) /\ Sound(disk', nextId) /\ disk'.threw = disk.threw
      /\ Kept(live') = Kept(live)
      /\ \A a : Follows(live, a) => Follows(live', a) /\ (Open(live', a) <=> Open(live, a))
      /\ \A a : Follows(disk, a) => Follows(disk', a) /\ (Open(disk', a) <=> Open(disk, a))
  BY <1>1 DEF Moved
<1>4. ASSUME intact' PROVE InOrder'
  <2>1. InOrder
    BY <1>1, <1>4 DEF IInv
  <2>2. stepsKept' => ~ disk'.threw
    BY <1>1, <1>3, <2>1 DEF InOrder
  <2>3. \A t \in Turn : Followed(live, disk, stepsKept, turn[t])
                          => Followed(live', disk', stepsKept', turn[t])
    BY <1>1, <1>3 DEF Followed
  <2>4. QED
    BY <1>1, <2>1, <2>2, <2>3, OrderStays
<1>5. QED
  BY <1>1, <1>2, <1>3, <1>4 DEF IInv

\* Undoing and clearing, which close the step that is open.
LEMMA ResetKeeps ==
    ASSUME IInv, undoHistory \/ clearContext
    PROVE  IInv' /\ turn' = turn
<1>1. /\ Intervenes /\ UNCHANGED <<activeTurn, turn, compaction, entering, nextId,
                                   intact, overtaken>>
      /\ stepsKept' = (stepsKept /\ \A t \in Turn : turn[t].pc \notin InStep)
      /\ live' \in {Cleared(live), UndoneIn(live)} /\ disk' \in {Cleared(disk), UndoneIn(disk)}
  BY DEF undoHistory, clearContext, Erases, Logged, MidStep, InStep
<1>2. /\ Counters /\ Turns /\ Compactions /\ Aimed /\ nextId \in Nat
      /\ Sound(live, nextId) /\ Sound(disk, nextId)
  BY Numbers DEF IInv
<1>3. /\ Sound(live', nextId) /\ SameAim(live', live)
      /\ \A a \in TurnState : ~ Open(live', a) /\ (Follows(live, a) => Follows(live', a))
  BY <1>1, <1>2, ResetDoes
<1>4. /\ Sound(disk', nextId) /\ disk'.threw = disk.threw /\ SameAim(disk', disk)
      /\ \A a \in TurnState : ~ Open(disk', a) /\ (Follows(disk, a) => Follows(disk', a))
  BY <1>1, <1>2, ResetDoes
<1>5. Counters' /\ Turns' /\ Compactions' /\ Aimed'
  BY <1>1, <1>2, <1>3, <1>4, Numbers, AimStays DEF Counters, Turns, Compactions
<1>6. ASSUME intact' PROVE InOrder'
  <2>1. InOrder
    BY <1>1, <1>6 DEF IInv
  <2>2. stepsKept' => ~ disk'.threw
    BY <1>1, <1>4, <2>1 DEF InOrder
  <2>3. ASSUME NEW t \in Turn, Followed(live, disk, stepsKept, turn[t])
        PROVE  Followed(live', disk', stepsKept', turn[t])
    <3>1. turn[t] \in TurnState
      BY <1>2 DEF Turns
    <3>2. QED
      BY <1>1, <1>3, <1>4, <2>3, <3>1 DEF Followed
  <2>4. QED
    BY <1>1, <2>1, <2>2, <2>3, OrderStays
<1>7. QED
  BY <1>1, <1>3, <1>4, <1>5, <1>6 DEF IInv

\* The death of the process: what the records build takes the memory's place.
LEMMA CrashKeeps ==
    ASSUME IInv, crash
    PROVE  IInv'
<1>1. /\ Intervenes /\ ~ disk.threw /\ live' = disk /\ disk' = disk /\ nextId' = nextId
      /\ activeTurn' = None
      /\ turn' = [t \in Turn |-> FreeTurn]
      /\ compaction' = [k \in Mode |-> NotCompacting]
      /\ entering' = [k \in Mode |-> 0]
      /\ intact' = (intact /\ \A k \in Mode : disk.part[k].pendingResults = {})
      /\ stepsKept' = TRUE /\ overtaken' = FALSE
  BY DEF crash
<1>2. /\ Counters /\ Turns /\ Aimed /\ nextId \in Nat /\ Sound(disk, nextId)
  BY Numbers DEF IInv
<1>3. NotCompacting \in Compaction /\ CompactionFormed(NotCompacting)
  BY Nothing DEF NotCompacting, Compaction, CompactionFormed
<1>4. Counters' /\ Turns' /\ Compactions'
  BY <1>1, <1>2, <1>3, Numbers, FreeTurnIs DEF Counters, Turns, Compactions
<1>5. Aimed'
  <2>1. \A k \in Mode : ~ entering'[k] > 0
    BY <1>1
  <2>2. QED
    BY <1>1, <1>2, <2>1 DEF Aimed, Entering
<1>6. ASSUME intact' PROVE InOrder'
  <2>1. InOrder /\ \A k \in Mode : disk.part[k].pendingResults = {}
    BY <1>1, <1>6 DEF IInv
  <2>2. CASE Turn = {}
    BY <1>1, <2>2 DEF InOrder, Alive, Alone
  <2>3. CASE Turn # {}
    <3>1. PICK t \in Turn : Alone(t)
      <4>1. CASE \E t \in Turn : Alive(t)
        BY <2>1, <4>1 DEF InOrder, Alone
      <4>2. CASE \A t \in Turn : ~ Alive(t)
        BY <2>3, <4>2 DEF Alone
      <4>3. QED
        BY <4>1, <4>2
    <3>2. Follows(disk, turn[t]) /\ turn[t].calls \in Seq(Id) /\ disk \in Memory
      BY <1>2, <2>1, <3>1 DEF InOrder, Followed, Turns, TurnState, Sound
    <3>3. Awaited(disk, turn[t]) = <<>>
      <4>1. Awaits(Active(disk), Awaited(disk, turn[t])) /\ Awaited(disk, turn[t]) \in Seq(Id)
        BY <3>2, FollowsActive
      <4>2. Active(disk).pendingResults = {}
        BY <2>1, <3>2, MemoryFields
      <4>3. Range(Awaited(disk, turn[t])) = {}
        BY <4>1, <4>2 DEF Awaits
      <4>4. QED
        BY <4>1, <4>3, Nothing
    <3>4. \A u \in Turn : turn'[u].pc = "free" /\ Outside(turn'[u])
      BY <1>1, FreeTurnIs
    <3>5. QED
      BY <1>1, <3>2, <3>3, <3>4, OrderEnds
  <2>4. QED
    BY <2>2, <2>3
<1>7. QED
  BY <1>1, <1>2, <1>4, <1>5, <1>6 DEF IInv

-----------------------------------------------------------------------------
\* The first state.
LEMMA InitIInv == Init => IInv
<1> SUFFICES ASSUME Init PROVE IInv
  OBVIOUS
<1>1. /\ live = EmptyMemory /\ disk = EmptyMemory /\ activeTurn = None
      /\ turn = [t \in Turn |-> FreeTurn] /\ compaction = [k \in Mode |-> NotCompacting]
      /\ entering = [k \in Mode |-> 0]
      /\ nextId = 1 /\ acts = 0 /\ intact = TRUE /\ stepsKept = TRUE /\ overtaken = FALSE
  BY DEF Init
<1>2. MaxIds \in Nat /\ MaxActs \in Nat /\ "normal" \in Mode
  BY BoundAssumption, ModeAssumption
<1>3. Counters
  <2>1. nextId \in 1 .. MaxIds + 1 /\ acts \in 0 .. MaxActs
    BY <1>1, <1>2
  <2>2. entering \in [Mode -> Nat]
    BY <1>1
  <2>3. QED
    BY <1>1, <2>1, <2>2 DEF Counters
<1>4. Turns
  BY <1>1, FreeTurnIs DEF Turns
<1>5. Compactions
  <2>1. NotCompacting \in Compaction /\ CompactionFormed(NotCompacting)
    BY Nothing DEF NotCompacting, Compaction, CompactionFormed
  <2>2. QED
    BY <1>1, <2>1 DEF Compactions
<1>6. /\ EmptyMemory \in Memory /\ EmptyMemory.mode = "normal"
      /\ Target(EmptyMemory) = "normal"
      /\ \A k \in Mode : EmptyMemory.part[k] = EmptyPart
      /\ EmptyMemory.threw = FALSE
  BY <1>2, EmptyPartIs DEF EmptyMemory, Memory, Target
<1>7. Sound(EmptyMemory, nextId)
  BY <1>1, <1>6, EmptyPartIs DEF Sound
<1>8. Aimed
  BY <1>1, <1>6 DEF Aimed, Entering
<1>9. Follows(EmptyMemory, FreeTurn)
  <2>1. Awaited(EmptyMemory, FreeTurn) = <<>>
    BY FreeTurnIs DEF Awaited
  <2>2. \A k \in Mode : FreeTurn.step \notin EmptyMemory.part[k].openSteps
    BY <1>6, NoStep, FreeTurnIs DEF Outside
  <2>3. QED
    BY <1>6, <2>1, <2>2, EmptyPartIs, FreeTurnIs DEF Follows
<1>10. InOrder
  BY <1>1, <1>6, <1>9, FreeTurnIs DEF InOrder, Followed, Alive, InStep
<1>11. QED
  BY <1>1, <1>3, <1>4, <1>5, <1>7, <1>8, <1>10 DEF IInv

\* A step of a turn keeps the invariant and what the memory holds, and ends no turn
\* before the switch is applied.
LEMMA TurnStepKeeps ==
    ASSUME IInv, NEW t \in Turn, TurnStep(t) \/ beginAuto(t)
    PROVE  /\ IInv' /\ Kept(live) \subseteq Kept(live')
           /\ \A u \in Turn : Alive(u) /\ turn'[u].pc = "free" => live'.switch = None
<1>1. turn \in [Turn -> TurnState] /\ turn[t] \in TurnState
  BY DEF IInv, Turns
<1>2. ASSUME NEW state, Goto(t, state), state.pc # "free"
      PROVE  \A u \in Turn : Alive(u) => turn'[u].pc # "free"
  BY <1>1, <1>2 DEF Goto, Alive
<1>3. CASE beginStep(t)
  <2>1. Goto(t, [turn[t] EXCEPT !.pc = "step", !.step = nextId])
    BY <1>3 DEF beginStep
  <2>2. [turn[t] EXCEPT !.pc = "step", !.step = nextId].pc = "step"
    BY <1>1 DEF TurnState
  <2>3. QED
    BY <1>2, <1>3, <2>1, <2>2, BeginStepKeeps
<1>4. CASE stopTurn(t)
  BY <1>4, StopTurnKeeps
<1>5. CASE tool_call(t)
  <2>1. Goto(t, [turn[t] EXCEPT !.pc = "calls", !.calls = Append(@, nextId)])
    BY <1>5 DEF tool_call
  <2>2. [turn[t] EXCEPT !.pc = "calls", !.calls = Append(@, nextId)].pc = "calls"
    BY <1>1 DEF TurnState
  <2>3. QED
    BY <1>2, <1>5, <2>1, <2>2, ToolCallKeeps
<1>6. CASE unknownStep(t)
  BY <1>6, UnknownStepKeeps
<1>7. CASE allCalled(t)
  <2>1. Goto(t, [turn[t] EXCEPT !.pc = "results"])
    BY <1>7 DEF allCalled
  <2>2. [turn[t] EXCEPT !.pc = "results"].pc = "results"
    BY <1>1 DEF TurnState
  <2>3. QED
    BY <1>2, <1>7, <2>1, <2>2, AllCalledKeeps
<1>8. CASE tool_result(t)
  <2>1. Goto(t, [turn[t] EXCEPT !.calls = Tail(@)]) /\ turn[t].pc = "results"
    BY <1>8 DEF tool_result
  <2>2. [turn[t] EXCEPT !.calls = Tail(@)].pc = "results"
    BY <1>1, <2>1 DEF TurnState
  <2>3. QED
    BY <1>2, <1>8, <2>1, <2>2, ToolResultKeeps
<1>9. CASE endStep(t)
  <2>1. \E state : Goto(t, state)
    BY <1>9 DEF endStep, EndTurn, TurnOver
  <2>2. \A u \in Turn \ {t} : turn'[u] = turn[u]
    BY <1>1, <2>1 DEF Goto
  <2>3. QED
    BY <1>9, <2>2, EndStepKeeps DEF Alive
<1>10. CASE beginAuto(t)
  <2>1. Goto(t, [turn[t] EXCEPT !.pc = "blocked", !.step = 0])
    BY <1>10 DEF beginAuto
  <2>2. [turn[t] EXCEPT !.pc = "blocked", !.step = 0].pc = "blocked"
    BY <1>1 DEF TurnState
  <2>3. QED
    BY <1>2, <1>10, <2>1, <2>2, BeginAutoKeeps
<1>11. QED
  BY <1>3, <1>4, <1>5, <1>6, <1>7, <1>8, <1>9, <1>10 DEF TurnStep

\* Every step preserves the invariant, keeps the messages, and settles the switch.
LEMMA StepKeeps ==
    ASSUME IInv, [Next]_vars
    PROVE  /\ IInv'
           /\ \/ undoHistory \/ clearContext \/ crash
              \/ Kept(live) \subseteq Kept(live')
              \/ \E k \in Mode : compacted(k) /\ Kept(live) \subseteq Kept(live') \cup Summarised(k)
           /\ \/ crash
              \/ \A t \in Turn : Alive(t) /\ turn'[t].pc = "free" => live'.switch = None
<1>0. turn \in [Turn -> TurnState]
  BY DEF IInv, Turns
<1>1. CASE appendNotice
  <2>1. turn' = turn
    BY <1>1 DEF appendNotice, append
  <2>2. QED
    BY <1>1, <2>1, NoticeKeeps DEF Alive
<1>2. CASE \E t \in Turn, role \in {"prompt", "reminder"} : appendInTurn(t, role)
  <2>1. turn' = turn
    BY <1>2 DEF appendInTurn, append
  <2>2. QED
    BY <1>2, <2>1, SteeredKeeps DEF Alive
<1>3. CASE \E t \in Turn, role \in {"prompt", "notice"} : launch(t, role)
  <2>1. PICK t \in Turn, role \in {"prompt", "notice"} : launch(t, role)
    BY <1>3
  <2>2. turn' = [turn EXCEPT ![t] = [FreeTurn EXCEPT !.pc = "load"]]
    BY <2>1 DEF launch
  <2>3. [FreeTurn EXCEPT !.pc = "load"].pc = "load"
    BY DEF FreeTurn
  <2>4. \A u \in Turn : Alive(u) => turn'[u].pc # "free"
    BY <1>0, <2>2, <2>3 DEF Alive
  <2>5. QED
    BY <2>1, <2>4, LaunchKeeps
<1>4. CASE cancel
  <2>1. /\ turn' = [turn EXCEPT ![activeTurn].aborted = TRUE,
                                ![activeTurn].pc = IF @ = "blocked" THEN "load" ELSE @]
        /\ live' = live
    BY <1>4 DEF cancel
  <2>2. \A u \in Turn : Alive(u) => turn'[u].pc # "free"
    BY <1>0, <2>1 DEF Alive, TurnState
  <2>3. QED
    BY <1>4, <2>1, <2>2, CancelKeeps
<1>5. CASE \E t \in Turn : TurnStep(t) \/ beginAuto(t)
  BY <1>5, TurnStepKeeps
<1>6. CASE beginManual
  <2>1. turn' = turn
    BY <1>6 DEF beginManual
  <2>2. QED
    BY <1>6, <2>1, BeginManualKeeps DEF Alive
<1>7. ASSUME NEW k \in Mode, Unblock(k)
      PROVE  \A u \in Turn : Alive(u) => turn'[u].pc # "free"
  <2>1. \A u \in Turn : turn'[u] = turn[u] \/ turn'[u] = [turn[u] EXCEPT !.pc = "load"]
    BY <1>7 DEF Unblock
  <2>2. \A u \in Turn : turn[u] \in TurnState
    BY <1>0
  <2>3. QED
    BY <2>1, <2>2 DEF Alive, TurnState
<1>8. CASE \E k \in Mode : compacted(k) \/ compactionFails(k)
  <2>1. PICK k \in Mode : compacted(k) \/ compactionFails(k)
    BY <1>8
  <2>2. \A u \in Turn : Alive(u) => turn'[u].pc # "free"
    BY <1>7, <2>1 DEF compacted, compactionFails
  <2>3. QED
    BY <2>1, <2>2, CompactedKeeps, CompactionFailsKeeps
<1>9. CASE (\E k \in Mode : enterMode(k) \/ entered(k) \/ enterFails(k)) \/ exitMode
  BY <1>9, ModeKeeps DEF Alive
<1>10. CASE undoHistory \/ clearContext
  BY <1>10, ResetKeeps DEF Alive
<1>11. CASE crash
  BY <1>11, CrashKeeps
<1>12. CASE UNCHANGED vars
  <2>1. UNCHANGED <<live, disk, activeTurn, turn, compaction, entering, nextId, acts,
                    intact, stepsKept, overtaken>>
    BY <1>12 DEF vars
  <2>2. IInv'
    <3>1. Counters' /\ Turns' /\ Compactions' /\ Aimed'
      BY <2>1, AimSame, AimStays DEF IInv, Counters, Turns, Compactions
    <3>2. InOrder => InOrder'
      BY <2>1 DEF InOrder, Alone, Alive
    <3>3. QED
      BY <2>1, <3>1, <3>2 DEF IInv
  <2>3. QED
    BY <2>1, <2>2 DEF Alive
<1>13. QED
  BY <1>1, <1>2, <1>3, <1>4, <1>5, <1>6, <1>8, <1>9, <1>10, <1>11, <1>12 DEF Next

-----------------------------------------------------------------------------
\* The invariant: the memory and the replay are each sound and aim at the partition of
\* a mode; and while the history is intact, what their partitions wait for is what the
\* turn that runs has called in the step that is open.
THEOREM ContextInvariant == Spec => []IInv
<1>1. IInv /\ [Next]_vars => IInv'
  BY StepKeeps
<1>2. QED
  BY InitIInv, <1>1, PTL DEF Spec

\* Every variable keeps its type.
THEOREM ContextTypeCorrect == Spec => []TypeOK
<1>1. IInv => TypeOK
  BY DEF IInv, TypeOK, Sound, Counters, Turns, Compactions
<1>2. QED
  BY ContextInvariant, <1>1, PTL

\* While the history is intact, a provider accepts what a turn sends: every result
\* of a call follows it, whatever came in while tools ran, was undone, or was
\* compacted.
THEOREM RequestsAcceptable == Spec => []AnsweredWhenSent
<1>1. IInv => AnsweredWhenSent
  <2>1. SUFFICES ASSUME IInv, intact, NEW t \in Turn, Sends(t)
                 PROVE  Acceptable(Messages(Active(live).history))
    BY DEF AnsweredWhenSent
  <2>2. turn[t].pc = "load" /\ Alive(t)
    BY <2>1 DEF Sends, Alive
  <2>3. turn[t].calls = <<>> /\ live \in Memory
    BY <2>1, <2>2 DEF IInv, Sound, Turns, TurnFormed, InStep
  <2>4. Follows(live, turn[t])
    BY <2>1, <2>2, FollowedAlive
  <2>5. Active(live) = live.part[live.active] /\ live.active \in Mode /\ Active(live) \in Part
    BY <2>3, MemoryFields
  <2>6. Answers(Active(live).history, <<>>)
    BY <2>3, <2>4, FollowsActive DEF Awaits
  <2>7. Active(live).history \in Seq(Msg)
    BY <2>5, PartFields
  <2>8. QED
    BY <2>6, <2>7, SentIsAcceptable
<1>2. QED
  BY ContextInvariant, <1>1, PTL

\* While the history is intact, and no step was undone or cleared under its turn, the
\* log can be replayed: no record names a step that the replay does not find open,
\* whatever modes were entered and left meanwhile.
THEOREM LogStaysReplayable == Spec => []ResumableWhenIntact
<1>1. IInv => ResumableWhenIntact
  BY DEF IInv, InOrder, ResumableWhenIntact, Resumable
<1>2. QED
  BY ContextInvariant, <1>1, PTL

\* No step loses a message that was not undone, cleared, or summarised by the worker
\* that removes it.
THEOREM NoMessageLost == Spec => MessagesKept
<1>1. ASSUME IInv, [Next]_vars
      PROVE  [\/ undoHistory \/ clearContext \/ (crash /\ live # disk)
              \/ Kept(live) \subseteq Kept(live')
              \/ \E k \in Mode : compacted(k) /\ Kept(live) \subseteq Kept(live') \cup Summarised(k)
             ]_vars
  <2>1. CASE crash
    <3>1. live' = disk
      BY <2>1 DEF crash
    <3>2. QED
      BY <2>1, <3>1
  <2>2. CASE ~ crash
    BY <1>1, <2>2, StepKeeps
  <2>3. QED
    BY <2>1, <2>2
<1>2. QED
  BY ContextInvariant, <1>1, PTL DEF Spec, MessagesKept

\* However a turn ends, the partition in use is then that of the session's mode, or
\* the normal one while the mode is being entered; unless an enter was overtaken in its
\* await since the session began or was resumed.
THEOREM SwitchAlwaysSettles == Spec => SwitchSettles
<1>1. ASSUME IInv, [Next]_vars
      PROVE  [\/ crash \/ overtaken'
              \/ \A t \in Turn : Alive(t) /\ turn'[t].pc = "free"
                    => live'.active = IF Entering' THEN "normal" ELSE live'.mode]_vars
  <2>1. IInv' /\ (\/ crash
                 \/ \A t \in Turn : Alive(t) /\ turn'[t].pc = "free" => live'.switch = None)
    BY <1>1, StepKeeps
  <2>2. ~ overtaken' => Target(live') = IF Entering' THEN "normal" ELSE live'.mode
    BY <2>1 DEF IInv, Aimed
  <2>3. live'.switch = None => Target(live') = live'.active
    BY DEF Target
  <2>4. QED
    BY <2>1, <2>2, <2>3
<1>2. QED
  BY ContextInvariant, <1>1, PTL DEF Spec, SwitchSettles

=============================================================================
