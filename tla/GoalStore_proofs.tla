-------------------------- MODULE GoalStore_proofs ---------------------------
(***************************************************************************)
(* Proofs about GoalStore, for any number of goals, writes, turns, budgets *)
(* and crashes: between the writes the file and the application hold the   *)
(* goal in memory, a goal that is gone has its end recorded or one of      *)
(* three excuses, and no turn is counted over a budget.                    *)
(***************************************************************************)
EXTENDS GoalStore, SequenceTheorems, FiniteSetTheorems, TLAPS

Entry == [text : Text, op : Operation]

\* What the chain's operations hold is an object, and the goal is one that is not
\* complete.
Held ==
    /\ current # None => objects[current] # None /\ objects[current].status # "complete"
    /\ \A i \in 1 .. Len(writes) :
          writes[i].op.kind # "nothing" =>
              writes[i].op.goal # None /\ objects[writes[i].op.goal] # None

\* Only a session that is open writes, and one that is being resumed writes once.
ChainShape ==
    /\ phase \in {"dead", "unreadable"} => writes = <<>>
    /\ phase = "resuming" => Len(writes) = 1
    /\ phase # "live" => missed

\* The last text of the chain is the goal in memory.
LastIsMemory == writes # <<>> => writes[Len(writes)].text = textOf(objects, current)

Showing(op) == op.kind \notin {"usage", "nothing"}

\* Nothing is shown any more behind the i-th operation of the chain.
LastToShow(i) == Showing(writes[i].op) /\ \A j \in i + 1 .. Len(writes) : ~ Showing(writes[j].op)

\* The last operation that shows something shows the goal, or that there is none.
LastShowsMemory ==
    \A i \in 1 .. Len(writes) :
        LastToShow(i) =>
            IF writes[i].op.kind \in {"clear", "replace"}
              THEN current = None ELSE writes[i].op.goal = current

\* When nothing more is going to be shown, what is shown is the goal.
ShownIsMemory ==
    (\A i \in 1 .. Len(writes) : ~ Showing(writes[i].op)) /\ ~ missed =>
        shown = IF current = None THEN None ELSE wordOf(current)

\* While a session is open, a goal whose end is still to be recorded is the current
\* one, or the chain will record it, or it has an excuse.
OwedIsRecorded ==
    phase \in {"live", "resuming"} =>
        owing \ excused \subseteq {current} \cup
            {writes[i].op.goal : i \in {j \in 1 .. Len(writes) : writes[j].op.kind \in {"clear", "replace"}}}

\* A session that is not open yet knows of no goal but the one in the file.
OnlyFromDisk ==
    phase \in {"dead", "resuming"} /\ disk # Torn =>
        \A g \in Goals : objects[g] # None \/ g \in owing \ excused =>
            /\ disk # None /\ disk.id = g
            /\ objects[g] # None => objects[g].turns = disk.goal.turns

\* The agent awaits one write at a time.
AgentAwaitsOne ==
    /\ pc = "await" => turn.after # None
    /\ \A i, j \in 1 .. Len(writes) :
          writes[i].op.who = "agent" => pc = "await" /\ (writes[j].op.who = "agent" => i = j)

\* There is an id for each goal that is going to replace another.
IdsLeft == Cardinality(Replacing(writes)) <= Cardinality(Fresh)

IInv ==
    /\ TypeOK /\ Held /\ ChainShape
    /\ LastIsMemory /\ DiskFollowsMemory
    /\ LastShowsMemory /\ ShownIsMemory
    /\ OwedIsRecorded /\ OnlyFromDisk
    /\ AgentAwaitsOne /\ IdsLeft

-----------------------------------------------------------------------------
\* The chain.

\* A write queued behind the others.
LEMMA Joined ==
    ASSUME NEW s \in Seq(Entry), NEW e \in Entry
    PROVE  /\ Append(s, e) \in Seq(Entry) /\ Append(s, e) # <<>>
           /\ Len(s) \in Nat /\ Len(Append(s, e)) = Len(s) + 1
           /\ \A i \in 1 .. Len(s) : Append(s, e)[i] = s[i] /\ s[i] \in Entry
           /\ Append(s, e)[Len(s) + 1] = e
  BY AppendProperties, LenProperties, ElementOfSeq

\* The writes left when the first one is over.
LEMMA Shortened ==
    ASSUME NEW s \in Seq(Entry), s # <<>>
    PROVE  /\ Tail(s) \in Seq(Entry) /\ Len(s) \in Nat \ {0} /\ Len(Tail(s)) = Len(s) - 1
           /\ \A i \in 1 .. Len(s) - 1 : Tail(s)[i] = s[i + 1]
           /\ Head(s) = s[1]
           /\ \A i \in 1 .. Len(s) : s[i] \in Entry
<1>1. Len(s) \in Nat \ {0}
  BY EmptySeq
<1>2. Tail(s) \in Seq(Entry) /\ Len(Tail(s)) = Len(s) - 1
      /\ \A i \in 1 .. Len(Tail(s)) : Tail(s)[i] = s[i + 1]
  BY HeadTailProperties
<1> QED BY <1>1, <1>2, ElementOfSeq

\* A queued write is a text of state.json and the operation that waits for it.
LEMMA EntryFields ==
    ASSUME NEW e \in Entry
    PROVE  e.text \in Text /\ e.op \in Operation
  BY DEF Entry

\* The goals that wait to replace another are as many as their operations.
LEMMA ReplacingFinite ==
    ASSUME NEW s \in Seq(Entry)
    PROVE  /\ IsFiniteSet(Replacing(s)) /\ Cardinality(Replacing(s)) \in Nat
           /\ Replacing(s) = {i \in 1 .. Len(s) : s[i].op.kind = "replace"}
<1>1. DOMAIN s = 1 .. Len(s) /\ Len(s) \in Nat
  BY LenProperties
<1>2. IsFiniteSet(1 .. Len(s))
  BY <1>1, FS_Interval
<1>3. Replacing(s) \subseteq 1 .. Len(s)
  BY <1>1 DEF Replacing
<1> QED BY <1>1, <1>2, <1>3, FS_Subset, FS_CardinalityType DEF Replacing

\* A queued write adds one waiting replacement at most.
LEMMA ReplacingJoined ==
    ASSUME NEW s \in Seq(Entry), NEW e \in Entry
    PROVE  /\ e.op.kind # "replace" => Replacing(Append(s, e)) = Replacing(s)
           /\ Cardinality(Replacing(Append(s, e))) <= Cardinality(Replacing(s)) + 1
<1>1. Append(s, e) \in Seq(Entry) /\ Len(s) \in Nat
  BY Joined
<1>2. /\ Replacing(s) = {i \in 1 .. Len(s) : s[i].op.kind = "replace"}
      /\ Replacing(Append(s, e)) = {i \in 1 .. Len(s) + 1 : Append(s, e)[i].op.kind = "replace"}
  <2>1. Len(Append(s, e)) = Len(s) + 1
    BY Joined
  <2> QED BY <1>1, <2>1, ReplacingFinite
<1>3. e.op.kind # "replace" => Replacing(Append(s, e)) = Replacing(s)
  BY <1>1, <1>2, Joined
<1>4. Replacing(Append(s, e)) \subseteq Replacing(s) \cup {Len(s) + 1}
  <2> SUFFICES ASSUME NEW i \in 1 .. Len(s) + 1, Append(s, e)[i].op.kind = "replace", i # Len(s) + 1
               PROVE  i \in Replacing(s)
    BY <1>2
  <2>1. i \in 1 .. Len(s) /\ Append(s, e)[i] = s[i]
    BY <1>1, Joined
  <2> QED BY <1>2, <2>1
<1>5. /\ IsFiniteSet(Replacing(s) \cup {Len(s) + 1})
      /\ Cardinality(Replacing(s) \cup {Len(s) + 1}) <= Cardinality(Replacing(s)) + 1
  <2>1. IsFiniteSet(Replacing(s)) /\ Cardinality(Replacing(s)) \in Nat
    BY ReplacingFinite
  <2> DEFINE R == Replacing(s)
             n == Len(s) + 1
  <2> HIDE DEF R, n
  <2>2. IsFiniteSet(R) => /\ IsFiniteSet(R \cup {n})
                          /\ Cardinality(R \cup {n}) \in {Cardinality(R), Cardinality(R) + 1}
    BY FS_AddElement
  <2> QED BY <2>1, <2>2 DEF R, n
<1>6. Cardinality(Replacing(Append(s, e))) <= Cardinality(Replacing(s) \cup {Len(s) + 1})
  BY <1>4, <1>5, FS_Subset
<1>7. /\ Cardinality(Replacing(Append(s, e))) \in Nat /\ Cardinality(Replacing(s)) \in Nat
      /\ Cardinality(Replacing(s) \cup {Len(s) + 1}) \in Nat
  BY <1>1, <1>5, ReplacingFinite, FS_CardinalityType
<1> QED BY <1>3, <1>5, <1>6, <1>7

\* A finished write takes its replacement out of those that wait.
LEMMA ReplacingShortened ==
    ASSUME NEW s \in Seq(Entry), s # <<>>
    PROVE  /\ Cardinality(Replacing(Tail(s))) <= Cardinality(Replacing(s))
           /\ s[1].op.kind = "replace" =>
                 Cardinality(Replacing(Tail(s))) <= Cardinality(Replacing(s)) - 1
<1> DEFINE rest == Replacing(s) \ {1}
           f == [i \in Replacing(Tail(s)) |-> i + 1]
<1>1. /\ Replacing(s) = {i \in 1 .. Len(s) : s[i].op.kind = "replace"}
      /\ Replacing(Tail(s)) = {i \in 1 .. Len(s) - 1 : s[i + 1].op.kind = "replace"}
      /\ Len(s) \in Nat
  <2>1. /\ Tail(s) \in Seq(Entry) /\ Len(s) \in Nat /\ Len(Tail(s)) = Len(s) - 1
        /\ \A i \in 1 .. Len(s) - 1 : Tail(s)[i] = s[i + 1]
    BY Shortened
  <2>2. Replacing(Tail(s)) = {i \in 1 .. Len(s) - 1 : Tail(s)[i].op.kind = "replace"}
    BY <2>1, ReplacingFinite
  <2> QED BY <2>1, <2>2, ReplacingFinite
<1>2. f \in Injection(Replacing(Tail(s)), rest)
  <2>1. \A i \in Replacing(Tail(s)) : i + 1 \in rest /\ i \in Nat
    BY <1>1
  <2>2. f \in [Replacing(Tail(s)) -> rest]
    BY <2>1
  <2>3. \A i, j \in Replacing(Tail(s)) : f[i] = f[j] => i = j
    BY <2>1
  <2> QED BY <2>2, <2>3 DEF Injection, IsInjective
<1>3. IsFiniteSet(rest) /\ Cardinality(rest) =
          IF 1 \in Replacing(s) THEN Cardinality(Replacing(s)) - 1 ELSE Cardinality(Replacing(s))
  BY ReplacingFinite, FS_RemoveElement
<1> HIDE DEF rest, f
<1>4. Cardinality(Replacing(Tail(s))) <= Cardinality(rest)
  BY <1>2, <1>3, FS_Injection
<1>5. Cardinality(Replacing(Tail(s))) \in Nat /\ Cardinality(Replacing(s)) \in Nat
  BY Shortened, ReplacingFinite
<1>6. s[1].op.kind = "replace" => 1 \in Replacing(s)
  BY <1>1, Shortened
<1> QED BY <1>3, <1>4, <1>5, <1>6

-----------------------------------------------------------------------------
\* What the calls do, up to their first await: an operation joins the chain with
\* the text of the goal as it leaves it, and does one of three things to the goal.

Joins(op) == writes' = Append(writes, [text |-> textOf(objects', current'), op |-> op])

Changes(op) ==
    /\ op.kind \in {"status", "budget", "count", "usage"}
    /\ current # None /\ op.goal = current /\ current' = current
    /\ \E state \in Goal :
          /\ objects' = [objects EXCEPT ![current] = state]
          /\ state.status # "complete"
          /\ op.kind = "usage" => state = objects[current]
          /\ objects[current].turnBudget # None /\ state.turns > objects[current].turns =>
                state.turns <= objects[current].turnBudget
    /\ UNCHANGED <<owing, shown>>

Clears(op) ==
    /\ op.kind \in {"clear", "replace"}
    /\ op.kind = "replace" => MayCreate
    /\ current # None /\ op.goal = current /\ current' = None
    /\ \/ UNCHANGED <<objects, shown>>
       \/ /\ op.kind = "clear"
          /\ objects' = [objects EXCEPT ![current] = [@ EXCEPT !.status = "complete"]]
          /\ shown' = [id |-> current, status |-> "complete"]
    /\ UNCHANGED owing

Creates(op) ==
    /\ op.kind = "create"
    /\ current = None /\ MayCreate
    /\ \E g \in Fresh :
          /\ objects' = [objects EXCEPT ![g] = NewGoal]
          /\ current' = g /\ op.goal = g
    /\ owing' = owing \cup {current'}
    /\ UNCHANGED shown

Does(who) ==
    \E op \in Operation : op.who = who /\ Joins(op) /\ (Changes(op) \/ Clears(op) \/ Creates(op))

Rests == UNCHANGED <<memory, writes, owing, shown>> /\ pc' \in {"idle", "turn"} /\ turn' \in Turn

\* The user calls, the agent calls and awaits, or the agent goes on without a call.
Calls ==
    /\ MayCall
    /\ \/ Does("user") /\ UNCHANGED agent
       \/ Does("agent") /\ pc # "await" /\ pc' = "await" /\ turn' \in Turn /\ turn'.after # None
       \/ Rests /\ pc # "await"
    /\ UNCHANGED storeRest

Caller == {"user", "agent"}

\* The goal that an operation reads is one that exists and was not completed.
LEMMA CurrentGoal ==
    ASSUME TypeOK, Held, readState.status # None
    PROVE  /\ current \in Goals /\ current # None /\ readState = objects[current]
           /\ objects[current] \in Goal /\ readState.status # "complete"
  BY ValuesAssumption DEF TypeOK, Held, readState

\* An operation on the current goal is an operation on a goal.
LEMMA OperationOf ==
    ASSUME NEW who \in Caller, current \in Goals,
           NEW kind \in {"status", "create", "budget", "count", "usage", "clear", "replace"}
    PROVE  /\ Op(who, kind, current) \in Operation
           /\ Op(who, kind, current).who = who /\ Op(who, kind, current).kind = kind
           /\ Op(who, kind, current).goal = current
  BY DEF Op, Operation, Caller

\* A change that is stored.
LEMMA StoreDoes ==
    ASSUME TypeOK, Held, current # None, NEW who \in Caller, NEW state \in Goal,
           NEW kind \in {"status", "budget", "count", "usage"},
           state.status # "complete",
           kind = "usage" => state = objects[current],
           objects[current].turnBudget # None /\ state.turns > objects[current].turns =>
                state.turns <= objects[current].turnBudget,
           Store(who, kind, state), UNCHANGED <<owing, shown>>
    PROVE  Does(who)
<1> DEFINE op == Op(who, kind, current)
<1>1. current \in Goals
  BY DEF TypeOK
<1>2. op \in Operation /\ op.who = who /\ op.kind = kind /\ op.goal = current
  BY <1>1, OperationOf
<1> HIDE DEF op
<1>3. /\ objects' = [objects EXCEPT ![current] = state] /\ current' = current
      /\ writes' = Append(writes, [text |-> textOf(objects', current), op |-> op])
  BY DEF Store, Enqueue, op
<1>4. Joins(op)
  BY <1>3 DEF Joins
<1>5. Changes(op)
  BY <1>2, <1>3 DEF Changes
<1> QED BY <1>2, <1>4, <1>5 DEF Does

\* A change of status (applyStatus) is a stored change.
LEMMA StatusDoes ==
    ASSUME TypeOK, Held, NEW who \in Caller, NEW status \in Status,
           readState.status # None,
           Store(who, "status", applyStatus(readState, status)), UNCHANGED <<owing, shown>>
    PROVE  Does(who)
<1>1. /\ current \in Goals /\ current # None /\ readState = objects[current]
      /\ objects[current] \in Goal
  BY CurrentGoal
<1> DEFINE state == applyStatus(readState, status)
<1>2. /\ state \in Goal /\ state.status = status /\ state.turns = objects[current].turns
      /\ state.turns \in 0 .. MaxCount
  BY <1>1 DEF applyStatus, Goal
<1>3. state.status # "complete" /\ ~ (state.turns > objects[current].turns)
  BY <1>2, BoundsAssumption DEF Status
<1> HIDE DEF state
<1> QED BY <1>1, <1>2, <1>3, StoreDoes DEF state

\* Clearing or replacing a goal forgets it; its end is told behind the write.
LEMMA ClearDoes ==
    ASSUME TypeOK, current # None, NEW who \in Caller, NEW kind \in {"clear", "replace"},
           kind = "replace" => MayCreate,
           Clear(who, kind), UNCHANGED <<owing, shown>>
    PROVE  Does(who)
<1> DEFINE op == Op(who, kind, current)
<1>1. op \in Operation /\ op.who = who /\ op.kind = kind /\ op.goal = current
  BY OperationOf DEF TypeOK
<1> HIDE DEF op
<1>2. /\ current' = None /\ UNCHANGED objects
      /\ writes' = Append(writes, [text |-> textOf(objects, None), op |-> op])
  BY DEF Clear, Enqueue, op
<1>3. Joins(op) /\ Clears(op)
  BY <1>1, <1>2 DEF Joins, Clears, textOf
<1> QED BY <1>1, <1>3 DEF Does

\* createGoal starts a goal with a new id, or first clears the one there is.
LEMMA createGoalDoes ==
    ASSUME TypeOK, IdsLeft, NEW who \in Caller, createGoal(who)
    PROVE  Does(who)
<1>1. CASE current # None
  BY <1>1, ClearDoes DEF createGoal
<1>2. CASE current = None
  <2> DEFINE g == CHOOSE h \in Fresh : TRUE
             op == Op(who, "create", g)
  <2>1. MayCreate /\ StoreNew(who, objects, writes) /\ owing' = owing \cup {current'}
        /\ UNCHANGED shown
    BY <1>2 DEF createGoal
  <2>2. Fresh # {}
    <3>1. Replacing(writes) = {} \/ Cardinality(Replacing(writes)) \in Nat
      BY ReplacingFinite DEF TypeOK, Entry
    <3>2. Cardinality(Replacing(writes)) \in Nat
      BY <3>1, FS_EmptySet
    <3> QED BY <2>1, <3>2, FS_EmptySet DEF MayCreate
  <2>3. g \in Fresh /\ g \in Goals /\ objects[g] = None
    BY <2>2 DEF Fresh
  <2>4. /\ objects' = [objects EXCEPT ![g] = NewGoal] /\ current' = g
        /\ writes' = Append(writes, [text |-> [id |-> g, goal |-> NewGoal], op |-> op])
    BY <2>1 DEF StoreNew
  <2> HIDE DEF g
  <2>5. op \in Operation /\ op.who = who /\ op.kind = "create" /\ op.goal = g
    BY <2>3 DEF Op, Operation, Caller
  <2> HIDE DEF op
  <2>6. textOf(objects', current') = [id |-> g, goal |-> NewGoal]
    BY <2>3, <2>4, ValuesAssumption DEF textOf, TypeOK
  <2>7. Joins(op) /\ Creates(op)
    BY <1>2, <2>1, <2>3, <2>4, <2>5, <2>6 DEF Joins, Creates
  <2> QED BY <2>5, <2>7 DEF Does
<1> QED BY <1>1, <1>2

\* markComplete shows the success and forgets the goal.
LEMMA markCompleteDoes ==
    ASSUME TypeOK, Held, NEW who \in Caller, markComplete(who)
    PROVE  Does(who)
<1> DEFINE op == Op(who, "clear", current)
<1>1. /\ current \in Goals /\ current # None /\ readState = objects[current]
      /\ objects[current] \in Goal
  BY CurrentGoal, ValuesAssumption DEF markComplete, Status
<1>2. op \in Operation /\ op.who = who /\ op.kind = "clear" /\ op.goal = current
  BY <1>1, OperationOf
<1> HIDE DEF op
<1>3. /\ objects' = [objects EXCEPT ![current] = [@ EXCEPT !.status = "complete"]]
      /\ current' = None
      /\ writes' = Append(writes, [text |-> textOf(objects', None), op |-> op])
      /\ shown' = [id |-> current, status |-> "complete"] /\ UNCHANGED owing
  BY <1>1 DEF markComplete, Enqueue, applyStatus, op
<1>4. Joins(op) /\ Clears(op)
  BY <1>1, <1>2, <1>3 DEF Joins, Clears, textOf
<1> QED BY <1>2, <1>4 DEF Does

\* recordTokenUsage writes the goal as it is.
LEMMA UsageDoes ==
    ASSUME TypeOK, Held, NEW who \in Caller, recordTokenUsage(who)
    PROVE  Does(who)
<1>1. /\ current # None /\ readState = objects[current] /\ objects[current] \in Goal
      /\ objects[current].status # "complete" /\ objects[current].turns \in 0 .. MaxCount
  BY CurrentGoal, ValuesAssumption DEF recordTokenUsage, Status, Goal
<1>2. ~ (objects[current].turns > objects[current].turns)
  BY <1>1, BoundsAssumption
<1> QED BY <1>1, <1>2, StoreDoes DEF recordTokenUsage

\* setBudgetLimits writes the goal with another budget and the turns it had.
LEMMA BudgetDoes ==
    ASSUME TypeOK, Held, NEW who \in Caller, NEW b \in Budgets, setBudgetLimits(who, b)
    PROVE  Does(who)
<1>1. /\ current # None /\ readState = objects[current] /\ objects[current] \in Goal
      /\ objects[current].status # "complete"
  BY DEF setBudgetLimits, Held, readState, TypeOK
<1> DEFINE state == [readState EXCEPT !.turnBudget = b]
<1>2. /\ state \in Goal /\ state.status # "complete"
      /\ state.turns = objects[current].turns /\ state.turns \in 0 .. MaxCount
  BY <1>1 DEF Goal, Limit
<1>3. ~ (state.turns > objects[current].turns)
  BY <1>2, BoundsAssumption
<1> HIDE DEF state
<1> QED BY <1>1, <1>2, <1>3, StoreDoes DEF setBudgetLimits, state

\* A turn is counted where the budget is not reached.
LEMMA incrementTurnDoes ==
    ASSUME TypeOK, Held, NEW who \in Caller, incrementTurn(who), ~ computeBudgetReport(readState)
    PROVE  Does(who)
<1>1. /\ current # None /\ readState = objects[current] /\ objects[current] \in Goal
      /\ objects[current].status # "complete" /\ objects[current].turns \in 0 .. MaxCount
      /\ objects[current].turnBudget \in Limit
  BY CurrentGoal, ValuesAssumption DEF incrementTurn, Status, Goal
<1> DEFINE n == atMost(readState.turns + 1)
           state == [readState EXCEPT !.turns = n]
<1>2. n \in 0 .. MaxCount /\ n <= objects[current].turns + 1
  BY <1>1, BoundsAssumption DEF atMost
<1>3. /\ state \in Goal /\ state.status # "complete" /\ state.turns = n
  BY <1>1, <1>2 DEF Goal
<1>4. objects[current].turnBudget # None => n <= objects[current].turnBudget
  <2> SUFFICES ASSUME objects[current].turnBudget # None
               PROVE  n <= objects[current].turnBudget
    OBVIOUS
  <2>1. objects[current].turnBudget \in Nat
    BY <1>1, BoundsAssumption DEF Limit
  <2>2. objects[current].turns < objects[current].turnBudget
    BY <1>1, <2>1 DEF computeBudgetReport
  <2> QED BY <1>1, <1>2, <2>1, <2>2
<1>5. Store(who, "count", state) /\ UNCHANGED <<owing, shown>>
  BY DEF incrementTurn
<1> HIDE DEF state, n
<1> QED BY <1>1, <1>3, <1>4, <1>5, StoreDoes

\* The drive blocks the goal or counts a turn, and awaits the write.
LEMMA driveGoalCalls ==
    ASSUME TypeOK, Held, pc # "await", driveGoal
    PROVE  Does("agent") /\ pc' = "await" /\ turn' \in Turn /\ turn'.after # None
<1>1. "agent" \in Caller
  BY DEF Caller
<1>2. NoTurn \in Turn /\ [NoTurn EXCEPT !.drive = TRUE] \in Turn
  BY DEF NoTurn, Turn
<1>3. \A t \in Turn : \A after \in {"idle", "turn", "ended"} :
          [t EXCEPT !.after = after] \in Turn /\ [t EXCEPT !.after = after].after # None
  BY ValuesAssumption DEF Turn
<1>4. CASE computeBudgetReport(readState)
  <2>1. stopGoal("agent", "blocked") /\ Awaits(NoTurn, "idle")
    BY <1>4 DEF driveGoal
  <2>2. Does("agent")
    BY <1>1, <2>1, StatusDoes, ValuesAssumption DEF stopGoal, Status
  <2> QED BY <1>2, <1>3, <2>1, <2>2 DEF Awaits
<1>5. CASE ~ computeBudgetReport(readState)
  <2>1. incrementTurn("agent") /\ Awaits([NoTurn EXCEPT !.drive = TRUE], "turn")
    BY <1>5 DEF driveGoal
  <2>2. Does("agent")
    BY <1>1, <1>5, <2>1, incrementTurnDoes
  <2> QED BY <1>2, <1>3, <2>1, <2>2 DEF Awaits
<1> QED BY <1>4, <1>5

\* The user's commands and the steps of the turn are such calls, and no others.
LEMMA CallShape ==
    ASSUME IInv, UserCall \/ turnWorker \/ InTurn \/ EndTurn
    PROVE  Calls
<1> USE DEF IInv
<1>1. "agent" \in Caller /\ "user" \in Caller
  BY DEF Caller
<1>2. NoTurn \in Turn /\ turn \in Turn
  BY DEF NoTurn, Turn, TypeOK
<1>3. \A t \in Turn : \A after \in {"idle", "turn", "ended"} :
          [t EXCEPT !.after = after] \in Turn /\ [t EXCEPT !.after = after].after # None
  BY ValuesAssumption DEF Turn
<1>4. ASSUME NEW who \in Caller,
             \/ resumeGoal(who)
             \/ \E s \in {"paused", "blocked"} : stopGoal(who, s)
      PROVE  Does(who)
  BY <1>4, StatusDoes, ValuesAssumption DEF resumeGoal, stopGoal, Status
<1>5. CASE UserCall
  <2>1. Does("user")
    BY <1>1, <1>4, <1>5, createGoalDoes, ClearDoes DEF UserCall, cancelGoal
  <2> QED BY <1>5, <2>1 DEF UserCall, Calls
<1>6. CASE turnWorker
  <2>1. MayCall /\ pc = "idle" /\ UNCHANGED storeRest
    BY <1>6 DEF turnWorker
  <2>2. CASE readState.status = "active"
    BY <1>6, <2>1, <2>2, driveGoalCalls DEF turnWorker, Calls
  <2>3. CASE readState.status # "active"
    <3>1. Rests
      <4>1. \A b \in BOOLEAN : [NoTurn EXCEPT !.resumable = b] \in Turn
        BY DEF NoTurn, Turn
      <4>2. (readState.status \in {"paused", "blocked"}) \in BOOLEAN
        OBVIOUS
      <4>3. turn' = [NoTurn EXCEPT !.resumable = readState.status \in {"paused", "blocked"}]
        BY <1>6, <2>3 DEF turnWorker
      <4>4. turn' \in Turn
        BY <4>1, <4>2, <4>3, Zenon
      <4> QED BY <1>6, <2>3, <4>4 DEF turnWorker, Rests
    <3> QED BY <2>1, <3>1 DEF Calls
  <2> QED BY <2>2, <2>3
<1>7. CASE InTurn
  <2>1. MayCall /\ pc = "turn" /\ UNCHANGED storeRest
    BY <1>7 DEF InTurn
  <2>2. \E after \in {"turn", "ended"} : Awaits(turn, after)
    BY <1>7 DEF InTurn
  <2>3. Does("agent")
    BY <1>1, <1>4, <1>7, createGoalDoes, UsageDoes, BudgetDoes, markCompleteDoes DEF InTurn
  <2> QED BY <1>2, <1>3, <2>1, <2>2, <2>3 DEF Awaits, Calls
<1>8. CASE EndTurn
  <2>1. MayCall /\ pc \in {"turn", "ended"} /\ UNCHANGED storeRest
    BY <1>8 DEF EndTurn
  <2>2. Idles \/ driveGoal
        \/ \E s \in {"paused", "blocked"} : stopGoal("agent", s) /\ Awaits(NoTurn, "idle")
    BY <1>8 DEF EndTurn, EndDriven, EndOrdinary
  <2>3. CASE Idles
    BY <1>2, <2>1, <2>3 DEF Idles, Rests, Calls
  <2>4. CASE driveGoal
    BY <2>1, <2>4, driveGoalCalls DEF Calls
  <2>5. CASE \E s \in {"paused", "blocked"} : stopGoal("agent", s) /\ Awaits(NoTurn, "idle")
    BY <1>1, <1>2, <1>3, <1>4, <2>1, <2>5 DEF Awaits, Calls
  <2> QED BY <2>2, <2>3, <2>4, <2>5
<1> QED BY <1>5, <1>6, <1>7, <1>8

-----------------------------------------------------------------------------
\* An operation that joins the chain keeps the invariant.

Acts(op) ==
    /\ op \in Operation /\ phase = "live" /\ Len(writes) < MaxWrites
    /\ Joins(op) /\ (Changes(op) \/ Clears(op) \/ Creates(op))
    /\ UNCHANGED storeRest

\* Whatever an operation does, goals stay goals and what exists goes on to exist.
LEMMA ActsOnGoals ==
    ASSUME IInv, NEW op, Acts(op)
    PROVE  /\ objects' \in [Goals -> Goal \cup {None}] /\ current' \in Goals \cup {None}
           /\ current' # None => objects'[current'] # None /\ objects'[current'].status # "complete"
           /\ \A g \in Goals : objects[g] # None => objects'[g] # None
           /\ op.kind # "nothing" /\ op.goal \in Goals /\ objects'[op.goal] # None
           /\ shown' \in Word /\ owing' \subseteq Goals
<1> USE DEF IInv
<1>1. objects \in [Goals -> Goal \cup {None}] /\ current \in Goals \cup {None}
      /\ shown \in Word /\ owing \subseteq Goals
  BY DEF TypeOK
<1>2. CASE Changes(op)
  <2>1. PICK state \in Goal : /\ objects' = [objects EXCEPT ![current] = state]
                              /\ state.status # "complete"
    BY <1>2 DEF Changes
  <2>2. /\ current \in Goals /\ current' = current /\ op.goal = current /\ state # None
        /\ op.kind # "nothing" /\ UNCHANGED <<owing, shown>>
    BY <1>1, <1>2, ValuesAssumption DEF Changes
  <2> QED BY <1>1, <2>1, <2>2, ValuesAssumption
<1>3. CASE Clears(op)
  <2>1. /\ current \in Goals /\ current' = None /\ op.goal = current /\ op.kind # "nothing"
        /\ objects[current] \in Goal /\ UNCHANGED owing
    BY <1>1, <1>3 DEF Clears, Held
  <2>2. CASE UNCHANGED <<objects, shown>>
    BY <1>1, <2>1, <2>2, ValuesAssumption
  <2>3. CASE /\ objects' = [objects EXCEPT ![current] = [@ EXCEPT !.status = "complete"]]
             /\ shown' = [id |-> current, status |-> "complete"]
    <3>1. [objects[current] EXCEPT !.status = "complete"] \in Goal
      BY <2>1 DEF Goal
    <3>2. shown' \in Word
      BY <2>1, <2>3 DEF Word
    <3> QED BY <1>1, <2>1, <2>3, <3>1, <3>2, ValuesAssumption
  <2> QED BY <1>3, <2>2, <2>3 DEF Clears
<1>4. CASE Creates(op)
  <2>1. PICK g \in Fresh : objects' = [objects EXCEPT ![g] = NewGoal] /\ current' = g /\ op.goal = g
    BY <1>4 DEF Creates
  <2>2. g \in Goals
    BY <2>1 DEF Fresh
  <2>3. NewGoal \in Goal /\ NewGoal.status = "active" /\ NewGoal # None
    <3>1. NewGoal \in Goal
      BY BoundsAssumption DEF NewGoal, Goal, Status, Limit
    <3> QED BY <3>1, ValuesAssumption DEF NewGoal
  <2>4. owing' \subseteq Goals /\ shown' = shown /\ op.kind # "nothing"
    BY <1>1, <1>4, <2>1, <2>2 DEF Creates
  <2> QED BY <1>1, <2>1, <2>2, <2>3, <2>4, ValuesAssumption
<1> QED BY <1>2, <1>3, <1>4 DEF Acts

\* The chain after it.
LEMMA ActsOnChain ==
    ASSUME IInv, NEW op, Acts(op)
    PROVE  /\ writes \in Seq(Entry) /\ writes' \in Seq(Entry) /\ writes' # <<>>
           /\ Len(writes) \in Nat /\ Len(writes') = Len(writes) + 1 /\ Len(writes') <= MaxWrites
           /\ \A i \in 1 .. Len(writes) : writes'[i] = writes[i] /\ writes[i] \in Entry
           /\ writes'[Len(writes) + 1].text = textOf(objects', current')
           /\ writes'[Len(writes) + 1].op = op
           /\ \E e \in Entry : e.op = op /\ writes' = Append(writes, e)
<1> DEFINE e == [text |-> textOf(objects', current'), op |-> op]
<1>1. writes' = Append(writes, e) /\ writes \in Seq(Entry) /\ Len(writes) < MaxWrites
      /\ op \in Operation
  BY DEF Acts, Joins, IInv, TypeOK, Entry
<1>2. textOf(objects', current') \in Text
  <2>1. /\ objects' \in [Goals -> Goal \cup {None}] /\ current' \in Goals \cup {None}
        /\ current' # None => objects'[current'] # None /\ objects'[current'].status # "complete"
    BY ActsOnGoals
  <2> QED BY <2>1 DEF textOf, Text
<1>3. e \in Entry /\ e.op = op /\ e.text = textOf(objects', current')
  BY <1>1, <1>2 DEF Entry
<1> HIDE DEF e
<1>4. /\ writes' \in Seq(Entry) /\ writes' # <<>>
      /\ Len(writes) \in Nat /\ Len(writes') = Len(writes) + 1
      /\ \A i \in 1 .. Len(writes) : writes'[i] = writes[i] /\ writes[i] \in Entry
      /\ writes'[Len(writes) + 1] = e
  BY <1>1, <1>3, Joined
<1> QED BY <1>1, <1>3, <1>4, BoundsAssumption

\* After an operation, the chain's last text is the goal in memory.
LEMMA ActsKeepMemory ==
    ASSUME IInv, NEW op, Acts(op)
    PROVE  Held' /\ ChainShape' /\ LastIsMemory' /\ DiskFollowsMemory' /\ OnlyFromDisk'
<1>1. phase' = "live" /\ writes' # <<>>
  BY ActsOnChain DEF Acts, storeRest
<1>2. ChainShape' /\ DiskFollowsMemory' /\ OnlyFromDisk'
  BY <1>1 DEF ChainShape, DiskFollowsMemory, Quiet, OnlyFromDisk
<1>3. LastIsMemory'
  BY ActsOnChain DEF LastIsMemory
<1>4. Held'
  <2>1. ASSUME NEW i \in 1 .. Len(writes'), writes'[i].op.kind # "nothing"
        PROVE  writes'[i].op.goal # None /\ objects'[writes'[i].op.goal] # None
    <3>1. CASE i \in 1 .. Len(writes)
      <4>1. writes'[i] = writes[i] /\ writes[i] \in Entry
        BY <3>1, ActsOnChain
      <4>2. writes[i].op.goal # None /\ objects[writes[i].op.goal] # None
        BY <2>1, <3>1, <4>1 DEF IInv, Held
      <4>3. writes[i].op.goal \in Goals
        BY <4>1, <4>2, EntryFields DEF Operation
      <4> QED BY <4>1, <4>2, <4>3, ActsOnGoals
    <3>2. CASE i = Len(writes) + 1
      <4>1. writes'[i].op = op
        BY <3>2, ActsOnChain
      <4> QED BY <4>1, ActsOnGoals, ValuesAssumption
    <3> QED BY <3>1, <3>2, ActsOnChain
  <2> QED BY <2>1, ActsOnGoals DEF Held
<1> QED BY <1>2, <1>3, <1>4

\* After an operation, the chain's last word for the application is of the goal in memory.
LEMMA ActsKeepShown ==
    ASSUME IInv, NEW op, Acts(op)
    PROVE  LastShowsMemory' /\ ShownIsMemory'
<1> DEFINE n == Len(writes) + 1
<1>1. /\ n \in Nat /\ Len(writes') = n /\ Len(writes) = n - 1 /\ writes'[n].op = op
      /\ \A i \in 1 .. n - 1 : writes'[i] = writes[i]
  BY ActsOnChain
<1> HIDE DEF n
<1>2. Showing(op) \/ Changes(op)
  BY DEF Acts, Clears, Creates, Showing
<1>3. LastShowsMemory'
  <2> SUFFICES ASSUME NEW i \in 1 .. n, Showing(writes'[i].op),
                      \A j \in i + 1 .. n : ~ Showing(writes'[j].op)
               PROVE  IF writes'[i].op.kind \in {"clear", "replace"}
                        THEN current' = None ELSE writes'[i].op.goal = current'
    BY <1>1 DEF LastShowsMemory, LastToShow
  <2>1. CASE i = n
    BY <1>1, <2>1 DEF Acts, Changes, Clears, Creates
  <2>2. CASE i # n
    <3>1. i \in 1 .. n - 1 /\ n \in i + 1 .. n
      BY <1>1, <2>2
    <3>2. ~ Showing(op)
      BY <1>1, <3>1
    <3>3. current' = current
      BY <1>2, <3>2 DEF Changes
    <3>4. LastToShow(i)
      <4>1. \A j \in i + 1 .. n - 1 : j \in i + 1 .. n /\ j \in 1 .. n - 1
        BY <1>1
      <4> QED BY <1>1, <3>1, <4>1 DEF LastToShow
    <3> QED BY <1>1, <3>1, <3>3, <3>4 DEF IInv, LastShowsMemory
  <2> QED BY <2>1, <2>2
<1>4. ShownIsMemory'
  <2> SUFFICES ASSUME \A i \in 1 .. n : ~ Showing(writes'[i].op), ~ missed
               PROVE  shown' = IF current' = None THEN None ELSE wordOf(current)'
    BY <1>1 DEF ShownIsMemory, Acts, storeRest
  <2>1. op.kind = "usage" /\ Changes(op)
    <3>1. n \in 1 .. n
      BY <1>1, ActsOnChain DEF n
    <3> QED BY <1>1, <1>2, <3>1 DEF Showing, Changes
  <2>2. current' = current /\ shown' = shown /\ current # None
        /\ objects' = [objects EXCEPT ![current] = objects[current]]
    BY <2>1 DEF Changes
  <2>3. shown = wordOf(current)
    <3>1. \A i \in 1 .. n - 1 : i \in 1 .. n /\ ~ Showing(writes[i].op)
      BY <1>1
    <3> QED BY <1>1, <2>2, <3>1 DEF IInv, ShownIsMemory
  <2>4. objects'[current] = objects[current]
    BY <2>2 DEF IInv, TypeOK
  <2> QED BY <2>2, <2>3, <2>4 DEF wordOf
<1> QED BY <1>3, <1>4

\* After an operation, every goal that is owed an end is current or has it in the chain.
LEMMA ActsKeepOwed ==
    ASSUME IInv, NEW op, Acts(op)
    PROVE  OwedIsRecorded'
<1> DEFINE n == Len(writes) + 1
           Ends(o) == o.kind \in {"clear", "replace"}
<1>1. /\ n \in Nat /\ Len(writes') = n /\ Len(writes) = n - 1 /\ writes'[n].op = op /\ n \in 1 .. n
      /\ \A i \in 1 .. n - 1 : writes'[i] = writes[i] /\ i \in 1 .. n
  BY ActsOnChain
<1> HIDE DEF n
<1>2. \A g \in owing \ excused : g = current \/ \E i \in 1 .. n - 1 : Ends(writes[i].op) /\ writes[i].op.goal = g
  BY <1>1 DEF IInv, OwedIsRecorded, Acts
<1>3. owing \subseteq Goals /\ excused' = excused
  BY DEF IInv, TypeOK, Acts, storeRest
<1>4. ASSUME \A g \in owing' \ excused : \/ g = current'
                                         \/ g = op.goal /\ Ends(op)
                                         \/ \E i \in 1 .. n - 1 : Ends(writes[i].op) /\ writes[i].op.goal = g
      PROVE  OwedIsRecorded'
  <2>1. \A g \in owing' \ excused : g = current' \/ \E i \in 1 .. n : Ends(writes'[i].op) /\ writes'[i].op.goal = g
    BY <1>1, <1>4
  <2> QED BY <1>1, <1>3, <2>1 DEF OwedIsRecorded
<1>5. CASE Changes(op)
  <2>1. current' = current /\ owing' = owing
    BY <1>5 DEF Changes
  <2> QED BY <1>2, <1>4, <2>1
<1>6. CASE Clears(op)
  <2>1. owing' = owing /\ op.goal = current /\ Ends(op)
    BY <1>6 DEF Clears
  <2> QED BY <1>2, <1>4, <2>1
<1>7. CASE Creates(op)
  <2>1. current = None /\ owing' = owing \cup {current'}
    BY <1>7 DEF Creates
  <2> QED BY <1>2, <1>3, <1>4, <2>1, ValuesAssumption
<1> QED BY <1>5, <1>6, <1>7 DEF Acts

-----------------------------------------------------------------------------
\* The ids that are left.

Apart(word, g) == word \notin {None, Torn} => word.id # g

\* A new id is of no object, and occurs in no text and nothing that is shown.
LEMMA FreshIs ==
    ASSUME TypeOK, NEW g \in Fresh
    PROVE  /\ g \in Goals /\ objects[g] = None /\ g \notin owing
           /\ Apart(disk, g) /\ Apart(shown, g)
           /\ \A i \in 1 .. Len(writes) : Apart(writes[i].text, g)
<1>1. DOMAIN writes = 1 .. Len(writes)
  BY LenProperties DEF TypeOK
<1> QED BY <1>1 DEF Fresh, Apart

\* All ids but one are left if nothing else names them.
LEMMA FreshKept ==
    ASSUME TypeOK, writes' \in Seq(Entry), NEW used,
           \A g \in Fresh \ {used} :
              /\ objects'[g] = None /\ g \notin owing'
              /\ Apart(disk', g) /\ Apart(shown', g)
              /\ \A i \in 1 .. Len(writes') : Apart(writes'[i].text, g)
    PROVE  /\ Cardinality(Fresh) \in Nat /\ Cardinality(Fresh') \in Nat
           /\ Cardinality(Fresh) - 1 <= Cardinality(Fresh')
           /\ used \notin Fresh => Cardinality(Fresh) <= Cardinality(Fresh')
<1>1. IsFiniteSet(Goals)
  BY BoundsAssumption, FS_Interval DEF Goals
<1>2. IsFiniteSet(Fresh) /\ IsFiniteSet(Fresh')
  BY <1>1, FS_Subset DEF Fresh
<1>3. Fresh \ {used} \subseteq Fresh'
  <2>1. DOMAIN writes' = 1 .. Len(writes')
    BY LenProperties
  <2> QED BY <2>1, FreshIs DEF Fresh, Apart
<1> DEFINE R == Fresh \ {used}
           F == Fresh'
<1>4. /\ IsFiniteSet(R)
      /\ Cardinality(R) = IF used \in Fresh THEN Cardinality(Fresh) - 1 ELSE Cardinality(Fresh)
  BY <1>2, FS_RemoveElement
<1>5. IsFiniteSet(F) /\ R \subseteq F /\ Cardinality(F) = Cardinality(Fresh')
  BY <1>2, <1>3
<1> HIDE DEF R, F
<1>6. Cardinality(R) <= Cardinality(F)
  BY <1>5, FS_Subset
<1>7. Cardinality(Fresh) \in Nat /\ Cardinality(F) \in Nat /\ Cardinality(R) \in Nat
  BY <1>2, <1>4, <1>5, FS_CardinalityType
<1> QED BY <1>4, <1>5, <1>6, <1>7

\* After an operation, an id is left for every replacement that waits.
LEMMA ActsKeepIds ==
    ASSUME IInv, NEW op, Acts(op)
    PROVE  IdsLeft'
<1> DEFINE n == Len(writes) + 1
           R == Cardinality(Replacing(writes))
           R1 == Cardinality(Replacing(writes'))
           F == Cardinality(Fresh)
           F1 == Cardinality(Fresh')
<1>1. /\ Len(writes') = n /\ Len(writes) = n - 1 /\ n \in Nat
      /\ writes'[n].text = textOf(objects', current')
      /\ \A i \in 1 .. n - 1 : writes'[i] = writes[i]
      /\ writes' \in Seq(Entry)
  BY ActsOnChain
<1> HIDE DEF n
<1>2. PICK e \in Entry : e.op = op /\ writes' = Append(writes, e)
  BY ActsOnChain
<1>3. op.kind # "replace" => Replacing(writes') = Replacing(writes)
  BY <1>2, ActsOnChain, ReplacingJoined
<1>4. R1 <= R + 1 /\ R \in Nat /\ R1 \in Nat /\ (op.kind # "replace" => R1 = R)
  <2>1. Cardinality(Replacing(Append(writes, e))) <= Cardinality(Replacing(writes)) + 1
    BY ActsOnChain, ReplacingJoined
  <2> QED BY <1>1, <1>2, <1>3, <2>1, ActsOnChain, ReplacingFinite
<1>5. R <= F
  BY DEF IInv, IdsLeft
<1>6. ASSUME NEW used,
             \A g \in Fresh \ {used} :
                /\ objects'[g] = None /\ g \notin owing' /\ Apart(shown', g)
                /\ current' # g
      PROVE  F \in Nat /\ F1 \in Nat /\ F - 1 <= F1 /\ (used \notin Fresh => F <= F1)
  <2>1. \A g \in Fresh : /\ Apart(disk', g) /\ \A i \in 1 .. n - 1 : Apart(writes'[i].text, g)
    BY <1>1, FreshIs DEF Acts, storeRest, IInv
  <2>2. \A g \in Fresh \ {used} : Apart(writes'[n].text, g)
    BY <1>1, <1>6 DEF textOf, Apart
  <2>3. \A i \in 1 .. n : i = n \/ i \in 1 .. n - 1
    BY <1>1
  <2> QED BY <1>1, <1>6, <2>1, <2>2, <2>3, FreshKept DEF IInv
<1>7. \A g \in Fresh : objects[g] = None /\ g \notin owing /\ Apart(shown, g) /\ g \in Goals
  BY FreshIs DEF IInv
<1>8. CASE Changes(op)
  <2>1. \A g \in Fresh : /\ objects'[g] = None /\ g \notin owing' /\ Apart(shown', g) /\ current' # g
    BY <1>7, <1>8 DEF Changes, IInv, Held, TypeOK
  <2>2. op.kind # "replace" /\ None \notin Fresh
    BY <1>7, <1>8, ValuesAssumption DEF Changes
  <2> QED BY <1>4, <1>5, <1>6, <2>1, <2>2 DEF IdsLeft
<1>9. CASE Clears(op)
  <2>1. \A g \in Fresh : /\ objects'[g] = None /\ g \notin owing' /\ Apart(shown', g) /\ current' # g
    BY <1>7, <1>9, ValuesAssumption DEF Clears, IInv, Held, TypeOK, Apart
  <2>2. None \notin Fresh
    BY <1>7, ValuesAssumption
  <2>3. F \in Nat /\ F1 \in Nat /\ F <= F1
    BY <1>6, <2>1, <2>2
  <2>4. op.kind = "replace" => R < F
    BY <1>4, <1>9, <2>3 DEF Clears, MayCreate
  <2> QED BY <1>4, <1>5, <2>3, <2>4 DEF IdsLeft
<1>10. CASE Creates(op)
  <2>1. PICK g \in Fresh : objects' = [objects EXCEPT ![g] = NewGoal] /\ current' = g
    BY <1>10 DEF Creates
  <2>2. \A h \in Fresh \ {g} :
            /\ objects'[h] = None /\ h \notin owing' /\ Apart(shown', h) /\ current' # h
    BY <1>7, <1>10, <2>1 DEF Creates, IInv, TypeOK
  <2>3. F \in Nat /\ F1 \in Nat /\ F - 1 <= F1
    BY <1>6, <2>2
  <2>4. op.kind # "replace" /\ R < F
    BY <1>4, <1>10, <2>3 DEF Creates, MayCreate
  <2> QED BY <1>4, <2>3, <2>4 DEF IdsLeft
<1> QED BY <1>8, <1>9, <1>10 DEF Acts

\* Calls of the store keep the inductive invariant.
LEMMA CallsKeep == IInv /\ Calls => IInv'
<1> SUFFICES ASSUME IInv, Calls PROVE IInv'
  OBVIOUS
<1>1. ASSUME NEW op \in Operation, Joins(op), Changes(op) \/ Clears(op) \/ Creates(op)
      PROVE  Acts(op)
  BY <1>1, BoundsAssumption DEF Calls, MayCall, Acts, IInv, TypeOK
<1>2. ASSUME NEW op, Acts(op), pc' \in {"idle", "turn", "ended", "await"}, turn' \in Turn,
             AgentAwaitsOne'
      PROVE  IInv'
  <2>1. TypeOK'
    BY <1>2, ActsOnGoals, ActsOnChain DEF Acts, storeRest, IInv, TypeOK, Entry
  <2> QED BY <1>2, <2>1, ActsKeepMemory, ActsKeepShown, ActsKeepOwed, ActsKeepIds DEF IInv
<1>3. CASE Does("user") /\ UNCHANGED agent
  <2>1. PICK op : Acts(op) /\ op.who = "user"
    BY <1>1, <1>3 DEF Does
  <2>2. AgentAwaitsOne'
    <3> DEFINE n == Len(writes) + 1
    <3>1. /\ Len(writes') = n /\ Len(writes) = n - 1 /\ n \in Nat /\ writes'[n].op = op
          /\ \A i \in 1 .. n - 1 : writes'[i] = writes[i]
      BY <2>1, ActsOnChain
    <3> HIDE DEF n
    <3>2. \A i \in 1 .. n : i = n \/ i \in 1 .. n - 1
      BY <3>1
    <3> QED BY <1>3, <2>1, <3>1, <3>2 DEF agent, IInv, AgentAwaitsOne
  <2> QED BY <1>2, <1>3, <2>1, <2>2 DEF agent, IInv, TypeOK
<1>4. CASE Does("agent") /\ pc # "await" /\ pc' = "await" /\ turn' \in Turn /\ turn'.after # None
  <2>1. PICK op : Acts(op) /\ op.who = "agent"
    BY <1>1, <1>4 DEF Does
  <2>2. AgentAwaitsOne'
    <3> DEFINE n == Len(writes) + 1
    <3>1. /\ Len(writes') = n /\ Len(writes) = n - 1 /\ n \in Nat /\ writes'[n].op = op
          /\ \A i \in 1 .. n - 1 : writes'[i] = writes[i]
      BY <2>1, ActsOnChain
    <3> HIDE DEF n
    <3>2. \A i \in 1 .. n : i = n \/ i \in 1 .. n - 1
      BY <3>1
    <3>3. \A i \in 1 .. n - 1 : writes'[i].op.who # "agent"
      BY <1>4, <3>1 DEF IInv, AgentAwaitsOne
    <3> QED BY <1>4, <3>1, <3>2, <3>3 DEF AgentAwaitsOne
  <2> QED BY <1>2, <1>4, <2>1, <2>2
<1>5. CASE Rests /\ pc # "await"
  <2>1. /\ UNCHANGED <<memory, writes, owing, shown, storeRest>> /\ pc' \in {"idle", "turn"}
        /\ turn' \in Turn
    BY <1>5 DEF Calls, Rests
  <2>2. TypeOK' /\ Held' /\ ChainShape' /\ LastIsMemory' /\ DiskFollowsMemory'
    BY <2>1 DEF memory, storeRest, IInv, TypeOK, Held, ChainShape, LastIsMemory,
                DiskFollowsMemory, Quiet, textOf
  <2>3. LastShowsMemory' /\ ShownIsMemory' /\ OwedIsRecorded' /\ OnlyFromDisk'
    BY <2>1 DEF memory, storeRest, IInv, LastShowsMemory, LastToShow, Showing, ShownIsMemory, wordOf,
                OwedIsRecorded, OnlyFromDisk
  <2>4. AgentAwaitsOne' /\ IdsLeft'
    BY <1>5, <2>1 DEF memory, storeRest, IInv, AgentAwaitsOne, IdsLeft, Fresh
  <2> QED BY <2>2, <2>3, <2>4 DEF IInv
<1> QED BY <1>3, <1>4, <1>5 DEF Calls

-----------------------------------------------------------------------------
\* The end of a write.

\* The chain without its first entry.
LEMMA ChainRest ==
    ASSUME IInv, writes # <<>>
    PROVE  /\ Tail(writes) \in Seq(Entry) /\ writes \in Seq(Entry)
           /\ Len(writes) \in Nat \ {0} /\ Len(Tail(writes)) = Len(writes) - 1
           /\ \A i \in 1 .. Len(writes) - 1 : Tail(writes)[i] = writes[i + 1] /\ i + 1 \in 1 .. Len(writes)
           /\ \A i \in 1 .. Len(writes) : writes[i] \in Entry /\ (i = 1 \/ i - 1 \in 1 .. Len(writes) - 1)
           /\ Head(writes) = writes[1] /\ 1 \in 1 .. Len(writes)
           /\ writes[1].text \in Text /\ writes[1].op \in Operation
<1>1. writes \in Seq(Entry)
  BY DEF IInv, TypeOK, Entry
<1>2. /\ Tail(writes) \in Seq(Entry)
      /\ Len(writes) \in Nat \ {0} /\ Len(Tail(writes)) = Len(writes) - 1
      /\ \A i \in 1 .. Len(writes) - 1 : Tail(writes)[i] = writes[i + 1]
      /\ \A i \in 1 .. Len(writes) : writes[i] \in Entry
      /\ Head(writes) = writes[1]
  BY <1>1, Shortened
<1>3. 1 \in 1 .. Len(writes) /\ writes[1] \in Entry
  BY <1>2
<1> QED BY <1>1, <1>2, <1>3, EntryFields

\* What is forgotten is neither the goal nor held by an operation that waits.
LEMMA Forgotten ==
    ASSUME IInv, writes # <<>>
    PROVE  LET objs == Forget(objects, current, Tail(writes))
           IN  /\ objs \in [Goals -> Goal \cup {None}]
               /\ \A g \in Goals : objs[g] \in {objects[g], None}
               /\ current # None => objs[current] = objects[current]
               /\ \A i \in 1 .. Len(writes) - 1 :
                     Tail(writes)[i].op.goal \in Goals =>
                         objs[Tail(writes)[i].op.goal] = objects[Tail(writes)[i].op.goal]
<1> DEFINE t == Tail(writes)
           objs == Forget(objects, current, t)
<1>1. objects \in [Goals -> Goal \cup {None}] /\ current \in Goals \cup {None}
  BY DEF IInv, TypeOK
<1>2. t \in Seq(Entry) /\ DOMAIN t = 1 .. Len(writes) - 1
  BY ChainRest, LenProperties
<1> HIDE DEF t
<1>3. objs = [h \in Goals |-> IF h = current \/ \E i \in DOMAIN t : t[i].op.goal = h
                                THEN objects[h] ELSE None]
  BY <1>1 DEF Forget
<1> HIDE DEF objs
<1>4. \A g \in Goals : objs[g] \in {objects[g], None}
  BY <1>3
<1>5. objs \in [Goals -> Goal \cup {None}]
  BY <1>1, <1>3
<1>6. current # None => objs[current] = objects[current]
  BY <1>1, <1>3
<1>7. \A i \in 1 .. Len(writes) - 1 : t[i].op.goal \in Goals => objs[t[i].op.goal] = objects[t[i].op.goal]
  BY <1>2, <1>3
<1> QED BY <1>4, <1>5, <1>6, <1>7 DEF objs, t

\* The head leaves the chain, and the objects that nobody holds are forgotten.
Leaves ==
    /\ writes # <<>> /\ writes' = Tail(writes)
    /\ objects' = Forget(objects, current, Tail(writes)) /\ current' = current
    /\ owing' \subseteq owing
    /\ owing' \ excused' \subseteq (owing \ excused) \ Recorded(writes[1].op)

\* When the first write is over, the rest of the chain tells of the goal what it told.
LEMMA LeavesKeeps ==
    ASSUME IInv, Leaves
    PROVE  /\ Held' /\ LastIsMemory' /\ LastShowsMemory'
           /\ OwedIsRecorded'
<1> DEFINE n == Len(writes)
<1>1. /\ writes' \in Seq(Entry) /\ n \in Nat \ {0} /\ Len(writes') = n - 1
      /\ \A i \in 1 .. n - 1 : writes'[i] = writes[i + 1] /\ i + 1 \in 1 .. n
      /\ \A i \in 1 .. n : writes[i] \in Entry /\ (i = 1 \/ i - 1 \in 1 .. n - 1)
  BY ChainRest DEF Leaves
<1> HIDE DEF n
<1>2. /\ \A g \in Goals : objects'[g] \in {objects[g], None}
      /\ current # None => objects'[current] = objects[current]
      /\ \A i \in 1 .. n - 1 : writes'[i].op.goal \in Goals =>
            objects'[writes'[i].op.goal] = objects[writes'[i].op.goal]
      /\ current' = current
  BY Forgotten DEF Leaves, n
<1>3. Held'
  <2>1. ASSUME NEW i \in 1 .. n - 1, writes'[i].op.kind # "nothing"
        PROVE  writes'[i].op.goal # None /\ objects'[writes'[i].op.goal] # None
    <3>1. writes'[i] = writes[i + 1] /\ i + 1 \in 1 .. n /\ writes[i + 1] \in Entry
      BY <1>1
    <3>2. writes'[i].op.goal # None /\ objects[writes'[i].op.goal] # None
      BY <2>1, <3>1 DEF IInv, Held, n
    <3>3. writes'[i].op.goal \in Goals
      BY <3>1, <3>2, EntryFields DEF Operation
    <3> QED BY <1>2, <3>2, <3>3
  <2> QED BY <1>1, <1>2, <2>1 DEF IInv, Held
<1>4. LastIsMemory'
  <2> SUFFICES ASSUME writes' # <<>> PROVE writes'[n - 1].text = textOf(objects', current)
    BY <1>1, <1>2 DEF LastIsMemory
  <2>1. n - 1 \in 1 .. n - 1
    BY <1>1, EmptySeq
  <2>2. writes'[n - 1] = writes[n]
    BY <1>1, <2>1
  <2> QED BY <1>2, <2>2 DEF IInv, LastIsMemory, Leaves, textOf, n
<1>5. LastShowsMemory'
  <2> SUFFICES ASSUME NEW i \in 1 .. n - 1, LastToShow(i)'
               PROVE  IF writes'[i].op.kind \in {"clear", "replace"}
                        THEN current = None ELSE writes'[i].op.goal = current
    BY <1>1, <1>2 DEF LastShowsMemory
  <2>1. writes'[i] = writes[i + 1] /\ i + 1 \in 1 .. n
    BY <1>1
  <2>2. LastToShow(i + 1)
    <3>1. ASSUME NEW j \in (i + 1) + 1 .. n
          PROVE  ~ Showing(writes[j].op)
      <4>1. j - 1 \in i + 1 .. n - 1 /\ j - 1 \in 1 .. n - 1 /\ (j - 1) + 1 = j
        BY <1>1
      <4>2. writes'[j - 1] = writes[j]
        BY <1>1, <4>1
      <4> QED BY <1>1, <4>1, <4>2 DEF LastToShow
    <3>2. Showing(writes[i + 1].op)
      BY <2>1 DEF LastToShow
    <3> QED BY <3>1, <3>2 DEF LastToShow, n
  <2> QED BY <2>1, <2>2 DEF IInv, LastShowsMemory, n
<1>6. /\ owing' \ excused' \subseteq (owing \ excused) \ Recorded(writes[1].op)
      /\ phase \in {"live", "resuming"}
  BY DEF Leaves, IInv, ChainShape, TypeOK
<1>7. OwedIsRecorded'
  <2>1. ASSUME NEW g \in owing' \ excused', g # current
        PROVE  \E i \in 1 .. n - 1 : writes'[i].op.kind \in {"clear", "replace"} /\ writes'[i].op.goal = g
    <3>1. PICK i \in 1 .. n : writes[i].op.kind \in {"clear", "replace"} /\ writes[i].op.goal = g
      BY <1>6, <2>1 DEF IInv, OwedIsRecorded, n
    <3>2. i # 1
      BY <1>6, <2>1, <3>1 DEF Recorded
    <3>3. i - 1 \in 1 .. n - 1 /\ (i - 1) + 1 = i
      BY <1>1, <3>2
    <3>4. writes'[i - 1] = writes[i]
      BY <1>1, <3>3
    <3> QED BY <3>1, <3>3, <3>4
  <2> QED BY <1>1, <1>2, <2>1 DEF OwedIsRecorded
<1> QED BY <1>3, <1>4, <1>5, <1>7

\* Ids are left when the file and what is shown name only goals that were named.
LEMMA LeavesKeepsIds ==
    ASSUME IInv, Leaves,
           \A g \in Fresh : Apart(disk', g) /\ Apart(shown', g)
    PROVE  IdsLeft'
<1>1. \A g \in Fresh :
          /\ objects'[g] = None /\ g \notin owing'
          /\ \A i \in 1 .. Len(writes') : Apart(writes'[i].text, g)
  <2> SUFFICES ASSUME NEW g \in Fresh
               PROVE  /\ objects'[g] = None /\ g \notin owing'
                      /\ \A i \in 1 .. Len(writes') : Apart(writes'[i].text, g)
    OBVIOUS
  <2>1. /\ g \in Goals /\ objects[g] = None /\ g \notin owing
        /\ \A i \in 1 .. Len(writes) : Apart(writes[i].text, g)
    BY FreshIs DEF IInv
  <2>2. objects'[g] \in {objects[g], None}
    BY <2>1, Forgotten DEF Leaves
  <2>3. \A i \in 1 .. Len(writes') : Apart(writes'[i].text, g)
    BY <2>1, ChainRest DEF Leaves
  <2> QED BY <2>1, <2>2, <2>3 DEF Leaves
<1>2. /\ Cardinality(Fresh) \in Nat /\ Cardinality(Fresh') \in Nat
      /\ Cardinality(Fresh) <= Cardinality(Fresh')
  <2>1. None \notin Fresh
    BY ValuesAssumption, FreshIs DEF IInv
  <2>2. writes' \in Seq(Entry)
    BY ChainRest DEF Leaves
  <2> QED BY <1>1, <2>1, <2>2, FreshKept DEF IInv
<1>3. /\ Cardinality(Replacing(writes')) \in Nat /\ Cardinality(Replacing(writes)) \in Nat
      /\ Cardinality(Replacing(writes')) <= Cardinality(Replacing(writes))
  BY ChainRest, ReplacingFinite, ReplacingShortened DEF Leaves
<1> QED BY <1>2, <1>3 DEF IInv, IdsLeft

\* The agent goes on when its own operation has left the chain.
LEMMA LeavesKeepsAgent ==
    ASSUME IInv, Leaves,
           \/ writes[1].op.who # "agent" /\ UNCHANGED agent
           \/ writes[1].op.who = "agent" /\ pc' # "await"
    PROVE  AgentAwaitsOne'
<1>1. /\ Len(writes') = Len(writes) - 1 /\ 1 \in 1 .. Len(writes)
      /\ \A i \in 1 .. Len(writes') : writes'[i] = writes[i + 1] /\ i + 1 \in 1 .. Len(writes) /\ i + 1 # 1
      /\ \A i, j \in 1 .. Len(writes') : i + 1 = j + 1 => i = j
  BY ChainRest DEF Leaves
<1>2. CASE writes[1].op.who # "agent" /\ UNCHANGED agent
  BY <1>1, <1>2, SMTT(20) DEF agent, IInv, AgentAwaitsOne
<1>3. CASE writes[1].op.who = "agent" /\ pc' # "await"
  <2>1. \A i \in 1 .. Len(writes') : writes'[i].op.who # "agent"
    BY <1>1, <1>3 DEF IInv, AgentAwaitsOne
  <2> QED BY <1>3, <2>1 DEF AgentAwaitsOne
<1> QED BY <1>2, <1>3

\* A write whose operation replaces no goal ends.
LEMMA WrittenKeeps ==
    ASSUME IInv, Written, writes[1].op.kind # "replace"
    PROVE  IInv'
<1> DEFINE op == writes[1].op
<1>1. /\ writes # <<>> /\ Head(writes) = writes[1] /\ op \in Operation /\ writes[1].text \in Text
      /\ writes \in Seq(Entry) /\ 1 \in 1 .. Len(writes)
  BY ChainRest DEF Written
<1>2. /\ Leaves /\ disk' = writes[1].text /\ phase' = "live" /\ UNCHANGED crashes
      /\ shown' = Shows(op) /\ AgentGoesOn(op)
      /\ missed' = (missed /\ op.kind \in {"budget", "count", "usage", "nothing"})
      /\ excused' = excused
  BY <1>1 DEF Written, Behind, Leaves
<1>3. op.kind # "nothing" => op.goal \in Goals /\ objects[op.goal] \in Goal
  BY <1>1 DEF IInv, Held, Operation, TypeOK
<1>4. /\ objects' \in [Goals -> Goal \cup {None}] /\ current' = current
      /\ current # None => objects'[current] = objects[current]
  BY <1>2, Forgotten DEF Leaves
<1>5. shown' \in Word
  BY <1>1, <1>2, <1>3 DEF Shows, wordOf, Word, Operation, IInv, TypeOK, Goal
<1>6. pc' \in {"idle", "turn", "ended", "await"} /\ turn' \in Turn /\ AgentAwaitsOne'
  <2>1. CASE op.who = "agent"
    <3>1. pc' \in {"idle", "turn", "ended"} /\ turn' = [turn EXCEPT !.after = None]
      BY <1>1, <1>2, <2>1 DEF AgentGoesOn, IInv, AgentAwaitsOne, TypeOK, Turn
    <3>2. turn' \in Turn
      BY <3>1 DEF IInv, TypeOK, Turn
    <3> QED BY <1>2, <2>1, <3>1, <3>2, LeavesKeepsAgent
  <2>2. CASE op.who # "agent"
    BY <1>2, <2>2, LeavesKeepsAgent DEF AgentGoesOn, agent, IInv, TypeOK
  <2> QED BY <2>1, <2>2
<1>7. TypeOK'
  <2>1. writes' \in Seq(Entry) /\ Len(writes') <= MaxWrites
    BY <1>2, ChainRest, BoundsAssumption DEF Leaves, IInv, TypeOK
  <2> QED BY <1>1, <1>2, <1>4, <1>5, <1>6, <2>1 DEF Leaves, IInv, TypeOK, Entry
<1>8. ChainShape' /\ OnlyFromDisk'
  BY <1>2 DEF ChainShape, OnlyFromDisk
<1>9. DiskFollowsMemory'
  <2> SUFFICES ASSUME writes' = <<>> PROVE disk' = textOf(objects', current')
    BY DEF DiskFollowsMemory, Quiet
  <2>1. Len(writes) = 1
    <3>1. Len(writes') = 0
      BY EmptySeq
    <3>2. Len(writes') = Len(writes) - 1 /\ Len(writes) \in Nat
      BY <1>2, ChainRest DEF Leaves
    <3> QED BY <3>1, <3>2
  <2> QED BY <1>1, <1>2, <1>4, <2>1 DEF IInv, LastIsMemory, textOf
<1>10. ShownIsMemory'
  <2> SUFFICES ASSUME \A i \in 1 .. Len(writes') : ~ Showing(writes'[i].op), ~ missed'
               PROVE  shown' = IF current = None THEN None
                                 ELSE [id |-> current, status |-> objects[current].status]
    BY <1>4 DEF ShownIsMemory, wordOf
  <2>1. \A i \in 1 .. Len(writes) : i = 1 \/ ~ Showing(writes[i].op)
    <3>1. ASSUME NEW i \in 1 .. Len(writes), i # 1
          PROVE  ~ Showing(writes[i].op)
      <4>1. i - 1 \in 1 .. Len(writes') /\ writes'[i - 1] = writes[i]
        BY <1>2, <3>1, ChainRest DEF Leaves
      <4> QED BY <4>1
    <3> QED BY <3>1
  <2>2. CASE Showing(op)
    <3>1. LastToShow(1)
      BY <1>1, <2>1, <2>2, ChainRest DEF LastToShow
    <3>2. IF op.kind \in {"clear", "replace"} THEN current = None ELSE op.goal = current
      BY <1>1, <3>1 DEF IInv, LastShowsMemory
    <3>3. CASE op.kind = "clear"
      BY <1>2, <3>2, <3>3 DEF Shows
    <3>4. CASE op.kind # "clear"
      <4>1. op.goal = current /\ op.kind \in {"status", "create", "budget", "count"}
        BY <1>1, <2>2, <3>2, <3>4 DEF Showing, Operation
      <4>2. current # None
        BY <1>3, <4>1, ValuesAssumption
      <4> QED BY <1>2, <4>1, <4>2 DEF Shows, wordOf
    <3> QED BY <3>3, <3>4
  <2>3. CASE ~ Showing(op)
    <3>1. shown' = shown /\ ~ missed
      BY <1>2, <2>3 DEF Shows, Showing
    <3> QED BY <1>1, <2>1, <2>3, <3>1 DEF IInv, ShownIsMemory, wordOf
  <2> QED BY <2>2, <2>3
<1>11. IdsLeft'
  <2> SUFFICES ASSUME NEW g \in Fresh PROVE Apart(disk', g) /\ Apart(shown', g)
    BY <1>2, LeavesKeepsIds
  <2>1. objects[g] = None /\ Apart(shown, g) /\ Apart(writes[1].text, g)
    BY <1>1, FreshIs DEF IInv
  <2>2. op.kind # "nothing" => op.goal # g
    BY <1>1, <2>1 DEF IInv, Held
  <2>3. Apart(shown', g)
    BY <1>1, <1>2, <2>1, <2>2 DEF Shows, wordOf, Apart, Operation
  <2> QED BY <1>2, <2>1, <2>3
<1> QED BY <1>2, <1>6, <1>7, <1>8, <1>9, <1>10, <1>11, LeavesKeeps DEF IInv

\* A write fails: its operation throws, and the file is marked as behind.
LEMMA WriteFailsKeeps ==
    ASSUME IInv, WriteFails
    PROVE  IInv'
<1> DEFINE op == writes[1].op
<1>1. /\ writes # <<>> /\ Head(writes) = writes[1] /\ op \in Operation
      /\ writes \in Seq(Entry) /\ 1 \in 1 .. Len(writes)
  BY ChainRest DEF WriteFails
<1>2. /\ Leaves /\ disk' \in {disk, Torn} /\ missed' = TRUE
      /\ phase' = IF phase = "resuming" THEN "dead" ELSE phase
      /\ UNCHANGED <<shown, crashes>>
  BY <1>1 DEF WriteFails, Leaves
<1>3. /\ objects' \in [Goals -> Goal \cup {None}] /\ current' = current
      /\ \A g \in Goals : objects'[g] \in {objects[g], None}
      /\ owing' \subseteq owing
  BY <1>2, Forgotten DEF Leaves
<1>3a. excused' \subseteq Goals
  <2>1. excused' = excused \cup Recorded(op)
    BY <1>1 DEF WriteFails
  <2>2. op.kind # "nothing" => op.goal \in Goals
    BY <1>1 DEF IInv, Held, Operation
  <2> QED BY <2>1, <2>2 DEF Recorded, IInv, TypeOK
<1>4. pc' \in {"idle", "turn", "ended", "await"} /\ turn' \in Turn /\ AgentAwaitsOne'
  <2>1. CASE op.who = "agent"
    <3>1. \/ pc' = "idle" /\ turn' = NoTurn
          \/ pc' = "turn" /\ turn' = [turn EXCEPT !.after = None]
      BY <1>1, <2>1 DEF WriteFails
    <3>2. NoTurn \in Turn
      BY DEF Turn, NoTurn
    <3>3. [turn EXCEPT !.after = None] \in Turn
      BY DEF IInv, TypeOK, Turn
    <3> QED BY <1>2, <2>1, <3>1, <3>2, <3>3, LeavesKeepsAgent
  <2>2. CASE op.who # "agent"
    <3>1. UNCHANGED agent
      BY <1>1, <2>2 DEF WriteFails
    <3> QED BY <1>2, <2>2, <3>1, LeavesKeepsAgent DEF agent, IInv, TypeOK
  <2> QED BY <2>1, <2>2
<1>5. TypeOK'
  <2>1. writes' \in Seq(Entry) /\ Len(writes') <= MaxWrites
    BY <1>2, ChainRest, BoundsAssumption DEF Leaves, IInv, TypeOK
  <2> QED BY <1>2, <1>3, <1>4, <1>3a, <2>1 DEF IInv, TypeOK, Entry
<1>6. ChainShape'
  <2>1. phase = "resuming" => writes' = <<>>
    <3> SUFFICES ASSUME phase = "resuming" PROVE writes' = <<>>
      OBVIOUS
    <3>1. Len(writes') = 0 /\ writes' \in Seq(Entry)
      BY <1>2, ChainRest DEF IInv, ChainShape, Leaves
    <3> QED BY <3>1, EmptySeq
  <2> QED BY <1>1, <1>2, <2>1 DEF IInv, ChainShape, TypeOK
<1>7. DiskFollowsMemory' /\ ShownIsMemory'
  BY <1>2 DEF DiskFollowsMemory, ShownIsMemory
<1>8. OnlyFromDisk'
  <2> SUFFICES ASSUME phase' \in {"dead", "resuming"}, disk' # Torn,
                      NEW g \in Goals, objects'[g] # None \/ g \in owing' \ excused'
               PROVE  /\ disk # None /\ disk.id = g
                      /\ objects'[g] # None => objects'[g].turns = disk.goal.turns
    BY <1>2 DEF OnlyFromDisk
  <2>1. phase = "resuming" /\ disk # Torn
    BY <1>1, <1>2 DEF IInv, ChainShape
  <2>2. objects[g] # None \/ g \in owing \ excused
    BY <1>2, <1>3 DEF Leaves
  <2> QED BY <1>3, <2>1, <2>2 DEF IInv, OnlyFromDisk
<1>9. IdsLeft'
  <2> SUFFICES ASSUME NEW g \in Fresh PROVE Apart(disk', g) /\ Apart(shown', g)
    BY <1>2, LeavesKeepsIds
  <2>1. Apart(shown, g) /\ Apart(disk, g)
    BY FreshIs DEF IInv
  <2> QED BY <1>2, <2>1 DEF Apart
<1> QED BY <1>2, <1>4, <1>5, <1>6, <1>7, <1>8, <1>9, LeavesKeeps DEF IInv

\* An operation that is going to replace a goal finds an id.
LEMMA IdIsLeft ==
    ASSUME IInv, writes # <<>>, writes[1].op.kind = "replace"
    PROVE  Fresh # {}
<1>1. 1 \in Replacing(writes) /\ IsFiniteSet(Replacing(writes))
  BY ChainRest, ReplacingFinite
<1>2. Cardinality(Replacing(writes)) \in Nat /\ Cardinality(Replacing(writes)) # 0
  BY <1>1, FS_CardinalityType, FS_EmptySet
<1> QED BY <1>2, FS_EmptySet DEF IInv, IdsLeft

\* The end of a write behind which a goal takes the place of another.
LEMMA ReplacedKeeps ==
    ASSUME IInv, Written, writes[1].op.kind = "replace"
    PROVE  IInv'
<1> DEFINE op == writes[1].op
           n == Len(writes)
           t == Tail(writes)
           objs == Forget(objects, current, t)
           g == CHOOSE h \in Fresh : TRUE
           e == [text |-> [id |-> g, goal |-> NewGoal], op |-> Op(op.who, "create", g)]
<1>1. /\ writes # <<>> /\ Head(writes) = writes[1] /\ op \in Operation /\ writes[1].text \in Text
      /\ writes \in Seq(Entry) /\ 1 \in 1 .. n /\ n \in Nat \ {0}
      /\ t \in Seq(Entry) /\ Len(t) = n - 1
      /\ \A i \in 1 .. n - 1 : t[i] = writes[i + 1] /\ i + 1 \in 1 .. n /\ t[i] \in Entry
      /\ \A i \in 1 .. n : i = 1 \/ i - 1 \in 1 .. n - 1
  BY ChainRest DEF Written
<1>2. /\ objects' = [objs EXCEPT ![g] = NewGoal] /\ current' = g /\ writes' = Append(t, e)
      /\ disk' = writes[1].text /\ phase' = "live"
      /\ shown' = None /\ missed' = FALSE /\ UNCHANGED agent /\ UNCHANGED crashes
      /\ owing' = (owing \ {op.goal}) \cup {g}
      /\ excused' = excused \cup ({current} \ {None})
  BY <1>1 DEF Written, Behind, StoreNew, Shows, Recorded
<1>3. /\ objs \in [Goals -> Goal \cup {None}] /\ current \in Goals \cup {None}
      /\ \A h \in Goals : objs[h] \in {objects[h], None}
      /\ \A i \in 1 .. n - 1 : t[i].op.goal \in Goals => objs[t[i].op.goal] = objects[t[i].op.goal]
  BY <1>1, Forgotten DEF IInv, TypeOK
<1>4. Fresh # {}
  BY <1>1, IdIsLeft
<1>5. /\ g \in Fresh /\ g \in Goals /\ objects[g] = None /\ g \notin owing /\ g # None
  BY <1>4, FreshIs, ValuesAssumption DEF IInv
<1> HIDE DEF g, objs
<1>6. NewGoal \in Goal /\ NewGoal # None /\ NewGoal.status = "active"
  <2>1. NewGoal \in Goal
    BY BoundsAssumption DEF NewGoal, Goal, Status, Limit
  <2> QED BY <2>1, ValuesAssumption DEF NewGoal
<1>7. /\ e \in Entry /\ e.op.who = op.who /\ e.op.kind = "create" /\ e.op.goal = g
      /\ e.text.id = g /\ e.text = [id |-> g, goal |-> NewGoal]
  <2>1. [id |-> g, goal |-> NewGoal] \in Text
    BY <1>5, <1>6 DEF Text
  <2>2. Op(op.who, "create", g) \in Operation
    BY <1>1, <1>5 DEF Op, Operation
  <2> QED BY <2>1, <2>2 DEF Entry, Op
<1> HIDE DEF e, op
<1>8. /\ writes' \in Seq(Entry) /\ writes' # <<>> /\ Len(writes') = n
      /\ \A i \in 1 .. n - 1 : writes'[i] = writes[i + 1] /\ i + 1 \in 1 .. n
      /\ writes'[n] = e /\ n \in 1 .. n
      /\ \A i \in 1 .. n : i = n \/ i \in 1 .. n - 1
  <2>1. /\ Append(t, e) \in Seq(Entry) /\ Append(t, e) # <<>> /\ Len(Append(t, e)) = Len(t) + 1
        /\ \A i \in 1 .. Len(t) : Append(t, e)[i] = t[i]
        /\ Append(t, e)[Len(t) + 1] = e
    BY <1>1, <1>7, Joined
  <2> HIDE DEF n, t
  <2>2. Len(t) + 1 = n /\ n - 1 \in Nat /\ \A i \in 1 .. n : i = n \/ i \in 1 .. n - 1
    BY <1>1
  <2>3. /\ writes' \in Seq(Entry) /\ writes' # <<>> /\ Len(writes') = n
        /\ \A i \in 1 .. n - 1 : writes'[i] = t[i]
        /\ writes'[n] = e
    BY <1>1, <1>2, <2>1, <2>2
  <2>4. \A i \in 1 .. n - 1 : t[i] = writes[i + 1] /\ i + 1 \in 1 .. n
    BY <1>1, <2>2
  <2>5. n \in 1 .. n
    BY <2>2
  <2> QED BY <2>2, <2>3, <2>4, <2>5
<1> HIDE DEF n, t
<1>9. objects'[g] = NewGoal /\ \A h \in Goals : h # g => objects'[h] = objs[h]
  BY <1>2, <1>3, <1>5
<1>10. TypeOK'
  <2>1. objects' \in [Goals -> Goal \cup {None}]
    BY <1>2, <1>3, <1>6
  <2>2. owing' \subseteq Goals
    BY <1>2, <1>5 DEF IInv, TypeOK
  <2>3. None \in Word
    BY DEF Word
  <2>4. n <= MaxWrites
    BY DEF n, IInv, TypeOK
  <2> QED BY <1>1, <1>2, <1>5, <1>8, <2>1, <2>2, <2>3, <2>4 DEF agent, IInv, TypeOK, Entry
<1>11. Held'
  <2>1. ASSUME NEW i \in 1 .. n, writes'[i].op.kind # "nothing"
        PROVE  writes'[i].op.goal # None /\ objects'[writes'[i].op.goal] # None
    <3>1. CASE i \in 1 .. n - 1
      <4>1. writes'[i] = writes[i + 1] /\ i + 1 \in 1 .. n /\ t[i] = writes[i + 1] /\ t[i] \in Entry
        BY <1>1, <1>8, <3>1
      <4>2. writes'[i].op.goal # None /\ objects[writes'[i].op.goal] # None
        BY <2>1, <4>1 DEF IInv, Held, n
      <4>3. writes'[i].op.goal \in Goals
        BY <4>1, <4>2, EntryFields DEF Operation
      <4>4. objs[writes'[i].op.goal] = objects[writes'[i].op.goal]
        BY <1>3, <3>1, <4>1, <4>3
      <4> QED BY <1>6, <1>9, <4>2, <4>3, <4>4
    <3>2. CASE i = n
      BY <1>5, <1>6, <1>7, <1>8, <1>9, <3>2
    <3> QED BY <1>8, <3>1, <3>2
  <2> QED BY <1>2, <1>6, <1>8, <1>9, <2>1 DEF Held
<1>12. ChainShape' /\ OnlyFromDisk'
  BY <1>2 DEF ChainShape, OnlyFromDisk
<1>13. LastIsMemory' /\ DiskFollowsMemory'
  BY <1>2, <1>5, <1>7, <1>8, <1>9 DEF LastIsMemory, textOf, DiskFollowsMemory, Quiet
<1>14. LastShowsMemory' /\ ShownIsMemory'
  <2>1. Showing(writes'[n].op)
    BY <1>7, <1>8 DEF Showing
  <2>2. ShownIsMemory'
    BY <1>8, <2>1 DEF ShownIsMemory
  <2>3. ASSUME NEW i \in 1 .. n, LastToShow(i)'
        PROVE  i = n
    <3>1. i # n => n \in i + 1 .. n
      BY <1>8
    <3> QED BY <1>8, <2>1, <2>3, <3>1 DEF LastToShow
  <2> QED BY <1>2, <1>7, <1>8, <2>2, <2>3 DEF LastShowsMemory
<1>15. OwedIsRecorded'
  <2>1. ASSUME NEW h \in owing' \ excused', h # g
        PROVE  \E i \in 1 .. n : writes'[i].op.kind \in {"clear", "replace"} /\ writes'[i].op.goal = h
    <3>1. h \in owing \ excused /\ h # op.goal
      BY <1>2, <2>1
    <3>2. h # current /\ phase \in {"live", "resuming"}
      BY <1>1, <1>2, <2>1, <3>1, ValuesAssumption DEF IInv, TypeOK, ChainShape
    <3>3. PICK i \in 1 .. n : writes[i].op.kind \in {"clear", "replace"} /\ writes[i].op.goal = h
      BY <3>1, <3>2 DEF IInv, OwedIsRecorded, n
    <3>4. i # 1
      BY <3>1, <3>3 DEF op
    <3>5. i - 1 \in 1 .. n - 1 /\ (i - 1) + 1 = i /\ i - 1 \in 1 .. n
      BY <1>1, <3>4
    <3>6. writes'[i - 1] = writes[i]
      BY <1>8, <3>5
    <3> QED BY <3>3, <3>5, <3>6
  <2>2. current' = g /\ Len(writes') = n
    BY <1>2, <1>8
  <2> QED BY <2>1, <2>2 DEF OwedIsRecorded
<1>16. AgentAwaitsOne'
  <2>1. pc' = pc /\ turn' = turn
    BY <1>2 DEF agent
  <2>2. ASSUME NEW i \in 1 .. n, writes'[i].op.who = "agent"
        PROVE  \E k \in 1 .. n : writes[k].op.who = "agent" /\ k = IF i = n THEN 1 ELSE i + 1
    BY <1>1, <1>7, <1>8, <2>2 DEF op
  <2>3. ASSUME NEW i \in 1 .. n, NEW j \in 1 .. n,
               (IF i = n THEN 1 ELSE i + 1) = (IF j = n THEN 1 ELSE j + 1)
        PROVE  i = j
    BY <1>1, <2>3
  <2> QED BY <1>8, <2>1, <2>2, <2>3 DEF IInv, AgentAwaitsOne, n
<1>17. IdsLeft'
  <2>1. \A h \in Fresh \ {g} :
            /\ objects'[h] = None /\ h \notin owing' /\ Apart(disk', h) /\ Apart(shown', h)
            /\ \A i \in 1 .. Len(writes') : Apart(writes'[i].text, h)
    <3> SUFFICES ASSUME NEW h \in Fresh, h # g
                 PROVE  /\ objects'[h] = None /\ h \notin owing' /\ Apart(disk', h) /\ Apart(shown', h)
                        /\ \A i \in 1 .. n : Apart(writes'[i].text, h)
      BY <1>8
    <3>1. /\ h \in Goals /\ objects[h] = None /\ h \notin owing
          /\ \A i \in 1 .. n : Apart(writes[i].text, h)
      BY FreshIs DEF IInv, n
    <3>2. objects'[h] = None
      BY <1>3, <1>9, <3>1
    <3>3. \A i \in 1 .. n : Apart(writes'[i].text, h)
      BY <1>7, <1>8, <3>1 DEF Apart
    <3> QED BY <1>1, <1>2, <3>1, <3>2, <3>3 DEF Apart
  <2>2. /\ Cardinality(Fresh) \in Nat /\ Cardinality(Fresh') \in Nat
        /\ Cardinality(Fresh) - 1 <= Cardinality(Fresh')
    BY <1>8, <2>1, FreshKept DEF IInv
  <2>3. Cardinality(Replacing(t)) <= Cardinality(Replacing(writes)) - 1
    BY <1>1, ReplacingShortened DEF t, op
  <2>4. Replacing(writes') = Replacing(t)
    <3>1. e.op.kind # "replace" => Replacing(Append(t, e)) = Replacing(t)
      BY <1>1, <1>7, ReplacingJoined
    <3> QED BY <1>2, <1>7, <3>1
  <2>5. Cardinality(Replacing(t)) \in Nat /\ Cardinality(Replacing(writes)) \in Nat
    BY <1>1, ReplacingFinite
  <2> QED BY <2>2, <2>3, <2>4, <2>5 DEF IInv, IdsLeft
<1> QED BY <1>10, <1>11, <1>12, <1>13, <1>14, <1>15, <1>16, <1>17 DEF IInv

-----------------------------------------------------------------------------
\* Dying and resuming.

\* Where no replacement waits, no id is needed.
LEMMA NoneReplacing ==
    ASSUME writes' = <<>> \/ \E e \in Entry : writes' = Append(<<>>, e) /\ e.op.kind # "replace"
    PROVE  IdsLeft'
<1>1. Cardinality(Fresh') \in Nat
  <2>1. IsFiniteSet(Goals)
    BY BoundsAssumption, FS_Interval DEF Goals
  <2> QED BY <2>1, FS_Subset, FS_CardinalityType DEF Fresh
<1>2. Replacing(<<>>) = {}
  BY DEF Replacing
<1>3. Replacing(writes') = {}
  <2>1. <<>> \in Seq(Entry)
    BY EmptySeq
  <2> QED BY <1>2, <2>1, ReplacingJoined
<1> QED BY <1>1, <1>3, FS_EmptySet DEF IdsLeft

\* A crash leaves the file, or a torn one, and nothing that waits.
LEMMA CrashKeeps ==
    ASSUME IInv, Crash
    PROVE  IInv'
<1>1. /\ crashes' = crashes + 1 /\ crashes < MaxCrashes
      /\ disk' \in {disk} \cup (IF writes = <<>> THEN {} ELSE {Head(writes).text, Torn})
      /\ phase' = "dead" /\ writes' = <<>> /\ pc' = "idle" /\ turn' = NoTurn
      /\ objects' = [g \in Goals |-> None] /\ current' = None
      /\ owing' = owing /\ excused' = owing \ IdsIn(disk') /\ shown' = None /\ missed' = TRUE
  BY DEF Crash
<1>2. Len(writes') = 0 /\ writes' \in Seq(Entry)
  BY <1>1, EmptySeq
<1>3. TypeOK'
  <2>1. disk' \in Text \cup {Torn}
    BY <1>1, ChainRest DEF IInv, TypeOK
  <2>2. NoTurn \in Turn
    BY DEF NoTurn, Turn
  <2>3. crashes' \in 0 .. MaxCrashes
    BY <1>1, BoundsAssumption DEF IInv, TypeOK
  <2>4. Len(writes') <= MaxWrites
    BY <1>2, BoundsAssumption
  <2>5. objects' \in [Goals -> Goal \cup {None}]
    BY <1>1
  <2> QED BY <1>1, <1>2, <2>1, <2>2, <2>3, <2>4, <2>5 DEF IInv, TypeOK, Word, Entry
<1>4. \A i \in 1 .. Len(writes') : FALSE
  BY <1>2
<1>5. Held' /\ ChainShape' /\ LastIsMemory' /\ DiskFollowsMemory' /\ LastShowsMemory' /\ ShownIsMemory'
  BY <1>1, <1>4 DEF Held, ChainShape, LastIsMemory, DiskFollowsMemory, Quiet, LastShowsMemory, ShownIsMemory
<1>6. OwedIsRecorded' /\ AgentAwaitsOne'
  BY <1>1, <1>4 DEF OwedIsRecorded, AgentAwaitsOne
<1>7. OnlyFromDisk'
  BY <1>1 DEF OnlyFromDisk, IdsIn
<1> QED BY <1>1, <1>3, <1>5, <1>6, <1>7, NoneReplacing DEF IInv

\* What the file holds when a session is resumed, and what is taken from it.
LEMMA ResumedGoal ==
    ASSUME IInv, normalizeMetadata, disk # Torn, disk # None
    PROVE  /\ disk.id \in Goals /\ disk.id # None /\ current' = disk.id
           /\ owing' = owing \cup {disk.id} /\ excused' = excused \ {disk.id}
           /\ \E state \in Goal :
                 /\ objects' = [objects EXCEPT ![disk.id] = state]
                 /\ state.status # "complete" /\ state.turns = disk.goal.turns
           /\ \/ phase' = "live" /\ writes' = <<>>
              \/ phase' = "resuming" /\ Enqueue(objects', current', Op("session", "status", current'))
<1>1. /\ disk.id \in Goals /\ disk.goal \in Goal /\ disk.goal.status # "complete" /\ disk.id # None
  BY ValuesAssumption DEF IInv, TypeOK, Text
<1>2. /\ current' = disk.id
      /\ owing' = owing \cup {disk.id} /\ excused' = excused \ {disk.id}
      /\ objects' = [objects EXCEPT ![disk.id] =
                        IF disk.goal.status = "active" THEN applyStatus(disk.goal, "paused")
                        ELSE disk.goal]
  BY <1>1 DEF normalizeMetadata, IdsIn
<1>3. /\ applyStatus(disk.goal, "paused") \in Goal
      /\ applyStatus(disk.goal, "paused").status = "paused"
      /\ applyStatus(disk.goal, "paused").turns = disk.goal.turns
  BY <1>1 DEF applyStatus, Goal, Status
<1>4. writes = <<>>
  BY DEF normalizeMetadata, IInv, ChainShape
<1>5. \/ phase' = "live" /\ writes' = <<>>
      \/ phase' = "resuming" /\ Enqueue(objects', current', Op("session", "status", current'))
  BY <1>1, <1>2, <1>4 DEF normalizeMetadata
<1> QED BY <1>1, <1>2, <1>3, <1>5

\* The next process takes up the file's goal, paused if it was active.
LEMMA normalizeMetadataKeeps ==
    ASSUME IInv, normalizeMetadata
    PROVE  IInv'
<1>1. /\ phase = "dead" /\ writes = <<>> /\ missed /\ Len(writes) = 0
      /\ UNCHANGED <<pc, turn, disk, shown, missed, crashes>>
  BY EmptySeq DEF normalizeMetadata, agent, IInv, ChainShape
<1>2. \A i \in 1 .. Len(writes) : FALSE
  BY <1>1
<1>4. DiskFollowsMemory' /\ ShownIsMemory'
  BY <1>1 DEF DiskFollowsMemory, ShownIsMemory
<1>5. CASE disk = Torn
  <2>1. phase' = "unreadable" /\ UNCHANGED <<objects, current, writes, owing, excused>>
    BY <1>5 DEF normalizeMetadata, memory
  <2>2. TypeOK' /\ Held'
    BY <1>1, <2>1 DEF IInv, TypeOK, Held
  <2>3. ChainShape' /\ LastIsMemory' /\ LastShowsMemory' /\ OwedIsRecorded'
        /\ OnlyFromDisk' /\ AgentAwaitsOne'
    BY <1>1, <1>2, <2>1 DEF ChainShape, LastIsMemory, LastShowsMemory, OwedIsRecorded,
                            OnlyFromDisk, AgentAwaitsOne, IInv
  <2> QED BY <1>1, <1>4, <2>1, <2>2, <2>3, NoneReplacing DEF IInv
<1>6. CASE disk = None
  <2>1. /\ phase' = "live" /\ current' = None /\ UNCHANGED <<objects, owing, excused, writes>>
    BY <1>6, ValuesAssumption DEF normalizeMetadata, Text, IdsIn
  <2>2. owing \ excused = {}
    BY <1>1, <1>6, ValuesAssumption DEF IInv, OnlyFromDisk, TypeOK, Text
  <2>3. TypeOK' /\ Held'
    BY <1>1, <1>2, <2>1 DEF IInv, TypeOK, Held
  <2>4. ChainShape' /\ LastIsMemory' /\ LastShowsMemory' /\ OwedIsRecorded'
        /\ OnlyFromDisk' /\ AgentAwaitsOne'
    BY <1>1, <1>2, <2>1, <2>2 DEF ChainShape, LastIsMemory, LastShowsMemory, OwedIsRecorded,
                                   OnlyFromDisk, AgentAwaitsOne, IInv
  <2> QED BY <1>1, <1>4, <2>1, <2>3, <2>4, NoneReplacing DEF IInv
<1>7. CASE disk # Torn /\ disk # None
  <2>1. PICK state \in Goal : /\ objects' = [objects EXCEPT ![disk.id] = state]
                              /\ state.status # "complete" /\ state.turns = disk.goal.turns
    BY <1>7, ResumedGoal
  <2>2. /\ disk.id \in Goals /\ disk.id # None /\ current' = disk.id
        /\ owing' = owing \cup {disk.id} /\ excused' = excused \ {disk.id}
    BY <1>7, ResumedGoal
  <2>3. /\ objects' \in [Goals -> Goal \cup {None}] /\ objects'[disk.id] = state /\ state # None
        /\ \A g \in Goals : g # disk.id => objects'[g] = objects[g]
    BY <2>1, <2>2, ValuesAssumption DEF IInv, TypeOK
  <2>4. OwedIsRecorded'
    <3>1. owing \ excused \subseteq {disk.id}
      BY <1>1, <1>7 DEF IInv, OnlyFromDisk, TypeOK
    <3> QED BY <2>2, <3>1 DEF OwedIsRecorded
  <2>5. OnlyFromDisk'
    <3> SUFFICES ASSUME NEW g \in Goals, objects'[g] # None \/ g \in owing' \ excused'
                 PROVE  disk.id = g /\ (objects'[g] # None => objects'[g].turns = disk.goal.turns)
      BY <1>1, <1>7 DEF OnlyFromDisk
    <3>1. CASE g = disk.id
      BY <2>1, <2>3, <3>1
    <3>2. CASE g # disk.id
      <4>1. objects[g] # None \/ g \in owing \ excused
        BY <2>2, <2>3, <3>2
      <4> QED BY <1>1, <1>7, <3>2, <4>1 DEF IInv, OnlyFromDisk
    <3> QED BY <3>1, <3>2
  <2>6. CASE phase' = "live" /\ writes' = <<>>
    <3>1. TypeOK' /\ Held'
      BY <1>1, <1>2, <2>1, <2>2, <2>3, <2>6 DEF IInv, TypeOK, Held
    <3>2. ChainShape' /\ LastIsMemory' /\ LastShowsMemory' /\ AgentAwaitsOne'
      BY <1>1, <1>2, <2>6 DEF ChainShape, LastIsMemory, LastShowsMemory,
                              AgentAwaitsOne, IInv
    <3> QED BY <1>4, <2>4, <2>5, <2>6, <3>1, <3>2, NoneReplacing DEF IInv
  <2>7. CASE phase' = "resuming" /\ Enqueue(objects', current', Op("session", "status", current'))
    <3> DEFINE e == [text |-> textOf(objects', current'), op |-> Op("session", "status", current')]
    <3>1. /\ writes' = Append(<<>>, e)
      BY <1>1, <2>7 DEF Enqueue
    <3>2. /\ e \in Entry /\ e.op.who = "session" /\ e.op.kind = "status" /\ e.op.goal = disk.id
          /\ e.text = textOf(objects', current')
      <4>1. textOf(objects', current') \in Text
        BY <2>1, <2>2, <2>3 DEF textOf, Text
      <4>2. Op("session", "status", current') \in Operation
        BY <2>2 DEF Op, Operation
      <4> QED BY <2>2, <4>1, <4>2 DEF Entry, Op
    <3> HIDE DEF e
    <3>3. writes' \in Seq(Entry) /\ Len(writes') = 1 /\ writes'[1] = e
      <4>1. <<>> \in Seq(Entry) /\ Len(<<>>) = 0
        BY EmptySeq
      <4> QED BY <3>1, <3>2, <4>1, Joined
    <3>4. TypeOK'
      BY <1>1, <2>2, <2>3, <2>7, <3>3, BoundsAssumption DEF IInv, TypeOK, Entry
    <3>5. Held'
      BY <2>1, <2>2, <2>3, <3>2, <3>3 DEF Held
    <3>6. ChainShape' /\ LastIsMemory' /\ AgentAwaitsOne'
      BY <1>1, <2>7, <3>2, <3>3 DEF ChainShape, LastIsMemory, AgentAwaitsOne, IInv
    <3>7. LastShowsMemory'
      BY <2>2, <3>2, <3>3 DEF LastShowsMemory
    <3> QED BY <1>4, <2>4, <2>5, <3>1, <3>2, <3>4, <3>5, <3>6, <3>7, NoneReplacing DEF IInv
  <2> QED BY <1>7, <2>6, <2>7, ResumedGoal
<1> QED BY <1>5, <1>6, <1>7

-----------------------------------------------------------------------------
\* The invariant.

\* A session without a goal satisfies the inductive invariant.
LEMMA InitIInv == Init => IInv
<1> SUFFICES ASSUME Init PROVE IInv
  OBVIOUS
<1>1. writes = <<>> /\ Len(writes) = 0 /\ writes \in Seq(Entry)
  BY EmptySeq DEF Init
<1>2. \A i \in 1 .. Len(writes) : FALSE
  BY <1>1
<1>3. TypeOK
  <2>1. NoTurn \in Turn
    BY DEF NoTurn, Turn
  <2>2. 0 \in 0 .. MaxCrashes /\ Len(writes) <= MaxWrites
    BY <1>1, BoundsAssumption
  <2> QED BY <1>1, <2>1, <2>2 DEF Init, TypeOK, Text, Word, Entry
<1>4. Held /\ ChainShape /\ LastIsMemory /\ LastShowsMemory
  BY <1>1, <1>2 DEF Init, Held, ChainShape, LastIsMemory, LastShowsMemory
<1>5. DiskFollowsMemory /\ ShownIsMemory
  BY DEF Init, DiskFollowsMemory, ShownIsMemory, textOf
<1>6. OwedIsRecorded /\ OnlyFromDisk /\ AgentAwaitsOne
  BY <1>2 DEF Init, OwedIsRecorded, OnlyFromDisk, AgentAwaitsOne
<1>7. IdsLeft
  <2>1. IsFiniteSet(Goals)
    BY BoundsAssumption, FS_Interval DEF Goals
  <2>2. Cardinality(Fresh) \in Nat
    BY <2>1, FS_Subset, FS_CardinalityType DEF Fresh
  <2>3. Replacing(writes) = {}
    BY <1>1 DEF Replacing
  <2> QED BY <2>2, <2>3, FS_EmptySet DEF IdsLeft
<1> QED BY <1>3, <1>4, <1>5, <1>6, <1>7 DEF IInv

\* Every step of the goal store and of its turn keeps the inductive invariant.
LEMMA StepIInv == IInv /\ [Next]_vars => IInv'
<1> SUFFICES ASSUME IInv, [Next]_vars PROVE IInv'
  OBVIOUS
<1>1. CASE UserCall \/ turnWorker \/ InTurn \/ EndTurn
  BY <1>1, CallShape, CallsKeep
<1>2. CASE Written
  BY <1>2, WrittenKeeps, ReplacedKeeps
<1>3. CASE WriteFails
  BY <1>3, WriteFailsKeeps
<1>4. CASE Crash
  BY <1>4, CrashKeeps
<1>5. CASE normalizeMetadata
  BY <1>5, normalizeMetadataKeeps
<1>6. CASE UNCHANGED vars
  <2>1. UNCHANGED <<objects, current, disk, writes, phase, pc, turn, owing, excused, shown, missed, crashes>>
    BY <1>6 DEF vars, memory, agent, told
  <2>2. TypeOK' /\ Held' /\ ChainShape' /\ LastIsMemory' /\ DiskFollowsMemory'
    BY <2>1 DEF IInv, TypeOK, Held, ChainShape, LastIsMemory, DiskFollowsMemory, Quiet, textOf
  <2>3. LastShowsMemory' /\ ShownIsMemory' /\ OwedIsRecorded' /\ OnlyFromDisk'
    BY <2>1 DEF IInv, LastShowsMemory, LastToShow, Showing, ShownIsMemory, wordOf,
                OwedIsRecorded, OnlyFromDisk
  <2>4. AgentAwaitsOne' /\ IdsLeft'
    BY <2>1 DEF IInv, AgentAwaitsOne, IdsLeft, Fresh
  <2> QED BY <2>2, <2>3, <2>4 DEF IInv
<1> QED BY <1>1, <1>2, <1>3, <1>4, <1>5, <1>6 DEF Next

\* What each entry of the chain carries is the goal as the next one finds it, and
\* every goal that is owed a record is the current one or waits in the chain: the
\* invariant of the store (session/goal.ts, writeMetadata).
THEOREM GoalInvariant == Spec => []IInv
  BY InitIInv, StepIInv, PTL DEF Spec

\* The goal, the chain of writes and the agent keep their shapes (session/goal.ts).
THEOREM GoalTypeCorrect == Spec => []TypeOK
<1>1. IInv => TypeOK
  BY DEF IInv
<1> QED BY <1>1, GoalInvariant, PTL

\* Between the writes state.json holds the goal in memory, whoever changed it last
\* and in whatever order the writes were asked for (writeMetadata).
THEOREM FileIsTheGoal == Spec => []DiskFollowsMemory
<1>1. IInv => DiskFollowsMemory
  BY DEF IInv
<1> QED BY <1>1, GoalInvariant, PTL

\* When nothing is under way, the application was last shown the goal and its
\* status (persistState, clearInternal).
THEOREM LastShownIsTrue == Spec => []ShownIsTrue
<1>1. IInv => ShownIsTrue
  <2> SUFFICES ASSUME IInv, writes = <<>>, ~ missed
               PROVE  shown = IF current = None THEN None ELSE wordOf(current)
    BY DEF ShownIsTrue, Quiet
  <2>1. \A i \in 1 .. Len(writes) : FALSE
    BY EmptySeq
  <2> QED BY <2>1 DEF IInv, ShownIsMemory
<1> QED BY <1>1, GoalInvariant, PTL

\* A goal that is gone has left the record of its end, whoever removed, completed or
\* replaced it and whatever was under way, but for three excuses that the store
\* gives and the statement names: the write of the removal failed (clearInternal
\* throws before appendAudit), createGoal overwrote the goal behind its await, or
\* the process died and the goal was not in the file.
THEOREM GoneGoalsAreClosed == Spec => []EveryGoalClosed
<1>1. IInv => EveryGoalClosed
  <2> SUFFICES ASSUME IInv, phase = "live", writes = <<>>
               PROVE  owing \subseteq {current} \cup excused
    BY DEF EveryGoalClosed, Quiet
  <2>1. \A i \in 1 .. Len(writes) : FALSE
    BY EmptySeq
  <2> QED BY <2>1 DEF IInv, OwedIsRecorded
<1> QED BY <1>1, GoalInvariant, PTL

-----------------------------------------------------------------------------
\* The turns that are counted.

WithinBudget(g) ==
    /\ objects[g] # None /\ objects'[g] # None
    /\ objects'[g].turns > objects[g].turns
    /\ objects[g].turnBudget # None
    => objects'[g].turns <= objects[g].turnBudget

\* A goal whose turns were not counted is within its budget as it was.
LEMMA TurnsStay ==
    ASSUME IInv, NEW g \in Goals, objects[g] # None, objects'[g] # None,
           objects'[g].turns = objects[g].turns
    PROVE  WithinBudget(g)
<1>1. objects[g].turns \in 0 .. MaxCount
  BY DEF IInv, TypeOK, Goal
<1>2. ~ (objects'[g].turns > objects[g].turns)
  BY <1>1, BoundsAssumption
<1> QED BY <1>2 DEF WithinBudget

\* An object that is kept, or forgotten, or new.
LEMMA KeptOrForgotten ==
    ASSUME IInv, NEW g \in Goals,
           objects[g] = None \/ objects'[g] = None \/ objects'[g] = objects[g]
    PROVE  WithinBudget(g)
<1>1. CASE objects[g] = None \/ objects'[g] = None
  BY <1>1 DEF WithinBudget
<1>2. CASE objects[g] # None /\ objects'[g] # None
  BY <1>2, TurnsStay
<1> QED BY <1>1, <1>2

\* The calls of the store count a turn within the budget only.
LEMMA CallsWithinBudget ==
    ASSUME IInv, Calls, NEW g \in Goals
    PROVE  WithinBudget(g)
<1>1. objects \in [Goals -> Goal \cup {None}] /\ current \in Goals \cup {None}
  BY DEF IInv, TypeOK
<1>2. ASSUME NEW op \in Operation, Changes(op)
      PROVE  WithinBudget(g)
  <2>1. PICK state \in Goal :
          /\ objects' = [objects EXCEPT ![current] = state]
          /\ objects[current].turnBudget # None /\ state.turns > objects[current].turns =>
                state.turns <= objects[current].turnBudget
    BY <1>2 DEF Changes
  <2>2. CASE g = current
    BY <1>1, <2>1, <2>2 DEF WithinBudget
  <2>3. CASE g # current
    BY <1>1, <2>1, <2>3, KeptOrForgotten
  <2> QED BY <2>2, <2>3
<1>3. ASSUME NEW op \in Operation, Clears(op)
      PROVE  WithinBudget(g)
  <2>1. CASE UNCHANGED objects
    BY <2>1, KeptOrForgotten
  <2>2. CASE objects' = [objects EXCEPT ![current] = [@ EXCEPT !.status = "complete"]]
    <3>1. CASE g = current
      <4>1. objects[g] \in Goal /\ objects[g] # None /\ g \in Goals
        BY <1>1, <1>3, <3>1 DEF Clears, IInv, Held
      <4>2. objects'[g] = [objects[g] EXCEPT !.status = "complete"]
        BY <1>1, <2>2, <3>1
      <4>3. objects'[g].turns = objects[g].turns
        BY <4>1, <4>2 DEF Goal
      <4> QED BY <4>1, <4>3, TurnsStay DEF WithinBudget
    <3>2. CASE g # current
      BY <1>1, <2>2, <3>2, KeptOrForgotten
    <3> QED BY <3>1, <3>2
  <2> QED BY <1>3, <2>1, <2>2 DEF Clears
<1>4. ASSUME NEW op \in Operation, Creates(op)
      PROVE  WithinBudget(g)
  <2>1. PICK h \in Fresh : objects' = [objects EXCEPT ![h] = NewGoal]
    BY <1>4 DEF Creates
  <2>2. objects[h] = None
    BY FreshIs DEF IInv
  <2> QED BY <1>1, <2>1, <2>2, KeptOrForgotten
<1>5. CASE Rests
  BY <1>5, KeptOrForgotten DEF Rests, memory
<1> QED BY <1>2, <1>3, <1>4, <1>5 DEF Calls, Does

\* Writes, their failures, a crash and the next start count no turn.
LEMMA StoreWithinBudget ==
    ASSUME IInv, Written \/ WriteFails \/ Crash \/ normalizeMetadata, NEW g \in Goals
    PROVE  WithinBudget(g)
<1>1. objects \in [Goals -> Goal \cup {None}]
  BY DEF IInv, TypeOK
<1> DEFINE objs == Forget(objects, current, Tail(writes))
<1>2. writes # <<>> => objs \in [Goals -> Goal \cup {None}] /\ objs[g] \in {objects[g], None}
  BY Forgotten
<1> HIDE DEF objs
<1>3. CASE Written
  <2>1. writes # <<>>
    BY <1>3 DEF Written
  <2>2. \/ objects' = objs
        \/ StoreNew(Head(writes).op.who, objs, Tail(writes)) /\ writes[1].op.kind = "replace"
    BY <1>3, <2>1, ChainRest DEF Written, Behind, objs
  <2>3. CASE objects' = objs
    BY <1>2, <2>1, <2>3, KeptOrForgotten
  <2>4. CASE StoreNew(Head(writes).op.who, objs, Tail(writes)) /\ writes[1].op.kind = "replace"
    <3>1. PICK h : objects' = [objs EXCEPT ![h] = NewGoal] /\ h = CHOOSE f \in Fresh : TRUE
      BY <2>4 DEF StoreNew
    <3>2. CASE h \in Fresh
      <4>1. objects[h] = None
        BY <3>2, FreshIs DEF IInv
      <4>2. g # h => objects'[g] = objs[g]
        BY <1>2, <2>1, <3>1
      <4> QED BY <1>2, <2>1, <4>1, <4>2, KeptOrForgotten
    <3>3. Fresh # {}
      BY <2>1, <2>4, IdIsLeft
    <3> QED BY <3>1, <3>2, <3>3
  <2> QED BY <2>2, <2>3, <2>4
<1>4. CASE WriteFails
  BY <1>2, <1>4, KeptOrForgotten DEF WriteFails, objs
<1>5. CASE Crash
  BY <1>5, KeptOrForgotten DEF Crash
<1>6. CASE normalizeMetadata
  <2>1. phase = "dead"
    BY <1>6 DEF normalizeMetadata
  <2>2. CASE disk = Torn
    BY <1>6, <2>2, KeptOrForgotten DEF normalizeMetadata, memory
  <2>3. CASE disk = None
    BY <1>6, <2>3, KeptOrForgotten, ValuesAssumption DEF normalizeMetadata, Text
  <2>4. CASE disk # Torn /\ disk # None
    <3>1. PICK state \in Goal :
            /\ objects' = [objects EXCEPT ![disk.id] = state] /\ state.turns = disk.goal.turns
      BY <1>6, <2>4, ResumedGoal
    <3>2. CASE g = disk.id /\ objects[g] # None
      <4>1. objects'[g] = state /\ objects[g].turns = disk.goal.turns
        BY <1>1, <2>1, <2>4, <3>1, <3>2 DEF IInv, OnlyFromDisk
      <4>2. objects'[g] # None
        BY <4>1, ValuesAssumption
      <4> QED BY <3>1, <3>2, <4>1, <4>2, TurnsStay
    <3>3. CASE g # disk.id \/ objects[g] = None
      BY <1>1, <3>1, <3>3, KeptOrForgotten
    <3> QED BY <3>2, <3>3
  <2> QED BY <2>2, <2>3, <2>4
<1> QED BY <1>3, <1>4, <1>5, <1>6

\* No turn is counted beyond the turn budget, whichever way led to it: launched,
\* continued behind another, taken up (driveGoal, incrementTurn), nor by a restart.
THEOREM NoTurnOverBudget == Spec => TurnsWithinBudget
<1>1. IInv /\ [Next]_vars => [\A g \in Goals : WithinBudget(g)]_vars
  <2> SUFFICES ASSUME IInv, Next, NEW g \in Goals PROVE WithinBudget(g)
    OBVIOUS
  <2> QED BY CallShape, CallsWithinBudget, StoreWithinBudget DEF Next
<1>2. [\A g \in Goals : WithinBudget(g)]_vars =>
          [\A g \in Goals :
             /\ objects[g] # None /\ objects'[g] # None
             /\ objects'[g].turns > objects[g].turns
             /\ objects[g].turnBudget # None
             => objects'[g].turns <= objects[g].turnBudget]_vars
  BY DEF WithinBudget
<1> QED BY <1>1, <1>2, GoalInvariant, PTL DEF Spec, TurnsWithinBudget

=============================================================================
