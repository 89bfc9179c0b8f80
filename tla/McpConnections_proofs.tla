------------------------ MODULE McpConnections_proofs -------------------------
(***************************************************************************)
(* Proofs about McpConnections, for any number of attempts: no client is   *)
(* left behind, what is offered is alive, and what is settled is true.     *)
(***************************************************************************)
EXTENDS McpConnections, TLAPS

\* An attempt that has not begun has opened nothing.
LaterUnborn ==
    \A a \in Attempts : a > attemptId => clients[a] = "unborn" /\ at[a] = None

\* An attempt that lists its server's tools has a client that was not ready yet.
NotReadyYet ==
    \A a \in Attempts : at[a] = "starting" => clients[a] \in {"starting", "lost", "closed"}

\* Only who listens offers.
OffersListening == offered # None => attached

\* What the latest attempt awaits decides what the entry holds.
ClosingEntry == at[attemptId] = "closing" => client = None
StartingEntry ==
    at[attemptId] = "starting" =>
        client = attemptId /\ status = "pending" /\ offered \notin Attempts
FailingEntry ==
    at[attemptId] = "failing" =>
        client = None /\ status \in {"failed", "needs-auth"} /\ offered \notin Attempts
SettledEntry ==
    at[attemptId] = None =>
        /\ status # "pending"
        /\ status = "connected" <=> client # None
        /\ client # None => clients[client] = "ready"
        /\ attached => offered = CASE status = "connected" -> client
                                   [] status = "needs-auth" -> Auth
                                   [] OTHER -> None
EntryFollowsAttempt ==
    present => ClosingEntry /\ StartingEntry /\ FailingEntry /\ SettledEntry

IInv ==
    /\ TypeOK
    /\ LaterUnborn /\ NotReadyYet /\ OffersListening
    /\ EntryFollowsAttempt
    /\ NoClientLeftBehind

-----------------------------------------------------------------------------
\* The listener keeps what is offered well-formed.
LEMMA EmitTypeOK ==
    ASSUME NEW newStatus \in Status, NEW newTools, NEW newClient \in OrNone(Attempts),
           offered \in OrNone(Attempts \cup {Auth}),
           OffersListening, emit(newStatus, newTools, newClient)
    PROVE  /\ offered' \in OrNone(Attempts \cup {Auth})
           /\ offered' # None => attached
           /\ newStatus \in {"pending", "failed"} => offered' = None
           /\ attached => offered' =
                CASE newStatus = "connected" ->
                       IF newTools # None /\ newClient # None THEN newClient ELSE offered
                  [] newStatus = "needs-auth" -> Auth
                  [] newStatus \in {"failed", "pending"} -> None
  BY DEF emit, OffersListening, OrNone, Status

\* A connection that begins where nothing is open any more.
LEMMA ConnectOneKeeps ==
    ASSUME IInv, present, UNCHANGED <<present, attached>>,
           NEW a \in Attempts, attemptId' = a, a >= attemptId,
           \A b \in Attempts : b > a => at[b] = None,
           NEW closed \in [Attempts -> {"unborn", "starting", "lost", "ready", "closed"}],
           \A b \in Attempts : closed[b] \notin {"starting", "ready"},
           \A b \in Attempts : b > a => closed[b] = "unborn",
           \A b \in Attempts : b # a /\ at[b] = "starting" => closed[b] \in {"lost", "closed"},
           connectOne(a, closed)
    PROVE  IInv'
<1> USE AttemptsAssumption DEF Attempts
<1>1. CASE /\ become("pending", None, a)
           /\ clients' = [closed EXCEPT ![a] = "starting"]
           /\ at' = [at EXCEPT ![a] = "starting"]
           /\ emit("pending", None, None)
  <2>1. offered' = None
    BY <1>1, EmitTypeOK DEF IInv, TypeOK, OrNone, Status
  <2>2. TypeOK'
    BY <1>1, <2>1 DEF IInv, TypeOK, OrNone, Status, become
  <2>3. LaterUnborn' /\ NotReadyYet' /\ OffersListening'
    BY <1>1, <2>1 DEF IInv, TypeOK, LaterUnborn, NotReadyYet, OffersListening
  <2>4. EntryFollowsAttempt'
    BY <1>1, <2>1 DEF IInv, TypeOK, EntryFollowsAttempt, ClosingEntry, StartingEntry,
                      FailingEntry, SettledEntry, become
  <2>5. NoClientLeftBehind'
    BY <1>1 DEF NoClientLeftBehind, Open, become
  <2> QED BY <2>2, <2>3, <2>4, <2>5 DEF IInv
<1>2. CASE /\ become("failed", None, None)
           /\ clients' = closed
           /\ at' = [at EXCEPT ![a] = None]
           /\ emit("failed", None, None)
  <2>1. offered' = None
    BY <1>2, EmitTypeOK DEF IInv, TypeOK, OrNone, Status
  <2>2. TypeOK'
    BY <1>2, <2>1 DEF IInv, TypeOK, OrNone, Status, become
  <2>3. LaterUnborn' /\ NotReadyYet' /\ OffersListening'
    BY <1>2, <2>1 DEF IInv, TypeOK, LaterUnborn, NotReadyYet, OffersListening
  <2>4. EntryFollowsAttempt'
    BY <1>2, <2>1 DEF IInv, TypeOK, EntryFollowsAttempt, ClosingEntry, StartingEntry,
                      FailingEntry, SettledEntry, become
  <2>5. NoClientLeftBehind'
    BY <1>2 DEF NoClientLeftBehind, Open, become
  <2> QED BY <2>2, <2>3, <2>4, <2>5 DEF IInv
<1> QED BY <1>1, <1>2 DEF connectOne

\* An entry of which nothing was tried satisfies the inductive invariant.
LEMMA InitIInv == Init => IInv
<1> SUFFICES ASSUME Init PROVE IInv OBVIOUS
<1> USE AttemptsAssumption DEF Attempts, Init
<1>1. TypeOK
  <2>1. 1 \in Attempts
    OBVIOUS
  <2>2. clients \in [Attempts -> {"unborn", "starting", "lost", "ready", "closed"}]
    OBVIOUS
  <2>3. at \in [Attempts -> OrNone({"closing", "starting", "failing"})]
    BY DEF OrNone
  <2>4. offered \in OrNone(Attempts \cup {Auth}) /\ tools \in OrNone(Attempts)
        /\ client \in OrNone(Attempts)
    BY <2>1 DEF OrNone
  <2> QED BY <2>1, <2>2, <2>3, <2>4 DEF TypeOK, Status
<1>2. LaterUnborn /\ NotReadyYet /\ OffersListening
  BY DEF LaterUnborn, NotReadyYet, OffersListening
<1>3. EntryFollowsAttempt
  BY DEF EntryFollowsAttempt, ClosingEntry, StartingEntry, FailingEntry, SettledEntry
<1>4. NoClientLeftBehind
  BY DEF NoClientLeftBehind, Open
<1> QED BY <1>1, <1>2, <1>3, <1>4 DEF IInv

\* What changes nothing keeps it.
LEMMA StutterIInv == IInv /\ UNCHANGED vars => IInv'
  BY DEF IInv, TypeOK, LaterUnborn, NotReadyYet, OffersListening, EntryFollowsAttempt,
         ClosingEntry, StartingEntry, FailingEntry, SettledEntry, NoClientLeftBehind, Open,
         vars, entry

\* An agent that attaches offers the tools of a connected entry only.
LEMMA AttachKeeps == IInv /\ attachMcpTools => IInv'
<1> SUFFICES ASSUME IInv, attachMcpTools PROVE IInv' OBVIOUS
<1> USE AttemptsAssumption DEF Attempts, attachMcpTools, IInv, entry
<1>1. TypeOK'
  BY DEF TypeOK, OrNone, Status
<1>2. LaterUnborn' /\ NotReadyYet' /\ OffersListening' /\ NoClientLeftBehind'
  BY DEF LaterUnborn, NotReadyYet, OffersListening, NoClientLeftBehind, Open
<1>3. EntryFollowsAttempt'
  BY DEF TypeOK, OrNone, Status, OffersListening, EntryFollowsAttempt, ClosingEntry,
         StartingEntry, FailingEntry, SettledEntry
<1> QED BY <1>1, <1>2, <1>3

\* A reconnect starts an attempt; the client it displaces is awaited.
LEMMA ReconnectKeeps == IInv /\ reconnect => IInv'
<1> SUFFICES ASSUME IInv, reconnect PROVE IInv' OBVIOUS
<1> USE AttemptsAssumption DEF Attempts
<1>1. CASE client = None /\ connectOne(attemptId + 1, clients)
  <2>1. Open = {}
    BY <1>1 DEF IInv, TypeOK, NoClientLeftBehind, Open, reconnect
  <2>2. /\ attemptId \in Attempts /\ attemptId + 1 \in Attempts
        /\ clients \in [Attempts -> {"unborn", "starting", "lost", "ready", "closed"}]
    BY DEF IInv, TypeOK, reconnect
  <2>3. \A b \in Attempts : clients[b] \notin {"starting", "ready"}
    BY <2>1 DEF Open
  <2>4. \A b \in Attempts : b > attemptId + 1 => at[b] = None /\ clients[b] = "unborn"
    BY <2>2 DEF IInv, LaterUnborn
  <2>5. \A b \in Attempts : b # attemptId + 1 /\ at[b] = "starting"
                              => clients[b] \in {"lost", "closed"}
    BY <2>3 DEF IInv, NotReadyYet
  <2> QED BY <1>1, <2>2, <2>3, <2>4, <2>5, ConnectOneKeeps DEF reconnect
<1>2. CASE /\ client # None
           /\ client' = None /\ clients' = close(client)
           /\ at' = [at EXCEPT ![attemptId + 1] = "closing"]
           /\ silent
           /\ UNCHANGED <<status, tools>>
  <2> USE <1>2 DEF reconnect, close, silent
  <2>1. TypeOK'
    BY DEF IInv, TypeOK, OrNone
  <2>2. LaterUnborn' /\ NotReadyYet' /\ OffersListening'
    <3>1. client \in Attempts /\ client <= attemptId
      <4>1. client \in Attempts /\ attemptId \in Attempts
        BY DEF IInv, TypeOK, OrNone
      <4>2. at[attemptId] \in {"starting", None}
        BY <4>1 DEF IInv, TypeOK, OrNone, EntryFollowsAttempt, ClosingEntry, FailingEntry
      <4>3. client = attemptId \/ clients[client] = "ready"
        BY <4>2 DEF IInv, EntryFollowsAttempt, StartingEntry, SettledEntry
      <4> QED BY <4>1, <4>3 DEF IInv, LaterUnborn
    <3> QED BY <3>1 DEF IInv, TypeOK, LaterUnborn, NotReadyYet, OffersListening
  <2>3. EntryFollowsAttempt'
    BY DEF IInv, TypeOK, EntryFollowsAttempt, ClosingEntry, StartingEntry, FailingEntry,
           SettledEntry
  <2>4. NoClientLeftBehind'
    BY DEF IInv, TypeOK, OrNone, NoClientLeftBehind, Open
  <2> QED BY <2>1, <2>2, <2>3, <2>4 DEF IInv
<1> QED BY <1>1, <1>2 DEF reconnect

\* The attempt goes on when that client is closed.
LEMMA ReconnectedKeeps == \A a \in Attempts : IInv /\ reconnected(a) => IInv'
<1> SUFFICES ASSUME NEW a \in Attempts, IInv, reconnected(a) PROVE IInv' OBVIOUS
<1> USE AttemptsAssumption DEF Attempts
<1>1. CASE superseded(a)
  <2> USE <1>1 DEF reconnected, superseded, isCurrent
  <2>1. at' = [at EXCEPT ![a] = None] /\ UNCHANGED <<present, attached, entry, clients, offered>>
    BY DEF entry
  <2>2. TypeOK' /\ LaterUnborn' /\ NotReadyYet' /\ OffersListening' /\ NoClientLeftBehind'
    BY <2>1 DEF IInv, TypeOK, OrNone, LaterUnborn, NotReadyYet, OffersListening,
                NoClientLeftBehind, Open, entry
  <2>3. EntryFollowsAttempt'
    BY <2>1 DEF IInv, TypeOK, EntryFollowsAttempt, ClosingEntry, StartingEntry, FailingEntry,
                SettledEntry, entry
  <2> QED BY <2>2, <2>3 DEF IInv
<1>2. CASE ~ superseded(a) /\ connectOne(a, clients)
  <2>1. present /\ a = attemptId /\ at[attemptId] = "closing"
    BY <1>2 DEF reconnected, superseded, isCurrent
  <2>2. client = None
    BY <2>1 DEF IInv, EntryFollowsAttempt, ClosingEntry
  <2>3. \A b \in Attempts : clients[b] \notin {"starting", "ready"}
    BY <2>1, <2>2 DEF IInv, NoClientLeftBehind, Open
  <2>4. \A b \in Attempts : b > a => at[b] = None /\ clients[b] = "unborn"
    BY <2>1 DEF IInv, LaterUnborn
  <2>5. \A b \in Attempts : b # a /\ at[b] = "starting" => clients[b] \in {"lost", "closed"}
    BY <2>3 DEF IInv, NotReadyYet
  <2>6. /\ clients \in [Attempts -> {"unborn", "starting", "lost", "ready", "closed"}]
        /\ a >= attemptId /\ attemptId' = a /\ UNCHANGED <<present, attached>>
    BY <2>1 DEF IInv, TypeOK, reconnected
  <2> QED BY <1>2, <2>1, <2>3, <2>4, <2>5, <2>6, ConnectOneKeeps
<1> QED BY <1>1, <1>2 DEF reconnected

\* An attempt whose client is up gives it to the entry, or closes it if it is stale.
LEMMA ConnectedKeeps == \A a \in Attempts : IInv /\ connected(a) => IInv'
<1> SUFFICES ASSUME NEW a \in Attempts, IInv, connected(a) PROVE IInv' OBVIOUS
<1> USE AttemptsAssumption DEF Attempts, connected, superseded, isCurrent, close
<1>1. CASE /\ superseded(a) /\ clients' = close(a)
           /\ UNCHANGED <<status, tools, client, offered>>
  <2> USE <1>1
  <2>1. TypeOK'
    BY DEF IInv, TypeOK, OrNone, Status, become
  <2>2. LaterUnborn' /\ NotReadyYet' /\ OffersListening'
    BY DEF IInv, TypeOK, OrNone, LaterUnborn, NotReadyYet, OffersListening
  <2>3. EntryFollowsAttempt'
    BY DEF IInv, TypeOK, OrNone, Status, NotReadyYet, onUnexpectedClose, EntryFollowsAttempt,
           ClosingEntry, StartingEntry, FailingEntry, SettledEntry, become
  <2>4. NoClientLeftBehind'
    BY DEF IInv, TypeOK, OrNone, EntryFollowsAttempt, StartingEntry, NoClientLeftBehind, Open, become
  <2> QED BY <2>1, <2>2, <2>3, <2>4 DEF IInv
<1>2. CASE /\ ~ superseded(a) /\ onUnexpectedClose(a)
           /\ become("failed", None, None)
           /\ clients' = close(a)
           /\ emit("failed", None, None)
  <2> USE <1>2
  <2>0. /\ offered \in OrNone(Attempts \cup {Auth}) /\ OffersListening
        /\ client \in OrNone(Attempts)
    BY DEF IInv, TypeOK
  <2>9. offered' = None
    BY <2>0, EmitTypeOK DEF OrNone, Status
  <2>1. TypeOK'
    BY <2>9 DEF IInv, TypeOK, OrNone, Status, become
  <2>2. LaterUnborn' /\ NotReadyYet' /\ OffersListening'
    BY <2>9 DEF IInv, TypeOK, OrNone, LaterUnborn, NotReadyYet, OffersListening
  <2>3. EntryFollowsAttempt'
    BY <2>9 DEF IInv, TypeOK, OrNone, Status, NotReadyYet, onUnexpectedClose, EntryFollowsAttempt,
           ClosingEntry, StartingEntry, FailingEntry, SettledEntry, become
  <2>4. NoClientLeftBehind'
    BY <2>9 DEF IInv, TypeOK, OrNone, EntryFollowsAttempt, StartingEntry, NoClientLeftBehind, Open, become
  <2> QED BY <2>1, <2>2, <2>3, <2>4 DEF IInv
<1>3. CASE /\ ~ superseded(a) /\ ~ onUnexpectedClose(a)
           /\ become("connected", a, client)
           /\ clients' = [clients EXCEPT ![a] = IF @ = "lost" THEN "lost" ELSE "ready"]
           /\ emit("connected", a, client)
  <2> USE <1>3
  <2>0. /\ offered \in OrNone(Attempts \cup {Auth}) /\ OffersListening
        /\ client \in OrNone(Attempts)
    BY DEF IInv, TypeOK
  <2>9. client = a /\ (attached => offered' = a) /\ (~ attached => offered' = None)
    BY <2>0 DEF IInv, EntryFollowsAttempt, StartingEntry, emit, OffersListening
  <2>1. TypeOK'
    BY <2>9 DEF IInv, TypeOK, OrNone, Status, become
  <2>2. LaterUnborn' /\ NotReadyYet' /\ OffersListening'
    BY <2>9 DEF IInv, TypeOK, OrNone, LaterUnborn, NotReadyYet, OffersListening
  <2>3. EntryFollowsAttempt'
    BY <2>9 DEF IInv, TypeOK, OrNone, Status, NotReadyYet, onUnexpectedClose, EntryFollowsAttempt,
           ClosingEntry, StartingEntry, FailingEntry, SettledEntry, become
  <2>4. NoClientLeftBehind'
    BY <2>9 DEF IInv, TypeOK, OrNone, EntryFollowsAttempt, StartingEntry, NoClientLeftBehind, Open, become
  <2> QED BY <2>1, <2>2, <2>3, <2>4 DEF IInv
<1> QED BY <1>1, <1>2, <1>3 DEF connected


\* A client that did not come up is closed.
LEMMA CatchKeeps == \A a \in Attempts : IInv /\ catch(a) => IInv'
<1> SUFFICES ASSUME NEW a \in Attempts, IInv, catch(a) PROVE IInv' OBVIOUS
<1> USE AttemptsAssumption DEF Attempts, catch, superseded, isCurrent, close
<1>1. CASE /\ superseded(a)
           /\ at' = [at EXCEPT ![a] = None]
           /\ clients' = close(a)
           /\ UNCHANGED <<status, tools, client>>
  <2> USE <1>1
  <2>1. TypeOK'
    BY DEF IInv, TypeOK, OrNone, Status, become
  <2>2. LaterUnborn' /\ NotReadyYet' /\ OffersListening'
    BY DEF IInv, TypeOK, OrNone, LaterUnborn, NotReadyYet, OffersListening
  <2>3. EntryFollowsAttempt'
    BY DEF IInv, TypeOK, OrNone, Status, NotReadyYet, onUnexpectedClose, EntryFollowsAttempt,
           ClosingEntry, StartingEntry, FailingEntry, SettledEntry, become
  <2>4. NoClientLeftBehind'
    BY DEF IInv, TypeOK, OrNone, EntryFollowsAttempt, StartingEntry, NoClientLeftBehind, Open, become
  <2> QED BY <2>1, <2>2, <2>3, <2>4 DEF IInv
<1>2. CASE /\ ~ superseded(a)
           /\ \E outcome \in {"failed", "needs-auth"} : become(outcome, None, None)
           /\ clients' = [clients EXCEPT ![a] = "closed"]
           /\ at' = [at EXCEPT ![a] = "failing"]
  <2> USE <1>2
  <2>1. TypeOK'
    BY DEF IInv, TypeOK, OrNone, Status, become
  <2>2. LaterUnborn' /\ NotReadyYet' /\ OffersListening'
    BY DEF IInv, TypeOK, OrNone, LaterUnborn, NotReadyYet, OffersListening
  <2>3. EntryFollowsAttempt'
    BY DEF IInv, TypeOK, OrNone, Status, NotReadyYet, onUnexpectedClose, EntryFollowsAttempt,
           ClosingEntry, StartingEntry, FailingEntry, SettledEntry, become
  <2>4. NoClientLeftBehind'
    BY DEF IInv, TypeOK, OrNone, EntryFollowsAttempt, StartingEntry, NoClientLeftBehind, Open, become
  <2> QED BY <2>1, <2>2, <2>3, <2>4 DEF IInv
<1> QED BY <1>1, <1>2 DEF catch


\* Then the attempt tells so, if it is still the entry's.
LEMMA FailedKeeps == \A a \in Attempts : IInv /\ failed(a) => IInv'
<1> SUFFICES ASSUME NEW a \in Attempts, IInv, failed(a) PROVE IInv' OBVIOUS
<1> USE AttemptsAssumption DEF Attempts, failed, superseded, isCurrent, close
<1>1. CASE superseded(a) /\ silent
  <2> USE <1>1
  <2> USE DEF silent, entry
  <2>1. TypeOK'
    BY DEF IInv, TypeOK, OrNone, Status, become
  <2>2. LaterUnborn' /\ NotReadyYet' /\ OffersListening'
    BY DEF IInv, TypeOK, OrNone, LaterUnborn, NotReadyYet, OffersListening
  <2>3. EntryFollowsAttempt'
    BY DEF IInv, TypeOK, OrNone, Status, NotReadyYet, onUnexpectedClose, EntryFollowsAttempt,
           ClosingEntry, StartingEntry, FailingEntry, SettledEntry, become
  <2>4. NoClientLeftBehind'
    BY DEF IInv, TypeOK, OrNone, EntryFollowsAttempt, StartingEntry, NoClientLeftBehind, Open, become
  <2> QED BY <2>1, <2>2, <2>3, <2>4 DEF IInv
<1>2. CASE ~ superseded(a) /\ emit(status, tools, client)
  <2> USE <1>2
  <2>0. /\ offered \in OrNone(Attempts \cup {Auth}) /\ OffersListening
        /\ client \in OrNone(Attempts)
    BY DEF IInv, TypeOK
  <2>8. status \in {"failed", "needs-auth"}
    BY DEF IInv, EntryFollowsAttempt, FailingEntry
  <2>9. /\ attached => offered' = (IF status = "needs-auth" THEN Auth ELSE None)
        /\ ~ attached => offered' = None
        /\ status \in {"failed", "needs-auth"} /\ client = None
        /\ UNCHANGED <<present, entry, clients, attached>>
    BY <2>0, <2>8 DEF IInv, EntryFollowsAttempt, FailingEntry, emit, OffersListening
  <2> USE DEF entry
  <2>1. TypeOK'
    BY <2>9 DEF IInv, TypeOK, OrNone, Status, become
  <2>2. LaterUnborn' /\ NotReadyYet' /\ OffersListening'
    BY <2>9 DEF IInv, TypeOK, OrNone, LaterUnborn, NotReadyYet, OffersListening
  <2>3. EntryFollowsAttempt'
    BY <2>9 DEF IInv, TypeOK, OrNone, Status, NotReadyYet, onUnexpectedClose, EntryFollowsAttempt,
           ClosingEntry, StartingEntry, FailingEntry, SettledEntry, become
  <2>4. NoClientLeftBehind'
    BY <2>9 DEF IInv, TypeOK, OrNone, EntryFollowsAttempt, StartingEntry, NoClientLeftBehind, Open, become
  <2> QED BY <2>1, <2>2, <2>3, <2>4 DEF IInv
<1> QED BY <1>1, <1>2 DEF failed


\* A connection that is lost leaves no client behind and withdraws the tools.
LEMMA TransportLostKeeps == \A a \in Attempts : IInv /\ transportLost(a) => IInv'
<1> SUFFICES ASSUME NEW a \in Attempts, IInv, transportLost(a) PROVE IInv' OBVIOUS
<1> USE AttemptsAssumption DEF Attempts, transportLost, superseded, isCurrent, close
<1>1. CASE /\ clients[a] = "starting" /\ at[a] = "starting"
           /\ clients' = [clients EXCEPT ![a] = "lost"]
           /\ UNCHANGED <<present, entry, at, attached, offered>>
  <2> USE <1>1
  <2> USE DEF entry
  <2>1. TypeOK'
    BY DEF IInv, TypeOK, OrNone, Status, become
  <2>2. LaterUnborn' /\ NotReadyYet' /\ OffersListening'
    BY DEF IInv, TypeOK, OrNone, LaterUnborn, NotReadyYet, OffersListening
  <2>3. EntryFollowsAttempt'
    BY DEF IInv, TypeOK, OrNone, Status, NotReadyYet, onUnexpectedClose, EntryFollowsAttempt,
           ClosingEntry, StartingEntry, FailingEntry, SettledEntry, become
  <2>4. NoClientLeftBehind'
    BY DEF IInv, TypeOK, OrNone, EntryFollowsAttempt, StartingEntry, NoClientLeftBehind, Open, become
  <2> QED BY <2>1, <2>2, <2>3, <2>4 DEF IInv
<1>2. CASE /\ clients[a] = "ready" /\ isCurrent(a) /\ client = a
           /\ become("failed", None, None)
           /\ clients' = close(a)
           /\ emit("failed", None, None)
           /\ UNCHANGED <<present, attemptId, at, attached>>
  <2> USE <1>2
  <2>0. /\ offered \in OrNone(Attempts \cup {Auth}) /\ OffersListening
        /\ client \in OrNone(Attempts)
    BY DEF IInv, TypeOK
  <2>9. offered' = None
    BY <2>0, EmitTypeOK DEF OrNone, Status
  <2>1. TypeOK'
    BY <2>9 DEF IInv, TypeOK, OrNone, Status, become
  <2>2. LaterUnborn' /\ NotReadyYet' /\ OffersListening'
    BY <2>9 DEF IInv, TypeOK, OrNone, LaterUnborn, NotReadyYet, OffersListening
  <2>3. EntryFollowsAttempt'
    BY <2>9 DEF IInv, TypeOK, OrNone, Status, NotReadyYet, onUnexpectedClose, EntryFollowsAttempt,
           ClosingEntry, StartingEntry, FailingEntry, SettledEntry, become
  <2>4. NoClientLeftBehind'
    BY <2>9 DEF IInv, TypeOK, OrNone, EntryFollowsAttempt, StartingEntry, NoClientLeftBehind, Open, become
  <2> QED BY <2>1, <2>2, <2>3, <2>4 DEF IInv
<1> QED BY <1>1, <1>2 DEF transportLost

\* A shutdown takes the client out of the entry before it closes it.
LEMMA ShutdownKeeps == IInv /\ shutdown => IInv'
<1> SUFFICES ASSUME IInv, shutdown PROVE IInv' OBVIOUS
<1> USE AttemptsAssumption DEF Attempts, shutdown, close, IInv
<1>1. TypeOK'
  BY DEF TypeOK, OrNone
<1>2. LaterUnborn' /\ NotReadyYet' /\ OffersListening'
  <2>1. client \in Attempts => client <= attemptId
    BY DEF TypeOK, OrNone, EntryFollowsAttempt, ClosingEntry, FailingEntry, StartingEntry,
           SettledEntry, LaterUnborn
  <2> QED BY <2>1 DEF TypeOK, OrNone, LaterUnborn, NotReadyYet, OffersListening
<1>3. EntryFollowsAttempt'
  BY DEF EntryFollowsAttempt
<1>4. NoClientLeftBehind'
  BY DEF TypeOK, OrNone, NoClientLeftBehind, Open
<1> QED BY <1>1, <1>2, <1>3, <1>4

-----------------------------------------------------------------------------
\* The inductive invariant: what the entry holds follows from what its latest
\* attempt awaits (connection-manager.ts, isCurrent), and with it the three
\* safety properties, for any number of attempts.
THEOREM McpInvariant == Spec => []IInv
<1>1. IInv /\ [Next]_vars => IInv'
  <2> SUFFICES ASSUME IInv, [Next]_vars PROVE IInv' OBVIOUS
  <2>1. CASE attachMcpTools BY <2>1, AttachKeeps
  <2>2. CASE reconnect BY <2>2, ReconnectKeeps
  <2>3. CASE shutdown BY <2>3, ShutdownKeeps
  <2>4. ASSUME NEW a \in Attempts, reconnected(a) PROVE IInv' BY <2>4, ReconnectedKeeps
  <2>5. ASSUME NEW a \in Attempts, connected(a) PROVE IInv' BY <2>5, ConnectedKeeps
  <2>6. ASSUME NEW a \in Attempts, refused(a) \/ startupEnds(a) PROVE IInv'
    BY <2>6, CatchKeeps DEF refused, startupEnds
  <2>7. ASSUME NEW a \in Attempts, failed(a) PROVE IInv' BY <2>7, FailedKeeps
  <2>8. ASSUME NEW a \in Attempts, transportLost(a) PROVE IInv' BY <2>8, TransportLostKeeps
  <2>9. CASE UNCHANGED vars BY <2>9, StutterIInv
  <2> QED BY <2>1, <2>2, <2>3, <2>4, <2>5, <2>6, <2>7, <2>8, <2>9 DEF Next
<1> QED BY <1>1, InitIInv, PTL DEF Spec

\* Every variable keeps its type, and the entry has tools exactly when it is
\* connected.
THEOREM McpTypeCorrect == Spec => []TypeOK
<1>1. IInv => TypeOK BY DEF IInv
<1> QED BY <1>1, McpInvariant, PTL

\* However attempts, timeouts, lost transports and the shutdown overlap, no open
\* client (no child process) is out of the entry's reach.
THEOREM NoClientLeaks == Spec => []NoClientLeftBehind
<1>1. IInv => NoClientLeftBehind BY DEF IInv
<1> QED BY <1>1, McpInvariant, PTL

\* A tool the model can call has a connected client behind it until the next
\* attempt closes that client.
THEOREM OfferedToolsWork == Spec => []OfferedIsLive
<1>1. IInv => OfferedIsLive
  <2> SUFFICES ASSUME IInv, offered \in Attempts, present
               PROVE  \/ offered = client /\ clients[client] = "ready"
                      \/ at[attemptId] = "closing"
    BY DEF OfferedIsLive
  <2> USE AttemptsAssumption
  <2>1. attached /\ attemptId \in Attempts
    BY DEF IInv, TypeOK, OffersListening
  <2>2. at[attemptId] \in {None, "closing"}
    BY <2>1 DEF IInv, TypeOK, OrNone, EntryFollowsAttempt, StartingEntry, FailingEntry
  <2>3. CASE at[attemptId] = None
    BY <2>1, <2>3 DEF IInv, EntryFollowsAttempt, SettledEntry
  <2> QED BY <2>2, <2>3
<1> QED BY <1>1, McpInvariant, PTL

\* When nothing is under way, status, client and offered tools agree: a late
\* answer of an attempt that was superseded has changed nothing.
THEOREM SettledTruth == Spec => []SettledIsTrue
<1>1. IInv => SettledIsTrue
  <2> SUFFICES ASSUME IInv, present, \A a \in Attempts : at[a] = None
               PROVE  SettledEntry /\ at[attemptId] = None
    BY DEF SettledIsTrue, SettledEntry
  <2>1. at[attemptId] = None
    BY DEF IInv, TypeOK
  <2> QED BY <2>1 DEF IInv, EntryFollowsAttempt
<1> QED BY <1>1, McpInvariant, PTL

=============================================================================
