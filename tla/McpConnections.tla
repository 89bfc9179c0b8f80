---------------------------- MODULE McpConnections ----------------------------
(***************************************************************************)
(* The connection of one configured MCP server (packages/mcp-host/src/     *)
(* connection-manager.ts), the clients that are opened for it (client-     *)
(* stdio.ts, client-http.ts) and the tools that an agent's tool manager    *)
(* offers from it (packages/agent-core/src/agent/tool/index.ts).           *)
(*                                                                         *)
(* Servers do not share state, so one is enough; tools of two servers that *)
(* get the same qualified name are left out.  An attempt to connect has a  *)
(* number; it opens at most one client, which has the same number.  What   *)
(* an attempt finds behind an await it must not use when a later attempt   *)
(* or the shutdown has taken the entry over (isCurrent).                   *)
(***************************************************************************)
EXTENDS Integers, FiniteSets

CONSTANTS
    None, Auth,    \* Auth: the tool that lets the model start the OAuth flow
    MaxAttempts    \* how many attempts are made (a bound)

Attempts == 1 .. MaxAttempts

ASSUME AttemptsAssumption ==
    /\ MaxAttempts \in Nat \ {0}
    /\ None \notin Attempts /\ Auth \notin Attempts /\ None # Auth
    /\ None \notin {"closing", "starting", "failing"}

VARIABLES
    present,       \* the entry is in the manager's map
    attemptId,     \* its latest attempt
    status, tools, \* tools: whose tools the entry holds, or None
    client,        \* the entry's client, or None
    clients,       \* clients[a]: "unborn", "starting", "lost" (the transport gave up while
                   \* the tools were listed), "ready", "closed"
    at,            \* at[a]: what attempt a awaits: "closing" its predecessor's client,
                   \* "starting" its own, "failing" (the close of its own), or None
    attached,      \* the tool manager listens
    offered        \* what it offers from the server: an attempt's tools, Auth or None

entry == <<attemptId, status, tools, client>>
vars == <<present, entry, clients, at, attached, offered>>

Status == {"pending", "connected", "failed", "needs-auth"}
OrNone(S) == S \cup {None}

TypeOK ==
    /\ present \in BOOLEAN /\ attached \in BOOLEAN
    /\ attemptId \in Attempts /\ status \in Status
    /\ tools \in OrNone(Attempts) /\ client \in OrNone(Attempts)
    /\ clients \in [Attempts -> {"unborn", "starting", "lost", "ready", "closed"}]
    /\ at \in [Attempts -> OrNone({"closing", "starting", "failing"})]
    /\ offered \in OrNone(Attempts \cup {Auth})
    /\ status = "connected" <=> tools # None

\* connectAll, in the session's constructor: the first attempt has begun.
Init ==
    /\ present = TRUE /\ attemptId = 1 /\ status = "pending" /\ tools = None
    /\ client = 1
    /\ clients = [a \in Attempts |-> IF a = 1 THEN "starting" ELSE "unborn"]
    /\ at = [a \in Attempts |-> IF a = 1 THEN "starting" ELSE None]
    /\ attached = FALSE /\ offered = None

-----------------------------------------------------------------------------

isCurrent(a) == present /\ attemptId = a

\* Mutant: only the entry's presence is looked at.
superseded_OnlyShutdown(a) == ~present

superseded(a) == ~isCurrent(a)

\* What the listener registers for a status: resolved answers only while the
\* entry has a client.
emit(newStatus, newTools, newClient) ==
    offered' = IF ~attached THEN offered
               ELSE CASE newStatus = "connected" ->
                            IF newTools # None /\ newClient # None THEN newClient ELSE offered
                      [] newStatus = "needs-auth" -> Auth
                      [] newStatus \in {"failed", "pending"} -> None

silent == UNCHANGED offered

become(newStatus, newTools, newClient) ==
    status' = newStatus /\ tools' = newTools /\ client' = newClient

close(c) == IF c = None THEN clients ELSE [clients EXCEPT ![c] = "closed"]

\* The agent is created: it takes what is there and listens from now on.
attachMcpTools ==
    /\ ~attached /\ attached' = TRUE
    /\ offered' = CASE present /\ status = "connected" /\ client # None -> client
                    [] present /\ status = "needs-auth" -> Auth
                    [] OTHER -> None
    /\ UNCHANGED <<present, entry, clients, at>>

\* connectOne, up to its first await.  The client cannot be made when its
\* configuration is bad: then nothing is awaited.
connectOne(a, closed) ==
    \/ /\ become("pending", None, a)
       /\ clients' = [closed EXCEPT ![a] = "starting"]
       /\ at' = [at EXCEPT ![a] = "starting"]
       /\ emit("pending", None, None)
    \/ /\ become("failed", None, None)
       /\ clients' = closed
       /\ at' = [at EXCEPT ![a] = None]
       /\ emit("failed", None, None)

\* Mutant: the client of the attempt before is left to itself.
reconnect_NotClosed ==
    /\ present /\ attemptId < MaxAttempts
    /\ attemptId' = attemptId + 1
    /\ connectOne(attemptId + 1, clients)
    /\ UNCHANGED <<present, attached>>

\* reconnect, by the user or by the OAuth tool: the entry's client is closed
\* first, while status and tools are still the old ones.
reconnect ==
    /\ present /\ attemptId < MaxAttempts
    /\ attemptId' = attemptId + 1
    /\ UNCHANGED <<present, attached>>
    /\ \/ /\ client = None
          /\ connectOne(attemptId + 1, clients)
       \/ /\ client # None
          /\ client' = None /\ clients' = close(client)
          /\ at' = [at EXCEPT ![attemptId + 1] = "closing"]
          /\ silent
          /\ UNCHANGED <<status, tools>>

\* The close has settled.
reconnected(a) ==
    /\ at[a] = "closing"
    /\ UNCHANGED <<present, attemptId, attached>>
    /\ \/ /\ superseded(a)
          /\ at' = [at EXCEPT ![a] = None]
          /\ UNCHANGED <<status, tools, client, clients, offered>>
       \/ /\ ~superseded(a)
          /\ connectOne(a, clients)

\* Mutant: a close that was noted before anyone listened is forgotten.
onUnexpectedClose_NotReplayed(a) == FALSE

\* The listener is told at once of a transport that has already given up.
onUnexpectedClose(a) == clients[a] = "lost"

\* The tools are listed.
connected(a) ==
    /\ at[a] = "starting" /\ clients[a] \in {"starting", "lost"}
    /\ at' = [at EXCEPT ![a] = None]
    /\ UNCHANGED <<present, attemptId, attached>>
    /\ \/ /\ superseded(a)
          /\ clients' = close(a)
          /\ UNCHANGED <<status, tools, client, offered>>
       \/ /\ ~superseded(a) /\ onUnexpectedClose(a)
          /\ become("failed", None, None)
          /\ clients' = close(a)
          /\ emit("failed", None, None)
       \/ /\ ~superseded(a) /\ ~onUnexpectedClose(a)
          /\ become("connected", a, client)
          /\ clients' = [clients EXCEPT ![a] = IF @ = "lost" THEN "lost" ELSE "ready"]
          /\ emit("connected", a, client)

\* An attempt whose start was refused, or whose client was closed under it, or
\* whose time is up (then the client is closed at once).
catch(a) ==
    /\ at[a] = "starting"
    /\ UNCHANGED <<present, attemptId, attached, offered>>
    /\ \/ /\ superseded(a)
          /\ at' = [at EXCEPT ![a] = None]
          /\ clients' = close(a)
          /\ UNCHANGED <<status, tools, client>>
       \/ /\ ~superseded(a)
          /\ \E outcome \in {"failed", "needs-auth"} : become(outcome, None, None)
          /\ clients' = [clients EXCEPT ![a] = "closed"]
          /\ at' = [at EXCEPT ![a] = "failing"]

refused(a) == clients[a] # "closed" /\ catch(a)

\* Mutant: a server that does not answer is waited for.
startupEnds_NoTimeout(a) == clients[a] = "closed" /\ catch(a)

\* The timer of withTimeout, or the close by another attempt or the shutdown.
startupEnds(a) == catch(a)

\* The failed attempt's client is closed: the failure is told.
failed(a) ==
    /\ at[a] = "failing"
    /\ at' = [at EXCEPT ![a] = None]
    /\ IF superseded(a) THEN silent ELSE emit(status, tools, client)
    /\ UNCHANGED <<present, entry, clients, attached>>

\* The transport goes away by itself: before the tools are listed it is noted
\* (an HTTP client), afterwards the entry's listener is called.  A client that was
\* closed tells nothing.
transportLost(a) ==
    \/ /\ clients[a] = "starting" /\ at[a] = "starting"
       /\ clients' = [clients EXCEPT ![a] = "lost"]
       /\ UNCHANGED <<present, entry, at, attached, offered>>
    \/ /\ clients[a] = "ready" /\ isCurrent(a) /\ client = a
       /\ become("failed", None, None)
       /\ clients' = close(a)
       /\ emit("failed", None, None)
       /\ UNCHANGED <<present, attemptId, at, attached>>

\* The end of the session.  Nobody is told.
shutdown ==
    /\ present /\ present' = FALSE
    /\ client' = None /\ clients' = close(client)
    /\ UNCHANGED <<attemptId, status, tools, at, attached, offered>>

Next ==
    \/ attachMcpTools \/ reconnect \/ shutdown
    \/ \E a \in Attempts :
          reconnected(a) \/ connected(a) \/ refused(a) \/ startupEnds(a) \/ failed(a)
             \/ transportLost(a)

Spec == Init /\ [][Next]_vars

\* A close settles, and the timer of an attempt runs out.  The server owes nothing.
FairSpec ==
    /\ Spec
    /\ \A a \in Attempts : WF_vars(reconnected(a)) /\ WF_vars(startupEnds(a)) /\ WF_vars(failed(a))

-----------------------------------------------------------------------------
\* Properties.

Open == {a \in Attempts : clients[a] \in {"starting", "ready"}}

\* No client is left behind: whatever attempts overlap, a client (a child
\* process, for stdio) that is open is the one the entry holds, which the next
\* attempt or the shutdown closes.
NoClientLeftBehind ==
    Open \subseteq IF present THEN {client} ELSE {}

\* A tool the model can call has a client behind it that is connected, except
\* while the next attempt is closing it and when the session is over.
OfferedIsLive ==
    offered \in Attempts /\ present =>
        \/ offered = client /\ clients[client] = "ready"
        \/ at[attemptId] = "closing"

\* When nothing is under way, the status that is shown is true, and the tool
\* manager offers what the status says: late answers of old attempts and events
\* of old clients have changed nothing.
SettledIsTrue ==
    present /\ (\A a \in Attempts : at[a] = None) =>
        /\ status # "pending"
        /\ status = "connected" <=> client # None
        /\ client # None => clients[client] = "ready"
        /\ attached => offered = CASE status = "connected" -> client
                                   [] status = "needs-auth" -> Auth
                                   [] OTHER -> None

\* Every attempt ends, even when the server never answers: so the prompt that
\* waits for the initial load, and the OAuth tool that waits for its reconnect,
\* go on.
AttemptsEnd ==
    \A a \in Attempts : at[a] # None ~> at[a] = None

=============================================================================
