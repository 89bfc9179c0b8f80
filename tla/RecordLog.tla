------------------------------ MODULE RecordLog ------------------------------
(***************************************************************************)
(* The records of an agent in wire.jsonl                                   *)
(* (packages/agent-core/src/agent/records: FileSystemAgentRecordPersistence*)
(* and AgentRecords.replay).                                               *)
(*                                                                         *)
(* append puts a record into a queue that one drain at a time empties, a   *)
(* batch after the other; an error stops the log for good.  After the      *)
(* process died, replay rebuilds the agent from the lines of the file, and *)
(* rewrites the file when the records were of an older version.            *)
(*                                                                         *)
(* Records are numbered in the order they are logged.  A write that is cut *)
(* off, by a crash or by an error, leaves the first lines of its batch; if *)
(* TornWrites, it may also leave a part of the next line.                  *)
(***************************************************************************)
EXTENDS Naturals, Sequences, SequencesExt

CONSTANTS
    MaxRecords,    \* how many records are logged (a bound)
    MaxCrashes,    \* how often the process dies (a bound)
    TornWrites,    \* whether a line may be cut in two
    Migrates       \* whether a replay may find an older version

ASSUME BoundsAssumption ==
    MaxRecords \in Nat /\ MaxCrashes \in Nat /\ TornWrites \in BOOLEAN /\ Migrates \in BOOLEAN

Corrupt == 0             \* a line that is no record
NoTail == 0              \* the file ends with a newline
Fragment == MaxRecords + 1   \* it ends with a part of a record

VARIABLES
    phase,         \* "replay", "migrate" (its rewrite is being flushed), "live", "unreadable"
    logged,        \* the records the agent's state stands for
    next,          \* the number of the next record
    pending,       \* pendingRecords
    shouldClear,
    drain,         \* where the drain is: flushPromise is set unless "idle"
    batch, clears, \* drainBatch's batch and its shouldClear
    error,
    lines, tail,   \* the file: its lines, and what follows the last newline
    synced,        \* records whose batch was synced (no variable of the code)
    crashes

memory == <<phase, logged, pending, shouldClear, drain, batch, clears, error>>
file == <<lines, tail>>
vars == <<memory, next, file, synced, crashes>>

Record == 1 .. MaxRecords

TypeOK ==
    /\ phase \in {"replay", "migrate", "live", "unreadable"}
    /\ logged \in Seq(Record) /\ pending \in Seq(Record) /\ batch \in Seq(Record)
    /\ next \in 1 .. MaxRecords + 1
    /\ drain \in {"idle", "offload", "write", "ending"}
    /\ shouldClear \in BOOLEAN /\ clears \in BOOLEAN /\ error \in BOOLEAN
    /\ lines \in Seq(Record \cup {Corrupt})
    /\ tail \in Record \cup {NoTail, Fragment}
    /\ synced \subseteq Record
    /\ crashes \in 0 .. MaxCrashes

Init ==
    /\ phase = "replay" /\ logged = <<>> /\ next = 1
    /\ pending = <<>> /\ shouldClear = FALSE
    /\ drain = "idle" /\ batch = <<>> /\ clears = FALSE /\ error = FALSE
    /\ lines = <<>> /\ tail = NoTail
    /\ synced = {} /\ crashes = 0

-----------------------------------------------------------------------------
\* What a file holds after a write.

File == [lines |-> lines, tail |-> tail]
Becomes(f) == lines' = f.lines /\ tail' = f.tail

\* The first line that is appended continues what has no newline.
AddLines(f, records) ==
    IF records = <<>> THEN f
    ELSE [lines |-> f.lines \o (IF f.tail = NoTail THEN records ELSE <<Corrupt>> \o Tail(records)),
          tail |-> NoTail]

\* A part of the line of r; all of it but the newline is still a record.
AddPart(f, r) ==
    {[f EXCEPT !.tail = Fragment]} \cup (IF f.tail = NoTail THEN {[f EXCEPT !.tail = r]} ELSE {})

CutOff(f, records) ==
    UNION { LET g == AddLines(f, SubSeq(records, 1, n))
            IN  {g} \cup (IF TornWrites THEN AddPart(g, records[n + 1]) ELSE {})
          : n \in 0 .. Len(records) - 1 }

-----------------------------------------------------------------------------
\* The queue and its drain.

\* drainBatch up to its first await: it takes all that is pending.
TakeBatch(queue, clear) ==
    /\ batch' = queue /\ pending' = <<>>
    /\ clears' = clear /\ shouldClear' = FALSE
    /\ drain' = "offload"

\* scheduleFlush: a drain that is under way is relied upon.
Enqueue(queue, clear) ==
    IF drain = "idle"
      THEN TakeBatch(queue, clear)
      ELSE pending' = queue /\ shouldClear' = clear /\ UNCHANGED <<drain, batch, clears>>

append ==
    /\ phase = "live" /\ ~ error /\ next <= MaxRecords
    /\ logged' = Append(logged, next)
    /\ next' = next + 1
    /\ Enqueue(Append(pending, next), shouldClear)
    /\ UNCHANGED <<phase, error, file, synced, crashes>>

\* Mutant: the file is always opened for writing from its beginning.
Open_Truncates ==
    /\ drain = "offload"
    /\ drain' = "write"
    /\ Becomes([lines |-> <<>>, tail |-> NoTail])
    /\ UNCHANGED <<phase, logged, pending, shouldClear, batch, clears, error, next, synced, crashes>>

\* The file is opened to append, or emptied.
Open ==
    /\ drain = "offload"
    /\ drain' = "write"
    /\ IF clears THEN Becomes([lines |-> <<>>, tail |-> NoTail]) ELSE UNCHANGED file
    /\ UNCHANGED <<phase, logged, pending, shouldClear, batch, clears, error, next, synced, crashes>>

\* The batch is written and synced; the drain goes on while there is more.
Written ==
    /\ drain = "write"
    /\ Becomes(AddLines(File, batch))
    /\ synced' = synced \cup Range(batch)
    /\ IF shouldClear \/ pending # <<>>
         THEN TakeBatch(pending, shouldClear)
         ELSE drain' = "ending" /\ batch' = <<>> /\ UNCHANGED <<pending, shouldClear, clears>>
    /\ UNCHANGED <<phase, logged, error, next, crashes>>

\* Mutant: an error is reported, but the log goes on.
Fails_NotSticky ==
    /\ drain \in {"offload", "write"}
    /\ drain' = "ending" /\ batch' = <<>>
    /\ IF drain = "write" THEN \E f \in CutOff(File, batch) : Becomes(f) ELSE UNCHANGED file
    /\ UNCHANGED <<phase, logged, pending, shouldClear, clears, error, next, synced, crashes>>

\* Offloading, opening, writing or syncing fails: no record is accepted any more.
Fails ==
    /\ drain \in {"offload", "write"}
    /\ drain' = "ending" /\ batch' = <<>>
    /\ error' = TRUE
    /\ IF drain = "write" THEN \E f \in CutOff(File, batch) : Becomes(f) ELSE UNCHANGED file
    /\ UNCHANGED <<phase, logged, pending, shouldClear, clears, next, synced, crashes>>

\* Mutant: what was appended after the drain's last look is left behind.
Finally_NoReschedule ==
    /\ drain = "ending"
    /\ drain' = "idle"
    /\ UNCHANGED <<pending, shouldClear, batch, clears>>
    /\ UNCHANGED <<phase, logged, error, next, file, synced, crashes>>

\* ensureFlush's finally block: flushPromise is given up, and a new drain begins
\* for what was appended since the last one looked.
Finally ==
    /\ drain = "ending"
    /\ IF ~ error /\ (shouldClear \/ pending # <<>>)
         THEN TakeBatch(pending, shouldClear)
         ELSE drain' = "idle" /\ UNCHANGED <<pending, shouldClear, batch, clears>>
    /\ UNCHANGED <<phase, logged, error, next, file, synced, crashes>>

-----------------------------------------------------------------------------
\* Dying and replaying.

Crash ==
    /\ crashes < MaxCrashes
    /\ crashes' = crashes + 1
    /\ IF drain = "write"
         THEN \E f \in CutOff(File, batch) \cup {AddLines(File, batch)} : Becomes(f)
         ELSE UNCHANGED file
    /\ phase' = "replay" /\ logged' = <<>>
    /\ pending' = <<>> /\ shouldClear' = FALSE
    /\ drain' = "idle" /\ batch' = <<>> /\ clears' = FALSE /\ error' = FALSE
    /\ UNCHANGED <<next, synced>>

\* What read() yields: a last line that is no record is passed over.
Readable == lines \o (IF tail \in Record THEN <<tail>> ELSE <<>>)

ReplayMigrates ==
    /\ phase' = "migrate"
    /\ Enqueue(Readable, TRUE)

replay ==
    /\ phase = "replay"
    /\ IF Corrupt \in Range(lines)
         THEN phase' = "unreadable" /\ UNCHANGED <<logged, pending, shouldClear, drain, batch, clears>>
         ELSE /\ logged' = Readable
              /\ \/ phase' = "live" /\ UNCHANGED <<pending, shouldClear, drain, batch, clears>>
                 \/ Migrates /\ ReplayMigrates
    /\ UNCHANGED <<error, next, file, synced, crashes>>

\* replay's flush returns; if it throws the session is not opened.
Migrated ==
    /\ phase = "migrate" /\ drain = "idle" /\ ~ error
    /\ phase' = "live"
    /\ UNCHANGED <<logged, pending, shouldClear, drain, batch, clears, error, next, file, synced, crashes>>

-----------------------------------------------------------------------------
Drain == Open \/ Written \/ Fails \/ Finally
Next == append \/ Drain \/ Crash \/ replay \/ Migrated

Spec == Init /\ [][Next]_vars

\* Files are written or fail.
FairSpec == Spec /\ WF_vars(Drain)

-----------------------------------------------------------------------------
\* The file is a beginning of what was logged: no record twice, none out of
\* order, and none missing in the middle, whatever was cut off or failed.
LogIsPrefix ==
    phase \in {"live", "migrate"} /\ Corrupt \notin Range(lines) => IsPrefix(Readable, logged)

\* What was once synced stays there for every later replay: no crash and no
\* failing write takes it away, except while a migration rewrites the file.
SyncedIsReadable ==
    [][synced \subseteq Range(Readable) /\ ~ clears => synced' \subseteq Range(Readable')]_vars

\* "Everything before is still well-formed": whatever a crash cut off, every
\* later replay reads the log.
AlwaysReadable == phase # "unreadable"

\* Each record that waits is written, unless the log fails or the process dies.
EverythingWritten == (pending # <<>>) ~> (pending = <<>> \/ error)

=============================================================================
