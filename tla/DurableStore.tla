----------------------------- MODULE DurableStore -----------------------------
(***************************************************************************)
(* The durable task stores and the idempotent tool calls that rely on them.*)
(*                                                                         *)
(* A store answers reads from a copy in memory.  A write changes the copy, *)
(* then awaits the database: the parts of the task (its state, its nodes)  *)
(* are saved as one snapshot of the copy, any other record (a retry job,   *)
(* the cached result of a tool) on its own.  Postgres saves over a pool of *)
(* connections, which keep no order among themselves; Redis saves over one *)
(* connection, which does.  A restart reads the copy back.                 *)
(*                                                                         *)
(* Every write gets a version of its own, so a part is the version it had  *)
(* last.  Version 0 is a part or a record that was never written.          *)
(***************************************************************************)
EXTENDS Integers, Sequences

CONSTANTS
  Drivers,         \* "postgres" and/or "redis"
  Clients,         \* flows of the runtime, each with one call in progress
  Parts,           \* what a snapshot of the task is made of: its state, its nodes
  TaskPart,        \* the part kept in the row of the task
  Jobs,            \* records written one at a time: retry jobs and their like
  Keys,            \* idempotency keys of tool calls
  MaxWrites, MaxCalls, MaxFailures, MaxCrashes,   \* bounds on the environment
  None

ASSUME StoreAssumption ==
  /\ Drivers \subseteq {"postgres", "redis"}
  /\ TaskPart \in Parts /\ None \notin Clients
  /\ Parts \cap Jobs = {} /\ Parts \cap Keys = {} /\ Jobs \cap Keys = {}

Records == Jobs \cup Keys
Items   == Parts \cup Records

VARIABLES
  driver,
  memory,                   \* the copy of the running process
  \* the database
  taskRow, nodeRows,        \* the snapshots that the rows of the task, of its nodes come from
  records,                  \* the rows of single records
  index,                    \* Redis: the records named in the index sets
  rowLock,                  \* Postgres: the client whose transaction holds the task's row
  wire,                     \* Redis: the clients whose commands are under way, in order
  \* the calls in progress
  pc, item, version, snapshot,
  \* history and bounds
  clock, calls, failures, crashes,
  acked,                    \* the last version of each item that a call reported as saved
  overlapped, settled

database == <<taskRow, nodeRows, records, index>>
callVars == <<pc, item, version, snapshot>>
history  == <<clock, calls, failures, crashes, acked, overlapped, settled>>
vars     == <<driver, memory, database, rowLock, wire, callVars, history>>

Pc == {"idle", "executing", "capture", "begin", "nodes", "commit", "upsert",
       "set", "stored", "indexing", "reply"}

Blank == [p \in Parts |-> 0]

Init ==
  /\ driver \in Drivers
  /\ memory = [i \in Items |-> 0]
  /\ taskRow = Blank /\ nodeRows = Blank
  /\ records = [r \in Records |-> 0]
  /\ index = {} /\ rowLock = None /\ wire = <<>>
  /\ pc = [c \in Clients |-> "idle"]
  /\ item = [c \in Clients |-> None]
  /\ version = [c \in Clients |-> 0]
  /\ snapshot = [c \in Clients |-> Blank]
  /\ clock = 0 /\ calls = [k \in Keys |-> 0] /\ failures = 0 /\ crashes = 0
  /\ acked = [i \in Items |-> 0]
  /\ overlapped = [c \in Clients |-> FALSE] /\ settled = {}

-----------------------------------------------------------------------------
Created == memory[TaskPart] # 0

Goto(c, p) == pc' = [pc EXCEPT ![c] = p]

\* The call returns or throws; nothing of it is left.
Ends(c) ==
  /\ Goto(c, "idle")
  /\ item' = [item EXCEPT ![c] = None]
  /\ version' = [version EXCEPT ![c] = 0]
  /\ snapshot' = [snapshot EXCEPT ![c] = Blank]
  /\ overlapped' = [overlapped EXCEPT ![c] = FALSE]

\* The first wait of a write of one record; its value is the one given to the call.
SaveRecord(c) ==
  IF driver = "postgres"
    THEN Goto(c, "upsert") /\ UNCHANGED wire
    ELSE Goto(c, "set") /\ wire' = Append(wire, c)

\* Variant: the snapshot is saved under no task id.
UnitUnnamed(i) == IF i \in Parts THEN None ELSE i

\* What is saved at once, and named in an index under Redis: the task, or one record.
Unit(i) == IF i \in Parts THEN TaskPart ELSE i

Saving(c) == pc[c] \notin {"idle", "executing"}

\* The saves in progress of the unit of i, which overlap the one that c begins.
OverlappingSaves(c, i) ==
  {d \in Clients \ {c} : Saving(d) /\ Unit(item[d]) = Unit(i)}

Begin(c, i) ==
  /\ item' = [item EXCEPT ![c] = i]
  /\ version' = [version EXCEPT ![c] = clock + 1]
  /\ clock' = clock + 1
  /\ overlapped' = [d \in Clients |->
       IF d = c THEN OverlappingSaves(c, i) # {}
       ELSE overlapped[d] \/ d \in OverlappingSaves(c, i)]
  /\ settled' = settled \ {Unit(i)}

\* createTask: the task and all its nodes, for an id that is new.
CreateTask(c) ==
  /\ pc[c] = "idle" /\ ~Created /\ clock < MaxWrites
  /\ memory' = [i \in Items |-> IF i \in Parts THEN clock + 1 ELSE memory[i]]
  /\ Begin(c, TaskPart) /\ Goto(c, "capture")
  /\ UNCHANGED <<driver, database, rowLock, wire, snapshot, calls, failures, crashes, acked>>

\* updateTaskState, updateNodeState and attachPolicyDecision
UpdatePart(c, p) ==
  /\ pc[c] = "idle" /\ Created /\ clock < MaxWrites
  /\ memory' = [memory EXCEPT ![p] = clock + 1]
  /\ Begin(c, p) /\ Goto(c, "capture")
  /\ UNCHANGED <<driver, database, rowLock, wire, snapshot, calls, failures, crashes, acked>>

\* upsertRetryJob, updateRetryJob, and the upserts of every other record
UpsertRecord(c, r) ==
  /\ pc[c] = "idle" /\ clock < MaxWrites
  /\ memory' = [memory EXCEPT ![r] = clock + 1]
  /\ Begin(c, r) /\ SaveRecord(c)
  /\ UNCHANGED <<driver, database, rowLock, snapshot, calls, failures, crashes, acked>>

-----------------------------------------------------------------------------
(* runToolExecutor for a tool node that is declared idempotent              *)

\* Variant: the cache is not consulted.
ExecuteToolUncached(c, k) ==
  /\ pc[c] = "idle" /\ calls[k] < MaxCalls
  /\ calls' = [calls EXCEPT ![k] = @ + 1]
  /\ item' = [item EXCEPT ![c] = k] /\ Goto(c, "executing")
  /\ UNCHANGED <<driver, memory, database, rowLock, wire, version, snapshot,
                 clock, failures, crashes, acked, overlapped, settled>>

\* getIdempotency finds nothing: the tool is executed.  (A hit answers at once.)
ExecuteTool(c, k) ==
  /\ pc[c] = "idle" /\ memory[k] = 0 /\ calls[k] < MaxCalls
  /\ calls' = [calls EXCEPT ![k] = @ + 1]
  /\ item' = [item EXCEPT ![c] = k] /\ Goto(c, "executing")
  /\ UNCHANGED <<driver, memory, database, rowLock, wire, version, snapshot,
                 clock, failures, crashes, acked, overlapped, settled>>

\* setIdempotency of the sanitized result, whatever the cache holds by now
ToolAnswers(c) ==
  /\ pc[c] = "executing" /\ clock < MaxWrites
  /\ memory' = [memory EXCEPT ![item[c]] = clock + 1]
  /\ Begin(c, item[c]) /\ SaveRecord(c)
  /\ UNCHANGED <<driver, database, rowLock, snapshot, calls, failures, crashes, acked>>

\* The tool fails, or loses the race against its timeout; what it answers then is dropped.
ToolFails(c) ==
  /\ pc[c] = "executing" /\ Ends(c)
  /\ UNCHANGED <<driver, memory, database, rowLock, wire,
                 clock, calls, failures, crashes, acked, settled>>

-----------------------------------------------------------------------------
(* persistSnapshot and the other persist functions                          *)

KeepsCall == UNCHANGED <<driver, memory, item, version, history>>

\* getTaskSnapshot, then the first request to the database
Capture(c) ==
  /\ pc[c] = "capture"
  /\ snapshot' = [snapshot EXCEPT ![c] = [p \in Parts |-> memory[p]]]
  /\ IF driver = "postgres" THEN Goto(c, "begin") /\ UNCHANGED wire
                            ELSE Goto(c, "set") /\ wire' = Append(wire, c)
  /\ KeepsCall /\ UNCHANGED <<database, rowLock>>

\* Variant: no transaction is begun, so the row changes at once.
InsertTaskOutside(c) ==
  /\ pc[c] = "begin" /\ rowLock = None
  /\ taskRow' = snapshot[c] /\ rowLock' = c /\ Goto(c, "nodes")
  /\ KeepsCall /\ UNCHANGED <<nodeRows, records, index, wire, snapshot>>

\* A connection, BEGIN and the upsert of the task, which waits for the row.
InsertTask(c) ==
  /\ pc[c] = "begin" /\ rowLock = None
  /\ rowLock' = c /\ Goto(c, "nodes")
  /\ KeepsCall /\ UNCHANGED <<database, wire, snapshot>>

\* DELETE and INSERT of the nodes, inside the transaction
ReplaceNodes(c) ==
  /\ pc[c] = "nodes" /\ Goto(c, "commit")
  /\ KeepsCall /\ UNCHANGED <<database, rowLock, wire, snapshot>>

Commit(c) ==
  /\ pc[c] = "commit"
  /\ taskRow' = snapshot[c] /\ nodeRows' = snapshot[c]
  /\ rowLock' = None /\ Goto(c, "reply")
  /\ KeepsCall /\ UNCHANGED <<records, index, wire, snapshot>>

\* One statement, on any connection of the pool
Upsert(c) ==
  /\ pc[c] = "upsert"
  /\ records' = [records EXCEPT ![item[c]] = version[c]]
  /\ Goto(c, "reply")
  /\ KeepsCall /\ UNCHANGED <<taskRow, nodeRows, index, rowLock, wire, snapshot>>

Fails(c) ==
  /\ failures < MaxFailures /\ failures' = failures + 1
  /\ Ends(c)
  /\ UNCHANGED <<driver, memory, database, clock, calls, crashes, acked, settled>>

\* Variants: the error is not thrown; it is thrown without a ROLLBACK.
PostgresFailsSilently(c) ==
  /\ pc[c] \in {"begin", "nodes", "commit", "upsert"}
  /\ rowLock' = IF rowLock = c THEN None ELSE rowLock
  /\ failures < MaxFailures /\ failures' = failures + 1 /\ Goto(c, "reply")
  /\ UNCHANGED <<driver, memory, database, wire, item, version, snapshot,
                 clock, calls, crashes, acked, overlapped, settled>>
PostgresFailsInTransaction(c) ==
  /\ pc[c] \in {"begin", "nodes", "commit", "upsert"}
  /\ Fails(c) /\ UNCHANGED <<rowLock, wire>>

\* A statement fails: ROLLBACK, and the error is thrown.  The copy in memory stays.
PostgresFails(c) ==
  /\ pc[c] \in {"begin", "nodes", "commit", "upsert"}
  /\ rowLock' = IF rowLock = c THEN None ELSE rowLock
  /\ Fails(c) /\ UNCHANGED wire

\* Redis executes the commands of the connection in the order they were sent.
Turn(c) == wire # <<>> /\ Head(wire) = c /\ wire' = Tail(wire)

RedisSet(c) ==
  /\ Turn(c) /\ pc[c] = "set"
  /\ IF item[c] \in Parts
       THEN taskRow' = snapshot[c] /\ nodeRows' = snapshot[c] /\ UNCHANGED records
       ELSE records' = [records EXCEPT ![item[c]] = version[c]] /\ UNCHANGED <<taskRow, nodeRows>>
  /\ Goto(c, "stored")
  /\ KeepsCall /\ UNCHANGED <<index, rowLock, snapshot>>

\* Variant: the key is not added to the index that hydration reads.
SendNoIndex(c) ==
  /\ pc[c] = "stored" /\ Goto(c, "reply")
  /\ KeepsCall /\ UNCHANGED <<database, rowLock, wire, snapshot>>

SendIndex(c) ==
  /\ pc[c] = "stored" /\ Goto(c, "indexing") /\ wire' = Append(wire, c)
  /\ KeepsCall /\ UNCHANGED <<database, rowLock, snapshot>>

RedisIndex(c) ==
  /\ Turn(c) /\ pc[c] = "indexing"
  /\ index' = index \cup {Unit(item[c])} /\ Goto(c, "reply")
  /\ KeepsCall /\ UNCHANGED <<taskRow, nodeRows, records, rowLock, snapshot>>

RedisFails(c) ==
  /\ Turn(c) /\ pc[c] \in {"set", "indexing"}
  /\ Fails(c) /\ UNCHANGED rowLock

\* The database's answer reaches the caller: the write is saved, for all it knows.
Reply(c) ==
  /\ pc[c] = "reply" /\ Ends(c)
  /\ acked' = [acked EXCEPT ![item[c]] = IF @ < version[c] THEN version[c] ELSE @]
  /\ settled' = IF overlapped[c] THEN settled ELSE settled \cup {Unit(item[c])}
  /\ UNCHANGED <<driver, memory, database, rowLock, wire, clock, calls, failures, crashes>>

-----------------------------------------------------------------------------
(* hydrateFromPostgres, hydrateFromRedis: what a new process starts from     *)

Restored ==
  [i \in Items |->
     IF driver = "redis" /\ Unit(i) \notin index THEN 0
     ELSE IF i = TaskPart THEN taskRow[i]
     ELSE IF i \in Parts  THEN nodeRows[i]
     ELSE records[i]]

\* The process stops: open transactions and commands that were not executed are lost.
Restart ==
  /\ crashes < MaxCrashes /\ crashes' = crashes + 1
  /\ memory' = Restored
  /\ rowLock' = None /\ wire' = <<>>
  /\ pc' = [c \in Clients |-> "idle"]
  /\ item' = [c \in Clients |-> None]
  /\ version' = [c \in Clients |-> 0]
  /\ snapshot' = [c \in Clients |-> Blank]
  /\ overlapped' = [c \in Clients |-> FALSE]
  /\ UNCHANGED <<driver, database, clock, calls, failures, acked, settled>>

Requests(c) ==
  \/ CreateTask(c) \/ \E p \in Parts : UpdatePart(c, p)
  \/ \E r \in Jobs : UpsertRecord(c, r)
  \/ \E k \in Keys : ExecuteTool(c, k)
Continues(c) ==
  \/ ToolAnswers(c) \/ ToolFails(c)
  \/ Capture(c) \/ InsertTask(c) \/ ReplaceNodes(c) \/ Commit(c) \/ Upsert(c)
  \/ RedisSet(c) \/ SendIndex(c) \/ RedisIndex(c)
  \/ Reply(c)
Failures(c) == PostgresFails(c) \/ RedisFails(c)

Next == Restart \/ \E c \in Clients : Requests(c) \/ Continues(c) \/ Failures(c)

Spec == Init /\ [][Next]_vars

\* The databases answer, Postgres gives a row lock to those who wait in turn, and a
\* tool answers or runs into its timeout.  Nothing is assumed of requests and failures.
FairSpec == Spec /\ \A c \in Clients : SF_vars(Continues(c))

-----------------------------------------------------------------------------
\* Every variable stays within its type.
TypeOK ==
  /\ driver \in Drivers
  /\ memory \in [Items -> Nat] /\ acked \in [Items -> Nat]
  /\ taskRow \in [Parts -> Nat] /\ nodeRows \in [Parts -> Nat]
  /\ records \in [Records -> Nat] /\ index \subseteq Items
  /\ rowLock \in Clients \cup {None} /\ wire \in Seq(Clients)
  /\ pc \in [Clients -> Pc] /\ item \in [Clients -> Items \cup {None}]
  /\ version \in [Clients -> Nat] /\ snapshot \in [Clients -> [Parts -> Nat]]
  /\ clock \in Nat /\ calls \in [Keys -> Nat] /\ failures \in Nat /\ crashes \in Nat
  /\ overlapped \in [Clients -> BOOLEAN] /\ settled \subseteq Items

\* A restart never finds the task in one state and its nodes in another: failed and
\* interrupted saves leave whole snapshots (persistSnapshot's transaction, Redis's set).
SavedIsWhole == taskRow = nodeRows

\* One connection keeps the order of the writes: whatever Redis was reported to have
\* saved survives a restart at any later moment, overlapping saves or not.
RedisKeepsAcked == driver = "redis" => \A i \in Items : Restored[i] >= acked[i]

\* After a save that overlapped no other of the same task (or record), and until the
\* next write, a restart loses nothing of it, not even what failed to be saved before.
SavedWhenAlone == \A i \in Items : Unit(i) \in settled => Restored[i] = memory[i]

\* Once a call was told that the result of its tool is saved, no call executes the tool
\* again for that key, after restarts included, in whatever order the saves of several
\* results took effect (results that do not expire).
AckedResultReused ==
  [][\A k \in Keys : acked[k] # 0 => calls'[k] = calls[k]]_vars

\* No call waits for ever: every way out of a save gives the row of the task back.
EveryCallEnds == \A c \in Clients : pc[c] # "idle" ~> pc[c] = "idle"
=============================================================================
