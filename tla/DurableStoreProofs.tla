-------------------------- MODULE DurableStoreProofs --------------------------
(***************************************************************************)
(* What a restart finds, for any number of flows, parts, records, writes,  *)
(* failures and restarts: whole snapshots, and every result of a tool that *)
(* was reported as saved.                                                  *)
(***************************************************************************)
EXTENDS DurableStore, SequenceTheorems, TLAPS

InTransaction == {"begin", "nodes", "commit"}
OverRedis     == {"set", "stored", "indexing"}

\* What kind of item a call saves at each of its waits, under which driver, and that its
\* version is one it was given.
Placed(c) ==
  /\ pc[c] # "idle" => item[c] \in Items
  /\ pc[c] = "executing" => item[c] \in Keys
  /\ pc[c] \in InTransaction \cup {"capture"} => item[c] \in Parts
  /\ pc[c] = "upsert" => item[c] \in Records
  /\ pc[c] \in InTransaction \cup {"upsert"} => driver = "postgres"
  /\ pc[c] \in OverRedis => driver = "redis"
  /\ Saving(c) => version[c] # 0

WellFormed == TypeOK /\ \A c \in Clients : Placed(c)

\* A record as a restart would find it.
Kept(r) == records[r] # 0 /\ (driver = "redis" => r \in index)

\* How far the save of a record has come.
Advanced(c) ==
  item[c] \in Records =>
    /\ Saving(c) => memory[item[c]] # 0
    /\ pc[c] \in {"stored", "indexing", "reply"} => records[item[c]] # 0
    /\ pc[c] = "reply" => Kept(item[c])

\* A record that was reported as saved is in memory and would be restored.
AckedIsKept == \A r \in Records : acked[r] # 0 => memory[r] # 0 /\ Kept(r)

KeepsRecords == AckedIsKept /\ \A c \in Clients : Advanced(c)

-----------------------------------------------------------------------------
(* Types *)

\* Who the unit of an item is.
LEMMA UnitType ==
  /\ \A i \in Items : Unit(i) \in Items
  /\ \A r \in Records : Unit(r) = r
BY StoreAssumption DEF Unit, Items, Records

\* A call that ends leaves the others where they were.
LEMMA EndsForm ==
  ASSUME WellFormed, NEW c \in Clients, Ends(c), UNCHANGED driver
  PROVE  /\ pc' \in [Clients -> Pc] /\ item' \in [Clients -> Items \cup {None}]
         /\ version' \in [Clients -> Nat] /\ snapshot' \in [Clients -> [Parts -> Nat]]
         /\ overlapped' \in [Clients -> BOOLEAN]
         /\ \A d \in Clients : Placed(d)'
<1>1. /\ pc' \in [Clients -> Pc] /\ item' \in [Clients -> Items \cup {None}]
      /\ version' \in [Clients -> Nat] /\ snapshot' \in [Clients -> [Parts -> Nat]]
      /\ overlapped' \in [Clients -> BOOLEAN]
  BY DEF WellFormed, TypeOK, Ends, Goto, Pc, Blank
<1>2. pc'[c] = "idle"
  BY DEF WellFormed, TypeOK, Ends, Goto
<1>3. \A d \in Clients \ {c} : pc'[d] = pc[d] /\ item'[d] = item[d] /\ version'[d] = version[d]
  BY DEF WellFormed, TypeOK, Ends, Goto
<1>4. Placed(c)'  BY <1>2 DEF Placed, Saving, InTransaction, OverRedis
<1>5. ASSUME NEW d \in Clients \ {c}  PROVE Placed(d)'
  BY <1>3 DEF WellFormed, Placed, Saving
<1>. QED  BY <1>1, <1>4, <1>5

\* A call that goes on saves the same item.
LEMMA GotoForm ==
  ASSUME WellFormed, NEW c \in Clients, NEW p \in Pc \ {"idle", "executing", "capture"},
         Goto(c, p), Saving(c), UNCHANGED <<driver, item, version>>,
         p \in InTransaction => item[c] \in Parts,
         p = "upsert" => item[c] \in Records,
         p \in InTransaction \cup {"upsert"} => driver = "postgres",
         p \in OverRedis => driver = "redis"
  PROVE  pc' \in [Clients -> Pc] /\ \A d \in Clients : Placed(d)'
<1>1. pc' \in [Clients -> Pc]
  BY DEF WellFormed, TypeOK, Goto
<1>2. pc'[c] = p /\ \A d \in Clients \ {c} : pc'[d] = pc[d]
  BY DEF WellFormed, TypeOK, Goto
<1>3. Placed(c)'
  BY <1>2 DEF WellFormed, Placed, Saving, InTransaction, OverRedis
<1>4. ASSUME NEW d \in Clients \ {c}  PROVE Placed(d)'
  BY <1>2 DEF WellFormed, Placed, Saving
<1>. QED  BY <1>1, <1>3, <1>4

\* A write begins with a new version.
LEMMA BeginForm ==
  ASSUME WellFormed, NEW c \in Clients, NEW i \in Items, NEW p \in {"capture", "upsert", "set"},
         Begin(c, i), Goto(c, p), UNCHANGED driver,
         p = "capture" => i \in Parts,
         p = "upsert" => i \in Records /\ driver = "postgres",
         p = "set" => driver = "redis"
  PROVE  /\ pc' \in [Clients -> Pc] /\ item' \in [Clients -> Items \cup {None}]
         /\ version' \in [Clients -> Nat] /\ clock' \in Nat
         /\ overlapped' \in [Clients -> BOOLEAN] /\ settled' \subseteq Items
         /\ \A d \in Clients : Placed(d)'
<1>1. /\ pc' \in [Clients -> Pc] /\ item' \in [Clients -> Items \cup {None}]
      /\ version' \in [Clients -> Nat] /\ clock' \in Nat /\ settled' \subseteq Items
  BY DEF WellFormed, TypeOK, Begin, Goto, Pc
<1>2. overlapped' \in [Clients -> BOOLEAN]
  BY DEF WellFormed, TypeOK, Begin
<1>3. /\ pc'[c] = p /\ item'[c] = i /\ version'[c] = clock + 1 /\ clock \in Nat
      /\ \A d \in Clients \ {c} : pc'[d] = pc[d] /\ item'[d] = item[d] /\ version'[d] = version[d]
  BY DEF WellFormed, TypeOK, Begin, Goto
<1>4. Placed(c)'
  BY <1>3 DEF Placed, Saving, InTransaction, OverRedis
<1>5. ASSUME NEW d \in Clients \ {c}  PROVE Placed(d)'
  BY <1>3 DEF WellFormed, Placed, Saving
<1>. QED  BY <1>1, <1>2, <1>4, <1>5

\* The first wait of a write of one record.
LEMMA SaveRecordForm ==
  ASSUME WellFormed, NEW c \in Clients, NEW r \in Records, Begin(c, r), SaveRecord(c),
         UNCHANGED driver
  PROVE  /\ pc' \in [Clients -> Pc] /\ item' \in [Clients -> Items \cup {None}]
         /\ version' \in [Clients -> Nat] /\ clock' \in Nat
         /\ overlapped' \in [Clients -> BOOLEAN] /\ settled' \subseteq Items
         /\ \A d \in Clients : Placed(d)'
         /\ wire' \in Seq(Clients) /\ pc'[c] \in {"upsert", "set"}
<1>. r \in Items  BY DEF Items
<1>1. CASE driver = "postgres"
  <2>1. Goto(c, "upsert") /\ UNCHANGED wire  BY <1>1 DEF SaveRecord
  <2>. QED  BY <1>1, <2>1, BeginForm DEF WellFormed, TypeOK, Goto
<1>2. CASE driver # "postgres"
  <2>1. Goto(c, "set") /\ wire' = Append(wire, c)  BY <1>2 DEF SaveRecord
  <2>2. driver = "redis"  BY <1>2, StoreAssumption DEF WellFormed, TypeOK
  <2>3. wire' \in Seq(Clients)  BY <2>1 DEF WellFormed, TypeOK
  <2>. QED  BY <2>1, <2>2, <2>3, BeginForm DEF WellFormed, TypeOK, Goto
<1>. QED  BY <1>1, <1>2

-----------------------------------------------------------------------------
(* Every step keeps everything well formed *)

\* The calls that begin.
LEMMA RequestForm ==
  ASSUME WellFormed, NEW c \in Clients, Requests(c)
  PROVE  WellFormed'
<1>. TaskPart \in Parts /\ Parts \subseteq Items /\ Records \subseteq Items
     /\ Jobs \subseteq Records /\ Keys \subseteq Records
  BY StoreAssumption DEF Items, Records
<1>1. CASE CreateTask(c)
  <2>1. memory' \in [Items -> Nat]  BY <1>1 DEF CreateTask, WellFormed, TypeOK
  <2>2. Begin(c, TaskPart) /\ Goto(c, "capture") /\ UNCHANGED driver  BY <1>1 DEF CreateTask
  <2>. QED
    BY <1>1, <2>1, <2>2, BeginForm DEF CreateTask, WellFormed, TypeOK, database
<1>2. ASSUME NEW p \in Parts, UpdatePart(c, p)  PROVE WellFormed'
  <2>1. memory' \in [Items -> Nat]  BY <1>2 DEF UpdatePart, WellFormed, TypeOK
  <2>2. Begin(c, p) /\ Goto(c, "capture") /\ UNCHANGED driver  BY <1>2 DEF UpdatePart
  <2>. QED
    BY <1>2, <2>1, <2>2, BeginForm DEF UpdatePart, WellFormed, TypeOK, database
<1>3. ASSUME NEW r \in Jobs, UpsertRecord(c, r)  PROVE WellFormed'
  <2>1. memory' \in [Items -> Nat]  BY <1>3 DEF UpsertRecord, WellFormed, TypeOK
  <2>2. Begin(c, r) /\ SaveRecord(c) /\ UNCHANGED driver  BY <1>3 DEF UpsertRecord
  <2>. QED
    BY <1>3, <2>1, <2>2, SaveRecordForm DEF UpsertRecord, WellFormed, TypeOK, database
<1>4. ASSUME NEW k \in Keys, ExecuteTool(c, k)  PROVE WellFormed'
  <2>1. /\ calls' = [calls EXCEPT ![k] = @ + 1]
        /\ item' = [item EXCEPT ![c] = k] /\ pc' = [pc EXCEPT ![c] = "executing"]
        /\ UNCHANGED <<driver, memory, taskRow, nodeRows, records, index, rowLock, wire,
                       version, snapshot, clock, failures, crashes, acked, overlapped, settled>>
    BY <1>4 DEF ExecuteTool, Goto, database
  <2>2. TypeOK'
    <3>1. calls' \in [Keys -> Nat]  BY <2>1 DEF WellFormed, TypeOK
    <3>2. item' \in [Clients -> Items \cup {None}]
      BY <2>1 DEF WellFormed, TypeOK, Items, Records
    <3>3. pc' \in [Clients -> Pc]  BY <2>1 DEF WellFormed, TypeOK, Pc
    <3>. QED  BY <2>1, <3>1, <3>2, <3>3 DEF WellFormed, TypeOK
  <2>3. ASSUME NEW d \in Clients  PROVE Placed(d)'
    <3>1. pc \in [Clients -> Pc] /\ item \in [Clients -> Items \cup {None}] /\ Placed(d)
      BY DEF WellFormed, TypeOK
    <3>2. CASE d = c
      <4>1. pc'[d] = "executing" /\ item'[d] = k  BY <2>1, <3>1, <3>2
      <4>. QED  BY <4>1 DEF Placed, Saving, InTransaction, OverRedis
    <3>3. CASE d # c
      <4>1. pc'[d] = pc[d] /\ item'[d] = item[d] /\ UNCHANGED <<driver, version>>
        BY <2>1, <3>1, <3>3
      <4>. QED  BY <3>1, <4>1 DEF Placed, Saving, InTransaction, OverRedis
    <3>. QED  BY <3>2, <3>3
  <2>. QED  BY <2>2, <2>3 DEF WellFormed
<1>. QED  BY <1>1, <1>2, <1>3, <1>4 DEF Requests

\* The calls that go on.
LEMMA ContinueForm ==
  ASSUME WellFormed, NEW c \in Clients, Continues(c)
  PROVE  WellFormed'
<1>. USE DEF database, history, KeepsCall
<1>0. Placed(c)  BY DEF WellFormed
<1>1. CASE ToolAnswers(c)
  <2>1. item[c] \in Records  BY <1>0, <1>1 DEF ToolAnswers, Placed, Records
  <2>2. memory' \in [Items -> Nat]
    <3>1. memory' = [memory EXCEPT ![item[c]] = clock + 1]  BY <1>1 DEF ToolAnswers
    <3>2. memory \in [Items -> Nat] /\ clock + 1 \in Nat /\ item[c] \in Items
      BY <2>1 DEF WellFormed, TypeOK, Items
    <3>. QED  BY <3>1, <3>2
  <2>3. Begin(c, item[c]) /\ SaveRecord(c) /\ UNCHANGED driver  BY <1>1 DEF ToolAnswers
  <2>. QED
    BY <1>1, <2>1, <2>2, <2>3, SaveRecordForm DEF ToolAnswers, WellFormed, TypeOK
<1>2. CASE ToolFails(c)
  BY <1>2, EndsForm DEF ToolFails, WellFormed, TypeOK
<1>3. CASE Capture(c)
  <2>1. item[c] \in Parts /\ Saving(c)  BY <1>0, <1>3 DEF Capture, Placed, Saving
  <2>2. snapshot' \in [Clients -> [Parts -> Nat]]
    BY <1>3 DEF Capture, WellFormed, TypeOK, Items
  <2>3. CASE driver = "postgres"
    <3>1. Goto(c, "begin") /\ UNCHANGED wire  BY <1>3, <2>3 DEF Capture
    <3>. QED
      BY <1>3, <2>1, <2>2, <2>3, <3>1, GotoForm
      DEF Capture, WellFormed, TypeOK, Pc, InTransaction, OverRedis
  <2>4. CASE driver # "postgres"
    <3>1. Goto(c, "set") /\ wire' = Append(wire, c)  BY <1>3, <2>4 DEF Capture
    <3>2. driver = "redis" /\ wire' \in Seq(Clients)
      BY <2>4, <3>1, StoreAssumption DEF WellFormed, TypeOK
    <3>. QED
      BY <1>3, <2>1, <2>2, <3>1, <3>2, GotoForm
      DEF Capture, WellFormed, TypeOK, Pc, InTransaction, OverRedis
  <2>. QED  BY <2>3, <2>4
<1>4. CASE InsertTask(c) \/ ReplaceNodes(c)
  <2>1. PICK p \in {"nodes", "commit"} : Goto(c, p)
    BY <1>4 DEF InsertTask, ReplaceNodes
  <2>2. item[c] \in Parts /\ Saving(c) /\ driver = "postgres"
    BY <1>0, <1>4 DEF InsertTask, ReplaceNodes, Placed, Saving, InTransaction
  <2>3. UNCHANGED <<driver, item, version>>  BY <1>4 DEF InsertTask, ReplaceNodes
  <2>4. pc' \in [Clients -> Pc] /\ \A d \in Clients : Placed(d)'
    BY <2>1, <2>2, <2>3, GotoForm DEF Pc, InTransaction, OverRedis
  <2>. QED  BY <1>4, <2>4 DEF InsertTask, ReplaceNodes, WellFormed, TypeOK
<1>5. CASE Commit(c) \/ Upsert(c)
  <2>1. Goto(c, "reply") /\ UNCHANGED <<driver, item, version>>  BY <1>5 DEF Commit, Upsert
  <2>2. Saving(c)  BY <1>5 DEF Commit, Upsert, Saving
  <2>3. pc' \in [Clients -> Pc] /\ \A d \in Clients : Placed(d)'
    BY <2>1, <2>2, GotoForm DEF Pc, InTransaction, OverRedis
  <2>4. CASE Commit(c)
    BY <2>3, <2>4 DEF Commit, WellFormed, TypeOK
  <2>5. CASE Upsert(c)
    <3>1. records' \in [Records -> Nat]  BY <2>5 DEF Upsert, WellFormed, TypeOK
    <3>. QED  BY <2>3, <2>5, <3>1 DEF Upsert, WellFormed, TypeOK
  <2>. QED  BY <1>5, <2>4, <2>5
<1>6. CASE RedisSet(c)
  <2>1. Goto(c, "stored") /\ UNCHANGED <<driver, item, version>>  BY <1>6 DEF RedisSet
  <2>2. Saving(c) /\ driver = "redis" /\ item[c] \in Items
    BY <1>0, <1>6 DEF RedisSet, Placed, Saving, OverRedis
  <2>3. pc' \in [Clients -> Pc] /\ \A d \in Clients : Placed(d)'
    BY <2>1, <2>2, GotoForm DEF Pc, InTransaction, OverRedis
  <2>4. wire' \in Seq(Clients)  BY <1>6 DEF RedisSet, Turn, WellFormed, TypeOK
  <2>5. /\ taskRow' \in [Parts -> Nat] /\ nodeRows' \in [Parts -> Nat]
        /\ records' \in [Records -> Nat]
    <3>1. CASE item[c] \in Parts
      BY <1>6, <3>1 DEF RedisSet, WellFormed, TypeOK
    <3>2. CASE item[c] \notin Parts
      <4>1. records' = [records EXCEPT ![item[c]] = version[c]] /\ UNCHANGED <<taskRow, nodeRows>>
        BY <1>6, <3>2 DEF RedisSet
      <4>. QED  BY <4>1 DEF WellFormed, TypeOK
    <3>. QED  BY <3>1, <3>2
  <2>. QED  BY <1>6, <2>3, <2>4, <2>5 DEF RedisSet, WellFormed, TypeOK
<1>7. CASE SendIndex(c) \/ RedisIndex(c)
  <2>1. PICK p \in {"indexing", "reply"} : Goto(c, p)  BY <1>7 DEF SendIndex, RedisIndex
  <2>2. /\ Saving(c) /\ driver = "redis" /\ item[c] \in Items
        /\ UNCHANGED <<driver, item, version>>
    BY <1>0, <1>7 DEF SendIndex, RedisIndex, Placed, Saving, OverRedis
  <2>3. pc' \in [Clients -> Pc] /\ \A d \in Clients : Placed(d)'
    BY <2>1, <2>2, GotoForm DEF Pc, InTransaction, OverRedis
  <2>4. wire' \in Seq(Clients)
    <3>1. wire \in Seq(Clients)  BY DEF WellFormed, TypeOK
    <3>2. CASE SendIndex(c)  BY <3>1, <3>2 DEF SendIndex
    <3>3. CASE RedisIndex(c)  BY <3>1, <3>3 DEF RedisIndex, Turn
    <3>. QED  BY <1>7, <3>2, <3>3
  <2>5. index' \subseteq Items
    BY <1>7, <2>2, UnitType DEF SendIndex, RedisIndex, WellFormed, TypeOK
  <2>. QED  BY <1>7, <2>3, <2>4, <2>5 DEF SendIndex, RedisIndex, WellFormed, TypeOK
<1>8. CASE Reply(c)
  <2>1. item[c] \in Items  BY <1>0, <1>8 DEF Reply, Placed
  <2>2. acked' \in [Items -> Nat] /\ settled' \subseteq Items
    BY <1>8, <2>1, UnitType DEF Reply, WellFormed, TypeOK
  <2>. QED  BY <1>8, <2>2, EndsForm DEF Reply, WellFormed, TypeOK
<1>. QED  BY <1>1, <1>2, <1>3, <1>4, <1>5, <1>6, <1>7, <1>8 DEF Continues

\* The calls that fail, and a restart.
LEMMA FailureForm ==
  ASSUME WellFormed, NEW c \in Clients, Failures(c)
  PROVE  WellFormed'
<1>. wire \in Seq(Clients) /\ rowLock \in Clients \cup {None}  BY DEF WellFormed, TypeOK
<1>1. Fails(c) /\ rowLock' \in Clients \cup {None} /\ wire' \in Seq(Clients)
  <2>1. CASE PostgresFails(c)  BY <2>1 DEF PostgresFails
  <2>2. CASE RedisFails(c)  BY <2>2 DEF RedisFails, Turn
  <2>. QED  BY <2>1, <2>2 DEF Failures
<1>. QED  BY <1>1, EndsForm DEF Fails, WellFormed, TypeOK, database

\* Hydration finds a version of every item.
LEMMA RestoredType ==
  ASSUME TypeOK
  PROVE  Restored \in [Items -> Nat]
<1>1. ASSUME NEW i \in Items  PROVE Restored[i] \in Nat
  <2>1. i \in Parts \/ i \in Records  BY DEF Items
  <2>2. TaskPart \in Parts  BY StoreAssumption
  <2>3. \/ Restored[i] = 0
        \/ i = TaskPart /\ Restored[i] = taskRow[i]
        \/ i \in Parts /\ Restored[i] = nodeRows[i]
        \/ i \notin Parts /\ Restored[i] = records[i]
    BY DEF Restored
  <2>. QED  BY <2>1, <2>2, <2>3 DEF TypeOK
<1>2. DOMAIN Restored = Items /\ Restored = [i \in Items |-> Restored[i]]
  BY DEF Restored
<1>. QED  BY <1>1, <1>2

\* A restart reads back what the stores hold.
LEMMA RestartForm ==
  ASSUME WellFormed, Restart
  PROVE  WellFormed'
<1>1. memory' \in [Items -> Nat]
  <2>1. Restored \in [Items -> Nat]  BY RestoredType DEF WellFormed
  <2>2. memory' = Restored  BY DEF Restart
  <2>. QED  BY <2>1, <2>2
<1>2. TypeOK'
  BY <1>1 DEF Restart, WellFormed, TypeOK, database, Pc, Blank
<1>3. ASSUME NEW c \in Clients  PROVE Placed(c)'
  BY DEF Restart, Placed, Saving, InTransaction, OverRedis
<1>. QED  BY <1>2, <1>3 DEF WellFormed

\* All of it in every reachable state.
LEMMA FormHolds == Spec => []WellFormed
<1>1. Init => WellFormed
  BY DEF Init, WellFormed, TypeOK, Placed, Saving, Pc, Blank, InTransaction, OverRedis
<1>2. WellFormed /\ UNCHANGED vars => WellFormed'
  BY DEF WellFormed, TypeOK, Placed, Saving, vars, database, callVars, history
<1>3. WellFormed /\ Next => WellFormed'
  BY RequestForm, ContinueForm, FailureForm, RestartForm DEF Next
<1>. QED  BY <1>1, <1>2, <1>3, PTL DEF Spec

\* The variables stay within their types.
THEOREM TypeCorrect == Spec => []TypeOK
BY FormHolds, PTL DEF WellFormed

-----------------------------------------------------------------------------
(* What a restart finds *)

\* The task and its nodes in the database come from one snapshot (they change in COMMIT,
\* or in one SET, and nowhere else).
THEOREM SnapshotsWhole == Spec => []SavedIsWhole
<1>1. Init => SavedIsWhole  BY DEF Init, SavedIsWhole
<1>2. ASSUME SavedIsWhole, [Next]_vars  PROVE SavedIsWhole'
  <2>1. UNCHANGED <<taskRow, nodeRows>> \/ \E c \in Clients : Commit(c) \/ RedisSet(c)
    BY <1>2 DEF Next, Restart, Requests, Continues, Failures, CreateTask, UpdatePart, UpsertRecord,
                ExecuteTool, ToolAnswers, ToolFails, Capture, InsertTask, ReplaceNodes, Upsert,
                SendIndex, RedisIndex, Reply, PostgresFails, RedisFails, Fails, vars, database
  <2>2. ASSUME NEW c \in Clients, Commit(c) \/ RedisSet(c)  PROVE SavedIsWhole'
    BY <1>2, <2>2 DEF Commit, RedisSet, SavedIsWhole
  <2>. QED  BY <1>2, <2>1, <2>2 DEF SavedIsWhole
<1>. QED  BY <1>1, <1>2, PTL DEF Spec

\* Nothing of a record is lost while the process runs: it is written over, never emptied.
Grows ==
  /\ driver' = driver /\ index \subseteq index'
  /\ \A r \in Records : /\ memory[r] # 0 => memory'[r] # 0
                        /\ records[r] # 0 => records'[r] # 0

Stays(c) == \A d \in Clients \ {c} : pc'[d] = pc[d] /\ item'[d] = item[d]

\* Enough for the step of a call to keep every record.
LEMMA Keep ==
  ASSUME KeepsRecords, NEW c \in Clients, Grows, Stays(c), Advanced(c)',
         \A r \in Records : acked'[r] # 0 => acked[r] # 0 \/ (memory'[r] # 0 /\ Kept(r)')
  PROVE  KeepsRecords'
<1>1. AckedIsKept'
  BY DEF KeepsRecords, AckedIsKept, Grows, Kept
<1>2. ASSUME NEW d \in Clients \ {c}  PROVE Advanced(d)'
  BY DEF KeepsRecords, Advanced, Saving, Grows, Stays, Kept
<1>. QED  BY <1>1, <1>2 DEF KeepsRecords

\* A call that ended holds nothing.
LEMMA EndsKeeps ==
  ASSUME WellFormed, KeepsRecords, NEW c \in Clients, Ends(c), Grows,
         \A r \in Records : acked'[r] # 0 => acked[r] # 0 \/ (memory'[r] # 0 /\ Kept(r)')
  PROVE  KeepsRecords'
<1>1. pc'[c] = "idle" /\ Stays(c)
  BY DEF WellFormed, TypeOK, Ends, Goto, Stays
<1>2. Advanced(c)'  BY <1>1 DEF Advanced, Saving
<1>. QED  BY <1>1, <1>2, Keep

\* A write of a record is in memory before anything is awaited.
LEMMA RecordBegins ==
  ASSUME WellFormed, KeepsRecords, NEW c \in Clients, NEW r \in Records,
         Begin(c, r), SaveRecord(c), memory' = [memory EXCEPT ![r] = clock + 1],
         UNCHANGED <<driver, records, index, acked>>
  PROVE  KeepsRecords'
<1>1. pc'[c] \in {"upsert", "set"}  BY SaveRecordForm
<1>2. item'[c] = r /\ Stays(c)
  BY DEF WellFormed, TypeOK, Begin, SaveRecord, Goto, Stays
<1>3. \A i \in Items : memory[i] # 0 => memory'[i] # 0
  BY DEF WellFormed, TypeOK
<1>4. memory'[r] # 0  BY DEF WellFormed, TypeOK, Items
<1>5. Grows  BY <1>3 DEF Grows, Items
<1>6. Advanced(c)'  BY <1>1, <1>2, <1>4 DEF Advanced
<1>. QED  BY <1>2, <1>5, <1>6, Keep

\* A step of a save that leaves the database's records as they are.
LEMMA SaveGoesOn ==
  ASSUME WellFormed, KeepsRecords, NEW c \in Clients, NEW p \in Pc, Goto(c, p), Saving(c),
         UNCHANGED <<driver, memory, item, acked, records, index>>,
         item[c] \in Parts \/ p \notin {"stored", "indexing", "reply"}
           \/ (pc[c] = "stored" /\ p = "indexing")
  PROVE  KeepsRecords'
<1>1. pc'[c] = p /\ Stays(c)
  BY DEF WellFormed, TypeOK, Goto, Stays
<1>2. Grows  BY DEF Grows
<1>3. item[c] \in Parts => item[c] \notin Records  BY StoreAssumption DEF Records
<1>4. Advanced(c)'
  BY <1>1, <1>3 DEF KeepsRecords, Advanced, Saving
<1>. QED  BY <1>1, <1>2, <1>4, Keep

\* Every step of a request keeps the records of what was acknowledged,
LEMMA RequestKeeps ==
  ASSUME WellFormed, KeepsRecords, NEW c \in Clients, Requests(c)
  PROVE  KeepsRecords'
<1>. USE DEF database
<1>1. CASE CreateTask(c)
  <2>1. /\ pc'[c] = "capture" /\ item'[c] = TaskPart /\ Stays(c)
    BY <1>1 DEF CreateTask, WellFormed, TypeOK, Begin, Goto, Stays
  <2>2. Grows
    BY <1>1 DEF CreateTask, WellFormed, TypeOK, Grows, Items
  <2>3. TaskPart \notin Records  BY StoreAssumption DEF Records
  <2>4. Advanced(c)'  BY <2>1, <2>3 DEF Advanced
  <2>. QED  BY <1>1, <2>1, <2>2, <2>4, Keep DEF CreateTask
<1>2. ASSUME NEW p \in Parts, UpdatePart(c, p)  PROVE KeepsRecords'
  <2>1. /\ pc'[c] = "capture" /\ item'[c] = p /\ Stays(c)
    BY <1>2 DEF UpdatePart, WellFormed, TypeOK, Begin, Goto, Stays
  <2>2. Grows
    BY <1>2 DEF UpdatePart, WellFormed, TypeOK, Grows, Items
  <2>3. p \notin Records  BY StoreAssumption DEF Records
  <2>4. Advanced(c)'  BY <2>1, <2>3 DEF Advanced
  <2>. QED  BY <1>2, <2>1, <2>2, <2>4, Keep DEF UpdatePart
<1>3. ASSUME NEW r \in Jobs, UpsertRecord(c, r)  PROVE KeepsRecords'
  BY <1>3, RecordBegins DEF UpsertRecord, Records
<1>4. ASSUME NEW k \in Keys, ExecuteTool(c, k)  PROVE KeepsRecords'
  <2>1. pc'[c] = "executing" /\ Stays(c)
    BY <1>4 DEF ExecuteTool, WellFormed, TypeOK, Goto, Stays
  <2>2. Grows  BY <1>4 DEF ExecuteTool, Grows
  <2>3. Advanced(c)'  BY <2>1 DEF Advanced, Saving
  <2>. QED  BY <1>4, <2>1, <2>2, <2>3, Keep DEF ExecuteTool
<1>. QED  BY <1>1, <1>2, <1>3, <1>4 DEF Requests

\* and so does every step of a save.
LEMMA ContinueKeeps ==
  ASSUME WellFormed, KeepsRecords, NEW c \in Clients, Continues(c)
  PROVE  KeepsRecords'
<1>. USE DEF database, history, KeepsCall
<1>0. Placed(c) /\ Advanced(c)  BY DEF WellFormed, KeepsRecords
<1>1. CASE ToolAnswers(c)
  <2>1. item[c] \in Records  BY <1>0, <1>1 DEF ToolAnswers, Placed, Records
  <2>. QED  BY <1>1, <2>1, RecordBegins DEF ToolAnswers
<1>2. CASE ToolFails(c)
  BY <1>2, EndsKeeps DEF ToolFails, Grows
<1>3. CASE Capture(c)
  <2>1. PICK p \in {"begin", "set"} : Goto(c, p)  BY <1>3 DEF Capture
  <2>2. item[c] \in Parts /\ Saving(c)  BY <1>0, <1>3 DEF Capture, Placed, Saving
  <2>. QED  BY <1>3, <2>1, <2>2, SaveGoesOn DEF Capture, Pc
<1>4. CASE InsertTask(c) \/ ReplaceNodes(c)
  <2>1. PICK p \in {"nodes", "commit"} : Goto(c, p)  BY <1>4 DEF InsertTask, ReplaceNodes
  <2>2. Saving(c)  BY <1>4 DEF InsertTask, ReplaceNodes, Saving
  <2>. QED  BY <1>4, <2>1, <2>2, SaveGoesOn DEF InsertTask, ReplaceNodes, Pc
<1>5. CASE Commit(c)
  <2>1. item[c] \in Parts /\ Saving(c)
    BY <1>0, <1>5 DEF Commit, Placed, Saving, InTransaction
  <2>. QED  BY <1>5, <2>1, SaveGoesOn DEF Commit, Pc
<1>6. CASE Upsert(c)
  <2>1. /\ item[c] \in Records /\ version[c] # 0 /\ driver = "postgres" /\ memory[item[c]] # 0
    BY <1>0, <1>6 DEF Upsert, Placed, Saving, Advanced
  <2>2. pc'[c] = "reply" /\ Stays(c) /\ item'[c] = item[c]
    BY <1>6 DEF Upsert, WellFormed, TypeOK, Goto, Stays
  <2>3. records' = [records EXCEPT ![item[c]] = version[c]]
        /\ UNCHANGED <<driver, memory, index, acked>>
    BY <1>6 DEF Upsert
  <2>4. Grows /\ records'[item[c]] # 0
    BY <2>1, <2>3 DEF Grows, WellFormed, TypeOK
  <2>5. Advanced(c)'  BY <2>1, <2>2, <2>3, <2>4 DEF Advanced, Kept
  <2>. QED  BY <2>2, <2>3, <2>4, <2>5, Keep
<1>7. CASE RedisSet(c)
  <2>1. /\ pc'[c] = "stored" /\ Stays(c) /\ item'[c] = item[c]
        /\ UNCHANGED <<driver, memory, index, acked>>
    BY <1>7 DEF RedisSet, WellFormed, TypeOK, Goto, Stays
  <2>2. item[c] \in Items /\ version[c] # 0
    BY <1>0, <1>7 DEF RedisSet, Placed, Saving
  <2>3. CASE item[c] \in Parts
    <3>1. UNCHANGED records  BY <1>7, <2>3 DEF RedisSet
    <3>2. item[c] \notin Records  BY <2>3, StoreAssumption DEF Records
    <3>3. Grows /\ Advanced(c)'  BY <2>1, <3>1, <3>2 DEF Grows, Advanced
    <3>. QED  BY <2>1, <3>3, Keep
  <2>4. CASE item[c] \notin Parts
    <3>1. records' = [records EXCEPT ![item[c]] = version[c]]  BY <1>7, <2>4 DEF RedisSet
    <3>2. item[c] \in Records /\ memory[item[c]] # 0
      BY <1>0, <1>7, <2>2, <2>4 DEF RedisSet, Items, Advanced, Saving
    <3>3. Grows /\ records'[item[c]] # 0
      BY <2>1, <2>2, <3>1, <3>2 DEF Grows, WellFormed, TypeOK
    <3>4. Advanced(c)'  BY <2>1, <3>2, <3>3 DEF Advanced
    <3>. QED  BY <2>1, <3>3, <3>4, Keep
  <2>. QED  BY <2>3, <2>4
<1>8. CASE SendIndex(c)
  <2>1. Saving(c)  BY <1>8 DEF SendIndex, Saving
  <2>. QED  BY <1>8, <2>1, SaveGoesOn DEF SendIndex, Pc
<1>9. CASE RedisIndex(c)
  <2>1. /\ pc'[c] = "reply" /\ Stays(c) /\ item'[c] = item[c]
        /\ index' = index \cup {Unit(item[c])}
        /\ UNCHANGED <<driver, memory, records, acked>>
    BY <1>9 DEF RedisIndex, WellFormed, TypeOK, Goto, Stays
  <2>2. Grows  BY <2>1 DEF Grows
  <2>3. item[c] \in Records => records[item[c]] # 0 /\ memory[item[c]] # 0
    BY <1>0, <1>9 DEF RedisIndex, Advanced, Saving
  <2>4. item[c] \in Records => item[c] \in index'  BY <2>1, UnitType
  <2>5. Advanced(c)'  BY <2>1, <2>3, <2>4 DEF Advanced, Kept
  <2>. QED  BY <2>1, <2>2, <2>5, Keep
<1>10. CASE Reply(c)
  <2>1. /\ Ends(c) /\ UNCHANGED <<driver, memory, records, index>>
        /\ acked' = [acked EXCEPT ![item[c]] = IF @ < version[c] THEN version[c] ELSE @]
        /\ item[c] \in Items
    BY <1>0, <1>10 DEF Reply, Placed
  <2>2. item[c] \in Records => Kept(item[c]) /\ memory[item[c]] # 0
    BY <1>0, <1>10 DEF Reply, Advanced, Saving
  <2>3. \A r \in Records : acked'[r] # 0 => acked[r] # 0 \/ r = item[c]
    BY <2>1 DEF WellFormed, TypeOK, Items
  <2>4. \A r \in Records : acked'[r] # 0 => acked[r] # 0 \/ (memory'[r] # 0 /\ Kept(r)')
    BY <2>1, <2>2, <2>3 DEF Kept
  <2>. QED  BY <2>1, <2>4, EndsKeeps DEF Grows
<1>. QED
  BY <1>1, <1>2, <1>3, <1>4, <1>5, <1>6, <1>7, <1>8, <1>9, <1>10 DEF Continues

\* Hydration brings every record back that was reported as saved.
LEMMA RestartKeeps ==
  ASSUME WellFormed, KeepsRecords, Restart
  PROVE  KeepsRecords'
<1>1. memory' = Restored /\ UNCHANGED <<driver, records, index, acked>>
  BY DEF Restart, database
<1>2. \A r \in Records : Kept(r) => Restored[r] # 0
  <2>. SUFFICES ASSUME NEW r \in Records, Kept(r)  PROVE Restored[r] # 0
    OBVIOUS
  <2>1. r \in Items /\ r \notin Parts /\ r # TaskPart /\ Unit(r) = r
    BY StoreAssumption, UnitType DEF Items, Records
  <2>2. Restored[r] = records[r]  BY <2>1 DEF Restored, Kept
  <2>. QED  BY <2>2 DEF Kept
<1>3. AckedIsKept'
  BY <1>1, <1>2 DEF KeepsRecords, AckedIsKept, Kept
<1>4. \A c \in Clients : Advanced(c)'
  BY DEF Restart, Advanced, Saving
<1>. QED  BY <1>3, <1>4 DEF KeepsRecords

\* Once a tool's result was reported as saved, the tool is not executed again for its key,
\* across restarts (runToolExecutor, setIdempotency and hydration together).
THEOREM AckedResultsReused == Spec => AckedResultReused
<1>1. Init => KeepsRecords
  BY DEF Init, KeepsRecords, AckedIsKept, Advanced, Saving, Items
<1>2. ASSUME WellFormed, KeepsRecords, [Next]_vars  PROVE KeepsRecords'
  <2>1. CASE UNCHANGED vars
    BY <1>2, <2>1 DEF vars, database, callVars, history, KeepsRecords, AckedIsKept, Kept,
                      Advanced, Saving
  <2>2. ASSUME NEW c \in Clients, Failures(c)  PROVE KeepsRecords'
    <3>1. Fails(c)  BY <2>2 DEF Failures, PostgresFails, RedisFails
    <3>. QED  BY <1>2, <3>1, EndsKeeps DEF Fails, Grows, database
  <2>. QED  BY <1>2, <2>1, <2>2, RequestKeeps, ContinueKeeps, RestartKeeps DEF Next
<1>3. ASSUME WellFormed, KeepsRecords, [Next]_vars
      PROVE  [\A k \in Keys : acked[k] # 0 => calls'[k] = calls[k]]_vars
  <2>. SUFFICES ASSUME NEW k \in Keys, acked[k] # 0  PROVE calls'[k] = calls[k]
    OBVIOUS
  <2>1. memory[k] # 0  BY <1>3 DEF KeepsRecords, AckedIsKept, Records
  <2>2. UNCHANGED calls \/ \E c \in Clients, j \in Keys : ExecuteTool(c, j)
    BY <1>3 DEF Next, Restart, Requests, Continues, Failures, CreateTask, UpdatePart, UpsertRecord,
                ToolAnswers, ToolFails, Capture, InsertTask, ReplaceNodes, Commit, Upsert, RedisSet,
                SendIndex, RedisIndex, Reply, PostgresFails, RedisFails, Fails, KeepsCall, vars,
                history
  <2>3. ASSUME NEW c \in Clients, NEW j \in Keys, ExecuteTool(c, j)  PROVE calls'[k] = calls[k]
    <3>1. j # k  BY <2>1, <2>3 DEF ExecuteTool
    <3>. QED  BY <1>3, <2>3, <3>1 DEF ExecuteTool, WellFormed, TypeOK
  <2>. QED  BY <2>2, <2>3
<1>. QED  BY <1>1, <1>2, <1>3, FormHolds, PTL DEF Spec, AckedResultReused

-----------------------------------------------------------------------------
(* What the database holds of an item, indexed or not *)

Stored(i) ==
  IF i = TaskPart THEN taskRow[i] ELSE IF i \in Parts THEN nodeRows[i] ELSE records[i]

-----------------------------------------------------------------------------
(* A save that no other overlaps *)

Alone(c) == Saving(c) /\ ~overlapped[c]

\* Nobody else saves what c saves alone, and nobody saves what is settled.
AloneIsAlone ==
  /\ \A c, d \in Clients : c # d /\ Alone(c) /\ Saving(d) => Unit(item[d]) # Unit(item[c])
  /\ \A d \in Clients : Saving(d) => Unit(item[d]) \notin settled

\* What c saves alone is what is in memory, on its way or arrived.
SavesMemory(c) ==
  /\ item[c] \in Records => version[c] = memory[item[c]]
  /\ pc[c] \in InTransaction => \A p \in Parts : snapshot[c][p] = memory[p]
  /\ pc[c] = "set" /\ item[c] \in Parts => \A p \in Parts : snapshot[c][p] = memory[p]
  /\ pc[c] \in {"stored", "indexing", "reply"} =>
       \A i \in Items : Unit(i) = Unit(item[c]) => Stored(i) = memory[i]
  /\ pc[c] = "reply" /\ driver = "redis" => Unit(item[c]) \in index

SavesAlone ==
  /\ AloneIsAlone
  /\ \A c \in Clients : Alone(c) => SavesMemory(c)
  /\ SavedWhenAlone

\* Either both items are parts of the task, or they are one record.
LEMMA UnitSplit ==
  ASSUME NEW i \in Items, NEW j \in Items
  PROVE  Unit(i) = Unit(j) <=> (i \in Parts /\ j \in Parts) \/ (i = j /\ i \in Records)
BY StoreAssumption DEF Unit, Items, Records

\* What a restart finds is what is stored, if it is indexed.
LEMMA RestoredStored ==
  ASSUME NEW i \in Items
  PROVE  Restored[i] = IF driver = "redis" /\ Unit(i) \notin index THEN 0 ELSE Stored(i)
BY DEF Restored, Stored

\* A step of a save, which changes nothing that others save.
LEMMA MovesAlone ==
  ASSUME WellFormed, SavesAlone, NEW c \in Clients, Saving(c), Saving(c)', Stays(c),
         UNCHANGED <<driver, memory, item, version, settled, overlapped>>,
         \A x \in Clients \ {c} : snapshot'[x] = snapshot[x],
         index' \in {index, index \cup {Unit(item[c])}},
         \A i \in Items : Unit(i) # Unit(item[c]) => Stored(i)' = Stored(i),
         Alone(c) => SavesMemory(c)'
  PROVE  SavesAlone'
<1>0. item[c] \in Items /\ \A d \in Clients : Saving(d) => item[d] \in Items
  BY DEF WellFormed, Placed, Saving
<1>1. /\ \A d \in Clients : Saving(d)' <=> Saving(d)
      /\ \A d \in Clients : Alone(d)' <=> Alone(d)
  BY DEF Stays, Saving, Alone
<1>2. AloneIsAlone'  BY <1>1 DEF SavesAlone, AloneIsAlone
<1>3. ASSUME NEW x \in Clients, Alone(x)  PROVE SavesMemory(x)'
  <2>1. CASE x = c  BY <1>3, <2>1
  <2>2. CASE x # c
    <3>1. Unit(item[c]) # Unit(item[x]) /\ item[x] \in Items /\ SavesMemory(x)
      BY <1>0, <1>3, <2>2 DEF SavesAlone, AloneIsAlone, Alone
    <3>2. pc'[x] = pc[x] /\ snapshot'[x] = snapshot[x]  BY <2>2 DEF Stays
    <3>3. \A i \in Items : Unit(i) = Unit(item[x]) => Stored(i)' = Stored(i)
      BY <3>1
    <3>4. \A i : Unit(i)' = Unit(i)  BY DEF Unit
    <3>. QED  BY <3>1, <3>2, <3>3, <3>4 DEF SavesMemory
  <2>. QED  BY <2>1, <2>2
<1>4. ASSUME NEW i \in Items, Unit(i) \in settled  PROVE Restored'[i] = memory'[i]
  <2>1. Unit(i) # Unit(item[c])  BY <1>4 DEF SavesAlone, AloneIsAlone
  <2>2. Stored(i)' = Stored(i) /\ (Unit(i) \in index' <=> Unit(i) \in index)
    BY <2>1
  <2>3. Restored[i] = memory[i]  BY <1>4 DEF SavesAlone, SavedWhenAlone
  <2>4. Restored'[i] = IF driver' = "redis" /\ Unit(i) \notin index' THEN 0 ELSE Stored(i)'
    BY DEF Restored, Stored, Unit
  <2>. QED  BY <2>2, <2>3, <2>4, RestoredStored
<1>5. SavedWhenAlone'
  BY <1>4 DEF SavedWhenAlone, Unit
<1>. QED  BY <1>1, <1>2, <1>3, <1>5 DEF SavesAlone

\* A call that ends: what it saved alone, and was told of, is settled.
LEMMA EndsAlone ==
  ASSUME WellFormed, SavesAlone, NEW c \in Clients, Ends(c), UNCHANGED <<driver, memory, database>>,
         \/ settled' = settled
         \/ Alone(c) /\ pc[c] = "reply" /\ settled' = settled \cup {Unit(item[c])}
  PROVE  SavesAlone'
<1>0. \A d \in Clients : Saving(d) => item[d] \in Items
  BY DEF WellFormed, Placed, Saving
<1>1. /\ pc'[c] = "idle"
      /\ \A d \in Clients \ {c} : /\ pc'[d] = pc[d] /\ item'[d] = item[d] /\ version'[d] = version[d]
                                  /\ snapshot'[d] = snapshot[d] /\ overlapped'[d] = overlapped[d]
  BY DEF WellFormed, TypeOK, Ends, Goto
<1>2. /\ ~Saving(c)'
      /\ \A d \in Clients \ {c} : (Saving(d)' <=> Saving(d)) /\ (Alone(d)' <=> Alone(d))
  BY <1>1 DEF Saving, Alone
<1>3. UNCHANGED <<taskRow, nodeRows, records, index>>  BY DEF database
<1>4. \A i : Unit(i)' = Unit(i) /\ Stored(i)' = Stored(i)  BY <1>3 DEF Stored, Unit
<1>5. ASSUME NEW x \in Clients, NEW d \in Clients, x # d, Alone(x)', Saving(d)'
      PROVE  Unit(item'[d]) # Unit(item'[x])
  <2>1. x # c /\ d # c  BY <1>2, <1>5 DEF Alone
  <2>. QED  BY <1>1, <1>2, <1>5, <2>1 DEF SavesAlone, AloneIsAlone
<1>6. ASSUME NEW d \in Clients, Saving(d)'  PROVE Unit(item'[d]) \notin settled'
  <2>1. d # c /\ Saving(d) /\ item'[d] = item[d]  BY <1>1, <1>2, <1>6
  <2>. QED  BY <2>1 DEF SavesAlone, AloneIsAlone
<1>7. AloneIsAlone'  BY <1>5, <1>6 DEF AloneIsAlone, Unit
<1>8. ASSUME NEW x \in Clients, Alone(x)'  PROVE SavesMemory(x)'
  <2>1. x # c /\ Alone(x)  BY <1>2, <1>8 DEF Alone
  <2>. QED  BY <1>1, <1>3, <1>4, <2>1 DEF SavesAlone, SavesMemory
<1>9. ASSUME NEW i \in Items, Unit(i) \in settled'  PROVE Restored'[i] = memory'[i]
  <2>1. Restored'[i] = Restored[i]
    BY <1>3 DEF Restored, Unit
  <2>2. CASE Unit(i) \in settled
    BY <2>1, <2>2 DEF SavesAlone, SavedWhenAlone
  <2>3. CASE Unit(i) \notin settled
    <3>1. Alone(c) /\ pc[c] = "reply" /\ Unit(i) = Unit(item[c])  BY <1>9, <2>3
    <3>2. Stored(i) = memory[i] /\ (driver = "redis" => Unit(i) \in index)
      BY <3>1 DEF SavesAlone, SavesMemory
    <3>. QED  BY <2>1, <3>2, RestoredStored
  <2>. QED  BY <2>2, <2>3
<1>10. SavedWhenAlone'  BY <1>9 DEF SavedWhenAlone, Unit
<1>. QED  BY <1>7, <1>8, <1>10 DEF SavesAlone

\* A write that begins is seen by those that save the same.
LEMMA BeginsAlone ==
  ASSUME WellFormed, SavesAlone, NEW c \in Clients, NEW i \in Items, ~Saving(c), Begin(c, i),
         Stays(c), pc'[c] \in {"capture", "upsert", "set"}, pc'[c] = "set" => i \in Records,
         i \in Records => memory'[i] = clock + 1,
         \A j \in Items : Unit(j) # Unit(i) => memory'[j] = memory[j],
         UNCHANGED <<driver, database, snapshot>>
  PROVE  SavesAlone'
<1>0. \A d \in Clients : Saving(d) => item[d] \in Items
  BY DEF WellFormed, Placed, Saving
<1>1. /\ item'[c] = i /\ version'[c] = clock + 1 /\ settled' = settled \ {Unit(i)}
      /\ \A d \in Clients \ {c} : pc'[d] = pc[d] /\ item'[d] = item[d] /\ version'[d] = version[d]
      /\ overlapped'[c] = (OverlappingSaves(c, i) # {})
      /\ \A d \in Clients \ {c} : overlapped'[d] = (overlapped[d] \/ d \in OverlappingSaves(c, i))
  BY DEF WellFormed, TypeOK, Begin, Stays
<1>2. Saving(c)' /\ \A d \in Clients \ {c} : Saving(d)' <=> Saving(d)
  BY <1>1 DEF Saving
<1>3. \A d \in Clients \ {c} : Saving(d) /\ Unit(item[d]) = Unit(i) <=> d \in OverlappingSaves(c, i)
  BY DEF OverlappingSaves
<1>4. \A d \in Clients \ {c} : Alone(d)' => Alone(d) /\ Unit(item[d]) # Unit(i)
  BY <1>1, <1>2, <1>3 DEF Alone
<1>5. UNCHANGED <<taskRow, nodeRows, records, index>>  BY DEF database
<1>6. \A j : Unit(j)' = Unit(j) /\ Stored(j)' = Stored(j)  BY <1>5 DEF Stored, Unit
<1>7. ASSUME NEW x \in Clients, NEW d \in Clients, x # d, Alone(x)', Saving(d)'
      PROVE  Unit(item'[d]) # Unit(item'[x])
  <2>1. CASE x = c
    <3>1. OverlappingSaves(c, i) = {}  BY <1>1, <1>7, <2>1 DEF Alone
    <3>. QED  BY <1>1, <1>2, <1>3, <1>7, <2>1, <3>1
  <2>2. CASE d = c
    BY <1>1, <1>4, <1>7, <2>2
  <2>3. CASE x # c /\ d # c
    BY <1>1, <1>2, <1>4, <1>7, <2>3 DEF SavesAlone, AloneIsAlone
  <2>. QED  BY <2>1, <2>2, <2>3
<1>8. ASSUME NEW d \in Clients, Saving(d)'  PROVE Unit(item'[d]) \notin settled'
  BY <1>1, <1>2, <1>8 DEF SavesAlone, AloneIsAlone
<1>9. AloneIsAlone'  BY <1>7, <1>8 DEF AloneIsAlone, Unit
<1>10. ASSUME NEW x \in Clients, Alone(x)'  PROVE SavesMemory(x)'
  <2>1. CASE x = c
    BY <1>1, <2>1, StoreAssumption DEF SavesMemory, InTransaction, Records
  <2>2. CASE x # c
    <3>1. Alone(x) /\ Unit(item[x]) # Unit(i) /\ item[x] \in Items /\ SavesMemory(x)
      BY <1>0, <1>4, <1>10, <2>2 DEF SavesAlone, Alone
    <3>2. \A j \in Items : Unit(j) = Unit(item[x]) => memory'[j] = memory[j]
      BY <3>1
    <3>3. item[x] \in Parts => \A p \in Parts : memory'[p] = memory[p]
      BY <3>1, <3>2, UnitSplit DEF Items
    <3>4. pc[x] \in InTransaction => item[x] \in Parts
      BY DEF WellFormed, Placed
    <3>5. pc'[x] = pc[x] /\ item'[x] = item[x] /\ version'[x] = version[x] /\ snapshot'[x] = snapshot[x]
      BY <1>1, <2>2
    <3>6. memory'[item[x]] = memory[item[x]]  BY <3>1, <3>2
    <3>. QED  BY <1>5, <1>6, <3>1, <3>2, <3>3, <3>4, <3>5, <3>6 DEF SavesMemory
  <2>. QED  BY <2>1, <2>2
<1>11. ASSUME NEW j \in Items, Unit(j) \in settled'  PROVE Restored'[j] = memory'[j]
  <2>1. Restored'[j] = Restored[j]  BY <1>5 DEF Restored, Unit
  <2>2. Unit(j) \in settled /\ Unit(j) # Unit(i)  BY <1>1, <1>11
  <2>3. memory'[j] = memory[j]  BY <2>2
  <2>4. Restored[j] = memory[j]  BY <2>2 DEF SavesAlone, SavedWhenAlone
  <2>. QED  BY <2>1, <2>3, <2>4
<1>12. SavedWhenAlone'  BY <1>11 DEF SavedWhenAlone, Unit
<1>. QED  BY <1>9, <1>10, <1>12 DEF SavesAlone

\* Every request keeps it,
LEMMA RequestAlone ==
  ASSUME WellFormed, SavesAlone, NEW c \in Clients, Requests(c)
  PROVE  SavesAlone'
<1>. TaskPart \in Parts /\ Parts \subseteq Items /\ Records \subseteq Items
     /\ Jobs \subseteq Records /\ Keys \subseteq Records /\ Parts \cap Records = {}
  BY StoreAssumption DEF Items, Records
<1>1. CASE CreateTask(c)
  <2>1. pc'[c] = "capture" /\ Stays(c) /\ ~Saving(c)
    BY <1>1 DEF CreateTask, WellFormed, TypeOK, Begin, Goto, Stays, Saving
  <2>2. \A j \in Items : Unit(j) # Unit(TaskPart) => memory'[j] = memory[j]
    BY <1>1 DEF CreateTask, Unit
  <2>. QED  BY <1>1, <2>1, <2>2, BeginsAlone DEF CreateTask
<1>2. ASSUME NEW p \in Parts, UpdatePart(c, p)  PROVE SavesAlone'
  <2>1. pc'[c] = "capture" /\ Stays(c) /\ ~Saving(c)
    BY <1>2 DEF UpdatePart, WellFormed, TypeOK, Begin, Goto, Stays, Saving
  <2>2. \A j \in Items : Unit(j) # Unit(p) => memory'[j] = memory[j]
    BY <1>2 DEF UpdatePart, Unit, WellFormed, TypeOK
  <2>. QED  BY <1>2, <2>1, <2>2, BeginsAlone DEF UpdatePart
<1>3. ASSUME NEW r \in Jobs, UpsertRecord(c, r)  PROVE SavesAlone'
  <2>1. pc'[c] \in {"upsert", "set"}  BY <1>3, SaveRecordForm DEF UpsertRecord
  <2>2. Stays(c) /\ ~Saving(c)
    BY <1>3 DEF UpsertRecord, SaveRecord, WellFormed, TypeOK, Begin, Goto, Stays, Saving
  <2>3. memory'[r] = clock + 1 /\ \A j \in Items : Unit(j) # Unit(r) => memory'[j] = memory[j]
    BY <1>3 DEF UpsertRecord, WellFormed, TypeOK
  <2>. QED  BY <1>3, <2>1, <2>2, <2>3, BeginsAlone DEF UpsertRecord
<1>4. ASSUME NEW k \in Keys, ExecuteTool(c, k)  PROVE SavesAlone'
  <2>1. /\ pc'[c] = "executing" /\ pc[c] = "idle" /\ Stays(c)
        /\ UNCHANGED <<driver, memory, taskRow, nodeRows, records, index, version, snapshot, overlapped, settled>>
    BY <1>4 DEF ExecuteTool, WellFormed, TypeOK, Goto, Stays, database
  <2>2. \A d \in Clients : /\ Saving(d)' <=> Saving(d) /\ d # c
                           /\ Alone(d)' <=> Alone(d) /\ d # c
                           /\ Saving(d) => d # c
    BY <2>1 DEF Saving, Alone, Stays
  <2>3. \A i : Unit(i)' = Unit(i) /\ Stored(i)' = Stored(i)  BY <2>1 DEF Stored, Unit
  <2>4. AloneIsAlone'
    BY <2>1, <2>2 DEF SavesAlone, AloneIsAlone, Stays, Unit
  <2>5. \A d \in Clients : Alone(d)' => SavesMemory(d)'
    BY <2>1, <2>2, <2>3 DEF SavesAlone, SavesMemory, Stays
  <2>6. Restored' = Restored  BY <2>1 DEF Restored, Unit
  <2>7. SavedWhenAlone'
    BY <2>1, <2>3, <2>6 DEF SavesAlone, SavedWhenAlone
  <2>. QED  BY <2>4, <2>5, <2>7 DEF SavesAlone
<1>. QED  BY <1>1, <1>2, <1>3, <1>4 DEF Requests

\* and so does every step of a save: the snapshot is taken of what is in memory, and nobody
\* writes into it before it is stored.
LEMMA ContinueAlone ==
  ASSUME WellFormed, SavesAlone, NEW c \in Clients, Continues(c)
  PROVE  SavesAlone'
<1>. USE DEF database, history, KeepsCall
<1>0. /\ Placed(c) /\ Parts \cap Records = {} /\ TaskPart \in Parts
      /\ \A x \in Items : x \in Parts \/ x \in Records
  BY StoreAssumption DEF WellFormed, Items, Records
<1>1. CASE ToolAnswers(c)
  <2>1. item[c] \in Records /\ item[c] \in Items
    BY <1>0, <1>1 DEF ToolAnswers, Placed, Records, Items
  <2>2. pc'[c] \in {"upsert", "set"}  BY <1>1, <2>1, SaveRecordForm DEF ToolAnswers
  <2>3. Stays(c) /\ ~Saving(c)
    BY <1>1 DEF ToolAnswers, SaveRecord, WellFormed, TypeOK, Begin, Goto, Stays, Saving
  <2>4. /\ memory'[item[c]] = clock + 1
        /\ \A j \in Items : Unit(j) # Unit(item[c]) => memory'[j] = memory[j]
    BY <1>1, <2>1 DEF ToolAnswers, WellFormed, TypeOK
  <2>. QED  BY <1>1, <2>1, <2>2, <2>3, <2>4, BeginsAlone DEF ToolAnswers
<1>2. CASE ToolFails(c)
  BY <1>2, EndsAlone DEF ToolFails
<1>3. CASE Capture(c)
  <2>1. /\ pc'[c] \in {"begin", "set"} /\ Stays(c) /\ pc[c] = "capture"
        /\ snapshot'[c] = [p \in Parts |-> memory[p]]
        /\ \A x \in Clients \ {c} : snapshot'[x] = snapshot[x]
    BY <1>3 DEF Capture, WellFormed, TypeOK, Goto, Stays
  <2>2. Saving(c) /\ Saving(c)' /\ item[c] \in Parts
    BY <1>0, <2>1 DEF Saving, Placed
  <2>3. UNCHANGED <<driver, memory, item, version, settled, overlapped, index>>
    BY <1>3 DEF Capture
  <2>4. \A i \in Items : Stored(i)' = Stored(i)
    BY <1>3 DEF Capture, Stored
  <2>5. SavesMemory(c)'
    BY <1>0, <2>1, <2>2, <2>3 DEF SavesMemory, InTransaction
  <2>. QED  BY <2>1, <2>2, <2>3, <2>4, <2>5, MovesAlone
<1>4. CASE InsertTask(c) \/ ReplaceNodes(c)
  <2>1. /\ pc'[c] \in {"nodes", "commit"} /\ Stays(c) /\ pc[c] \in {"begin", "nodes"}
        /\ UNCHANGED <<driver, memory, item, version, snapshot, settled, overlapped, index,
                       taskRow, nodeRows, records>>
    BY <1>4 DEF InsertTask, ReplaceNodes, WellFormed, TypeOK, Goto, Stays
  <2>2. Saving(c) /\ Saving(c)' /\ item[c] \in Parts
    BY <1>0, <2>1 DEF Saving, Placed, InTransaction
  <2>3. \A i \in Items : Stored(i)' = Stored(i)  BY <2>1 DEF Stored
  <2>4. Alone(c) => SavesMemory(c)'
    BY <1>0, <2>1, <2>2 DEF SavesAlone, SavesMemory, InTransaction
  <2>. QED  BY <2>1, <2>2, <2>3, <2>4, MovesAlone
<1>5. CASE Commit(c)
  <2>1. /\ pc'[c] = "reply" /\ Stays(c) /\ pc[c] = "commit"
        /\ taskRow' = snapshot[c] /\ nodeRows' = snapshot[c]
        /\ UNCHANGED <<driver, memory, item, version, snapshot, settled, overlapped, index, records>>
    BY <1>5 DEF Commit, WellFormed, TypeOK, Goto, Stays
  <2>2. Saving(c) /\ Saving(c)' /\ item[c] \in Parts /\ item[c] \in Items /\ driver = "postgres"
    BY <1>0, <2>1 DEF Saving, Placed, InTransaction
  <2>3. \A i \in Items : Unit(i) # Unit(item[c]) => i \notin Parts /\ Stored(i)' = Stored(i)
    BY <1>0, <2>1, <2>2, UnitSplit DEF Stored
  <2>4. Alone(c) => SavesMemory(c)'
    <3>1. ASSUME Alone(c), NEW i \in Items, Unit(i) = Unit(item[c])  PROVE Stored(i)' = memory[i]
      <4>1. i \in Parts  BY <1>0, <2>2, <3>1, UnitSplit
      <4>2. snapshot[c][i] = memory[i]
        BY <2>1, <3>1, <4>1 DEF SavesAlone, SavesMemory, InTransaction
      <4>. QED  BY <2>1, <4>1, <4>2 DEF Stored
    <3>2. \A i : Unit(i)' = Unit(i)  BY DEF Unit
    <3>. QED  BY <1>0, <2>1, <2>2, <3>1, <3>2 DEF SavesMemory, InTransaction
  <2>. QED  BY <2>1, <2>2, <2>3, <2>4, MovesAlone
<1>6. CASE Upsert(c)
  <2>1. /\ pc'[c] = "reply" /\ Stays(c) /\ pc[c] = "upsert"
        /\ records' = [records EXCEPT ![item[c]] = version[c]]
        /\ UNCHANGED <<driver, memory, item, version, snapshot, settled, overlapped, index, taskRow, nodeRows>>
    BY <1>6 DEF Upsert, WellFormed, TypeOK, Goto, Stays
  <2>2. Saving(c) /\ Saving(c)' /\ item[c] \in Records /\ item[c] \in Items /\ driver = "postgres"
    BY <1>0, <2>1 DEF Saving, Placed
  <2>3. records'[item[c]] = version[c] /\ \A r \in Records \ {item[c]} : records'[r] = records[r]
    BY <2>1, <2>2 DEF WellFormed, TypeOK
  <2>4. \A i \in Items : Unit(i) # Unit(item[c]) => Stored(i)' = Stored(i)
    BY <1>0, <2>1, <2>3 DEF Stored
  <2>5. Alone(c) => SavesMemory(c)'
    <3>1. ASSUME Alone(c), NEW i \in Items, Unit(i) = Unit(item[c])  PROVE Stored(i)' = memory[i]
      <4>1. i = item[c]  BY <1>0, <2>2, <3>1, UnitSplit
      <4>2. version[c] = memory[i]  BY <2>2, <3>1, <4>1 DEF SavesAlone, SavesMemory
      <4>. QED  BY <1>0, <2>2, <2>3, <4>1, <4>2 DEF Stored
    <3>2. \A i : Unit(i)' = Unit(i)  BY DEF Unit
    <3>3. Alone(c) => version[c] = memory[item[c]]  BY <2>2 DEF SavesAlone, SavesMemory
    <3>. QED  BY <1>0, <2>1, <2>2, <3>1, <3>2, <3>3 DEF SavesMemory, InTransaction
  <2>. QED  BY <2>1, <2>2, <2>4, <2>5, MovesAlone
<1>7. CASE RedisSet(c)
  <2>1. /\ pc'[c] = "stored" /\ Stays(c) /\ pc[c] = "set"
        /\ UNCHANGED <<driver, memory, item, version, snapshot, settled, overlapped, index>>
    BY <1>7 DEF RedisSet, WellFormed, TypeOK, Goto, Stays
  <2>2. Saving(c) /\ Saving(c)' /\ item[c] \in Items
    BY <1>0, <2>1 DEF Saving, Placed
  <2>3. \A i : Unit(i)' = Unit(i)  BY DEF Unit
  <2>4. CASE item[c] \in Parts
    <3>1. taskRow' = snapshot[c] /\ nodeRows' = snapshot[c] /\ UNCHANGED records
      BY <1>7, <2>4 DEF RedisSet
    <3>2. \A i \in Items : Unit(i) # Unit(item[c]) => i \notin Parts /\ Stored(i)' = Stored(i)
      BY <1>0, <2>2, <2>4, <3>1, UnitSplit DEF Stored
    <3>3. ASSUME Alone(c), NEW i \in Items, Unit(i) = Unit(item[c])  PROVE Stored(i)' = memory[i]
      <4>1. i \in Parts  BY <1>0, <2>2, <2>4, <3>3, UnitSplit
      <4>2. snapshot[c][i] = memory[i]
        BY <2>1, <2>4, <3>3, <4>1 DEF SavesAlone, SavesMemory
      <4>. QED  BY <3>1, <4>1, <4>2 DEF Stored
    <3>4. Alone(c) => SavesMemory(c)'
      BY <1>0, <2>1, <2>3, <2>4, <3>3 DEF SavesMemory, InTransaction
    <3>. QED  BY <2>1, <2>2, <3>2, <3>4, MovesAlone
  <2>5. CASE item[c] \notin Parts
    <3>1. item[c] \in Records  BY <1>0, <2>2, <2>5
    <3>2. /\ records'[item[c]] = version[c] /\ \A r \in Records \ {item[c]} : records'[r] = records[r]
          /\ UNCHANGED <<taskRow, nodeRows>>
      BY <1>7, <2>5, <3>1 DEF RedisSet, WellFormed, TypeOK
    <3>3. \A i \in Items : Unit(i) # Unit(item[c]) => Stored(i)' = Stored(i)
      BY <1>0, <3>2 DEF Stored
    <3>4. ASSUME Alone(c)  PROVE version[c] = memory[item[c]]
      BY <3>1, <3>4 DEF SavesAlone, SavesMemory
    <3>5. ASSUME Alone(c), NEW i \in Items, Unit(i) = Unit(item[c])  PROVE Stored(i)' = memory[i]
      <4>1. i = item[c]  BY <1>0, <2>2, <3>1, <3>5, UnitSplit
      <4>. QED  BY <1>0, <3>1, <3>2, <3>4, <3>5, <4>1 DEF Stored
    <3>6. Alone(c) => SavesMemory(c)'
      BY <1>0, <2>1, <2>3, <2>5, <3>4, <3>5 DEF SavesMemory, InTransaction
    <3>. QED  BY <2>1, <2>2, <3>3, <3>6, MovesAlone
  <2>. QED  BY <2>4, <2>5
<1>8. CASE SendIndex(c) \/ RedisIndex(c)
  <2>1. /\ pc[c] \in {"stored", "indexing"} /\ pc'[c] \in {"indexing", "reply"} /\ Stays(c)
        /\ UNCHANGED <<driver, memory, item, version, snapshot, settled, overlapped,
                       taskRow, nodeRows, records>>
        /\ index' \in {index, index \cup {Unit(item[c])}}
        /\ pc'[c] = "reply" => Unit(item[c]) \in index'
    BY <1>8 DEF SendIndex, RedisIndex, WellFormed, TypeOK, Goto, Stays
  <2>2. Saving(c) /\ Saving(c)'  BY <2>1 DEF Saving
  <2>3. \A i : Unit(i)' = Unit(i) /\ Stored(i)' = Stored(i)  BY <2>1 DEF Stored, Unit
  <2>4. Alone(c) => SavesMemory(c)'
    BY <2>1, <2>3 DEF SavesAlone, SavesMemory, InTransaction
  <2>. QED  BY <2>1, <2>2, <2>3, <2>4, MovesAlone
<1>9. CASE Reply(c)
  <2>1. /\ Ends(c) /\ UNCHANGED <<driver, memory, database>> /\ pc[c] = "reply"
        /\ settled' = IF overlapped[c] THEN settled ELSE settled \cup {Unit(item[c])}
    BY <1>9 DEF Reply
  <2>. QED  BY <2>1, EndsAlone DEF Alone, Saving
<1>. QED
  BY <1>1, <1>2, <1>3, <1>4, <1>5, <1>6, <1>7, <1>8, <1>9 DEF Continues

\* A restart reads what is stored, and ends every save.
LEMMA RestartAlone ==
  ASSUME Restart  PROVE SavesAlone'
<1>1. /\ memory' = Restored /\ UNCHANGED <<driver, taskRow, nodeRows, records, index>>
      /\ \A c \in Clients : pc'[c] = "idle"
  BY DEF Restart, database
<1>2. Restored' = Restored  BY <1>1 DEF Restored, Unit
<1>3. \A c \in Clients : ~Saving(c)'  BY <1>1 DEF Saving
<1>. QED  BY <1>1, <1>2, <1>3 DEF SavesAlone, AloneIsAlone, Alone, SavedWhenAlone

\* After a save that met no other of its task or record, and until the next write of it, a
\* restart loses nothing (persistSnapshot takes its snapshot before its first wait and
\* replaces all rows), whatever was lost or overtaken before.
THEOREM SavedAloneIsRestored == Spec => []SavedWhenAlone
<1>1. Init => SavesAlone
  BY DEF Init, SavesAlone, AloneIsAlone, Alone, Saving, SavedWhenAlone
<1>2. ASSUME WellFormed, SavesAlone, [Next]_vars  PROVE SavesAlone'
  <2>1. CASE UNCHANGED vars
    <3>1. UNCHANGED <<driver, memory, taskRow, nodeRows, records, index, pc, item, version, snapshot,
                      overlapped, settled>>
      BY <2>1 DEF vars, database, callVars, history
    <3>2. \A i : Unit(i)' = Unit(i) /\ Stored(i)' = Stored(i)  BY <3>1 DEF Stored, Unit
    <3>3. Restored' = Restored  BY <3>1 DEF Restored, Unit
    <3>4. \A c \in Clients : (Saving(c)' <=> Saving(c)) /\ (Alone(c)' <=> Alone(c))
      BY <3>1 DEF Saving, Alone
    <3>5. AloneIsAlone'  BY <1>2, <3>1, <3>2, <3>4 DEF SavesAlone, AloneIsAlone
    <3>6. \A c \in Clients : Alone(c)' => SavesMemory(c)'
      BY <1>2, <3>1, <3>2, <3>4 DEF SavesAlone, SavesMemory
    <3>7. SavedWhenAlone'  BY <1>2, <3>1, <3>2, <3>3 DEF SavesAlone, SavedWhenAlone
    <3>. QED  BY <3>5, <3>6, <3>7 DEF SavesAlone
  <2>2. ASSUME NEW c \in Clients, Failures(c)  PROVE SavesAlone'
    <3>1. Ends(c) /\ UNCHANGED <<driver, memory, database, settled>>
      BY <2>2 DEF Failures, PostgresFails, RedisFails, Fails
    <3>. QED  BY <1>2, <3>1, EndsAlone
  <2>. QED  BY <1>2, <2>1, <2>2, RequestAlone, ContinueAlone, RestartAlone DEF Next
<1>3. SavesAlone => SavedWhenAlone  BY DEF SavesAlone
<1>4. WellFormed /\ SavesAlone /\ [Next]_vars => SavesAlone'  BY <1>2
<1>. QED  BY <1>1, <1>3, <1>4, FormHolds, PTL DEF Spec

-----------------------------------------------------------------------------
(* Redis: one connection, so what is written later is stored later          *)

OnWire(c) == \E j \in 1..Len(wire) : wire[j] = c
Before(c, d) == \E j, k \in 1..Len(wire) : j < k /\ wire[j] = c /\ wire[k] = d

\* c is about to set i, to this value.
Writes(c, i) == pc[c] = "set" /\ Unit(item[c]) = Unit(i)
Value(c, i)  == IF i \in Parts THEN snapshot[c][i] ELSE version[c]

\* Nobody waits twice for the connection.
WireOnce ==
  /\ \A c \in Clients : OnWire(c) => pc[c] \in {"set", "indexing"}
  /\ \A c \in Clients : ~Before(c, c)

\* Versions come from the clock, and a task that exists is no older in memory than stored.
VersionsOrdered ==
  /\ \A i \in Items : memory[i] <= clock /\ Stored(i) <= clock
  /\ Created => \A p \in Parts : Stored(p) <= memory[p]
  /\ \A c \in Clients : pc[c] = "capture" => Created /\ version[c] <= memory[item[c]]
  /\ \A c \in Clients, i \in Items : Writes(c, i) => Value(c, i) <= memory[i]

\* The sets that are under way write newer and newer values.
WireOrdered ==
  /\ \A c \in Clients, i \in Items : OnWire(c) /\ Writes(c, i) => Stored(i) <= Value(c, i)
  /\ \A c, d \in Clients, i \in Items :
       Before(c, d) /\ Writes(c, i) /\ Writes(d, i) => Value(c, i) <= Value(d, i)

\* How far the save of c is through, and what was reported as saved.
Through(c) ==
  /\ pc[c] = "set" => version[c] <= Value(c, item[c])
  /\ pc[c] \in {"stored", "indexing", "reply"} => version[c] <= Stored(item[c])
  /\ pc[c] = "reply" => Unit(item[c]) \in index
AckedIsStored == \A i \in Items : acked[i] # 0 => Unit(i) \in index /\ acked[i] <= Stored(i)

RedisOrder ==
  /\ WireOnce /\ VersionsOrdered /\ WireOrdered
  /\ AckedIsStored /\ \A c \in Clients : Through(c)

\* What a step of c may do to the wire: leave it, or go to its end.
WireMoves(c) ==
  /\ \A d \in Clients \ {c} : OnWire(d)' => OnWire(d)
  /\ \A d, e \in Clients \ {c} : Before(d, e)' => Before(d, e)
  /\ \A d \in Clients : ~Before(c, d)'
  /\ OnWire(c)' => pc'[c] \in {"set", "indexing"}

LEMMA WireStays ==
  ASSUME WellFormed, WireOnce, NEW c \in Clients, pc[c] \notin {"set", "indexing"}, UNCHANGED wire
  PROVE  WireMoves(c)
<1>1. wire \in Seq(Clients) /\ ~OnWire(c)  BY DEF WellFormed, TypeOK, WireOnce
<1>2. \A d \in Clients : ~Before(c, d)  BY <1>1 DEF OnWire, Before
<1>. QED  BY <1>1, <1>2 DEF WireMoves, OnWire, Before

LEMMA WireGrows ==
  ASSUME WellFormed, WireOnce, NEW c \in Clients, pc[c] \notin {"set", "indexing"},
         wire' = Append(wire, c), pc'[c] \in {"set", "indexing"}
  PROVE  WireMoves(c)
<1>1. wire \in Seq(Clients) /\ ~OnWire(c)  BY DEF WellFormed, TypeOK, WireOnce
<1>2. /\ Len(wire') = Len(wire) + 1 /\ wire'[Len(wire) + 1] = c
      /\ \A j \in 1..Len(wire) : wire'[j] = wire[j]
      /\ Len(wire) \in Nat
  BY <1>1, AppendProperties, LenProperties
<1>3. \A j \in 1..Len(wire') : j \in 1..Len(wire) \/ j = Len(wire) + 1
  BY <1>2
<1>4. \A j \in 1..Len(wire') : wire'[j] = c => j = Len(wire) + 1
  BY <1>1, <1>2, <1>3 DEF OnWire
<1>5. \A d \in Clients : ~Before(c, d)'  BY <1>2, <1>4 DEF Before
<1>6. \A d \in Clients \ {c} : OnWire(d)' => OnWire(d)  BY <1>2, <1>3 DEF OnWire
<1>7. \A d, e \in Clients \ {c} : Before(d, e)' => Before(d, e)  BY <1>2, <1>3 DEF Before
<1>. QED  BY <1>5, <1>6, <1>7 DEF WireMoves

LEMMA WireTurns ==
  ASSUME WellFormed, WireOnce, NEW c \in Clients, Turn(c)
  PROVE  WireMoves(c) /\ OnWire(c) /\ \A d \in Clients : OnWire(d)' => Before(c, d)
<1>1. wire \in Seq(Clients) /\ ~Before(c, c)  BY DEF WellFormed, TypeOK, WireOnce
<1>2. /\ Len(wire') = Len(wire) - 1 /\ Len(wire) \in Nat \ {0} /\ wire[1] = c
      /\ \A j \in 1..Len(wire') : wire'[j] = wire[j + 1]
  BY <1>1, HeadTailProperties, EmptySeq DEF Turn
<1>3. \A j \in 1..Len(wire') : j + 1 \in 1..Len(wire) /\ 1 < j + 1
  BY <1>2
<1>4. ASSUME NEW d \in Clients, OnWire(d)'  PROVE Before(c, d)
  <2>1. PICK j \in 1..Len(wire') : wire'[j] = d  BY <1>4 DEF OnWire
  <2>2. 1 \in 1..Len(wire) /\ wire[j + 1] = d  BY <1>2, <2>1
  <2>. QED  BY <1>2, <1>3, <2>1, <2>2 DEF Before
<1>5. \A d \in Clients : OnWire(d)' => OnWire(d)  BY <1>2, <1>3 DEF OnWire
<1>6. ASSUME NEW d \in Clients, NEW e \in Clients, Before(d, e)'  PROVE Before(d, e) /\ OnWire(d)'
  <2>1. PICK j, k \in 1..Len(wire') : j < k /\ wire'[j] = d /\ wire'[k] = e  BY <1>6 DEF Before
  <2>2. j + 1 < k + 1 /\ wire[j + 1] = d /\ wire[k + 1] = e  BY <1>2, <2>1
  <2>. QED  BY <1>3, <2>1, <2>2 DEF Before, OnWire
<1>7. ~OnWire(c)'  BY <1>1, <1>4
<1>8. OnWire(c)  BY <1>2 DEF OnWire
<1>. QED  BY <1>4, <1>5, <1>6, <1>7, <1>8 DEF WireMoves

\* Enough for a step of c to keep the order.
LEMMA KeepsOrder ==
  ASSUME WellFormed, RedisOrder, NEW c \in Clients, WireMoves(c),
         \A d \in Clients \ {c} : /\ pc'[d] = pc[d] /\ item'[d] = item[d]
                                  /\ version'[d] = version[d] /\ snapshot'[d] = snapshot[d],
         \A i \in Items : /\ memory[i] <= memory'[i] /\ memory'[i] <= clock'
                          /\ Stored(i) <= Stored(i)' /\ Stored(i)' <= clock'
                          /\ memory'[i] \in Nat /\ Stored(i)' \in Nat /\ Stored(i) \in Nat,
         Created => Created', Created' => \A p \in Parts : Stored(p)' <= memory'[p],
         pc'[c] = "capture" => Created' /\ version'[c] <= memory'[item'[c]],
         \A i \in Items : Writes(c, i)' =>
           /\ Stored(i)' <= Value(c, i)' /\ Value(c, i)' <= memory'[i]
           /\ \A d \in Clients \ {c} : Writes(d, i) => Value(d, i) <= Value(c, i)',
         \A d \in Clients \ {c}, i \in Items :
           OnWire(d)' /\ Writes(d, i) => Stored(i)' <= Value(d, i),
         Through(c)', index \subseteq index', AckedIsStored'
  PROVE  RedisOrder'
<1>. USE DEF RedisOrder
<1>0. \A d \in Clients \ {c} : \A i \in Items : /\ Writes(d, i)' <=> Writes(d, i)
                                                /\ Value(d, i)' = Value(d, i)
                                                /\ Unit(i)' = Unit(i)
  BY DEF Writes, Value, Unit
<1>a. /\ \A d \in Clients : pc[d] # "idle" => item[d] \in Items
      /\ memory \in [Items -> Nat]
      /\ Parts \subseteq Items
  BY DEF WellFormed, TypeOK, Placed, Items
<1>b. \A d \in Clients, i \in Items : Writes(d, i) => Value(d, i) \in Nat /\ version[d] \in Nat
  BY DEF WellFormed, TypeOK, Value
<1>1. WireOnce'
  BY DEF WireMoves, WireOnce
<1>2. VersionsOrdered'
  <2>1. ASSUME NEW d \in Clients, pc'[d] = "capture"
        PROVE  Created' /\ version'[d] <= memory'[item'[d]]
    <3>1. CASE d = c  BY <2>1, <3>1
    <3>2. CASE d # c
      <4>1. item[d] \in Items /\ version[d] \in Nat /\ Created /\ version[d] <= memory[item[d]]
        BY <1>a, <2>1, <3>2 DEF VersionsOrdered, WellFormed, TypeOK
      <4>2. memory[item[d]] <= memory'[item[d]] /\ memory[item[d]] \in Nat /\ memory'[item[d]] \in Nat
        BY <1>a, <4>1
      <4>. QED  BY <3>2, <4>1, <4>2
    <3>. QED  BY <3>1, <3>2
  <2>2. ASSUME NEW d \in Clients, NEW i \in Items, Writes(d, i)'  PROVE Value(d, i)' <= memory'[i]
    <3>1. CASE d = c  BY <2>2, <3>1
    <3>2. CASE d # c
      <4>1. Writes(d, i) /\ Value(d, i)' = Value(d, i)  BY <1>0, <2>2, <3>2
      <4>2. Value(d, i) <= memory[i] /\ memory[i] <= memory'[i]  BY <4>1 DEF VersionsOrdered
      <4>3. Value(d, i) \in Nat /\ memory[i] \in Nat /\ memory'[i] \in Nat  BY <1>a, <1>b, <4>1
      <4>. QED  BY <4>1, <4>2, <4>3
    <3>. QED  BY <3>1, <3>2
  <2>. QED  BY <2>1, <2>2 DEF VersionsOrdered
<1>3. WireOrdered'
  <2>1. ASSUME NEW d \in Clients, NEW i \in Items, OnWire(d)', Writes(d, i)'
        PROVE  Stored(i)' <= Value(d, i)'
    BY <1>0, <2>1
  <2>2. ASSUME NEW d \in Clients, NEW e \in Clients, NEW i \in Items,
               Before(d, e)', Writes(d, i)', Writes(e, i)'
        PROVE  Value(d, i)' <= Value(e, i)'
    <3>1. d # c  BY <2>2 DEF WireMoves
    <3>2. CASE e = c  BY <1>0, <2>2, <3>1, <3>2
    <3>3. CASE e # c
      BY <1>0, <2>2, <3>1, <3>3 DEF WireMoves, WireOrdered
    <3>. QED  BY <3>2, <3>3
  <2>. QED  BY <2>1, <2>2 DEF WireOrdered
<1>4. ASSUME NEW d \in Clients  PROVE Through(d)'
  <2>1. CASE d = c  BY <2>1
  <2>2. CASE d # c
    <3>1. /\ pc'[d] = pc[d] /\ item'[d] = item[d] /\ version'[d] = version[d]
          /\ version[d] \in Nat /\ Through(d)
      BY <2>2 DEF WellFormed, TypeOK
    <3>2. CASE pc[d] = "idle"  BY <3>1, <3>2 DEF Through
    <3>3. CASE pc[d] # "idle"
      <4>1. PICK i \in Items : i = item[d]  BY <1>a, <3>3
      <4>2. Value(d, i)' = Value(d, i) /\ Unit(i)' = Unit(i)  BY <1>0, <2>2
      <4>3. Stored(i) <= Stored(i)' /\ Stored(i) \in Nat /\ Stored(i)' \in Nat
        OBVIOUS
      <4>4. /\ pc[d] = "set" => version'[d] <= Value(d, i)'
            /\ pc[d] \in {"stored", "indexing", "reply"} => version'[d] <= Stored(i)'
            /\ pc[d] = "reply" => Unit(i)' \in index'
        BY <3>1, <4>1, <4>2, <4>3 DEF Through
      <4>5. i = item'[d]  BY <3>1, <4>1
      <4>. QED  BY <3>1, <4>4, <4>5 DEF Through
    <3>. QED  BY <3>2, <3>3
  <2>. QED  BY <2>1, <2>2
<1>. QED  BY <1>1, <1>2, <1>3, <1>4

\* Stored values have versions too.
LEMMA StoredType ==
  ASSUME TypeOK  PROVE \A i \in Items : Stored(i) \in Nat /\ memory[i] \in Nat
BY StoreAssumption DEF TypeOK, Stored, Items

\* A step of c that sets out to store nothing.
LEMMA QuietOrder ==
  ASSUME WellFormed, WellFormed', RedisOrder, NEW c \in Clients, WireMoves(c),
         \A d \in Clients \ {c} : /\ pc'[d] = pc[d] /\ item'[d] = item[d]
                                  /\ version'[d] = version[d] /\ snapshot'[d] = snapshot[d],
         UNCHANGED <<memory, taskRow, nodeRows, records, clock>>, index \subseteq index',
         pc'[c] \notin {"capture", "set"}, Through(c)', AckedIsStored'
  PROVE  RedisOrder'
<1>1. \A i \in Items : Stored(i)' = Stored(i) /\ Stored(i) \in Nat /\ memory[i] \in Nat
  BY StoredType DEF WellFormed, Stored
<1>2. /\ \A i \in Items : ~Writes(c, i)'
      /\ Created' <=> Created
  BY DEF Writes, Created
<1>3. \A d \in Clients \ {c}, i \in Items : OnWire(d)' /\ Writes(d, i) => Stored(i)' <= Value(d, i)
  BY <1>1 DEF WireMoves, RedisOrder, WireOrdered
<1>4. \A i \in Items : memory[i] <= clock /\ Stored(i) <= clock
  BY DEF RedisOrder, VersionsOrdered
<1>5. Created => \A p \in Parts : Stored(p)' <= memory'[p]
  BY <1>1 DEF RedisOrder, VersionsOrdered, Items
<1>. QED  BY <1>1, <1>2, <1>3, <1>4, <1>5, KeepsOrder

\* A write of a record is sent after every earlier write of it.
LEMMA RecordOrder ==
  ASSUME WellFormed, RedisOrder, driver = "redis", NEW c \in Clients, NEW r \in Records,
         pc[c] \in {"idle", "executing"}, Begin(c, r), SaveRecord(c),
         memory' = [memory EXCEPT ![r] = clock + 1],
         UNCHANGED <<driver, database, snapshot, acked>>
  PROVE  RedisOrder'
<1>0. r \in Items /\ r \notin Parts /\ r # TaskPart /\ clock \in Nat
  BY StoreAssumption DEF Items, Records, WellFormed, TypeOK
<1>1. /\ pc'[c] = "set" /\ item'[c] = r /\ version'[c] = clock + 1 /\ clock' = clock + 1
      /\ wire' = Append(wire, c)
      /\ \A d \in Clients \ {c} : /\ pc'[d] = pc[d] /\ item'[d] = item[d]
                                  /\ version'[d] = version[d] /\ snapshot'[d] = snapshot[d]
  BY StoreAssumption DEF WellFormed, TypeOK, Begin, SaveRecord, Goto
<1>2. WireMoves(c)  BY <1>1, WireGrows DEF RedisOrder
<1>3. UNCHANGED <<taskRow, nodeRows, records, index>>  BY DEF database
<1>4. \A i \in Items : Stored(i)' = Stored(i) /\ Unit(i)' = Unit(i)
                       /\ Stored(i) \in Nat /\ memory[i] \in Nat
  BY <1>3, StoredType DEF WellFormed, Stored, Unit
<1>5. \A i \in Items : memory[i] <= clock /\ Stored(i) <= clock
  BY DEF RedisOrder, VersionsOrdered
<1>6. memory'[r] = clock + 1 /\ \A i \in Items \ {r} : memory'[i] = memory[i]
  BY <1>0 DEF WellFormed, TypeOK
<1>7. \A i \in Items : /\ memory[i] <= memory'[i] /\ memory'[i] <= clock' /\ memory'[i] \in Nat
                       /\ Stored(i) <= Stored(i)' /\ Stored(i)' <= clock'
  BY <1>0, <1>1, <1>4, <1>5, <1>6
<1>8. (Created' <=> Created) /\ (Created => \A p \in Parts : Stored(p)' <= memory'[p])
  <2>1. \A p \in Parts : p \in Items /\ memory'[p] = memory[p]  BY <1>0, <1>6 DEF Items
  <2>2. memory'[TaskPart] = memory[TaskPart]  BY <2>1, StoreAssumption
  <2>. QED  BY <1>4, <2>1, <2>2 DEF Created, RedisOrder, VersionsOrdered
<1>9. ASSUME NEW i \in Items, Writes(c, i)'
      PROVE  /\ Stored(i)' <= Value(c, i)' /\ Value(c, i)' <= memory'[i]
             /\ \A d \in Clients \ {c} : Writes(d, i) => Value(d, i) <= Value(c, i)'
  <2>1. i = r  BY <1>0, <1>1, <1>9, UnitSplit DEF Writes, Unit
  <2>2. Value(c, i)' = clock + 1  BY <1>0, <1>1, <2>1 DEF Value
  <2>3. ASSUME NEW d \in Clients \ {c}, Writes(d, i)  PROVE Value(d, i) <= clock
    <3>1. Value(d, i) <= memory[i] /\ memory[i] <= clock
      BY <1>5, <2>3 DEF RedisOrder, VersionsOrdered
    <3>2. Value(d, i) \in Nat  BY <1>0, <2>1 DEF Value, WellFormed, TypeOK
    <3>. QED  BY <1>0, <1>4, <3>1, <3>2
  <2>4. \A d \in Clients \ {c} : Value(d, i) \in Nat  BY <1>0, <2>1 DEF Value, WellFormed, TypeOK
  <2>. QED  BY <1>0, <1>4, <1>5, <1>6, <2>1, <2>2, <2>3, <2>4
<1>10. Through(c)'
  BY <1>0, <1>1 DEF Through, Value
<1>11. AckedIsStored'  BY <1>3, <1>4 DEF RedisOrder, AckedIsStored
<1>12. \A d \in Clients \ {c}, i \in Items : OnWire(d)' /\ Writes(d, i) => Stored(i)' <= Value(d, i)
  BY <1>2, <1>4 DEF WireMoves, RedisOrder, WireOrdered
<1>. QED
  BY <1>1, <1>2, <1>3, <1>4, <1>7, <1>8, <1>9, <1>10, <1>11, <1>12, KeepsOrder

\* A write of the task changes what is in memory; nothing is sent yet.
LEMMA PartOrder ==
  ASSUME WellFormed, RedisOrder, NEW c \in Clients, NEW q \in Parts,
         pc[c] = "idle", Begin(c, q), Goto(c, "capture"),
         memory' \in [Items -> Nat], memory'[q] = clock + 1, Created',
         \A i \in Items : memory'[i] \in {memory[i], clock + 1},
         ~Created => \A p \in Parts : memory'[p] = clock + 1,
         UNCHANGED <<driver, database, wire, snapshot, acked>>
  PROVE  RedisOrder'
<1>0. clock \in Nat  BY DEF WellFormed, TypeOK
<1>1. /\ pc'[c] = "capture" /\ item'[c] = q /\ version'[c] = clock + 1 /\ clock' = clock + 1
      /\ \A d \in Clients \ {c} : /\ pc'[d] = pc[d] /\ item'[d] = item[d]
                                  /\ version'[d] = version[d] /\ snapshot'[d] = snapshot[d]
  BY DEF WellFormed, TypeOK, Begin, Goto
<1>2. WireMoves(c)  BY WireStays DEF RedisOrder
<1>3. UNCHANGED <<taskRow, nodeRows, records, index>>  BY DEF database
<1>4. \A i \in Items : Stored(i)' = Stored(i) /\ Unit(i)' = Unit(i)
                       /\ Stored(i) \in Nat /\ memory[i] \in Nat
  BY <1>3, StoredType DEF WellFormed, Stored, Unit
<1>5. \A i \in Items : memory[i] <= clock /\ Stored(i) <= clock
  BY DEF RedisOrder, VersionsOrdered
<1>6. \A i \in Items : memory'[i] = memory[i] \/ memory'[i] = clock + 1
  OBVIOUS
<1>7. \A i \in Items : /\ memory[i] <= memory'[i] /\ memory'[i] <= clock' /\ memory'[i] \in Nat
                       /\ Stored(i) <= Stored(i)' /\ Stored(i)' <= clock'
  BY <1>0, <1>1, <1>4, <1>5, <1>6
<1>8. ASSUME NEW p \in Parts  PROVE Stored(p)' <= memory'[p]
  <2>1. p \in Items /\ Stored(p) <= clock /\ (Created => Stored(p) <= memory[p])
    BY DEF Items, RedisOrder, VersionsOrdered
  <2>. QED  BY <1>0, <1>4, <1>6, <2>1
<1>9. (\A i \in Items : ~Writes(c, i)') /\ Through(c)'
  BY <1>1 DEF Writes, Through
<1>10. AckedIsStored'  BY <1>3, <1>4 DEF RedisOrder, AckedIsStored
<1>11. \A d \in Clients \ {c}, i \in Items : OnWire(d)' /\ Writes(d, i) => Stored(i)' <= Value(d, i)
  BY <1>2, <1>4 DEF WireMoves, RedisOrder, WireOrdered
<1>12. version'[c] <= memory'[item'[c]]  BY <1>0, <1>1
<1>. QED
  BY <1>1, <1>2, <1>3, <1>4, <1>7, <1>8, <1>9, <1>10, <1>11, <1>12, KeepsOrder

\* The snapshot is of what is in memory, and is sent at once.
LEMMA CaptureOrder ==
  ASSUME WellFormed, RedisOrder, driver = "redis", NEW c \in Clients, Capture(c)
  PROVE  RedisOrder'
<1>0. item[c] \in Parts /\ item[c] \in Items /\ TaskPart \in Parts
  BY StoreAssumption DEF Capture, WellFormed, Placed, Items
<1>1. /\ pc[c] = "capture" /\ pc'[c] = "set" /\ wire' = Append(wire, c)
      /\ snapshot'[c] = [p \in Parts |-> memory[p]]
      /\ UNCHANGED <<memory, item, version, taskRow, nodeRows, records, index, clock, acked>>
      /\ \A d \in Clients \ {c} : pc'[d] = pc[d] /\ snapshot'[d] = snapshot[d]
  BY DEF Capture, WellFormed, TypeOK, Goto, KeepsCall, history, database
<1>2. WireMoves(c)  BY <1>1, WireGrows DEF RedisOrder
<1>4. \A i \in Items : Stored(i)' = Stored(i) /\ Unit(i)' = Unit(i)
                       /\ Stored(i) \in Nat /\ memory[i] \in Nat
  BY <1>1, StoredType DEF WellFormed, Stored, Unit
<1>5. /\ \A i \in Items : memory[i] <= clock /\ Stored(i) <= clock
      /\ Created /\ version[c] <= memory[item[c]]
      /\ \A p \in Parts : Stored(p) <= memory[p]
  BY <1>1 DEF RedisOrder, VersionsOrdered
<1>6. Created'  BY <1>1, <1>5 DEF Created
<1>7. ASSUME NEW i \in Items, Writes(c, i)'
      PROVE  /\ Stored(i)' <= Value(c, i)' /\ Value(c, i)' <= memory'[i]
             /\ \A d \in Clients \ {c} : Writes(d, i) => Value(d, i) <= Value(c, i)'
  <2>1. Unit(item[c]) = Unit(i)  BY <1>1, <1>7 DEF Writes, Unit
  <2>2. i \in Parts  BY <1>0, <2>1, UnitSplit, StoreAssumption DEF Records
  <2>3. Value(c, i)' = memory[i]  BY <1>1, <2>2 DEF Value
  <2>4. \A d \in Clients : Writes(d, i) => Value(d, i) <= memory[i]
    BY DEF RedisOrder, VersionsOrdered
  <2>. QED  BY <1>1, <1>4, <1>5, <2>2, <2>3, <2>4
<1>8. Through(c)'
  BY <1>0, <1>1, <1>5 DEF Through, Value
<1>9. AckedIsStored'  BY <1>1, <1>4 DEF RedisOrder, AckedIsStored
<1>10. \A d \in Clients \ {c}, i \in Items : OnWire(d)' /\ Writes(d, i) => Stored(i)' <= Value(d, i)
  BY <1>2, <1>4 DEF WireMoves, RedisOrder, WireOrdered
<1>11. \A p \in Parts : Stored(p)' <= memory'[p]
  BY <1>1, <1>4, <1>5 DEF Items
<1>12. \A i \in Items : /\ memory[i] <= memory'[i] /\ memory'[i] <= clock' /\ memory'[i] \in Nat
                        /\ Stored(i) <= Stored(i)' /\ Stored(i)' <= clock'
  BY <1>1, <1>4, <1>5
<1>. QED
  BY <1>1, <1>2, <1>4, <1>6, <1>7, <1>8, <1>9, <1>10, <1>11, <1>12, KeepsOrder

\* What is set next is no older than what was set before, and no newer than what follows.
LEMMA SetOrder ==
  ASSUME WellFormed, WellFormed', RedisOrder, NEW c \in Clients, RedisSet(c)
  PROVE  RedisOrder'
<1>. TaskPart \in Parts /\ Parts \subseteq Items /\ Parts \cap Records = {}
     /\ \A i \in Items : i \in Parts \/ i \in Records
  BY StoreAssumption DEF Items, Records
<1>0. item[c] \in Items /\ version[c] \in Nat /\ snapshot[c] \in [Parts -> Nat]
  BY DEF RedisSet, WellFormed, TypeOK, Placed
<1>1. /\ pc[c] = "set" /\ pc'[c] = "stored" /\ Turn(c)
      /\ UNCHANGED <<memory, item, version, snapshot, index, clock, acked>>
      /\ \A d \in Clients \ {c} : pc'[d] = pc[d]
  BY DEF RedisSet, WellFormed, TypeOK, Goto, KeepsCall, history
<1>2. WireMoves(c) /\ OnWire(c) /\ \A d \in Clients : OnWire(d)' => Before(c, d)
  BY <1>1, WireTurns DEF RedisOrder
<1>3. ASSUME NEW i \in Items
      PROVE  /\ Writes(c, i) => Stored(i)' = Value(c, i)
             /\ ~Writes(c, i) => Stored(i)' = Stored(i)
  <2>1. CASE item[c] \in Parts
    <3>1. taskRow' = snapshot[c] /\ nodeRows' = snapshot[c] /\ records' = records
      BY <2>1 DEF RedisSet
    <3>2. Writes(c, i) <=> i \in Parts  BY <1>0, <1>1, <2>1, UnitSplit DEF Writes
    <3>. QED  BY <3>1, <3>2 DEF Stored, Value
  <2>2. CASE item[c] \notin Parts
    <3>1. /\ taskRow' = taskRow /\ nodeRows' = nodeRows /\ item[c] \in Records
          /\ records' = [records EXCEPT ![item[c]] = version[c]]
      BY <1>0, <2>2 DEF RedisSet
    <3>2. Writes(c, i) <=> i = item[c]  BY <1>0, <1>1, <2>2, <3>1, UnitSplit DEF Writes
    <3>3. CASE i \in Parts  BY <2>2, <3>1, <3>2, <3>3 DEF Stored
    <3>4. CASE i \in Records
      BY <3>1, <3>2, <3>4 DEF Stored, Value, WellFormed, TypeOK
    <3>. QED  BY <3>3, <3>4
  <2>. QED  BY <2>1, <2>2
<1>4. \A i \in Items : /\ Stored(i) \in Nat /\ memory[i] \in Nat /\ Value(c, i) \in Nat
                       /\ Unit(i)' = Unit(i)
  BY <1>0, StoredType DEF WellFormed, Value, Unit
<1>5. \A i \in Items : Writes(c, i) => Stored(i) <= Value(c, i) /\ Value(c, i) <= memory[i]
  BY <1>2 DEF RedisOrder, WireOrdered, VersionsOrdered
<1>6. \A i \in Items : memory[i] <= clock /\ Stored(i) <= clock
  BY DEF RedisOrder, VersionsOrdered
<1>7. clock \in Nat  BY DEF WellFormed, TypeOK
<1>8. \A i \in Items : Stored(i) <= Stored(i)' /\ Stored(i)' <= clock /\ Stored(i)' \in Nat
  <2>. SUFFICES ASSUME NEW i \in Items
                PROVE  Stored(i) <= Stored(i)' /\ Stored(i)' <= clock /\ Stored(i)' \in Nat
    OBVIOUS
  <2>1. CASE Writes(c, i)  BY <1>3, <1>4, <1>5, <1>6, <1>7, <2>1
  <2>2. CASE ~Writes(c, i)  BY <1>3, <1>4, <1>6, <1>7, <2>2
  <2>. QED  BY <2>1, <2>2
<1>9. (Created' <=> Created) /\ (Created => \A p \in Parts : Stored(p)' <= memory'[p])
  <2>1. ASSUME Created, NEW p \in Parts  PROVE Stored(p)' <= memory[p]
    <3>1. Stored(p) <= memory[p]  BY <2>1 DEF RedisOrder, VersionsOrdered
    <3>. QED  BY <1>3, <1>5, <3>1
  <2>. QED  BY <1>1, <2>1 DEF Created
<1>10. ASSUME NEW d \in Clients \ {c}, NEW i \in Items, OnWire(d)', Writes(d, i)
       PROVE  Stored(i)' <= Value(d, i)
  <2>1. CASE Writes(c, i)
    <3>1. Value(c, i) <= Value(d, i)  BY <1>2, <1>10, <2>1 DEF RedisOrder, WireOrdered
    <3>. QED  BY <1>3, <2>1, <3>1
  <2>2. CASE ~Writes(c, i)
    <3>1. OnWire(d)  BY <1>2, <1>10 DEF WireMoves
    <3>. QED  BY <1>3, <1>10, <2>2, <3>1 DEF RedisOrder, WireOrdered
  <2>. QED  BY <2>1, <2>2
<1>11. Through(c)'
  <2>1. PICK i \in Items : i = item[c]  BY <1>0
  <2>2. Writes(c, i) /\ version[c] <= Value(c, i)
    BY <1>1, <2>1 DEF Writes, RedisOrder, Through
  <2>3. version'[c] <= Stored(i)' /\ i = item'[c]  BY <1>1, <1>3, <2>1, <2>2
  <2>. QED  BY <1>1, <2>3 DEF Through
<1>12. AckedIsStored'
  <2>1. ASSUME NEW i \in Items, acked[i] # 0  PROVE Unit(i) \in index /\ acked[i] <= Stored(i)'
    <3>1. acked[i] \in Nat  BY DEF WellFormed, TypeOK
    <3>. QED  BY <1>4, <1>8, <2>1, <3>1 DEF RedisOrder, AckedIsStored
  <2>. QED  BY <1>1, <1>4, <2>1 DEF AckedIsStored
<1>13. \A i \in Items : ~Writes(c, i)'  BY <1>1 DEF Writes
<1>14. \A i \in Items : memory[i] <= memory'[i] /\ memory'[i] <= clock' /\ memory'[i] \in Nat
  BY <1>1, <1>4, <1>6
<1>. QED
  BY <1>1, <1>2, <1>4, <1>8, <1>9, <1>10, <1>11, <1>12, <1>13, <1>14, KeepsOrder

\* A call that ends, or is told of a save that is through.
LEMMA EndsOrder ==
  ASSUME WellFormed, WellFormed', RedisOrder, NEW c \in Clients, Ends(c), WireMoves(c),
         UNCHANGED <<memory, database, clock>>, AckedIsStored'
  PROVE  RedisOrder'
<1>1. /\ pc'[c] = "idle"
      /\ \A d \in Clients \ {c} : /\ pc'[d] = pc[d] /\ item'[d] = item[d]
                                  /\ version'[d] = version[d] /\ snapshot'[d] = snapshot[d]
  BY DEF WellFormed, TypeOK, Ends, Goto
<1>2. Through(c)'  BY <1>1 DEF Through
<1>. QED  BY <1>1, <1>2, QuietOrder DEF database

\* Nothing but the calls' own progress.
LEMMA AckedStays ==
  ASSUME RedisOrder, UNCHANGED <<database, acked>>  PROVE AckedIsStored'
<1>1. UNCHANGED <<taskRow, nodeRows, records, index, acked>>  BY DEF database
<1>2. \A i : Stored(i)' = Stored(i) /\ Unit(i)' = Unit(i)  BY <1>1 DEF Stored, Unit
<1>. QED  BY <1>1, <1>2 DEF RedisOrder, AckedIsStored

\* Every request keeps the order of the writes,
LEMMA RequestOrder ==
  ASSUME WellFormed, WellFormed', RedisOrder, driver = "redis", NEW c \in Clients, Requests(c)
  PROVE  RedisOrder'
<1>. TaskPart \in Parts /\ Parts \subseteq Items /\ Jobs \subseteq Records
  BY StoreAssumption DEF Items, Records
<1>1. CASE CreateTask(c)
  <2>1. /\ memory' = [i \in Items |-> IF i \in Parts THEN clock + 1 ELSE memory[i]]
        /\ pc[c] = "idle" /\ clock \in Nat
    BY <1>1 DEF CreateTask, WellFormed, TypeOK
  <2>2. /\ memory' \in [Items -> Nat]
        /\ \A p \in Parts : memory'[p] = clock + 1
        /\ \A i \in Items : memory'[i] \in {memory[i], clock + 1}
    BY <2>1 DEF WellFormed, TypeOK
  <2>3. Created'  BY <2>1, <2>2 DEF Created
  <2>. QED  BY <1>1, <2>1, <2>2, <2>3, PartOrder DEF CreateTask
<1>2. ASSUME NEW q \in Parts, UpdatePart(c, q)  PROVE RedisOrder'
  <2>1. /\ memory' = [memory EXCEPT ![q] = clock + 1] /\ pc[c] = "idle" /\ Created
        /\ clock \in Nat /\ memory \in [Items -> Nat]
    BY <1>2 DEF UpdatePart, WellFormed, TypeOK
  <2>2. /\ memory' \in [Items -> Nat] /\ memory'[q] = clock + 1
        /\ \A i \in Items : memory'[i] = memory[i] \/ memory'[i] = clock + 1
    BY <2>1
  <2>3. Created'  BY <2>1, <2>2 DEF Created
  <2>. QED  BY <1>2, <2>1, <2>2, <2>3, PartOrder DEF UpdatePart
<1>3. ASSUME NEW r \in Jobs, UpsertRecord(c, r)  PROVE RedisOrder'
  BY <1>3, RecordOrder DEF UpsertRecord
<1>4. ASSUME NEW k \in Keys, ExecuteTool(c, k)  PROVE RedisOrder'
  <2>1. /\ pc[c] = "idle" /\ pc'[c] = "executing"
        /\ UNCHANGED <<memory, database, wire, version, snapshot, clock, acked>>
        /\ \A d \in Clients \ {c} : pc'[d] = pc[d] /\ item'[d] = item[d]
    BY <1>4 DEF ExecuteTool, WellFormed, TypeOK, Goto
  <2>2. WireMoves(c)  BY <2>1, WireStays DEF RedisOrder
  <2>3. AckedIsStored'  BY <2>1, AckedStays
  <2>4. Through(c)'  BY <2>1 DEF Through
  <2>. QED  BY <2>1, <2>2, <2>3, <2>4, QuietOrder DEF database
<1>. QED  BY <1>1, <1>2, <1>3, <1>4 DEF Requests

\* and so does every step of a save, failed or not.
LEMMA ContinueOrder ==
  ASSUME WellFormed, WellFormed', RedisOrder, driver = "redis", NEW c \in Clients,
         Continues(c) \/ Failures(c)
  PROVE  RedisOrder'
<1>. USE DEF KeepsCall, history
<1>0. Placed(c)  BY DEF WellFormed
<1>1. CASE ToolAnswers(c)
  <2>1. item[c] \in Records  BY <1>0, <1>1 DEF ToolAnswers, Placed, Records
  <2>. QED  BY <1>1, <2>1, RecordOrder DEF ToolAnswers
<1>2. CASE ToolFails(c)
  <2>1. WireMoves(c)  BY <1>2, WireStays DEF ToolFails, RedisOrder
  <2>2. AckedIsStored'  BY <1>2, AckedStays DEF ToolFails
  <2>. QED  BY <1>2, <2>1, <2>2, EndsOrder DEF ToolFails
<1>3. CASE Capture(c)  BY <1>3, CaptureOrder
<1>4. CASE InsertTask(c) \/ ReplaceNodes(c) \/ Commit(c) \/ Upsert(c) \/ PostgresFails(c)
  BY <1>0, <1>4 DEF InsertTask, ReplaceNodes, Commit, Upsert, PostgresFails, Placed, InTransaction
<1>5. CASE RedisSet(c)  BY <1>5, SetOrder
<1>6. CASE SendIndex(c)
  <2>1. /\ pc[c] = "stored" /\ pc'[c] = "indexing" /\ wire' = Append(wire, c)
        /\ UNCHANGED <<memory, database, item, version, snapshot, clock, acked>>
        /\ \A d \in Clients \ {c} : pc'[d] = pc[d]
    BY <1>6 DEF SendIndex, WellFormed, TypeOK, Goto
  <2>2. WireMoves(c)  BY <2>1, WireGrows DEF RedisOrder
  <2>3. AckedIsStored'  BY <2>1, AckedStays
  <2>4. Through(c)'
    BY <2>1 DEF Through, Stored, RedisOrder, database
  <2>. QED  BY <2>1, <2>2, <2>3, <2>4, QuietOrder DEF database
<1>7. CASE RedisIndex(c)
  <2>1. /\ pc[c] = "indexing" /\ pc'[c] = "reply" /\ Turn(c)
        /\ UNCHANGED <<memory, taskRow, nodeRows, records, item, version, snapshot, clock, acked>>
        /\ index' = index \cup {Unit(item[c])}
        /\ \A d \in Clients \ {c} : pc'[d] = pc[d]
    BY <1>7 DEF RedisIndex, WellFormed, TypeOK, Goto
  <2>2. WireMoves(c)  BY <2>1, WireTurns DEF RedisOrder
  <2>3. AckedIsStored'
    BY <2>1 DEF RedisOrder, AckedIsStored, Stored, Unit
  <2>4. Through(c)'
    BY <2>1 DEF Through, Stored, Unit, RedisOrder
  <2>. QED  BY <2>1, <2>2, <2>3, <2>4, QuietOrder
<1>8. CASE Reply(c)
  <2>1. /\ pc[c] = "reply" /\ Ends(c) /\ UNCHANGED <<memory, database, wire, clock>>
        /\ acked' = [acked EXCEPT ![item[c]] = IF @ < version[c] THEN version[c] ELSE @]
        /\ item[c] \in Items /\ acked \in [Items -> Nat]
    BY <1>0, <1>8 DEF Reply, Placed, WellFormed, TypeOK
  <2>2. WireMoves(c)  BY <2>1, WireStays DEF RedisOrder
  <2>3. \A i : Stored(i)' = Stored(i) /\ Unit(i)' = Unit(i)  BY <2>1 DEF Stored, Unit, database
  <2>4. version[c] <= Stored(item[c]) /\ Unit(item[c]) \in index
    BY <2>1 DEF RedisOrder, Through
  <2>5. \A i \in Items : acked'[i] = acked[i] \/ (i = item[c] /\ acked'[i] = version[c])
    BY <2>1
  <2>6. AckedIsStored'
    BY <2>1, <2>3, <2>4, <2>5 DEF RedisOrder, AckedIsStored, database
  <2>. QED  BY <2>1, <2>2, <2>6, EndsOrder
<1>9. CASE RedisFails(c)
  <2>1. Turn(c) /\ Ends(c) /\ UNCHANGED <<memory, database, clock, acked>>
    BY <1>9 DEF RedisFails, Fails
  <2>2. WireMoves(c)  BY <2>1, WireTurns DEF RedisOrder
  <2>3. AckedIsStored'  BY <2>1, AckedStays
  <2>. QED  BY <2>1, <2>2, <2>3, EndsOrder
<1>. QED
  BY <1>1, <1>2, <1>3, <1>4, <1>5, <1>6, <1>7, <1>8, <1>9 DEF Continues, Failures

\* A new process has sent nothing, and starts from what is stored.
LEMMA RestartOrder ==
  ASSUME WellFormed, RedisOrder, driver = "redis", Restart
  PROVE  RedisOrder'
<1>1. /\ memory' = Restored /\ UNCHANGED <<driver, taskRow, nodeRows, records, index, clock, acked>>
      /\ wire' = <<>> /\ \A c \in Clients : pc'[c] = "idle"
  BY DEF Restart, database
<1>2. Len(wire') = 0  BY <1>1
<1>3. \A c, d : ~OnWire(c)' /\ ~Before(c, d)'
  BY <1>2 DEF OnWire, Before
<1>4. \A i : Stored(i)' = Stored(i) /\ Unit(i)' = Unit(i)  BY <1>1 DEF Stored, Unit
<1>5. WireOnce' /\ WireOrdered'  BY <1>3 DEF WireOnce, WireOrdered
<1>6. \A i \in Items : memory'[i] = IF Unit(i) \notin index THEN 0 ELSE Stored(i)
  BY <1>1, RestoredStored
<1>7. \A i \in Items : Stored(i) \in Nat  BY StoredType DEF WellFormed
<1>8. \A i \in Items : memory'[i] <= clock /\ Stored(i) <= clock
  <2>1. clock \in Nat  BY DEF WellFormed, TypeOK
  <2>2. \A i \in Items : Stored(i) <= clock  BY DEF RedisOrder, VersionsOrdered
  <2>. QED  BY <1>6, <2>1, <2>2
<1>9. ASSUME Created', NEW p \in Parts  PROVE Stored(p) <= memory'[p]
  <2>1. p \in Items /\ TaskPart \in Items /\ Unit(p) = TaskPart /\ Unit(TaskPart) = TaskPart
    BY StoreAssumption DEF Items, Unit
  <2>2. TaskPart \in index  BY <1>6, <1>9, <2>1 DEF Created
  <2>. QED  BY <1>6, <1>7, <2>1, <2>2
<1>10. VersionsOrdered'
  BY <1>1, <1>4, <1>8, <1>9 DEF VersionsOrdered, Writes
<1>11. AckedIsStored'  BY <1>1, <1>4 DEF RedisOrder, AckedIsStored
<1>12. \A c \in Clients : Through(c)'  BY <1>1 DEF Through
<1>. QED  BY <1>5, <1>10, <1>11, <1>12 DEF RedisOrder

\* Redis keeps whatever it was reported to have saved: the commands of one connection are
\* executed in the order of the writes, so no older value is set over a newer one, and the
\* key is in its index before the caller is told (persistSnapshot over ioredis).
THEOREM RedisKeepsWhatItSaved == Spec => []RedisKeepsAcked
<1>. DEFINE Ordered == driver = "redis" => RedisOrder
<1>1. Init => Ordered
  <2>. SUFFICES ASSUME Init  PROVE RedisOrder
    OBVIOUS
  <2>1. /\ wire = <<>> /\ clock = 0 /\ \A c \in Clients : pc[c] = "idle"
        /\ \A i \in Items : memory[i] = 0 /\ acked[i] = 0 /\ Stored(i) = 0
    BY StoreAssumption DEF Init, Blank, Stored, Items
  <2>2. \A c, d : ~OnWire(c) /\ ~Before(c, d)
    <3>1. Len(wire) = 0  BY <2>1
    <3>. QED  BY <3>1 DEF OnWire, Before
  <2>3. \A p \in Parts : p \in Items  BY DEF Items
  <2>. QED
    BY <2>1, <2>2, <2>3 DEF RedisOrder, WireOnce, VersionsOrdered, WireOrdered, AckedIsStored,
                            Through, Writes
<1>2. ASSUME WellFormed, WellFormed', Ordered, [Next]_vars  PROVE Ordered'
  <2>1. CASE UNCHANGED vars
    <3>1. UNCHANGED <<driver, memory, taskRow, nodeRows, records, index, wire, pc, item, version,
                      snapshot, clock, acked>>
      BY <2>1 DEF vars, database, callVars, history
    <3>2. /\ \A i : Stored(i)' = Stored(i) /\ Unit(i)' = Unit(i)
          /\ \A c, i : Value(c, i)' = Value(c, i)
      BY <3>1 DEF Stored, Unit, Value
    <3>3. \A c, i : Writes(c, i)' <=> Writes(c, i)  BY <3>1 DEF Writes, Unit
    <3>4. /\ \A c : OnWire(c)' <=> OnWire(c)
          /\ \A c, d : Before(c, d)' <=> Before(c, d)
      BY <3>1 DEF OnWire, Before
    <3>5. WireOnce => WireOnce'  BY <3>1, <3>4 DEF WireOnce
    <3>6. VersionsOrdered => VersionsOrdered'
      BY <3>1, <3>2, <3>3 DEF VersionsOrdered, Created
    <3>7. WireOrdered => WireOrdered'  BY <3>2, <3>3, <3>4 DEF WireOrdered
    <3>8. AckedIsStored => AckedIsStored'  BY <3>1, <3>2 DEF AckedIsStored
    <3>9. \A c \in Clients : Through(c) => Through(c)'
      BY <3>1 DEF Through, Value, Stored, Unit
    <3>. QED  BY <1>2, <3>1, <3>5, <3>6, <3>7, <3>8, <3>9 DEF RedisOrder
  <2>2. CASE Next
    <3>1. driver' = driver
      BY <2>2 DEF Next, Restart, Requests, Continues, Failures, CreateTask, UpdatePart, UpsertRecord,
                  ExecuteTool, ToolAnswers, ToolFails, Capture, InsertTask, ReplaceNodes, Commit,
                  Upsert, RedisSet, SendIndex, RedisIndex, Reply, PostgresFails, RedisFails, Fails,
                  KeepsCall
    <3>2. SUFFICES ASSUME driver = "redis", RedisOrder  PROVE RedisOrder'
      BY <1>2, <3>1
    <3>. QED  BY <1>2, <2>2, <3>2, RequestOrder, ContinueOrder, RestartOrder DEF Next
  <2>. QED  BY <1>2, <2>1, <2>2
<1>3. ASSUME WellFormed, Ordered  PROVE RedisKeepsAcked
  <2>. SUFFICES ASSUME driver = "redis", NEW i \in Items  PROVE Restored[i] >= acked[i]
    BY DEF RedisKeepsAcked
  <2>1. acked[i] \in Nat /\ Stored(i) \in Nat  BY <1>3, StoredType DEF WellFormed, TypeOK
  <2>2. acked[i] # 0 => Unit(i) \in index /\ acked[i] <= Stored(i)
    BY <1>3 DEF RedisOrder, AckedIsStored
  <2>. QED  BY <2>1, <2>2, RestoredStored
<1>4. WellFormed /\ WellFormed' /\ Ordered /\ [Next]_vars => Ordered'  BY <1>2
<1>5. WellFormed /\ Ordered => RedisKeepsAcked  BY <1>3
<1>. QED  BY <1>1, <1>4, <1>5, FormHolds, PTL DEF Spec
=============================================================================
