-------------------------- MODULE ConfigSyncProofs --------------------------
(***************************************************************************)
(* Proofs about ConfigSync for every number of request threads, contents,  *)
(* edits, deaths and crashes.                                              *)
(***************************************************************************)
EXTENDS ConfigSync, TLAPS

(***************************************************************************)
(* The snapshot table                                                      *)
(***************************************************************************)
\* In a table without gaps the ORDER BY version DESC LIMIT 1 query returns
\* the row with the greatest version, or nothing from an empty table.
LEMMA LatestRowIsLatest ==
    ASSUME NEW snaps \in SUBSET Row, Gapless(snaps)
    PROVE  /\ LatestRow(snaps) \in MaybeRow
           /\ snaps = {} => LatestRow(snaps) = NoRow
           /\ snaps # {} => /\ LatestRow(snaps) \in snaps
                            /\ \A s \in snaps : s.version <= LatestRow(snaps).version
<1>1. CASE snaps = {}
  BY <1>1 DEF LatestRow, MaybeRow
<1>2. CASE snaps # {}
  <2>1. PICK n \in {0} \cup Versions(snaps) : Versions(snaps) = 1..n
    BY DEF Gapless
  <2>2. n \in Versions(snaps) /\ n \in Nat
    BY <1>2, <2>1 DEF Versions, Row
  <2>3. PICK r \in snaps : r.version = n
    BY <2>2 DEF Versions
  <2>4. \A s \in snaps : s.version <= r.version
    BY <2>1, <2>2, <2>3 DEF Versions
  <2>5. /\ LatestRow(snaps) \in snaps
        /\ \A s \in snaps : s.version <= LatestRow(snaps).version
    BY <1>2, <2>4 DEF LatestRow
  <2>6. QED
    BY <1>2, <2>5 DEF MaybeRow
<1>3. QED
  BY <1>1, <1>2

\* An insertion that the UNIQUE constraint admits, numbered after a row that
\* was the latest at some time and differing from it, extends the history.
LEMMA InsertExtends ==
    ASSUME NEW snaps \in SUBSET Row,
           Gapless(snaps), UniqueVersions(snaps), AdjacentDiffer(snaps),
           NEW last \in snaps \cup {NoRow},
           NEW row \in Row,
           row.version = last.version + 1,
           row.content # last.content,
           MayInsert(snaps, row)
    PROVE  /\ Gapless(snaps \cup {row})
           /\ UniqueVersions(snaps \cup {row})
           /\ AdjacentDiffer(snaps \cup {row})
           /\ \A s \in snaps : s.version < row.version
<1>1. PICK n \in {0} \cup Versions(snaps) : Versions(snaps) = 1..n
  BY DEF Gapless
<1>2. n \in Nat
  BY <1>1 DEF Versions, Row
<1>3. last.version \in 0..n
  BY <1>1, <1>2 DEF Versions, NoRow
<1>4. last.version = n /\ row.version = n + 1
  BY <1>1, <1>2, <1>3 DEF MayInsert
<1>5. Versions(snaps \cup {row}) = Versions(snaps) \cup {n + 1}
  BY <1>4 DEF Versions
<1>6. Gapless(snaps \cup {row})
  <2>1. Versions(snaps \cup {row}) = 1..(n + 1)
    <3>1. 1..(n + 1) = (1..n) \cup {n + 1}
      BY <1>2
    <3>2. QED
      BY <1>1, <1>5, <3>1
  <2>2. QED
    BY <1>5, <2>1 DEF Gapless
<1>7. \A r \in snaps : r.version \in 1..n
  BY <1>1 DEF Versions
<1>8. UniqueVersions(snaps \cup {row})
  BY <1>2, <1>4, <1>7 DEF UniqueVersions
<1>9. AdjacentDiffer(snaps \cup {row})
  <2>1. SUFFICES ASSUME NEW r \in snaps \cup {row}, NEW s \in snaps \cup {row},
                        s.version = r.version + 1
                 PROVE  s.content # r.content
    BY DEF AdjacentDiffer
  <2>2. r \in snaps
    BY <1>2, <1>4, <1>7, <2>1
  <2>3. CASE s \in snaps
    BY <2>1, <2>2, <2>3 DEF AdjacentDiffer
  <2>4. CASE s = row
    <3>1. r.version = last.version /\ r.version \in 1..n
      BY <1>4, <1>7, <2>1, <2>2, <2>4, <1>2
    <3>2. last \in snaps
      BY <3>1 DEF NoRow
    <3>3. r = last
      BY <2>2, <3>1, <3>2 DEF UniqueVersions
    <3>4. QED
      BY <2>4, <3>3
  <2>5. QED
    BY <2>3, <2>4
<1>10. \A s \in snaps : s.version < row.version
  BY <1>2, <1>4, <1>7
<1>11. QED
  BY <1>6, <1>8, <1>9, <1>10

-----------------------------------------------------------------------------
(***************************************************************************)
(* Type correctness                                                        *)
(***************************************************************************)
LEMMA AgentAtType ==
    ASSUME NEW pc \in {"boot", "idle"}, NEW mem \in MaybeRow
    PROVE  AgentAt(pc, mem) \in Agent
BY DEF Agent, AgentAt, AgentPc, MaybeRow

\* A payload the compile loop has filled is a content of the registry.
LEMMA FullPayload ==
    ASSUME NEW p \in Seq(Values), Len(p) = NParts
    PROVE  p \in Content
BY DEF Content

LEMMA EmptyHistory == Gapless({}) /\ UniqueVersions({}) /\ AdjacentDiffer({})
<1>1. Versions({}) = 1..0
  BY DEF Versions
<1>2. QED
  BY <1>1 DEF Gapless, UniqueVersions, AdjacentDiffer

LEMMA StoreInit == Init => StoreInv
<1> SUFFICES ASSUME Init PROVE StoreInv
  OBVIOUS
<1>1. TypeOK
  BY ConfigSyncAssumption, AgentAtType
     DEF Init, TypeOK, Store, Budget, Idle, HandlerPc, DeadAgent, MaybeRow, NoRow
<1>2. SnapshotHistory
  BY EmptyHistory DEF Init, SnapshotHistory
<1>3. CurrentPublished
  BY DEF Init, CurrentPublished
<1>4. HandlerKnows
  BY DEF Init, HandlerKnows, Idle
<1>5. QED
  BY <1>1, <1>2, <1>3, <1>4 DEF StoreInv

\* What the latest row is in the current table.
LEMMA LatestInDb ==
    ASSUME StoreInv
    PROVE  /\ LatestRow(db.snaps) \in db.snaps \cup {NoRow}
           /\ LatestRow(db.snaps) \in MaybeRow
BY LatestRowIsLatest DEF StoreInv, TypeOK, Store, SnapshotHistory

\* A step of one request thread that leaves the store alone.
LEMMA HandlerOnly ==
    ASSUME StoreInv, NEW h \in Handlers,
           NEW pc \in HandlerPc, NEW p \in Seq(Values), NEW r \in MaybeRow,
           Step(h, pc, p, r),
           pc = "compile" => Len(p) < NParts,
           pc \in {"save", "insert"} => Len(p) = NParts,
           pc = "insert" => r \in db.snaps \cup {NoRow} /\ r.content # p,
           pc \in {"update", "commit", "reply"} => r \in db.snaps,
           UNCHANGED <<db, disk, agentFile, files, reported, lost>>,
           agent' \in Agent,
           budget' \in Budget
    PROVE  StoreInv'
<1>1. handler' = [handler EXCEPT ![h] = [pc |-> pc, payload |-> p, row |-> r]]
  BY DEF Step
<1>2. r \in Row \/ pc \notin {"update", "commit", "reply"}
  BY DEF StoreInv, TypeOK, Store
<1>3. TypeOK'
  BY <1>1, <1>2 DEF StoreInv, TypeOK, Store, files
<1>4. SnapshotHistory'
  BY DEF StoreInv, SnapshotHistory
<1>5. CurrentPublished'
  BY DEF StoreInv, CurrentPublished
<1>6. HandlerKnows'
  BY <1>1 DEF StoreInv, HandlerKnows, TypeOK
<1>7. QED
  BY <1>3, <1>4, <1>5, <1>6 DEF StoreInv

\* A step that touches neither the threads nor the snapshot tables.
LEMMA StoreUntouched ==
    ASSUME StoreInv,
           UNCHANGED <<server, lost>>,
           agent' \in Agent,
           agentFile' \in MaybeRow \cup {Corrupt},
           output' \in MaybeRow, running' \in MaybeRow, reported' \in Nat,
           budget' \in Budget
    PROVE  StoreInv'
<1>1. TypeOK'
  BY DEF StoreInv, TypeOK, server
<1>2. SnapshotHistory' /\ CurrentPublished' /\ HandlerKnows'
  BY DEF StoreInv, SnapshotHistory, CurrentPublished, HandlerKnows, server
<1>3. QED
  BY <1>1, <1>2 DEF StoreInv

\* The types that the agent's and the store's steps rely on.
LEMMA StoreTypes ==
    ASSUME StoreInv
    PROVE  /\ agent \in Agent
           /\ DeadAgent \in Agent
           /\ agentFile \in MaybeRow \cup {Corrupt}
           /\ output \in MaybeRow /\ running \in MaybeRow /\ reported \in Nat
           /\ budget \in Budget
           /\ \A h \in Handlers : /\ handler[h].payload \in Seq(Values)
                                  /\ handler[h].row \in MaybeRow
           /\ NoRow \in MaybeRow /\ <<>> \in Seq(Values)
<1>1. NoRow \in MaybeRow
  BY DEF MaybeRow
<1>2. DeadAgent \in Agent
  BY <1>1, AgentAtType DEF DeadAgent
<1>3. QED
  BY <1>1, <1>2 DEF StoreInv, TypeOK

LEMMA HandlerStepStore ==
    ASSUME StoreInv, NEW h \in Handlers, HandlerStep(h)
    PROVE  StoreInv'
<1> USE StoreTypes
<1>1. CASE CompileRead(h)
  <2> DEFINE p == handler[h].payload
             q == Append(p, db.registry[Len(p) + 1])
             pc == IF Len(q) = NParts THEN "save" ELSE "compile"
  <2>1. p \in Seq(Values) /\ Len(p) \in Nat /\ Len(p) < NParts
    BY <1>1 DEF CompileRead, StoreInv, TypeOK
  <2>2. db.registry[Len(p) + 1] \in Values
    BY <2>1, ConfigSyncAssumption DEF StoreInv, TypeOK, Store, Content
  <2>3. q \in Seq(Values) /\ Len(q) = Len(p) + 1
    BY <2>1, <2>2
  <2>4. Step(h, pc, q, NoRow)
    BY <1>1 DEF CompileRead
  <2>5. pc \in HandlerPc /\ (pc = "compile" => Len(q) < NParts) /\ (pc = "save" => Len(q) = NParts)
    <3> HIDE DEF p, q
    <3>1. QED
      BY <2>1, <2>3, ConfigSyncAssumption DEF HandlerPc
  <2>6. UNCHANGED <<db, disk, agent, agentFile, files, reported, lost, budget>>
    BY <1>1 DEF CompileRead
  <2> HIDE DEF p, q
  <2>7. QED
    BY <2>3, <2>4, <2>5, <2>6, HandlerOnly
<1>2. CASE LookupLatest(h)
  <2> DEFINE r == LatestRow(db.snaps)
             pc == IF r = NoRow THEN "compile" ELSE "reply"
  <2>1. r \in db.snaps \cup {NoRow} /\ r \in MaybeRow
    BY LatestInDb
  <2>2. Step(h, pc, <<>>, r)
    BY <1>2 DEF LookupLatest
  <2>3. /\ pc \in HandlerPc
        /\ pc = "compile" => Len(<<>>) < NParts
        /\ pc = "reply" => r \in db.snaps
    BY <2>1, ConfigSyncAssumption DEF HandlerPc
  <2>4. UNCHANGED <<db, disk, agent, agentFile, files, reported, lost, budget>>
    BY <1>2 DEF LookupLatest
  <2> HIDE DEF r
  <2>5. QED
    BY <2>1, <2>2, <2>3, <2>4, HandlerOnly
<1>3. CASE CompareLatest(h)
  <2> DEFINE p == handler[h].payload
             r == LatestRow(db.snaps)
             pc == IF r.content = p THEN "reply" ELSE "insert"
  <2>1. r \in db.snaps \cup {NoRow} /\ r \in MaybeRow
    BY LatestInDb
  <2>2. p \in Seq(Values) /\ Len(p) = NParts
    BY <1>3 DEF CompareLatest, StoreInv, TypeOK
  <2>3. Step(h, pc, p, r)
    BY <1>3 DEF CompareLatest
  <2>4. pc \in HandlerPc /\ (pc = "reply" => r \in db.snaps)
    BY <2>1, <2>2, ConfigSyncAssumption DEF HandlerPc, NoRow
  <2>5. pc = "insert" => r.content # p
    OBVIOUS
  <2>6. UNCHANGED <<db, disk, agent, agentFile, files, reported, lost, budget>>
    BY <1>3 DEF CompareLatest
  <2> HIDE DEF p, r
  <2>7. QED
    BY <2>1, <2>2, <2>3, <2>4, <2>5, <2>6, HandlerOnly
<1>4. CASE InsertSnapshot(h)
  <2> DEFINE row == NextRow(h)
             last == handler[h].row
  <2>1. /\ last \in db.snaps \cup {NoRow}
        /\ last.content # handler[h].payload
        /\ handler[h].payload \in Content
    BY <1>4, FullPayload DEF InsertSnapshot, StoreInv, HandlerKnows, TypeOK
  <2>2. last.version \in Nat
    BY <2>1 DEF StoreInv, TypeOK, Store, Row, NoRow
  <2>3. /\ row \in Row
        /\ row.version = last.version + 1
        /\ row.content # last.content
    BY <2>1, <2>2 DEF NextRow, Row
  <2>4. /\ MayInsert(db.snaps, row)
        /\ db' = [db EXCEPT !.snaps = db.snaps \cup {row}]
        /\ handler' = [handler EXCEPT ![h] =
                          [pc |-> "update", payload |-> <<>>, row |-> row]]
        /\ UNCHANGED <<disk, agent, agentFile, files, reported, lost, budget>>
    BY <1>4 DEF InsertSnapshot, Step
  <2> HIDE DEF row, last
  <2>5. db \in Store /\ disk \in Store
    BY DEF StoreInv, TypeOK
  <2>6. db' \in Store /\ db'.snaps = db.snaps \cup {row} /\ db'.current = db.current
    BY <2>3, <2>4, <2>5 DEF Store
  <2>7. TypeOK'
    BY <2>3, <2>4, <2>6 DEF StoreInv, TypeOK, HandlerPc, MaybeRow, files
  <2>8. SnapshotHistory'
    <3>1. /\ Gapless(db'.snaps) /\ UniqueVersions(db'.snaps)
          /\ AdjacentDiffer(db'.snaps)
      BY <2>1, <2>3, <2>4, <2>5, <2>6, InsertExtends DEF StoreInv, SnapshotHistory, Store
    <3>2. QED
      BY <2>4, <3>1 DEF StoreInv, SnapshotHistory
  <2>9. CurrentPublished'
    BY <2>4, <2>6 DEF StoreInv, CurrentPublished, Versions
  <2>10. HandlerKnows'
    BY <2>4, <2>6 DEF StoreInv, HandlerKnows, TypeOK
  <2>11. QED
    BY <2>7, <2>8, <2>9, <2>10 DEF StoreInv
<1>5. CASE InsertConflict(h)
  <2>1. Step(h, "idle", <<>>, NoRow)
    BY <1>5 DEF InsertConflict, Idle, Step
  <2>2. agent' \in {agent, DeadAgent}
    BY <1>5 DEF InsertConflict
  <2>3. UNCHANGED <<db, disk, agentFile, files, reported, lost, budget>>
    BY <1>5 DEF InsertConflict
  <2>4. QED
    BY <2>1, <2>2, <2>3, HandlerOnly DEF HandlerPc
<1>6. CASE PointDevice(h)
  <2>1. handler[h].row \in db.snaps /\ handler[h].row \in Row
    BY <1>6 DEF PointDevice, StoreInv, HandlerKnows, TypeOK
  <2>2. /\ db' = [db EXCEPT !.current = handler[h].row.version]
        /\ handler' = [handler EXCEPT ![h] =
                [pc |-> "commit", payload |-> <<>>, row |-> handler[h].row]]
        /\ UNCHANGED <<disk, agent, agentFile, files, reported, lost, budget>>
    BY <1>6 DEF PointDevice, Step
  <2>3. db' \in Store /\ db'.snaps = db.snaps /\ db'.current = handler[h].row.version
    BY <2>1, <2>2 DEF StoreInv, TypeOK, Store, Row
  <2>4. TypeOK'
    BY <2>1, <2>2, <2>3 DEF StoreInv, TypeOK, HandlerPc, files
  <2>5. SnapshotHistory'
    BY <2>2, <2>3 DEF StoreInv, SnapshotHistory
  <2>6. CurrentPublished'
    BY <2>1, <2>2, <2>3 DEF StoreInv, CurrentPublished, Versions
  <2>7. HandlerKnows'
    BY <2>1, <2>2, <2>3 DEF StoreInv, HandlerKnows, TypeOK
  <2>8. QED
    BY <2>4, <2>5, <2>6, <2>7 DEF StoreInv
<1>7. CASE CommitSnapshot(h)
  <2>1. handler[h].row \in db.snaps
    BY <1>7 DEF CommitSnapshot, StoreInv, HandlerKnows
  <2>2. Step(h, "reply", <<>>, handler[h].row)
    BY <1>7 DEF CommitSnapshot
  <2>3. disk' = db /\ UNCHANGED <<db, agent, agentFile, files, reported, lost, budget>>
    BY <1>7 DEF CommitSnapshot
  <2>4. SnapshotHistory' /\ CurrentPublished'
    BY <2>3 DEF StoreInv, SnapshotHistory, CurrentPublished
  <2>5. TypeOK' /\ HandlerKnows'
    BY <2>1, <2>2, <2>3 DEF Step, StoreInv, TypeOK, HandlerKnows, HandlerPc, Store, files
  <2>6. QED
    BY <2>4, <2>5 DEF StoreInv
<1>8. CASE Reply(h)
  <2>1. Step(h, "idle", <<>>, NoRow)
    BY <1>8 DEF Reply, Idle, Step
  <2>2. agent' \in Agent
    BY <1>8 DEF Reply, Agent, AgentPc
  <2>3. UNCHANGED <<db, disk, agentFile, files, reported, lost, budget>>
    BY <1>8 DEF Reply
  <2>4. QED
    BY <2>1, <2>2, <2>3, HandlerOnly DEF HandlerPc
<1>9. QED
  BY <1>1, <1>2, <1>3, <1>4, <1>5, <1>6, <1>7, <1>8 DEF HandlerStep

\* A request only occupies an idle thread with an empty payload.
LEMMA RequestStore ==
    ASSUME StoreInv, NEW h \in Handlers, NEW pc \in {"meta", "config"},
           NEW start \in {"compile", "lookup"}, Request(h, pc, start)
    PROVE  StoreInv'
<1> USE StoreTypes
<1>1. /\ Step(h, start, <<>>, NoRow)
      /\ UNCHANGED <<db, disk, agentFile, files, reported, lost, budget>>
      /\ agent' = [agent EXCEPT !.pc = pc, !.req = h]
  BY DEF Request
<1>2. agent' \in Agent
  BY <1>1 DEF Agent, AgentPc
<1>3. start \in HandlerPc /\ Len(<<>>) < NParts
  BY ConfigSyncAssumption DEF HandlerPc
<1>4. QED
  BY <1>1, <1>2, <1>3, HandlerOnly

LEMMA AgentStepStore ==
    ASSUME StoreInv, AgentStep
    PROVE  StoreInv'
<1> USE StoreTypes
<1>1. CASE AgentBoot
  <2>1. agentFile \in MaybeRow /\ agent' = AgentAt("idle", agentFile)
    BY <1>1 DEF AgentBoot
  <2>2. agent' \in Agent
    BY <2>1, AgentAtType
  <2>3. UNCHANGED <<server, lost, agentFile, output, running, reported, budget>>
    BY <1>1 DEF AgentBoot, files
  <2>4. QED
    BY <2>2, <2>3, StoreUntouched
<1>2. ASSUME NEW h \in Handlers, PollMeta(h) \/ FetchConfig(h)
      PROVE  StoreInv'
  BY <1>2, RequestStore DEF PollMeta, FetchConfig
<1>3. CASE Unchanged
  <2>1. agent' \in Agent
    BY <1>3, AgentAtType DEF Unchanged, Agent
  <2>2. UNCHANGED <<server, lost, agentFile, output, running, reported, budget>>
    BY <1>3 DEF Unchanged, files
  <2>3. QED
    BY <2>1, <2>2, StoreUntouched
<1>4. CASE InstallOutput
  <2>1. agent' \in Agent /\ output' \in MaybeRow
    BY <1>4 DEF InstallOutput, Agent, AgentPc
  <2>2. UNCHANGED <<server, lost, agentFile, running, reported, budget>>
    BY <1>4 DEF InstallOutput
  <2>3. QED
    BY <2>1, <2>2, StoreUntouched
<1>5. CASE Reload
  <2>1. agent' \in Agent /\ running' \in MaybeRow
    BY <1>5 DEF Reload, Agent, AgentPc
  <2>2. UNCHANGED <<server, lost, agentFile, output, reported, budget>>
    BY <1>5 DEF Reload
  <2>3. QED
    BY <2>1, <2>2, StoreUntouched
<1>6. CASE ReportApplied
  <2>1. agent.meta.version \in Nat
    BY DEF Agent, MaybeRow, Row, NoRow
  <2>2. agent' \in Agent /\ reported' \in Nat
    BY <1>6, <2>1 DEF ReportApplied, Agent, AgentPc
  <2>3. UNCHANGED <<server, lost, agentFile, output, running, budget>>
    BY <1>6 DEF ReportApplied, files
  <2>4. QED
    BY <2>2, <2>3, StoreUntouched
<1>7. CASE TruncateFile
  <2>1. agent' \in Agent /\ agentFile' = Corrupt
    BY <1>7 DEF TruncateFile, Agent, AgentPc
  <2>2. UNCHANGED <<server, lost, output, running, reported, budget>>
    BY <1>7 DEF TruncateFile, files
  <2>3. QED
    BY <2>1, <2>2, StoreUntouched
<1>8. CASE WriteFile
  <2>1. agent' \in Agent /\ agentFile' \in MaybeRow
    BY <1>8, AgentAtType DEF WriteFile, Agent
  <2>2. UNCHANGED <<server, lost, output, running, reported, budget>>
    BY <1>8 DEF WriteFile, files
  <2>3. QED
    BY <2>1, <2>2, StoreUntouched
<1>9. QED
  BY <1>1, <1>2, <1>3, <1>4, <1>5, <1>6, <1>7, <1>8 DEF AgentStep

LEMMA StoreNext == StoreInv /\ [Next]_vars => StoreInv'
<1> SUFFICES ASSUME StoreInv, [Next]_vars PROVE StoreInv'
  OBVIOUS
<1> USE StoreTypes
<1>1. ASSUME NEW h \in Handlers, HandlerStep(h) PROVE StoreInv'
  BY <1>1, HandlerStepStore
<1>2. CASE AgentStep
  BY <1>2, AgentStepStore
<1>3. CASE AgentDies
  <2>1. agent' \in Agent
    BY <1>3 DEF AgentDies
  <2>2. budget' \in Budget
    BY <1>3, ConfigSyncAssumption DEF AgentDies, Budget
  <2>3. UNCHANGED <<server, lost, agentFile, output, running, reported>>
    BY <1>3 DEF AgentDies, files
  <2>4. QED
    BY <2>1, <2>2, <2>3, StoreUntouched
<1>4. CASE AdminEdit
  <2>1. PICK c \in Content : db' = [db EXCEPT !.registry = c]
    BY <1>4 DEF AdminEdit
  <2>2. budget' \in Budget /\ UNCHANGED <<disk, handler, agent, agentFile, files, reported, lost>>
    BY <1>4, ConfigSyncAssumption DEF AdminEdit, Budget
  <2>3. db' \in Store /\ db'.snaps = db.snaps /\ db'.current = db.current
    BY <2>1 DEF StoreInv, TypeOK, Store
  <2>4. TypeOK'
    BY <2>2, <2>3 DEF StoreInv, TypeOK, files
  <2>5. SnapshotHistory' /\ CurrentPublished' /\ HandlerKnows'
    BY <2>2, <2>3 DEF StoreInv, SnapshotHistory, CurrentPublished, HandlerKnows
  <2>6. QED
    BY <2>4, <2>5 DEF StoreInv
<1>5. CASE OtherCommit
  <2>1. disk' = db /\ UNCHANGED <<db, handler, agent, agentFile, files, reported, lost, budget>>
    BY <1>5 DEF OtherCommit
  <2>2. TypeOK'
    BY <2>1 DEF StoreInv, TypeOK, files
  <2>3. SnapshotHistory' /\ CurrentPublished' /\ HandlerKnows'
    BY <2>1 DEF StoreInv, SnapshotHistory, CurrentPublished, HandlerKnows
  <2>4. QED
    BY <2>2, <2>3 DEF StoreInv
<1>6. CASE ServerCrash
  <2>1. /\ db' = disk
        /\ lost' = lost \cup (db.snaps \ disk.snaps)
        /\ handler' = [h \in Handlers |-> Idle]
        /\ agent' \in {agent, DeadAgent}
        /\ UNCHANGED <<disk, agentFile, files, reported>>
    BY <1>6 DEF ServerCrash
  <2>2. budget' \in Budget
    BY <1>6, ConfigSyncAssumption DEF ServerCrash, Budget
  <2>3. lost' \in SUBSET Row
    BY <2>1 DEF StoreInv, TypeOK, Store
  <2>4. TypeOK'
    BY <2>1, <2>2, <2>3, ConfigSyncAssumption DEF StoreInv, TypeOK, HandlerPc, Idle, files
  <2>5. SnapshotHistory' /\ CurrentPublished'
    BY <2>1 DEF StoreInv, SnapshotHistory, CurrentPublished
  <2>6. HandlerKnows'
    BY <2>1 DEF HandlerKnows, Idle
  <2>7. QED
    BY <2>4, <2>5, <2>6 DEF StoreInv
<1>7. CASE UNCHANGED vars
  <2>1. UNCHANGED <<server, lost, agent, agentFile, output, running, reported, budget>>
    BY <1>7 DEF vars, files, server
  <2>2. QED
    BY <2>1, StoreUntouched
<1>8. QED
  BY <1>1, <1>2, <1>3, <1>4, <1>5, <1>6, <1>7 DEF Next

THEOREM StoreCorrect == Spec => []StoreInv
BY StoreInit, StoreNext, PTL DEF Spec

\* Type correctness of the sync protocol.
THEOREM TypeCorrect == Spec => []TypeOK
<1>1. StoreInv => TypeOK
  BY DEF StoreInv
<1>2. QED
  BY <1>1, StoreCorrect, PTL

\* However many request threads interleave, and wherever the control plane
\* crashes, a device's snapshots are one gapless history whose neighbours
\* differ: "the version does not grow while the content is unchanged".
THEOREM HistoryCorrect == Spec => []SnapshotHistory
<1>1. StoreInv => SnapshotHistory
  BY DEF StoreInv
<1>2. QED
  BY <1>1, StoreCorrect, PTL

\* The version shown for a device always exists, also after a restart.
THEOREM CurrentCorrect == Spec => []CurrentPublished
<1>1. StoreInv => CurrentPublished
  BY DEF StoreInv
<1>2. QED
  BY <1>1, StoreCorrect, PTL

-----------------------------------------------------------------------------
(***************************************************************************)
(* The agent                                                               *)
(***************************************************************************)
LEMMA VersionType == \A r \in MaybeRow : r.version \in Nat
BY DEF MaybeRow, Row, NoRow

\* No stored snapshot is newer than the latest.
LEMMA LatestBounds ==
    ASSUME StoreInv
    PROVE  /\ Latest \in Nat
           /\ \A r \in db.snaps \cup {NoRow} : r.version <= Latest
<1>1. db.snaps \in SUBSET Row /\ Gapless(db.snaps)
  BY DEF StoreInv, TypeOK, Store, SnapshotHistory
<1>2. Latest \in Nat
  BY LatestInDb, VersionType DEF Latest
<1>3. \A r \in db.snaps : r.version <= Latest
  BY <1>1, LatestRowIsLatest DEF Latest
<1>4. QED
  BY <1>2, <1>3 DEF NoRow

\* A statement of a request that is neither the INSERT nor the answer leaves
\* what the agent knows alone.
LEMMA HandlerOnlyAgent ==
    ASSUME SyncInv, NEW h \in Handlers,
           NEW pc \in HandlerPc, NEW p, NEW r,
           Step(h, pc, p, r),
           pc \in {"update", "commit", "reply"} =>
                \/ handler[h].pc \in {"update", "commit", "reply"} /\ r = handler[h].row
                \/ r.version = Latest,
           UNCHANGED <<agent, agentFile, files, reported, lost>>,
           db'.snaps = db.snaps
    PROVE  AgentInv'
<1>1. handler' = [handler EXCEPT ![h] = [pc |-> pc, payload |-> p, row |-> r]]
  BY DEF Step
<1>2. InstalledPublished' /\ RecordedInstalled' /\ ReportedRunning'
  BY DEF SyncInv, AgentInv, InstalledPublished, RecordedInstalled, ReportedRunning, files
<1>3. AgentKnows'
  <2>1. Latest' = Latest
    BY DEF Latest
  <2>2. \A g \in Handlers : g # h => handler'[g] = handler[g]
    BY <1>1 DEF SyncInv, StoreInv, TypeOK
  <2>3. handler'[h].pc = pc /\ handler'[h].row = r
    BY <1>1 DEF SyncInv, StoreInv, TypeOK
  <2>4. AgentKnows
    BY DEF SyncInv, AgentInv
  <2>5. ASSUME lost = {}, NEW g \in Handlers, agent.pc = "config", Waits(g),
               handler'[g].pc \in {"update", "commit", "reply"}
        PROVE  handler'[g].row.version >= agent.meta.version /\ handler'[g].row.version >= output.version
    <3>1. CASE g # h
      BY <2>2, <2>4, <2>5, <3>1 DEF AgentKnows
    <3>2. CASE g = h /\ handler[h].pc \in {"update", "commit", "reply"} /\ r = handler[h].row
      BY <2>3, <2>4, <2>5, <3>2 DEF AgentKnows
    <3>3. CASE g = h /\ r.version = Latest
      <4>1. output.version <= Latest /\ agent.meta.version <= Latest
        BY <2>4, <2>5 DEF AgentKnows
      <4>2. /\ output.version \in Nat /\ agent.meta.version \in Nat /\ Latest \in Nat
        BY LatestBounds, StoreTypes, VersionType DEF SyncInv, Agent
      <4>3. QED
        BY <2>3, <3>3, <4>1, <4>2
    <3>4. QED
      BY <2>3, <2>5, <3>1, <3>2, <3>3
  <2>6. UNCHANGED <<agent, output, running, lost>>
    BY DEF files
  <2>7. QED
    BY <2>1, <2>4, <2>5, <2>6 DEF AgentKnows, Waits
<1>4. QED
  BY <1>2, <1>3 DEF AgentInv

\* Steps after which the agent is at the top of its loop or has ended, holding
\* the stamp it had, the one of its file, or none.
LEMMA AgentReset ==
    ASSUME SyncInv,
           NEW pc \in {"boot", "idle"}, NEW mem \in {NoRow, agent.mem, agentFile} \ {Corrupt},
           agent' = AgentAt(pc, mem),
           agentFile' \in {agentFile, agent.mem},
           UNCHANGED <<files, reported, lost>>,
           db'.snaps = db.snaps
    PROVE  AgentInv'
<1>1. UNCHANGED <<output, running, reported, lost>> /\ Latest' = Latest
  BY DEF files, Latest
<1>2. /\ agent'.mem = mem /\ agent'.pc = pc /\ agent'.req = NoHandler
      /\ agent'.meta = NoRow /\ agent'.payload = NoRow
  BY DEF AgentAt
<1>3. InstalledPublished'
  BY <1>1, <1>2 DEF SyncInv, AgentInv, InstalledPublished
<1>4. RecordedInstalled'
  <2>1. NoRow.version <= output.version
    BY StoreTypes, VersionType DEF SyncInv, NoRow
  <2>2. QED
    BY <1>1, <1>2, <2>1 DEF SyncInv, AgentInv, RecordedInstalled
<1>5. ReportedRunning'
  BY <1>1 DEF SyncInv, AgentInv, ReportedRunning
<1>6. AgentKnows'
  BY <1>1, <1>2 DEF SyncInv, AgentInv, AgentKnows
<1>7. QED
  BY <1>3, <1>4, <1>5, <1>6 DEF AgentInv

LEMMA HandlerStepAgent ==
    ASSUME SyncInv, NEW h \in Handlers, HandlerStep(h)
    PROVE  AgentInv'
<1> USE DEF HandlerPc
<1>1. CASE CompileRead(h)
  <2>1. PICK q : \E pc \in {"save", "compile"} : Step(h, pc, q, NoRow)
    BY <1>1 DEF CompileRead
  <2>2. UNCHANGED <<db, agent, agentFile, files, reported, lost>>
    BY <1>1 DEF CompileRead
  <2>3. QED
    BY <2>1, <2>2, HandlerOnlyAgent
<1>2. CASE LookupLatest(h)
  <2>1. PICK pc \in {"compile", "reply"} : Step(h, pc, <<>>, LatestRow(db.snaps))
    BY <1>2 DEF LookupLatest
  <2>2. UNCHANGED <<db, agent, agentFile, files, reported, lost>>
    BY <1>2 DEF LookupLatest
  <2>3. LatestRow(db.snaps).version = Latest
    BY DEF Latest
  <2>4. QED
    BY <2>1, <2>2, <2>3, HandlerOnlyAgent
<1>3. CASE CompareLatest(h)
  <2>1. PICK pc \in {"insert", "reply"} :
           Step(h, pc, handler[h].payload, LatestRow(db.snaps))
    BY <1>3 DEF CompareLatest
  <2>2. UNCHANGED <<db, agent, agentFile, files, reported, lost>>
    BY <1>3 DEF CompareLatest
  <2>3. LatestRow(db.snaps).version = Latest
    BY DEF Latest
  <2>4. QED
    BY <2>1, <2>2, <2>3, HandlerOnlyAgent
<1>4. CASE InsertSnapshot(h)
  <2> DEFINE row == NextRow(h)
  <2>1. /\ handler' = [handler EXCEPT ![h] =
                          [pc |-> "update", payload |-> <<>>, row |-> row]]
        /\ db' = [db EXCEPT !.snaps = db.snaps \cup {row}]
        /\ MayInsert(db.snaps, row)
        /\ UNCHANGED <<agent, agentFile, output, running, reported, lost>>
    BY <1>4 DEF InsertSnapshot, Step, files
  <2>2. db'.snaps = db.snaps \cup {row}
    BY <2>1 DEF SyncInv, StoreInv, TypeOK, Store
  <2>3. InstalledPublished' /\ RecordedInstalled' /\ ReportedRunning'
    BY <2>1, <2>2 DEF SyncInv, AgentInv, InstalledPublished, RecordedInstalled, ReportedRunning
  <2>4. row.version > Latest /\ Latest' = row.version /\ Latest \in Nat
    <3>1. StoreInv'
      BY HandlerStepStore DEF SyncInv
    <3>2. db'.snaps \in SUBSET Row /\ Gapless(db'.snaps)
      BY <3>1 DEF StoreInv, TypeOK, Store, SnapshotHistory
    <3>3. \A r \in db.snaps : r.version < row.version
      <4>1. /\ handler[h].row \in db.snaps \cup {NoRow}
            /\ handler[h].row.content # handler[h].payload
            /\ handler[h].payload \in Content
        BY <1>4, FullPayload DEF InsertSnapshot, SyncInv, StoreInv, HandlerKnows, TypeOK
      <4>2. row.version = handler[h].row.version + 1 /\ row.content = handler[h].payload
        BY DEF NextRow
      <4>3. db.snaps \in SUBSET Row /\ row \in Row
        BY <2>2, <3>2 DEF SyncInv, StoreInv, TypeOK, Store
      <4> HIDE DEF row
      <4>4. QED
        BY <2>1, <4>1, <4>2, <4>3, InsertExtends DEF SyncInv, StoreInv, SnapshotHistory
    <3>4. row \in Row
      BY <2>2, <3>2
    <3>5. row.version > Latest /\ Latest \in Nat
      <4>1. 0 < row.version
        BY <3>4 DEF Row
      <4>2. LatestRow(db.snaps) \in db.snaps \cup {NoRow} /\ Latest \in Nat
        BY LatestInDb, LatestBounds DEF SyncInv
      <4> HIDE DEF row
      <4>3. QED
        BY <3>3, <4>1, <4>2 DEF Latest, NoRow
    <3>6. Latest' = row.version
      <4> HIDE DEF row
      <4>1. LatestRow(db'.snaps) \in db'.snaps /\ row.version <= LatestRow(db'.snaps).version
        BY <2>2, <3>2, LatestRowIsLatest
      <4>2. LatestRow(db'.snaps).version <= row.version
        BY <2>2, <3>3, <3>4, <4>1, <3>2 DEF Row
      <4>3. QED
        BY <3>2, <3>4, <4>1, <4>2 DEF Latest, Row
    <3>7. QED
      BY <3>5, <3>6
  <2>5. /\ handler'[h].row = row
        /\ \A g \in Handlers : g # h => handler'[g] = handler[g]
    BY <2>1 DEF SyncInv, StoreInv, TypeOK
  <2>6. /\ output.version \in Nat /\ agent.meta.version \in Nat
        /\ agent.payload.version \in Nat /\ row.version \in Nat
    <3>1. row.version = Latest'
      BY <2>4
    <3>2. handler[h].row.version \in Nat
      BY StoreTypes, VersionType DEF SyncInv
    <3>3. QED
      BY <3>2, StoreTypes, VersionType DEF SyncInv, Agent, NextRow
  <2> HIDE DEF row
  <2>7. AgentKnows'
    <3>1. AgentKnows
      BY DEF SyncInv, AgentInv
    <3>2. ASSUME lost = {}
          PROVE  /\ output.version <= Latest'
                 /\ agent.pc \in {"decide", "config", "install"} => agent.meta.version <= Latest'
                 /\ agent.pc = "install" => agent.payload.version <= Latest'
      BY <2>4, <2>6, <3>1, <3>2 DEF AgentKnows
    <3>3. ASSUME lost = {}, NEW g \in Handlers, agent.pc = "config", Waits(g),
                 handler'[g].pc \in {"update", "commit", "reply"}
          PROVE  /\ handler'[g].row.version >= agent.meta.version
                 /\ handler'[g].row.version >= output.version
      <4>1. CASE g = h
        BY <2>4, <2>5, <2>6, <3>2, <3>3, <4>1
      <4>2. CASE g # h
        BY <2>5, <3>1, <3>3, <4>2 DEF AgentKnows
      <4>3. QED
        BY <4>1, <4>2
    <3>4. QED
      BY <2>1, <3>1, <3>2, <3>3 DEF AgentKnows, Waits
  <2>8. QED
    BY <2>3, <2>7 DEF AgentInv
<1>5. CASE InsertConflict(h)
  <2>1. Step(h, "idle", <<>>, NoRow)
    BY <1>5 DEF InsertConflict, Idle, Step
  <2>2. UNCHANGED <<db, agentFile, files, reported, lost>>
    BY <1>5 DEF InsertConflict
  <2>3. CASE agent' = agent
    BY <2>1, <2>2, <2>3, HandlerOnlyAgent
  <2>4. CASE agent' = DeadAgent
    BY <2>2, <2>4, AgentReset, CorruptAssumption DEF DeadAgent, MaybeRow
  <2>5. QED
    BY <1>5, <2>3, <2>4 DEF InsertConflict
<1>6. CASE PointDevice(h)
  <2>1. Step(h, "commit", <<>>, handler[h].row)
    BY <1>6 DEF PointDevice
  <2>2. db'.snaps = db.snaps /\ UNCHANGED <<agent, agentFile, files, reported, lost>>
    BY <1>6 DEF PointDevice, SyncInv, StoreInv, TypeOK, Store
  <2>3. handler[h].pc = "update"
    BY <1>6 DEF PointDevice
  <2>4. QED
    BY <2>1, <2>2, <2>3, HandlerOnlyAgent
<1>7. CASE CommitSnapshot(h)
  <2>1. Step(h, "reply", <<>>, handler[h].row)
    BY <1>7 DEF CommitSnapshot
  <2>2. db' = db /\ UNCHANGED <<agent, agentFile, files, reported, lost>>
    BY <1>7 DEF CommitSnapshot
  <2>3. handler[h].pc = "commit"
    BY <1>7 DEF CommitSnapshot
  <2>4. QED
    BY <2>1, <2>2, <2>3, HandlerOnlyAgent
<1>8. CASE Reply(h)
  <2>1. handler' = [handler EXCEPT ![h] = Idle]
        /\ UNCHANGED <<db, agentFile, output, running, reported, lost>>
        /\ handler[h].pc = "reply"
    BY <1>8 DEF Reply, files
  <2>2. CASE agent' = agent
    <3>1. Step(h, "idle", <<>>, NoRow)
      BY <2>1 DEF Step, Idle
    <3>2. QED
      BY <2>1, <2>2, <3>1, HandlerOnlyAgent DEF files
  <2>3. /\ handler[h].row \in db.snaps
        /\ handler[h].row \in Row
        /\ handler[h].row.version <= Latest
    <3>1. handler[h].row \in db.snaps
      BY <2>1 DEF SyncInv, StoreInv, HandlerKnows
    <3>2. QED
      BY <3>1, LatestBounds DEF SyncInv, StoreInv, TypeOK, Store
  <2>4. Latest' = Latest
    BY <2>1 DEF Latest
  <2>5. AgentKnows
    BY DEF SyncInv, AgentInv
  <2>6. CASE Waits(h) /\ agent.pc = "meta"
    <3>1. agent' = [agent EXCEPT !.pc = "decide", !.req = NoHandler,
                                 !.meta = handler[h].row]
      BY <1>8, <2>6 DEF Reply
    <3>2. /\ agent'.pc = "decide" /\ agent'.req = NoHandler /\ agent'.mem = agent.mem
          /\ agent'.meta = handler[h].row /\ agent'.payload = agent.payload
      BY <3>1, StoreTypes DEF SyncInv, Agent
    <3>3. InstalledPublished' /\ RecordedInstalled' /\ ReportedRunning'
      BY <2>1, <2>3, <3>2 DEF SyncInv, AgentInv, InstalledPublished, RecordedInstalled, ReportedRunning
    <3>4. AgentKnows'
      BY <2>1, <2>3, <2>4, <2>5, <3>2 DEF AgentKnows
    <3>5. QED
      BY <3>3, <3>4 DEF AgentInv
  <2>7. CASE Waits(h) /\ agent.pc # "meta"
    <3>1. agent' = [agent EXCEPT !.pc = "install", !.req = NoHandler,
                                 !.payload = handler[h].row]
      BY <1>8, <2>7 DEF Reply
    <3>2. /\ agent'.pc = "install" /\ agent'.req = NoHandler /\ agent'.mem = agent.mem
          /\ agent'.meta = agent.meta /\ agent'.payload = handler[h].row
      BY <3>1, StoreTypes DEF SyncInv, Agent
    <3>3. agent.pc = "config"
      BY <2>5, <2>7, ConfigSyncAssumption DEF AgentKnows, Waits, Requests
    <3>4. InstalledPublished' /\ RecordedInstalled' /\ ReportedRunning'
      BY <2>1, <2>3, <3>2 DEF SyncInv, AgentInv, InstalledPublished, RecordedInstalled, ReportedRunning
    <3>5. AgentKnows'
      BY <2>1, <2>3, <2>4, <2>5, <2>7, <3>2, <3>3 DEF AgentKnows
    <3>6. QED
      BY <3>4, <3>5 DEF AgentInv
  <2>8. QED
    BY <1>8, <2>2, <2>6, <2>7 DEF Reply
<1>9. QED
  BY <1>1, <1>2, <1>3, <1>4, <1>5, <1>6, <1>7, <1>8 DEF HandlerStep

LEMMA RequestAgent ==
    ASSUME SyncInv, NEW h \in Handlers, PollMeta(h) \/ FetchConfig(h)
    PROVE  AgentInv'
<1>1. PICK pc \in Requests, start \in {"compile", "lookup"} :
         Request(h, pc, start) /\ (pc = "config" => agent.pc = "decide")
  BY DEF PollMeta, FetchConfig, Requests
<1>2. /\ handler' = [handler EXCEPT ![h] = [pc |-> start, payload |-> <<>>, row |-> NoRow]]
      /\ agent' = [agent EXCEPT !.pc = pc, !.req = h]
      /\ UNCHANGED <<db, agentFile, output, running, reported, lost>>
  BY <1>1 DEF Request, Step, files
<1>3. /\ agent'.pc = pc /\ agent'.req = h /\ agent'.mem = agent.mem
      /\ agent'.meta = agent.meta /\ agent'.payload = agent.payload
  BY <1>2, StoreTypes DEF SyncInv, Agent
<1>4. handler'[h].pc = start
  BY <1>2 DEF SyncInv, StoreInv, TypeOK
<1>5. InstalledPublished' /\ RecordedInstalled' /\ ReportedRunning'
  BY <1>2, <1>3 DEF SyncInv, AgentInv, InstalledPublished, RecordedInstalled, ReportedRunning
<1>6. AgentKnows'
  <2>1. Latest' = Latest
    BY <1>2 DEF Latest
  <2>2. QED
    BY <1>1, <1>2, <1>3, <1>4, <2>1 DEF SyncInv, AgentInv, AgentKnows, Waits, Requests
<1>7. QED
  BY <1>5, <1>6 DEF AgentInv

LEMMA AgentStepAgent ==
    ASSUME SyncInv, AgentStep
    PROVE  AgentInv'
<1>1. /\ agent \in Agent /\ agent.mem \in MaybeRow /\ NoRow \in MaybeRow
      /\ agent.mem # Corrupt /\ NoRow # Corrupt
  BY StoreTypes, CorruptAssumption DEF SyncInv, Agent
<1>2. AgentKnows /\ InstalledPublished /\ RecordedInstalled /\ ReportedRunning
  BY DEF SyncInv, AgentInv
<1>3. /\ output.version \in Nat /\ running.version \in Nat /\ reported \in Nat
      /\ agent.meta.version \in Nat /\ agent.payload.version \in Nat
      /\ agent.mem.version \in Nat /\ Latest \in Nat
  BY StoreTypes, VersionType, LatestBounds DEF SyncInv, Agent
<1>4. CASE AgentBoot
  <2>1. agentFile # Corrupt /\ agent' = AgentAt("idle", agentFile) /\ db'.snaps = db.snaps
        /\ UNCHANGED <<agentFile, files, reported, lost>>
    BY <1>4 DEF AgentBoot, server
  <2>2. QED
    BY <2>1, AgentReset
<1>5. ASSUME NEW h \in Handlers, PollMeta(h) \/ FetchConfig(h)
      PROVE  AgentInv'
  BY <1>5, RequestAgent
<1>6. CASE Unchanged
  <2>1. agent' = AgentAt("idle", agent.mem) /\ db'.snaps = db.snaps
        /\ UNCHANGED <<agentFile, files, reported, lost>>
    BY <1>6 DEF Unchanged, server
  <2>2. QED
    BY <1>1, <2>1, AgentReset
<1>7. CASE InstallOutput
  <2>1. /\ agent.pc = "install" /\ output' = agent.payload
        /\ agent' = [agent EXCEPT !.pc = "reload"]
        /\ UNCHANGED <<db, handler, agentFile, running, reported, lost>>
    BY <1>7 DEF InstallOutput, server
  <2>2. /\ agent'.pc = "reload" /\ agent'.req = agent.req /\ agent'.mem = agent.mem
        /\ agent'.meta = agent.meta /\ agent'.payload = agent.payload
    BY <1>1, <2>1 DEF Agent
  <2>3. lost = {} => output.version <= output'.version
    BY <1>2, <2>1 DEF AgentKnows
  <2>4. Latest' = Latest
    BY <2>1 DEF Latest
  <2>5. InstalledPublished'
    BY <1>2, <2>1, <2>2 DEF InstalledPublished
  <2>6. RecordedInstalled' /\ ReportedRunning'
    <3>1. agentFile # Corrupt => agentFile.version \in Nat
      BY StoreTypes, VersionType DEF SyncInv
    <3>2. QED
      BY <1>2, <1>3, <2>1, <2>2, <2>3, <3>1 DEF RecordedInstalled, ReportedRunning
  <2>7. AgentKnows'
    BY <1>2, <1>3, <2>1, <2>2, <2>3, <2>4 DEF AgentKnows, Requests
  <2>8. QED
    BY <2>5, <2>6, <2>7 DEF AgentInv
<1>8. CASE Reload
  <2>1. /\ agent.pc = "reload" /\ running' = output
        /\ agent' = [agent EXCEPT !.pc = "report"]
        /\ UNCHANGED <<db, handler, agentFile, output, reported, lost>>
    BY <1>8 DEF Reload, server
  <2>2. /\ agent'.pc = "report" /\ agent'.req = agent.req /\ agent'.mem = agent.mem
        /\ agent'.meta = agent.meta /\ agent'.payload = agent.payload
    BY <1>1, <2>1 DEF Agent
  <2>3. Latest' = Latest
    BY <2>1 DEF Latest
  <2>4. InstalledPublished' /\ RecordedInstalled'
    BY <1>2, <2>1, <2>2 DEF InstalledPublished, RecordedInstalled
  <2>5. ReportedRunning'
    BY <1>2, <1>3, <2>1 DEF ReportedRunning, AgentKnows
  <2>6. AgentKnows'
    BY <1>2, <1>3, <2>1, <2>2, <2>3 DEF AgentKnows, Requests
  <2>7. QED
    BY <2>4, <2>5, <2>6 DEF AgentInv
<1>9. CASE ReportApplied
  <2>1. /\ agent.pc = "report" /\ reported' \in {reported, agent.meta.version}
        /\ agent' = [agent EXCEPT !.pc = "truncate", !.mem = agent.meta]
        /\ UNCHANGED <<db, handler, agentFile, output, running, lost>>
    BY <1>9 DEF ReportApplied, server, files
  <2>2. /\ agent'.pc = "truncate" /\ agent'.req = agent.req /\ agent'.mem = agent.meta
        /\ agent'.meta = agent.meta /\ agent'.payload = agent.payload
    BY <1>1, <2>1 DEF Agent
  <2>3. Latest' = Latest
    BY <2>1 DEF Latest
  <2>4. lost = {} => agent.meta.version <= running.version /\ agent.meta.version <= output.version
    BY <1>2, <1>3, <2>1 DEF AgentKnows
  <2>5. InstalledPublished' /\ RecordedInstalled'
    BY <1>2, <2>1, <2>2, <2>4 DEF InstalledPublished, RecordedInstalled
  <2>6. ReportedRunning'
    BY <1>2, <1>3, <2>1, <2>4 DEF ReportedRunning
  <2>7. AgentKnows'
    BY <1>2, <1>3, <2>1, <2>2, <2>3 DEF AgentKnows, Requests
  <2>8. QED
    BY <2>5, <2>6, <2>7 DEF AgentInv
<1>10. CASE TruncateFile
  <2>1. /\ agent.pc = "truncate" /\ agentFile' = Corrupt
        /\ agent' = [agent EXCEPT !.pc = "write"]
        /\ UNCHANGED <<db, handler, output, running, reported, lost>>
    BY <1>10 DEF TruncateFile, server, files
  <2>2. /\ agent'.pc = "write" /\ agent'.req = agent.req /\ agent'.mem = agent.mem
        /\ agent'.meta = agent.meta /\ agent'.payload = agent.payload
    BY <1>1, <2>1 DEF Agent
  <2>3. Latest' = Latest
    BY <2>1 DEF Latest
  <2>4. InstalledPublished' /\ RecordedInstalled' /\ ReportedRunning'
    BY <1>2, <2>1, <2>2 DEF InstalledPublished, RecordedInstalled, ReportedRunning
  <2>5. AgentKnows'
    BY <1>2, <2>1, <2>2, <2>3 DEF AgentKnows, Requests
  <2>6. QED
    BY <2>4, <2>5 DEF AgentInv
<1>11. CASE WriteFile
  <2>1. agent' = AgentAt("idle", agent.mem) /\ db'.snaps = db.snaps
        /\ agentFile' = agent.mem /\ UNCHANGED <<files, reported, lost>>
    BY <1>11 DEF WriteFile, server
  <2>2. QED
    BY <1>1, <2>1, AgentReset
<1>12. QED
  BY <1>4, <1>5, <1>6, <1>7, <1>8, <1>9, <1>10, <1>11 DEF AgentStep

\* A crash that undid no snapshot left the table as it was, and ended every
\* request; one that undid some ends the ordering facts.
LEMMA ServerCrashAgent ==
    ASSUME SyncInv, ServerCrash
    PROVE  AgentInv'
<1>1. /\ db' = disk
      /\ lost' = lost \cup (db.snaps \ disk.snaps)
      /\ handler' = [h \in Handlers |-> Idle]
      /\ agent' = IF agent.req # NoHandler THEN DeadAgent ELSE agent
      /\ UNCHANGED <<agentFile, output, running, reported>>
  BY DEF ServerCrash, files
<1>2. lost' = {} => lost = {} /\ db'.snaps = db.snaps
  BY <1>1 DEF SyncInv, StoreInv, CurrentPublished
<1>3. AgentKnows /\ InstalledPublished /\ RecordedInstalled /\ ReportedRunning
  BY DEF SyncInv, AgentInv
<1>4. /\ DeadAgent.mem = NoRow /\ DeadAgent.meta = NoRow /\ DeadAgent.payload = NoRow
      /\ DeadAgent.pc = "boot" /\ DeadAgent.req = NoHandler
  BY DEF DeadAgent, AgentAt
<1>5. InstalledPublished'
  <2>1. db.snaps \cup lost \subseteq db'.snaps \cup lost'
    BY <1>1
  <2>2. QED
    BY <1>1, <1>3, <1>4, <2>1 DEF InstalledPublished
<1>6. RecordedInstalled' /\ ReportedRunning'
  <2>1. NoRow.version <= output.version
    BY StoreTypes, VersionType DEF SyncInv, NoRow
  <2>2. QED
    BY <1>1, <1>2, <1>3, <1>4, <2>1 DEF RecordedInstalled, ReportedRunning
<1>7. AgentKnows'
  <2>1. lost' = {} => Latest' = Latest
    BY <1>2 DEF Latest
  <2>2. \A h \in Handlers : handler'[h].pc = "idle"
    BY <1>1 DEF Idle
  <2>3. CASE agent.req # NoHandler
    BY <1>1, <1>2, <1>3, <1>4, <2>1, <2>2, <2>3 DEF AgentKnows
  <2>4. CASE agent.req = NoHandler
    BY <1>1, <1>2, <1>3, <2>1, <2>2, <2>4 DEF AgentKnows
  <2>5. QED
    BY <2>3, <2>4
<1>8. QED
  BY <1>5, <1>6, <1>7 DEF AgentInv

\* A step that leaves requests, agent and snapshots alone.
LEMMA AgentUntouched ==
    ASSUME SyncInv, db'.snaps = db.snaps,
           UNCHANGED <<handler, agent, agentFile, files, reported, lost>>
    PROVE  AgentInv'
<1>1. UNCHANGED <<handler, agent, agentFile, output, running, reported, lost>> /\ Latest' = Latest
  BY DEF files, Latest
<1>2. QED
  BY <1>1 DEF SyncInv, AgentInv, InstalledPublished, RecordedInstalled, ReportedRunning,
              AgentKnows, Waits

LEMMA AgentInit == Init => AgentInv
BY DEF Init, AgentInv, InstalledPublished, RecordedInstalled, ReportedRunning,
       AgentKnows, Latest, LatestRow, DeadAgent, AgentAt, NoRow

LEMMA SyncNext == SyncInv /\ [Next]_vars => SyncInv'
<1> SUFFICES ASSUME SyncInv, [Next]_vars PROVE SyncInv'
  OBVIOUS
<1>1. StoreInv'
  BY StoreNext DEF SyncInv
<1>2. AgentInv'
  <2>1. ASSUME NEW h \in Handlers, HandlerStep(h) PROVE AgentInv'
    BY <2>1, HandlerStepAgent
  <2>2. CASE AgentStep
    BY <2>2, AgentStepAgent
  <2>3. CASE AgentDies
    BY <2>3, AgentReset, CorruptAssumption DEF AgentDies, DeadAgent, server, MaybeRow
  <2>4. CASE AdminEdit
    <3>1. db'.snaps = db.snaps
      BY <2>4 DEF AdminEdit, SyncInv, StoreInv, TypeOK, Store
    <3>2. QED
      BY <2>4, <3>1, AgentUntouched DEF AdminEdit
  <2>5. CASE OtherCommit
    BY <2>5, AgentUntouched DEF OtherCommit
  <2>6. CASE ServerCrash
    BY <2>6, ServerCrashAgent
  <2>7. CASE UNCHANGED vars
    BY <2>7, AgentUntouched DEF vars
  <2>8. QED
    BY <2>1, <2>2, <2>3, <2>4, <2>5, <2>6, <2>7 DEF Next
<1>3. QED
  BY <1>1, <1>2 DEF SyncInv

THEOREM SyncCorrect == Spec => []SyncInv
<1>1. Init => SyncInv
  BY StoreInit, AgentInit DEF SyncInv
<1>2. QED
  BY <1>1, SyncNext, PTL DEF Spec

\* A device holds, runs and remembers only snapshots the control plane stored.
THEOREM InstalledCorrect == Spec => []InstalledPublished
<1>1. SyncInv => InstalledPublished
  BY DEF SyncInv, AgentInv
<1>2. QED
  BY <1>1, SyncCorrect, PTL

\* While no crash undid a snapshot, the agent never remembers, in memory or in
\* agent.json, a snapshot newer than the one it installed.
THEOREM RecordedCorrect == Spec => []RecordedInstalled
<1>1. SyncInv => RecordedInstalled
  BY DEF SyncInv, AgentInv
<1>2. QED
  BY <1>1, SyncCorrect, PTL

\* While no crash undid a snapshot, a version is reported as applied only once
\* OpenClaw has reloaded it or a newer one.
THEOREM ReportedCorrect == Spec => []ReportedRunning
<1>1. SyncInv => ReportedRunning
  BY DEF SyncInv, AgentInv
<1>2. QED
  BY <1>1, SyncCorrect, PTL

\* The installed file and the loaded configuration never go back.
THEOREM ForwardCorrect == Spec => NeverGoesBack
<1> DEFINE Forward == lost' = {} => /\ output'.version >= output.version
                                    /\ running'.version >= running.version
<1>1. SyncInv /\ [Next]_vars => [Forward]_vars
  <2> SUFFICES ASSUME SyncInv, [Next]_vars PROVE Forward \/ UNCHANGED vars
    OBVIOUS
  <2>1. output.version \in Nat /\ running.version \in Nat
    BY StoreTypes, VersionType DEF SyncInv
  <2>2. CASE UNCHANGED <<output, running>>
    BY <2>1, <2>2
  <2>3. CASE InstallOutput
    <3>1. lost' = lost /\ output' = agent.payload /\ running' = running /\ agent.pc = "install"
      BY <2>3 DEF InstallOutput
    <3>2. QED
      BY <2>1, <3>1 DEF SyncInv, AgentInv, AgentKnows
  <2>4. CASE Reload
    <3>1. lost' = lost /\ output' = output /\ running' = output
      BY <2>4 DEF Reload
    <3>2. QED
      BY <2>1, <3>1 DEF SyncInv, AgentInv, AgentKnows
  <2>5. QED
    BY <2>2, <2>3, <2>4
       DEF Next, vars, files, HandlerStep, CompileRead, LookupLatest, CompareLatest,
           InsertSnapshot, InsertConflict, PointDevice, CommitSnapshot, Reply,
           AgentStep, AgentBoot, PollMeta, FetchConfig, Request, Unchanged,
           ReportApplied, TruncateFile, WriteFile, AgentDies, AdminEdit,
           OtherCommit, ServerCrash
<1>2. QED
  BY <1>1, SyncCorrect, PTL DEF Spec, NeverGoesBack

-----------------------------------------------------------------------------
(***************************************************************************)
(* The implementation of ConfigHistory                                     *)
(***************************************************************************)
\* The log of a table without gaps has one entry per version.
LEMMA LogShape ==
    ASSUME NEW snaps \in SUBSET Row, Gapless(snaps), UniqueVersions(snaps)
    PROVE  /\ LatestRow(snaps).version \in Nat
           /\ LogOf(snaps) \in Seq(Content)
           /\ Len(LogOf(snaps)) = LatestRow(snaps).version
           /\ \A r \in snaps : /\ r.version \in 1..LatestRow(snaps).version
                               /\ LogOf(snaps)[r.version] = r.content
           /\ \A v \in 1..LatestRow(snaps).version : \E r \in snaps : r.version = v
<1> DEFINE n == LatestRow(snaps).version
<1>1. n \in Nat
  BY LatestRowIsLatest, VersionType
<1>2. Versions(snaps) = 1..n
  <2>1. PICK m \in {0} \cup Versions(snaps) : Versions(snaps) = 1..m
    BY DEF Gapless
  <2>2. m \in Nat
    BY <2>1 DEF Versions, Row
  <2>3. n = m
    <3>1. CASE snaps = {}
      <4>1. Versions(snaps) = {} /\ n = 0
        BY <3>1, LatestRowIsLatest DEF Versions, NoRow
      <4>2. QED
        BY <2>1, <2>2, <4>1
    <3>2. CASE snaps # {}
      <4>1. LatestRow(snaps) \in snaps /\ \A s \in snaps : s.version <= n
        BY <3>2, LatestRowIsLatest
      <4>2. n \in 1..m
        BY <2>1, <4>1 DEF Versions
      <4>3. m \in Versions(snaps)
        BY <2>1, <2>2, <4>2
      <4>4. PICK s \in snaps : s.version = m
        BY <4>3 DEF Versions
      <4>5. QED
        BY <1>1, <2>2, <4>1, <4>2, <4>4
    <3>3. QED
      BY <3>1, <3>2
  <2>4. QED
    BY <2>1, <2>3
<1> HIDE DEF n
<1>3. \A v \in 1..n : \E r \in snaps : r.version = v
  BY <1>2 DEF Versions
<1>4. LogOf(snaps) = [v \in 1..n |-> (CHOOSE r \in snaps : r.version = v).content]
  BY DEF LogOf, n
<1>5. \A v \in 1..n : (CHOOSE r \in snaps : r.version = v) \in snaps
  BY <1>3
<1>6. LogOf(snaps) \in [1..n -> Content]
  BY <1>4, <1>5 DEF Row
<1>7. LogOf(snaps) \in Seq(Content) /\ Len(LogOf(snaps)) = n
  BY <1>1, <1>6
<1>8. \A r \in snaps : r.version \in 1..n
  BY <1>2 DEF Versions
<1>9. ASSUME NEW r \in snaps PROVE LogOf(snaps)[r.version] = r.content
  <2>1. (CHOOSE s \in snaps : s.version = r.version) = r
    BY DEF UniqueVersions
  <2>2. QED
    BY <1>4, <1>8, <2>1
<1>10. QED
  BY <1>1, <1>3, <1>7, <1>8, <1>9 DEF n

\* Storing the next version appends its content to the log.
LEMMA LogAppend ==
    ASSUME NEW snaps \in SUBSET Row, Gapless(snaps), UniqueVersions(snaps),
           NEW row \in Row, row.version = LatestRow(snaps).version + 1,
           Gapless(snaps \cup {row}), UniqueVersions(snaps \cup {row}),
           LatestRow(snaps \cup {row}).version = row.version
    PROVE  LogOf(snaps \cup {row}) = Append(LogOf(snaps), row.content)
<1> DEFINE n == LatestRow(snaps).version
           new == LogOf(snaps \cup {row})
           old == LogOf(snaps)
<1>1. /\ n \in Nat /\ old \in Seq(Content) /\ Len(old) = n
      /\ \A r \in snaps : old[r.version] = r.content
      /\ \A v \in 1..n : \E r \in snaps : r.version = v
  BY LogShape
<1>2. /\ new \in Seq(Content) /\ Len(new) = n + 1
      /\ \A r \in snaps \cup {row} : new[r.version] = r.content
  <2>1. snaps \cup {row} \in SUBSET Row
    OBVIOUS
  <2>2. QED
    BY <2>1, LogShape
<1>3. row.content \in Content /\ row.version = n + 1
  BY DEF Row
<1> HIDE DEF n, new, old
<1>4. \A v \in 1..n : new[v] = old[v]
  BY <1>1, <1>2
<1>5. new[n + 1] = row.content
  BY <1>2, <1>3
<1>6. Append(old, row.content) \in Seq(Content) /\ Len(Append(old, row.content)) = n + 1
  BY <1>1, <1>3
<1>7. \A v \in 1..(n + 1) : new[v] = Append(old, row.content)[v]
  BY <1>1, <1>3, <1>4, <1>5
<1>8. new = Append(old, row.content)
  BY <1>1, <1>2, <1>6, <1>7
<1>9. QED
  BY <1>8 DEF new, old

\* What an insertion does to the table (the facts of InsertExtends, in place).
LEMMA InsertStep ==
    ASSUME SyncInv, NEW h \in Handlers, InsertSnapshot(h)
    PROVE  LET row == NextRow(h) IN
           /\ row \in Row
           /\ db'.snaps = db.snaps \cup {row}
           /\ row.version = Latest + 1
           /\ Latest' = row.version
           /\ row.content # LatestRow(db.snaps).content
<1> DEFINE row == NextRow(h)
           last == handler[h].row
<1>1. /\ last \in db.snaps \cup {NoRow}
      /\ last.content # handler[h].payload
      /\ handler[h].payload \in Content
  BY FullPayload DEF InsertSnapshot, SyncInv, StoreInv, HandlerKnows, TypeOK
<1>2. /\ db.snaps \in SUBSET Row /\ Gapless(db.snaps) /\ UniqueVersions(db.snaps)
      /\ AdjacentDiffer(db.snaps)
  BY DEF SyncInv, StoreInv, TypeOK, Store, SnapshotHistory
<1>3. last.version \in Nat
  BY <1>1, <1>2 DEF Row, NoRow
<1>4. row \in Row /\ row.version = last.version + 1 /\ row.content = handler[h].payload
  BY <1>1, <1>3 DEF NextRow, Row
<1>5. MayInsert(db.snaps, row) /\ db'.snaps = db.snaps \cup {row}
  BY DEF InsertSnapshot, SyncInv, StoreInv, TypeOK, Store
<1> HIDE DEF row, last
<1>6. /\ Gapless(db.snaps \cup {row}) /\ \A s \in db.snaps : s.version < row.version
  BY <1>1, <1>2, <1>4, <1>5, InsertExtends
<1>7. db.snaps \cup {row} \in SUBSET Row
  BY <1>2, <1>4
<1>8. Latest' = row.version
  <2>1. /\ LatestRow(db'.snaps) \in db.snaps \cup {row}
        /\ row.version <= LatestRow(db'.snaps).version
    BY <1>5, <1>6, <1>7, LatestRowIsLatest
  <2>2. QED
    BY <1>2, <1>4, <1>6, <2>1 DEF Latest, Row
<1>9. last = LatestRow(db.snaps)
  <2>1. CASE db.snaps = {}
    BY <1>1, <1>2, <2>1, LatestRowIsLatest
  <2>2. CASE db.snaps # {}
    <3>1. /\ LatestRow(db.snaps) \in db.snaps
          /\ \A s \in db.snaps : s.version <= LatestRow(db.snaps).version
      BY <1>2, <2>2, LatestRowIsLatest
    <3>2. /\ LatestRow(db.snaps).version \in Nat \ {0}
          /\ LatestRow(db.snaps).version < row.version
      BY <1>2, <1>6, <3>1 DEF Row
    <3>3. last.version >= LatestRow(db.snaps).version
      BY <1>3, <1>4, <3>2
    <3>4. last \in db.snaps
      BY <1>1, <3>2, <3>3 DEF NoRow
    <3>5. last.version = LatestRow(db.snaps).version
      BY <1>3, <3>1, <3>2, <3>3, <3>4
    <3>6. QED
      BY <1>2, <3>1, <3>4, <3>5 DEF UniqueVersions
  <2>3. QED
    BY <2>1, <2>2
<1>10. QED
  BY <1>1, <1>4, <1>5, <1>8, <1>9 DEF row, Latest

\* A step of the protocol publishes, makes durable, loses, installs, or is
\* not visible in the log.
LEMMA HistoryNext == SyncInv /\ SyncInv' /\ [Next]_vars => [History!Next]_(History!vars)
<1> SUFFICES ASSUME SyncInv, SyncInv', [Next]_vars PROVE [History!Next]_(History!vars)
  OBVIOUS
<1> USE DEF History!Next, History!vars
<1>1. ASSUME NEW t \in {db, disk}
      PROVE  t.snaps \in SUBSET Row /\ Gapless(t.snaps) /\ UniqueVersions(t.snaps)
  BY DEF SyncInv, StoreInv, TypeOK, Store, SnapshotHistory
<1>2. /\ db'.snaps \in SUBSET Row /\ Gapless(db'.snaps) /\ UniqueVersions(db'.snaps)
  BY DEF SyncInv, StoreInv, TypeOK, Store, SnapshotHistory
<1>3. CASE /\ db'.snaps = db.snaps /\ disk'.snaps = disk.snaps
           /\ lost' = lost /\ output' = output
  BY <1>3
<1>4. ASSUME NEW h \in Handlers, InsertSnapshot(h) PROVE History!Publish
  <2> DEFINE row == NextRow(h)
             last == LatestRow(db.snaps)
  <2>1. /\ row \in Row /\ db'.snaps = db.snaps \cup {row} /\ row.version = last.version + 1
        /\ LatestRow(db'.snaps).version = row.version /\ row.content # last.content
    BY <1>4, InsertStep DEF Latest
  <2>2. UNCHANGED <<disk, lost, output>>
    BY <1>4 DEF InsertSnapshot, files
  <2> HIDE DEF row
  <2>3. LogOf(db'.snaps) = Append(LogOf(db.snaps), row.content)
    BY <1>1, <1>2, <2>1, LogAppend
  <2>4. LogOf(db.snaps) = <<>> \/ LogOf(db.snaps)[Len(LogOf(db.snaps))] # row.content
    <3>1. /\ LogOf(db.snaps) \in Seq(Content) /\ Len(LogOf(db.snaps)) = last.version
          /\ \A r \in db.snaps : LogOf(db.snaps)[r.version] = r.content
      BY <1>1, LogShape
    <3>2. CASE db.snaps = {}
      <4>1. last.version = 0
        <5>1. last = NoRow
          BY <3>2, LatestRowIsLatest DEF LatestRow
        <5>2. QED
          BY <5>1 DEF NoRow
      <4>2. QED
        BY <3>1, <4>1
    <3>3. CASE db.snaps # {}
      <4>1. last \in db.snaps
        BY <1>1, <3>3, LatestRowIsLatest
      <4>2. QED
        BY <2>1, <3>1, <4>1
    <3>4. QED
      BY <3>2, <3>3
  <2>5. row.content \in Content
    BY <2>1 DEF Row
  <2>6. QED
    BY <2>2, <2>3, <2>4, <2>5 DEF History!Publish
<1>5. CASE disk' = db /\ UNCHANGED <<db, lost, output>>
  BY <1>5 DEF History!Persist
<1>6. CASE ServerCrash
  <2>1. db' = disk /\ lost' = lost \cup (db.snaps \ disk.snaps) /\ UNCHANGED <<disk, output>>
    BY <1>6 DEF ServerCrash, files
  <2>2. ASSUME LogOf(db.snaps) = LogOf(disk.snaps) PROVE db.snaps \subseteq disk.snaps
    <3>1. disk.snaps \subseteq db.snaps
      BY DEF SyncInv, StoreInv, CurrentPublished
    <3>2. LatestRow(db.snaps).version = LatestRow(disk.snaps).version
      BY <1>1, <2>2, LogShape
    <3>3. ASSUME NEW r \in db.snaps PROVE r \in disk.snaps
      <4>1. r.version \in 1..LatestRow(disk.snaps).version
        BY <1>1, <3>2, LogShape
      <4>2. PICK s \in disk.snaps : s.version = r.version
        BY <1>1, <4>1, LogShape
      <4>3. s = r
        BY <1>1, <3>1, <4>2 DEF UniqueVersions
      <4>4. QED
        BY <4>2, <4>3
    <3>4. QED
      BY <3>3
  <2>3. disk.snaps \subseteq db.snaps
    BY DEF SyncInv, StoreInv, CurrentPublished
  <2>4. (lost' = {}) = (lost = {} /\ LogOf(db.snaps) = LogOf(disk.snaps))
    <3>1. ASSUME lost' = {} PROVE lost = {} /\ LogOf(db.snaps) = LogOf(disk.snaps)
      <4>1. lost = {} /\ db.snaps = disk.snaps
        BY <2>1, <2>3, <3>1
      <4>2. QED
        BY <4>1
    <3>2. ASSUME lost = {}, LogOf(db.snaps) = LogOf(disk.snaps) PROVE lost' = {}
      BY <2>1, <2>2, <3>2
    <3>3. QED
      BY <3>1, <3>2
  <2>5. History!Lose
    BY <2>1, <2>4 DEF History!Lose
  <2>6. QED
    BY <2>5
<1>7. CASE InstallOutput
  <2>1. /\ agent.pc = "install" /\ output' = agent.payload
        /\ db' = db /\ disk' = disk /\ lost' = lost
    BY <1>7 DEF InstallOutput, server
  <2>2. AgentKnows
    BY DEF SyncInv, AgentInv
  <2>3. output'.version \in Nat \ {0}
    BY <2>1, <2>2 DEF AgentKnows, Row
  <2>4. Len(LogOf(db.snaps)) = Latest
    BY <1>1, LogShape DEF Latest
  <2>5. lost = {} => output.version <= output'.version /\ output'.version <= Len(LogOf(db.snaps))
    BY <2>1, <2>2, <2>4 DEF AgentKnows
  <2>6. History!Install
    BY <2>1, <2>3, <2>5 DEF History!Install
  <2>7. QED
    BY <2>6
<1>8. ASSUME NEW h \in Handlers, PointDevice(h) PROVE db'.snaps = db.snaps /\ disk' = disk /\ lost' = lost /\ output' = output
  BY <1>8 DEF PointDevice, SyncInv, StoreInv, TypeOK, Store, files
<1>9. CASE AdminEdit
  <2>1. db'.snaps = db.snaps /\ disk' = disk /\ lost' = lost /\ output' = output
    BY <1>9 DEF AdminEdit, SyncInv, StoreInv, TypeOK, Store, files
  <2>2. QED
    BY <1>3, <2>1
<1>10. ASSUME NEW h \in Handlers, HandlerStep(h)
       PROVE  [History!Next]_(History!vars)
  <2>1. CASE InsertSnapshot(h)
    BY <1>4, <2>1
  <2>2. CASE CommitSnapshot(h)
    BY <1>5, <2>2 DEF CommitSnapshot, files
  <2>3. CASE PointDevice(h)
    BY <1>3, <1>8, <2>3
  <2>4. CASE CompileRead(h) \/ LookupLatest(h) \/ CompareLatest(h) \/ InsertConflict(h) \/ Reply(h)
    BY <1>3, <2>4 DEF CompileRead, LookupLatest, CompareLatest, InsertConflict, Reply, files
  <2>5. QED
    BY <1>10, <2>1, <2>2, <2>3, <2>4 DEF HandlerStep
<1>11. CASE AgentStep \/ AgentDies
  <2>1. InstallOutput \/ (UNCHANGED <<db, disk, lost, output>>)
    BY <1>11 DEF AgentStep, AgentBoot, PollMeta, FetchConfig, Request, Unchanged, Reload,
                 ReportApplied, TruncateFile, WriteFile, AgentDies, server, files
  <2>2. QED
    BY <1>3, <1>7, <2>1
<1>12. CASE OtherCommit
  BY <1>5, <1>12 DEF OtherCommit, files
<1>13. CASE UNCHANGED vars
  BY <1>3, <1>13 DEF vars, files
<1>14. QED
  BY <1>6, <1>9, <1>10, <1>11, <1>12, <1>13 DEF Next

\* With its threads, commits, crashes and retries, the sync protocol is one
\* growing log that the device follows forward.
THEOREM HistoryImplemented == Spec => ImplementsHistory
<1>1. Init => History!Init
  <2> SUFFICES ASSUME Init PROVE History!Init
    OBVIOUS
  <2>1. Gapless({}) /\ UniqueVersions({})
    BY EmptyHistory
  <2>2. LogOf({}) \in Seq(Content) /\ Len(LogOf({})) = 0
    <3>1. LatestRow({}).version = 0
      BY DEF LatestRow, NoRow
    <3>2. {} \in SUBSET Row
      OBVIOUS
    <3>3. QED
      BY <2>1, <3>1, <3>2, LogShape
  <2>3. LogOf({}) = <<>>
    BY <2>2
  <2>4. db.snaps = {} /\ disk.snaps = {} /\ lost = {} /\ output.version = 0
    BY DEF Init, NoRow
  <2>5. QED
    BY <2>3, <2>4 DEF History!Init
<1>2. QED
  BY <1>1, HistoryNext, SyncCorrect, PTL DEF Spec, ImplementsHistory, History!Spec
=============================================================================
