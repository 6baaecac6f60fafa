---------------------------- MODULE LegacyProofs ----------------------------
(***************************************************************************)
(* Proofs about the legacy programs.  Of LegacyNodeSync: the versions stay *)
(* a history although they are computed outside the lock, and a node only  *)
(* moves forward in it.  Of LegacyGateway: round robin takes turns, and a  *)
(* request fails for good only when all that it may try has failed.  Of    *)
(* LegacyFree: a sync that is alone fills its slots and no others, and     *)
(* "general" stays another model than "best".                              *)
(***************************************************************************)
EXTENDS LegacyNodeSync, LegacyGateway, LegacyFree, FreeModelsProofs

(***************************************************************************)
(* Node sync: types                                                        *)
(***************************************************************************)
LEMMA IdleType == Idle \in Threads
BY NoneAssumption DEF Idle, Threads, Locals

LEMMA BootType ==
    ASSUME NEW token \in Nat
    PROVE  Boot(token) \in
              [pc : {"idle"}, token : Nat, req : {None}, etag : {None}, got : {None}]
BY DEF Boot

\* A thread's step keeps the others' types.
LEMMA ServerType ==
    ASSUME TypeOK, NEW h \in Handlers, NEW t \in Threads, handler' = [handler EXCEPT ![h] = t]
    PROVE  handler' \in [Handlers -> Threads]
BY DEF TypeOK

\* The latest row is a row.
LEMMA LatestType ==
    ASSUME rows \subseteq Row, rows # {},
           \E r \in rows : \A s \in rows : s.version <= r.version
    PROVE  /\ LatestRow \in rows
           /\ \A s \in rows : s.version <= LatestRow.version
BY DEF LatestRow

(***************************************************************************)
(* Node sync: the inductive invariant                                      *)
(***************************************************************************)
\* There is a last version, and none is missing before it.
Gapless ==
    /\ rows # {} => \E r \in rows : \A s \in rows : s.version <= r.version
    /\ \A r \in rows : r.version = 1 \/ r.version - 1 \in Versions

\* A thread answers with a stored row, and inserts what differs from the row it
\* compared with.
HandlerKnows ==
    \A h \in Handlers :
        /\ handler[h].row # None => handler[h].row \in rows
        /\ At(h, "reread") => rows # {}
        /\ At(h, "insert") /\ handler[h].row # None =>
              handler[h].payload # handler[h].row.payload

\* The script waits for a thread that has not answered, and what it is about to
\* get, write or reload is stored and no older than what it has.
ScriptKnows ==
    /\ file # None => file \in rows
    /\ running # None => running \in rows
    /\ Version(running) <= Version(file)
    /\ EtagNamesFile
    /\ script.req # None => AtPc("wait")
    /\ AtPc("write") => script.got \in rows /\ Version(file) <= Version(script.got)
    /\ \A h \in Handlers :
          script.req = h => /\ ~ At(h, "idle")
                            /\ At(h, "reply") => Version(file) <= Version(handler[h].row)

NodeInv == TypeOK /\ VersionHistory /\ Gapless /\ HandlerKnows /\ ScriptKnows

LEMMA NodeInitType == Init => TypeOK
<1> SUFFICES ASSUME Init PROVE TypeOK
  OBVIOUS
<1>1. db \in [profile : Profiles, active : BOOLEAN, token : Nat,
              bound : [Profiles -> SUBSET Models], off : SUBSET Models]
  BY LegacyNodeSyncAssumption DEF Init, LegacyNodeSyncAssumption
<1>2. handler \in [Handlers -> Threads]
  BY IdleType DEF Init
<1>3. clock \in 0..MaxSeconds
  BY LegacyNodeSyncAssumption DEF Init, LegacyNodeSyncAssumption
<1>4. budget \in [edits : Nat, faults : Nat]
  BY LegacyNodeSyncAssumption DEF Init, LegacyNodeSyncAssumption
<1>5. script = Boot(1) /\ script \in
         [pc : {"idle"}, token : Nat, req : {None}, etag : {None}, got : {None}]
  BY BootType DEF Init
<1>6. QED
  BY <1>1, <1>2, <1>3, <1>4, <1>5 DEF Init, TypeOK, AtPc

LEMMA NodeNextType == TypeOK /\ Gapless /\ HandlerKnows /\ [Next]_vars => TypeOK'
<1> SUFFICES ASSUME TypeOK, Gapless, HandlerKnows, [Next]_vars PROVE TypeOK'
  OBVIOUS
<1> USE DEF onNode, Server
<1>b. /\ budget.edits > 0 => budget.edits - 1 \in Nat
      /\ budget.faults > 0 => budget.faults - 1 \in Nat
      /\ budget.edits \in Nat /\ budget.faults \in Nat
  <2>1. budget.edits \in Nat /\ budget.faults \in Nat
    BY DEF TypeOK
  <2>2. \A n \in Nat : n > 0 => n - 1 \in Nat
    OBVIOUS
  <2>3. QED
    BY <2>1, <2>2
<1>e. Edits => budget' \in [edits : Nat, faults : Nat]
  <2>1. budget \in [edits : Nat, faults : Nat]
    BY DEF TypeOK
  <2>2. QED
    BY <1>b, <2>1 DEF Edits
<1>f. Faults => budget' \in [edits : Nat, faults : Nat]
  <2>1. budget \in [edits : Nat, faults : Nat]
    BY DEF TypeOK
  <2>2. QED
    BY <1>b, <2>1 DEF Faults
<1>l. LatestRow # None => LatestRow \in Row
  <2>1. CASE rows = {}
    BY <2>1 DEF LatestRow
  <2>2. CASE rows # {}
    BY <2>2, LatestType DEF Gapless, TypeOK
  <2>3. QED
    BY <2>1, <2>2
<1>1. ASSUME NEW p \in Profiles, NEW list \in BindingLists, DeleteBindings(p, list)
      PROVE  TypeOK'
  <2>1. saving' \in [profile : Profiles, left : Seq(Models)]
    BY <1>1, LegacyNodeSyncAssumption DEF LegacyNodeSyncAssumption, DeleteBindings
  <2>2. db' \in [profile : Profiles, active : BOOLEAN, token : Nat,
                 bound : [Profiles -> SUBSET Models], off : SUBSET Models]
    BY <1>1 DEF DeleteBindings, TypeOK
  <2>3. QED
    BY <1>1, <1>e, <2>1, <2>2 DEF TypeOK, DeleteBindings, AtPc
<1>2. CASE InsertBinding
  <2>1. saving \in [profile : Profiles, left : Seq(Models)]
    BY <1>2 DEF InsertBinding, Unlocked, TypeOK
  <2>2. Head(saving.left) \in Models /\ Tail(saving.left) \in Seq(Models)
    BY <1>2, <2>1 DEF InsertBinding
  <2>3. saving' \in [profile : Profiles, left : Seq(Models)]
    BY <1>2, <2>1, <2>2 DEF InsertBinding
  <2>4. db' \in [profile : Profiles, active : BOOLEAN, token : Nat,
                 bound : [Profiles -> SUBSET Models], off : SUBSET Models]
    BY <1>2, <2>1, <2>2 DEF InsertBinding, TypeOK
  <2>5. QED
    BY <1>2, <2>3, <2>4 DEF TypeOK, InsertBinding, AtPc
<1>3. CASE EndBindings
  BY <1>3 DEF TypeOK, EndBindings, AtPc
<1>4. ASSUME NEW m \in Models, SwitchModel(m) PROVE TypeOK'
  <2>1. db' \in [profile : Profiles, active : BOOLEAN, token : Nat,
                 bound : [Profiles -> SUBSET Models], off : SUBSET Models]
    BY <1>4 DEF SwitchModel, TypeOK
  <2>2. QED
    BY <1>4, <1>e, <2>1 DEF TypeOK, SwitchModel, AtPc
<1>5. ASSUME NEW p \in Profiles, NEW active \in BOOLEAN, UpdateNode(p, active) PROVE TypeOK'
  <2>1. db' \in [profile : Profiles, active : BOOLEAN, token : Nat,
                 bound : [Profiles -> SUBSET Models], off : SUBSET Models]
    BY <1>5 DEF UpdateNode, TypeOK
  <2>2. QED
    BY <1>5, <1>e, <2>1 DEF TypeOK, UpdateNode, AtPc
<1>6. CASE RotateToken
  <2>1. db' \in [profile : Profiles, active : BOOLEAN, token : Nat,
                 bound : [Profiles -> SUBSET Models], off : SUBSET Models]
    BY <1>6 DEF RotateToken, TypeOK
  <2>2. QED
    BY <1>6, <1>e, <2>1 DEF TypeOK, RotateToken, AtPc
<1>7. ASSUME NEW h \in Handlers, AdminGet(h) PROVE TypeOK'
  <2>1. [Idle EXCEPT !.pc = "node"] \in Threads
    BY IdleType DEF Idle, Threads, Locals
  <2>2. handler' \in [Handlers -> Threads]
    BY <1>7, <2>1, ServerType DEF AdminGet
  <2>3. QED
    BY <1>7, <1>e, <2>2 DEF TypeOK, AdminGet, AtPc
<1>8. CASE Tick
  <2>1. clock' \in 0..MaxSeconds
    BY <1>8, LegacyNodeSyncAssumption DEF LegacyNodeSyncAssumption, Tick, TypeOK
  <2>2. QED
    BY <1>8, <2>1 DEF TypeOK, Tick, AtPc
<1>9. ASSUME NEW h \in Handlers, Request(h) PROVE TypeOK'
  <2>0. handler[h] \in Threads
    BY DEF TypeOK
  <2>a. ASSUME NEW t \in Threads, Server(h, t), UNCHANGED <<rows, onNode>> PROVE TypeOK'
    <3>1. handler' \in [Handlers -> Threads]
      BY <2>a, ServerType
    <3>2. QED
      BY <2>a, <3>1 DEF TypeOK, AtPc
  <2>1. CASE Verify(h)
    <3>1. \A pc \in {"node", "refused"} :
             [Idle EXCEPT !.etag = handler[h].etag, !.pc = pc] \in Threads
      BY <2>0, IdleType DEF Idle, Threads, Locals
    <3>2. QED
      BY <2>1, <2>a, <3>1 DEF Verify
  <2>2. CASE ReadNode(h)
    <3>1. [handler[h] EXCEPT !.pc = "models", !.profile = db.profile,
                             !.active = db.active] \in Threads
      BY <2>0 DEF TypeOK, Threads, Locals
    <3>2. QED
      BY <2>2, <2>a, <3>1 DEF ReadNode
  <2>3. CASE ReadModels(h)
    <3>1. handler[h].profile \in Profiles
      BY <2>0, <2>3 DEF ReadModels, At, Threads
    <3>2. db.bound[handler[h].profile] \ db.off \in SUBSET Models
      BY <3>1 DEF TypeOK
    <3>3. [handler[h] EXCEPT !.pc = "stamp",
                             !.models = db.bound[handler[h].profile] \ db.off] \in Threads
      BY <2>0, <3>1, <3>2 DEF Threads, Locals
    <3>4. QED
      BY <2>3, <2>a, <3>3 DEF ReadModels
  <2>4. CASE Stamp(h)
    <3>1. /\ handler[h].profile \in Profiles
          /\ handler[h].active \in BOOLEAN /\ handler[h].models \in SUBSET Models
      BY <2>0, <2>4 DEF Stamp, At, Threads, Locals
    <3>2. Stamped(h) \in Payload
      BY <3>1 DEF Stamped, Payload, TypeOK
    <3>3. [handler[h] EXCEPT !.pc = "compare", !.payload = Stamped(h),
                             !.profile = None, !.active = FALSE, !.models = {}] \in Threads
      BY <2>0, <3>2 DEF Threads, Locals
    <3>4. QED
      BY <2>4, <2>a, <3>3 DEF Stamp
  <2>5. CASE Compare(h)
    <3>1. handler[h].payload \in Payload
      BY <2>0, <2>5 DEF Compare, At, Threads
    <3>2. LatestRow # None => Replies(h, LatestRow) \in Threads
      BY <1>l, <2>0, IdleType DEF Replies, Idle, Threads, Locals
    <3>3. [handler[h] EXCEPT !.pc = "insert", !.row = LatestRow] \in Threads
      BY <1>l, <2>0, <3>1 DEF Threads, Locals
    <3>4. QED
      BY <2>5, <2>a, <3>2, <3>3 DEF Compare
  <2>6. CASE Insert(h)
    <3>1. handler[h].payload \in Payload /\ handler[h].row \in Row \cup {None}
      BY <2>0, <2>6 DEF Insert, At, Threads, Locals
    <3>2. NextVersion(h) \in Nat \ {0}
      BY <3>1 DEF NextVersion, Row
    <3>3. rows' \subseteq Row
      BY <2>6, <3>1, <3>2 DEF Insert, Row, TypeOK
    <3>4. [Idle EXCEPT !.pc = "reread", !.etag = handler[h].etag] \in Threads
      BY <2>0, IdleType DEF Idle, Threads, Locals
    <3>5. handler' \in [Handlers -> Threads]
      BY <2>6, <3>4, ServerType DEF Insert
    <3>6. QED
      BY <2>6, <3>3, <3>5 DEF Insert, TypeOK, AtPc
  <2>7. CASE Conflict(h)
    <3>1. [Idle EXCEPT !.pc = "refused"] \in Threads
      BY IdleType DEF Idle, Threads, Locals
    <3>2. QED
      BY <2>7, <2>a, <3>1 DEF Conflict
  <2>8. CASE Reread(h)
    <3>1. rows # {}
      BY <2>8 DEF Reread, HandlerKnows
    <3>2. LatestRow \in Row
      BY <3>1, LatestType DEF Gapless, TypeOK
    <3>3. Replies(h, LatestRow) \in Threads
      BY <2>0, <3>2, IdleType DEF Replies, Idle, Threads, Locals
    <3>4. QED
      BY <2>8, <2>a, <3>3 DEF Reread
  <2>9. CASE Answer(h)
    <3>1. handler' \in [Handlers -> Threads]
      BY <2>9, IdleType, ServerType DEF Answer
    <3>2. At(h, "reply") => handler[h].row \in Row
      BY <2>0 DEF At, Threads
    <3>3. /\ script' \in [pc : {"idle", "wait", "write", "reload"}, token : Nat,
                          req : Handlers \cup {None}, etag : Row \cup {None},
                          got : Row \cup {None}]
          /\ script'.pc = "write" => script'.got \in Row
      BY <2>9, <3>2 DEF Answer, Receive, TypeOK, AtPc, At
    <3>4. QED
      BY <2>9, <3>1, <3>3 DEF Answer, TypeOK, AtPc
  <2>10. QED
    BY <1>9, <2>1, <2>2, <2>3, <2>4, <2>5, <2>6, <2>7, <2>8, <2>9 DEF Request
<1>10. ASSUME NEW h \in Handlers, Poll(h) PROVE TypeOK'
  <2>1. [Idle EXCEPT !.pc = "verify", !.token = script.token, !.etag = script.etag]
           \in Threads
    BY IdleType DEF TypeOK, Idle, Threads, Locals
  <2>2. handler' \in [Handlers -> Threads]
    BY <1>10, <2>1, ServerType DEF Poll
  <2>3. QED
    BY <1>10, <2>2 DEF Poll, TypeOK, AtPc
<1>11. CASE TimeOut
  BY <1>11, <1>f DEF TimeOut, TypeOK, AtPc
<1>12. CASE Write
  BY <1>12 DEF Write, TypeOK, AtPc
<1>13. CASE WriteFails
  BY <1>13, <1>f DEF WriteFails, TypeOK, AtPc
<1>14. CASE Reload
  BY <1>14 DEF Reload, TypeOK, AtPc
<1>15. CASE ReloadFails
  BY <1>15, <1>f DEF ReloadFails, TypeOK, AtPc
<1>16. CASE Restart
  <2>1. script' = Boot(db.token) /\ script' \in
           [pc : {"idle"}, token : Nat, req : {None}, etag : {None}, got : {None}]
    BY <1>16, BootType DEF Restart, TypeOK
  <2>2. QED
    BY <1>16, <1>f, <2>1 DEF Restart, TypeOK, AtPc
<1>17. CASE UNCHANGED vars
  BY <1>17 DEF vars, TypeOK, AtPc
<1>18. QED
  BY <1>1, <1>2, <1>3, <1>4, <1>5, <1>6, <1>7, <1>8, <1>9, <1>10, <1>11, <1>12, <1>13,
     <1>14, <1>15, <1>16, <1>17 DEF Next, Admin, GoOn, Script, Fault

(***************************************************************************)
(* Node sync: the invariant is inductive                                   *)
(***************************************************************************)
LEMMA NodeInitInv == Init => NodeInv
<1> SUFFICES ASSUME Init PROVE NodeInv
  OBVIOUS
<1>1. TypeOK
  BY NodeInitType
<1>2. /\ rows = {} /\ file = None /\ running = None
      /\ handler = [h \in Handlers |-> Idle]
      /\ script.req = None /\ script.etag = None /\ script.pc = "idle"
  BY DEF Init, Boot
<1>3. VersionHistory /\ Gapless
  BY <1>2 DEF VersionHistory, Gapless
<1>4. HandlerKnows
  BY <1>2 DEF HandlerKnows, At, Idle
<1>5. ScriptKnows
  BY <1>2, NoneAssumption DEF ScriptKnows, EtagNamesFile, AtPc, Version
<1>6. QED
  BY <1>1, <1>3, <1>4, <1>5 DEF NodeInv

\* What is stored is no older than the latest row.
LEMMA LatestKnows ==
    ASSUME TypeOK, Gapless, NEW x, x # None => x \in rows, rows # {}
    PROVE  LatestRow \in rows /\ LatestRow # None /\ Version(x) <= Version(LatestRow)
<1>1. LatestRow \in rows /\ \A s \in rows : s.version <= LatestRow.version
  BY LatestType DEF TypeOK, Gapless
<1>2. LatestRow # None /\ LatestRow.version \in Nat
  BY <1>1, NoneAssumption DEF TypeOK, Row
<1>3. QED
  BY <1>1, <1>2 DEF Version

\* The insertion of the next version, if nobody took it, keeps the history.
LEMMA InsertKeeps ==
    ASSUME NodeInv, NEW h \in Handlers, Insert(h)
    PROVE  (VersionHistory /\ Gapless)'
<1> DEFINE t == handler[h]
           v == NextVersion(h)
           new == [version |-> v, payload |-> t.payload]
<1> USE DEF NodeInv
<1>1. /\ rows' = rows \cup {new}
      /\ v \notin Versions
  BY DEF Insert, MayInsert
<1>2. t \in Threads
  BY DEF TypeOK
<1>3. /\ t.row # None => t.row \in rows /\ t.payload # t.row.payload
      /\ \A r \in rows : r.version \in Nat \ {0}
  BY DEF HandlerKnows, Insert, TypeOK, Row
<1>4. /\ v \in Nat \ {0}
      /\ t.row # None => v = t.row.version + 1
      /\ t.row = None => v = 1
  BY <1>3 DEF NextVersion
<1>5. \A r \in rows : r.version # v
  BY <1>1 DEF Versions
<1>6. \A r \in rows : r.version # v + 1
  <2>1. SUFFICES ASSUME NEW r \in rows, r.version = v + 1 PROVE FALSE
    OBVIOUS
  <2>2. r.version # 1 /\ r.version - 1 = v
    BY <1>4, <2>1
  <2>3. v \in Versions
    BY <2>2 DEF Gapless
  <2>4. QED
    BY <1>1, <2>3
<1>7. \A r \in rows : r.version + 1 = v => r = t.row
  <2>1. SUFFICES ASSUME NEW r \in rows, r.version + 1 = v PROVE r = t.row
    OBVIOUS
  <2>2. t.row # None
    BY <1>3, <1>4, <2>1
  <2>3. r.version = t.row.version
    BY <1>3, <1>4, <2>1, <2>2
  <2>4. QED
    BY <1>3, <2>2, <2>3 DEF VersionHistory
<1>8. VersionHistory'
  <2>1. SUFFICES ASSUME NEW r \in rows', NEW s \in rows'
                 PROVE  /\ r.version = s.version => r = s
                        /\ r.version + 1 = s.version => r.payload # s.payload
    BY DEF VersionHistory
  <2>2. CASE r \in rows /\ s \in rows
    BY <2>2 DEF VersionHistory
  <2>3. CASE r \in rows /\ s = new
    <3>1. r.version # s.version
      BY <1>5, <2>3
    <3>2. r.version + 1 = s.version => r.payload # s.payload
      BY <1>3, <1>4, <1>7, <2>3
    <3>3. QED
      BY <3>1, <3>2
  <2>4. CASE r = new /\ s \in rows
    BY <1>5, <1>6, <2>4
  <2>5. CASE r = new /\ s = new
    <3>1. r.version = v /\ s.version = v
      BY <2>5
    <3>2. QED
      BY <1>4, <2>5, <3>1
  <2>6. QED
    BY <1>1, <2>1, <2>2, <2>3, <2>4, <2>5
<1>9. Gapless'
  <2>1. Versions \subseteq Versions' /\ v \in Versions'
    <3>1. \A r \in rows : r \in rows'
      BY <1>1
    <3>2. new \in rows' /\ new.version = v
      BY <1>1
    <3>3. QED
      BY <3>1, <3>2 DEF Versions
  <2>2. v = 1 \/ v - 1 \in Versions
    BY <1>3, <1>4 DEF Versions
  <2>3. \A r \in rows' : r.version = 1 \/ r.version - 1 \in Versions'
    BY <1>1, <2>1, <2>2 DEF Gapless
  <2>4. \E r \in rows' : \A s \in rows' : s.version <= r.version
    <3>1. CASE rows = {}
      BY <1>1, <1>4, <3>1
    <3>2. CASE rows # {}
      <4>1. PICK r \in rows : \A s \in rows : s.version <= r.version
        BY <3>2 DEF Gapless
      <4>2. CASE v <= r.version
        BY <1>1, <4>1, <4>2
      <4>3. CASE ~ (v <= r.version)
        <5>1. \A s \in rows : s.version <= v
          BY <1>3, <1>4, <4>1, <4>3
        <5>2. new.version = v /\ v <= v
          BY <1>4
        <5>3. \A s \in rows' : s.version <= new.version
          BY <1>1, <5>1, <5>2
        <5>4. QED
          BY <1>1, <5>3
      <4>4. QED
        BY <4>2, <4>3
    <3>3. QED
      BY <3>1, <3>2
  <2>5. QED
    BY <2>3, <2>4 DEF Gapless
<1>10. QED
  BY <1>8, <1>9

LEMMA NodeNextInv == NodeInv /\ [Next]_vars => NodeInv'
<1> SUFFICES ASSUME NodeInv, [Next]_vars PROVE NodeInv'
  OBVIOUS
<1> USE DEF onNode, Server, At, AtPc
<1>t. TypeOK /\ TypeOK'
  BY NodeNextType DEF NodeInv
<1>i. VersionHistory /\ Gapless /\ HandlerKnows /\ ScriptKnows
  BY DEF NodeInv
<1>r. UNCHANGED rows => VersionHistory' /\ Gapless'
  BY <1>i DEF VersionHistory, Gapless, Versions
<1>1. ASSUME UNCHANGED <<rows, handler, onNode>> PROVE NodeInv'
  BY <1>1, <1>t, <1>i, <1>r DEF NodeInv, HandlerKnows, ScriptKnows, EtagNamesFile, Version
<1>2. ASSUME NEW h \in Handlers, \A g \in Handlers : g # h => handler'[g] = handler[g],
             UNCHANGED rows, UNCHANGED onNode,
             handler'[h].pc # "idle",
             handler'[h].row # None => handler'[h].row \in rows,
             handler'[h].pc = "reread" => rows # {},
             handler'[h].pc = "insert" /\ handler'[h].row # None =>
                handler'[h].payload # handler'[h].row.payload,
             handler'[h].pc = "reply" => Version(file) <= Version(handler'[h].row)
      PROVE  NodeInv'
  <2>1. HandlerKnows'
    BY <1>2, <1>i DEF HandlerKnows
  <2>2. ScriptKnows'
    BY <1>2, <1>i DEF ScriptKnows, EtagNamesFile, Version
  <2>3. QED
    BY <1>2, <1>t, <1>r, <2>1, <2>2 DEF NodeInv
<1>3. ASSUME NEW h \in Handlers, Request(h) PROVE NodeInv'
  <2>0. handler[h] \in Locals
    BY <1>t DEF TypeOK, Threads
  <2>f. file # None => file \in rows
    BY <1>i DEF ScriptKnows
  <2>1. CASE Verify(h)
    <3>1. /\ handler'[h].pc \in {"node", "refused"} /\ handler'[h].row = None
          /\ \A g \in Handlers : g # h => handler'[g] = handler[g]
      BY <1>t, <2>1 DEF Verify, Idle, TypeOK
    <3>2. UNCHANGED rows /\ UNCHANGED onNode
      BY <2>1 DEF Verify
    <3>3. QED
      BY <1>2, <3>1, <3>2
  <2>2. CASE ReadNode(h)
    <3>1. /\ handler'[h].pc = "models" /\ handler'[h].row = handler[h].row
          /\ \A g \in Handlers : g # h => handler'[g] = handler[g]
      BY <1>t, <2>0, <2>2 DEF ReadNode, Locals, TypeOK
    <3>2. handler[h].row # None => handler[h].row \in rows
      BY <1>i DEF HandlerKnows
    <3>3. UNCHANGED rows /\ UNCHANGED onNode
      BY <2>2 DEF ReadNode
    <3>4. QED
      BY <1>2, <3>1, <3>2, <3>3
  <2>3. CASE ReadModels(h)
    <3>1. /\ handler'[h].pc = "stamp" /\ handler'[h].row = handler[h].row
          /\ \A g \in Handlers : g # h => handler'[g] = handler[g]
      BY <1>t, <2>0, <2>3 DEF ReadModels, Locals, TypeOK
    <3>2. handler[h].row # None => handler[h].row \in rows
      BY <1>i DEF HandlerKnows
    <3>3. UNCHANGED rows /\ UNCHANGED onNode
      BY <2>3 DEF ReadModels
    <3>4. QED
      BY <1>2, <3>1, <3>2, <3>3
  <2>4. CASE Stamp(h)
    <3>1. /\ handler'[h].pc = "compare" /\ handler'[h].row = handler[h].row
          /\ \A g \in Handlers : g # h => handler'[g] = handler[g]
      BY <1>t, <2>0, <2>4 DEF Stamp, Locals, TypeOK
    <3>2. handler[h].row # None => handler[h].row \in rows
      BY <1>i DEF HandlerKnows
    <3>3. UNCHANGED rows /\ UNCHANGED onNode
      BY <2>4 DEF Stamp
    <3>4. QED
      BY <1>2, <3>1, <3>2, <3>3
  <2>5. CASE Compare(h)
    <3>u. UNCHANGED rows /\ UNCHANGED onNode
      BY <2>5 DEF Compare
    <3>1. CASE rows = {}
      <4>1. LatestRow = None
        BY <3>1 DEF LatestRow
      <4>2. handler' = [handler EXCEPT ![h] =
                           [handler[h] EXCEPT !.pc = "insert", !.row = None]]
        BY <2>5, <4>1 DEF Compare
      <4>3. /\ handler'[h].pc = "insert" /\ handler'[h].row = None
            /\ \A g \in Handlers : g # h => handler'[g] = handler[g]
        BY <1>t, <2>0, <4>2 DEF Locals, TypeOK
      <4>4. QED
        BY <1>2, <3>u, <4>3
    <3>2. CASE rows # {}
      <4>1. LatestRow \in rows /\ Version(file) <= Version(LatestRow)
        BY <1>t, <1>i, <2>f, <3>2, LatestKnows
      <4>2. CASE LatestRow.payload = handler[h].payload /\ LatestRow # None
        <5>1. /\ handler'[h].pc = "reply" /\ handler'[h].row = LatestRow
              /\ \A g \in Handlers : g # h => handler'[g] = handler[g]
          BY <1>t, <2>5, <4>2 DEF Compare, Replies, Idle, TypeOK
        <5>2. QED
          BY <1>2, <3>u, <4>1, <5>1
      <4>3. CASE ~ (LatestRow.payload = handler[h].payload /\ LatestRow # None)
        <5>1. handler' = [handler EXCEPT ![h] =
                             [handler[h] EXCEPT !.pc = "insert", !.row = LatestRow]]
          BY <2>5, <4>3 DEF Compare
        <5>2. /\ handler'[h].pc = "insert" /\ handler'[h].row = LatestRow
              /\ handler'[h].payload = handler[h].payload
              /\ \A g \in Handlers : g # h => handler'[g] = handler[g]
          BY <1>t, <2>0, <5>1 DEF Locals, TypeOK
        <5>3. QED
          BY <1>2, <3>u, <4>1, <4>3, <5>2
      <4>4. QED
        BY <4>2, <4>3
    <3>3. QED
      BY <3>1, <3>2
  <2>6. CASE Insert(h)
    <3>1. (VersionHistory /\ Gapless)'
      BY <2>6, InsertKeeps
    <3>2. rows \subseteq rows' /\ rows' # {}
      BY <2>6 DEF Insert
    <3>3. handler'[h] = [Idle EXCEPT !.pc = "reread", !.etag = handler[h].etag]
          /\ \A g \in Handlers : g # h => handler'[g] = handler[g]
      BY <1>t, <2>6 DEF Insert, TypeOK
    <3>4. HandlerKnows'
      BY <1>i, <3>2, <3>3 DEF HandlerKnows, Idle
    <3>5. UNCHANGED onNode
      BY <2>6 DEF Insert
    <3>6. ScriptKnows'
      BY <1>i, <3>2, <3>3, <3>5 DEF ScriptKnows, EtagNamesFile, Version, Idle
    <3>7. QED
      BY <1>t, <3>1, <3>4, <3>6 DEF NodeInv
  <2>7. CASE Conflict(h)
    <3>1. /\ handler'[h].pc = "refused" /\ handler'[h].row = None
          /\ \A g \in Handlers : g # h => handler'[g] = handler[g]
      BY <1>t, <2>7 DEF Conflict, Idle, TypeOK
    <3>2. UNCHANGED rows /\ UNCHANGED onNode
      BY <2>7 DEF Conflict
    <3>3. QED
      BY <1>2, <3>1, <3>2
  <2>8. CASE Reread(h)
    <3>1. rows # {}
      BY <1>i, <2>8 DEF Reread, HandlerKnows
    <3>2. LatestRow \in rows /\ Version(file) <= Version(LatestRow)
      BY <1>t, <1>i, <2>f, <3>1, LatestKnows
    <3>3. QED
      <4>1. /\ handler'[h].pc = "reply" /\ handler'[h].row = LatestRow
            /\ \A g \in Handlers : g # h => handler'[g] = handler[g]
        BY <1>t, <2>8 DEF Reread, Replies, Idle, TypeOK
      <4>2. UNCHANGED rows /\ UNCHANGED onNode
        BY <2>8 DEF Reread
      <4>3. QED
        BY <1>2, <3>2, <4>1, <4>2
  <2>9. CASE Answer(h)
    <3>1. UNCHANGED <<rows, file, running>>
      BY <2>9 DEF Answer
    <3>2. handler'[h] = Idle /\ \A g \in Handlers : g # h => handler'[g] = handler[g]
      BY <1>t, <2>9 DEF Answer, TypeOK
    <3>3. HandlerKnows'
      BY <1>i, <3>1, <3>2 DEF HandlerKnows, Idle
    <3>4. CASE script.req = h
      <4>1. At(h, "reply") => handler[h].row \in rows
        <5>1. At(h, "reply") => handler[h].row \in Row
          BY <1>t DEF TypeOK, Threads
        <5>2. QED
          BY <1>i, <5>1, NoneAssumption DEF HandlerKnows
      <4>2. /\ script'.req = None /\ script'.etag = script.etag
            /\ script'.pc \in {"idle", "write"}
            /\ script'.pc = "write" => At(h, "reply") /\ script'.got = handler[h].row
        <5>1. script \in [pc : {"idle", "wait", "write", "reload"}, token : Nat,
                          req : Handlers \cup {None}, etag : Row \cup {None},
                          got : Row \cup {None}]
          BY <1>t DEF TypeOK
        <5>2. (At(h, "reply") \/ At(h, "refused")) /\ Receive(h)
          BY <2>9, <3>4 DEF Answer, Answers
        <5>3. CASE At(h, "refused") \/ NotModified(h)
          BY <5>1, <5>2, <5>3 DEF Receive
        <5>4. CASE ~ (At(h, "refused") \/ NotModified(h))
          BY <5>1, <5>2, <5>4 DEF Receive
        <5>5. QED
          BY <5>3, <5>4
      <4>3. script'.pc = "write" =>
               script'.got \in rows /\ Version(file) <= Version(script'.got)
        BY <1>i, <3>4, <4>1, <4>2 DEF ScriptKnows
      <4>4. ScriptKnows'
        BY <1>i, <3>1, <4>2, <4>3, NoneAssumption DEF ScriptKnows, EtagNamesFile, Version
      <4>5. QED
        BY <1>t, <1>r, <3>1, <3>3, <4>4 DEF NodeInv
    <3>5. CASE script.req # h
      <4>1. script' = script
        BY <2>9, <3>5 DEF Answer, Answers
      <4>2. ScriptKnows'
        BY <1>i, <3>1, <3>2, <3>5, <4>1 DEF ScriptKnows, EtagNamesFile, Version
      <4>3. QED
        BY <1>t, <1>r, <3>1, <3>3, <4>2 DEF NodeInv
    <3>6. QED
      BY <3>4, <3>5
  <2>10. QED
    BY <1>3, <2>1, <2>2, <2>3, <2>4, <2>5, <2>6, <2>7, <2>8, <2>9 DEF Request
<1>4. ASSUME NEW h \in Handlers, AdminGet(h) PROVE NodeInv'
  <2>1. /\ handler'[h].pc = "node" /\ handler'[h].row = None
        /\ \A g \in Handlers : g # h => handler'[g] = handler[g]
    BY <1>t, <1>4 DEF AdminGet, Idle, TypeOK
  <2>2. UNCHANGED rows /\ UNCHANGED onNode
    BY <1>4 DEF AdminGet
  <2>3. QED
    BY <1>2, <2>1, <2>2
<1>5. ASSUME NEW h \in Handlers, Poll(h) PROVE NodeInv'
  <2>1. UNCHANGED <<rows, file, running>>
    BY <1>5 DEF Poll
  <2>2. handler'[h].pc = "verify" /\ handler'[h].row = None
        /\ \A g \in Handlers : g # h => handler'[g] = handler[g]
    BY <1>t, <1>5 DEF Poll, TypeOK, Idle
  <2>3. script'.pc = "wait" /\ script'.req = h /\ script'.etag = script.etag
    BY <1>t, <1>5 DEF Poll, TypeOK
  <2>4. HandlerKnows'
    BY <1>i, <2>1, <2>2 DEF HandlerKnows
  <2>5. ScriptKnows'
    BY <1>i, <2>1, <2>2, <2>3 DEF ScriptKnows, EtagNamesFile, Version
  <2>6. QED
    BY <1>t, <1>r, <2>1, <2>4, <2>5 DEF NodeInv
<1>6. ASSUME UNCHANGED <<rows, handler, file, running>>,
             script'.req = None, script'.pc # "write",
             script'.etag \in {None, script.etag}
      PROVE  NodeInv'
  <2>1. HandlerKnows'
    BY <1>6, <1>i DEF HandlerKnows
  <2>2. ScriptKnows'
    BY <1>6, <1>i, NoneAssumption DEF ScriptKnows, EtagNamesFile, Version
  <2>3. QED
    BY <1>6, <1>t, <1>r, <2>1, <2>2 DEF NodeInv
<1>n. AtPc("write") \/ AtPc("reload") => script.req = None
  BY <1>i DEF ScriptKnows
<1>7. CASE TimeOut
  BY <1>6, <1>7, <1>t DEF TimeOut, TypeOK
<1>8. CASE Write
  <2>1. /\ UNCHANGED <<rows, handler, running>>
        /\ file' = script.got /\ script'.etag = script.got
        /\ script'.pc = "reload" /\ script'.req = None
    BY <1>8, <1>n, <1>t DEF Write, TypeOK
  <2>2. script.got \in rows /\ Version(file) <= Version(script.got)
    BY <1>8, <1>i DEF Write, ScriptKnows
  <2>3. \A x \in {running, file, script.got} : Version(x) \in Nat
    BY <1>t DEF Version, TypeOK, Row
  <2>4. Version(running) <= Version(script.got)
    BY <1>i, <2>2, <2>3 DEF ScriptKnows
  <2>5. HandlerKnows'
    BY <1>i, <2>1 DEF HandlerKnows
  <2>6. ScriptKnows'
    BY <1>i, <2>1, <2>2, <2>4, NoneAssumption DEF ScriptKnows, EtagNamesFile, Version
  <2>7. QED
    BY <1>t, <1>r, <2>1, <2>5, <2>6 DEF NodeInv
<1>9. CASE WriteFails
  BY <1>6, <1>9, <1>n, <1>t DEF WriteFails, TypeOK
<1>10. CASE Reload
  <2>1. /\ UNCHANGED <<rows, handler, file>>
        /\ running' = file /\ script'.etag = script.etag
        /\ script'.pc = "idle" /\ script'.req = None
    BY <1>10, <1>n, <1>t DEF Reload, TypeOK
  <2>2. Version(file) \in Nat
    BY <1>t DEF Version, TypeOK, Row
  <2>3. HandlerKnows'
    BY <1>i, <2>1 DEF HandlerKnows
  <2>4. ScriptKnows'
    BY <1>i, <2>1, <2>2, NoneAssumption DEF ScriptKnows, EtagNamesFile, Version
  <2>5. QED
    BY <1>t, <1>r, <2>1, <2>3, <2>4 DEF NodeInv
<1>11. CASE ReloadFails
  BY <1>6, <1>11, <1>n, <1>t DEF ReloadFails, TypeOK
<1>12. CASE Restart
  BY <1>6, <1>12 DEF Restart, Boot
<1>13. CASE UNCHANGED vars
  BY <1>1, <1>13 DEF vars
<1>14. CASE Tick \/ GoOn
  BY <1>1, <1>14 DEF Tick, GoOn, InsertBinding, EndBindings
<1>15. CASE Admin
  BY <1>1, <1>4, <1>15 DEF Admin, DeleteBindings, SwitchModel, UpdateNode, RotateToken
<1>16. QED
  BY <1>3, <1>5, <1>7, <1>8, <1>9, <1>10, <1>11, <1>12, <1>13, <1>14, <1>15
     DEF Next, Script, Fault

(***************************************************************************)
(* Node sync: theorems                                                     *)
(***************************************************************************)
\* The invariant holds in every reachable state.
THEOREM NodeInvariance == Spec => []NodeInv
BY NodeInitInv, NodeNextInv, PTL DEF Spec

\* Every variable has its type in every reachable state.
THEOREM NodeTypes == Spec => []TypeOK
<1>1. NodeInv => TypeOK
  BY DEF NodeInv
<1>2. QED
  BY NodeInvariance, <1>1, PTL

\* The stored versions are unique, and neighbours differ.
THEOREM HistoryCorrect == Spec => []VersionHistory
<1>1. NodeInv => VersionHistory
  BY DEF NodeInv
<1>2. QED
  BY NodeInvariance, <1>1, PTL

\* The ETag that the script sends is that of the file it has.
THEOREM EtagCorrect == Spec => []EtagNamesFile
<1>1. NodeInv => EtagNamesFile
  BY DEF NodeInv, ScriptKnows
<1>2. QED
  BY NodeInvariance, <1>1, PTL

\* The node never goes back to an older version.
THEOREM NodeForward == Spec => FileForward
<1>1. NodeInv /\ [Next]_vars =>
         (Version(file) <= Version(file') /\ Version(running) <= Version(running'))
  <2> SUFFICES ASSUME NodeInv, [Next]_vars
               PROVE  Version(file) <= Version(file') /\ Version(running) <= Version(running')
    OBVIOUS
  <2>1. \A x \in {running, file} : Version(x) \in Nat
    BY DEF NodeInv, Version, TypeOK, Row
  <2>2. CASE Write
    BY <2>1, <2>2 DEF Write, NodeInv, ScriptKnows, AtPc
  <2>3. CASE Reload
    BY <2>1, <2>3 DEF Reload, NodeInv, ScriptKnows
  <2>4. CASE UNCHANGED <<file, running>>
    BY <2>1, <2>4
  <2>5. QED
    BY <2>2, <2>3, <2>4 DEF Next, vars, onNode, Server, Admin, GoOn, Tick, Request, Script,
       Fault, DeleteBindings, InsertBinding, EndBindings, SwitchModel, UpdateNode,
       RotateToken, AdminGet, Verify, ReadNode, ReadModels, Stamp, Compare, Insert,
       Conflict, Reread, Answer, Poll, TimeOut, WriteFails, ReloadFails, Restart
<1>2. QED
  BY NodeInvariance, <1>1, PTL DEF Spec, FileForward

(***************************************************************************)
(* The gateway: the inductive invariant                                    *)
(***************************************************************************)
\* How many providers a request may try of n, with fallback.
Within(n) == IF n < MaxRetries + 1 THEN n ELSE MaxRetries + 1

\* What is left of a request's plan, and what has failed of it.
Planned(q, fallback) ==
    q # NoRequest =>
        /\ q.plan # <<>> /\ IsInjective(q.plan)
        /\ q.failed \cap Range(q.plan) = {}
        /\ q.failed \cup Range(q.plan) \subseteq q.offered
        /\ Cardinality(q.failed) + Len(q.plan) =
              IF fallback THEN Within(Cardinality(q.offered)) ELSE 1

Plans == \A r \in Chats : Planned(chat[r], routing.fallback)

Probes == \A c \in Checks : check[c] # NoCheck => check[c].todo # <<>>

\* The place that had its turn d turns ago, among n, when the cursor is at.
Back(d, at, n) == IF d <= at THEN at - d + 1 ELSE at - d + n + 1

InTurn(T, at) ==
    /\ IsInjective(T.candidates)
    /\ Len(T.starts) <= Len(T.candidates)
    /\ T.starts # <<>> => at < Len(T.candidates)
    /\ \A i \in 1..Len(T.starts) :
          T.starts[i] = T.candidates[Back(Len(T.starts) - i + 1, at, Len(T.candidates))]

Rounds == routing.strategy = "round_robin" => InTurn(turns, cursor)

GatewayInv == GatewayTypeOK /\ Plans /\ Probes /\ Rounds

(***************************************************************************)
(* The gateway: sequences of providers                                     *)
(***************************************************************************)
LEMMA TablesAre ==
    /\ IsFiniteSet(Providers) /\ Cardinality(Providers) \in Nat
    /\ MaxRetries \in Nat /\ MaxChanges \in Nat
    /\ \A t \in Tables : t \in Seq(Providers) /\ IsInjective(t)
  BY LegacyGatewayAssumption, FS_CardinalityType

\* A sequence without repetitions is as long as its range is large.
LEMMA AsManyAs ==
    ASSUME NEW S, NEW s \in Seq(S), IsInjective(s)
    PROVE  IsFiniteSet(Range(s)) /\ Cardinality(Range(s)) = Len(s)
<1> DEFINE P == 1..Len(s)
<1>1. Len(s) \in Nat /\ DOMAIN s = P
  OBVIOUS
<1>2. IsFiniteSet(P) /\ Cardinality(P) = Len(s)
  BY <1>1, FirstNumbers
<1>3. \A p, q \in P : s[p] = s[q] => p = q
  BY <1>1 DEF IsInjective
<1>4. Range(s) = {s[p] : p \in P}
  BY <1>1, Zenon DEF Range
<1> HIDE DEF P
<1>5. IsFiniteSet({s[p] : p \in P}) /\ Cardinality({s[p] : p \in P}) = Cardinality(P)
  BY <1>2, <1>3, SameSize, Zenon
<1> QED
  BY <1>2, <1>4, <1>5, Zenon

LEMMA RangeWithin ==
    ASSUME NEW S, NEW s \in Seq(S)
    PROVE  /\ Range(s) \subseteq S
           /\ \A x : x \in Range(s) <=> \E i \in 1..Len(s) : s[i] = x
<1>1. DOMAIN s = 1..Len(s) /\ \A i \in 1..Len(s) : s[i] \in S
  OBVIOUS
<1>2. Range(s) = {s[i] : i \in 1..Len(s)}
  BY <1>1, Zenon DEF Range
<1> QED
  BY <1>1, <1>2

\* The tail of a sequence without repetitions has all but its head.
LEMMA TailIs ==
    ASSUME NEW S, NEW s \in Seq(S), s # <<>>, IsInjective(s)
    PROVE  /\ Tail(s) \in Seq(S) /\ IsInjective(Tail(s)) /\ Len(Tail(s)) = Len(s) - 1
           /\ Len(s) \in Nat \ {0} /\ Head(s) = s[1] /\ Head(s) \in S
           /\ Head(s) \in Range(s) /\ Range(Tail(s)) = Range(s) \ {Head(s)}
<1> DEFINE t == Tail(s)
           h == Head(s)
           n == Len(s)
<1>1. n \in Nat \ {0} /\ h = s[1] /\ DOMAIN s = 1..n /\ \A i \in 1..n : s[i] \in S
  OBVIOUS
<1>2. t \in Seq(S) /\ Len(t) = n - 1 /\ DOMAIN t = 1..(n - 1)
      /\ \A i \in 1..(n - 1) : t[i] = s[i + 1]
  OBVIOUS
<1> HIDE DEF n, t, h
<1>3. \A x : x \in Range(s) <=> \E i \in 1..n : s[i] = x
  BY RangeWithin DEF n
<1>4. \A x : x \in Range(t) <=> \E i \in 1..(n - 1) : t[i] = x
  BY <1>2, RangeWithin
<1>5. \A i, j \in 1..n : s[i] = s[j] => i = j
  BY <1>1 DEF IsInjective
<1>6. /\ 1 \in 1..n /\ \A i \in 1..(n - 1) : i + 1 \in 1..n /\ i + 1 # 1
      /\ \A i, j \in 1..(n - 1) : i + 1 = j + 1 => i = j
      /\ \A i \in 1..n : i # 1 => i - 1 \in 1..(n - 1) /\ (i - 1) + 1 = i
  BY <1>1
<1>7. h \in Range(s) /\ h \in S
  BY <1>1, <1>3, <1>6
<1>8. Range(t) = Range(s) \ {h}
  <2>1. ASSUME NEW x \in Range(t) PROVE x \in Range(s) /\ x # h
    <3>1. PICK i \in 1..(n - 1) : t[i] = x
      BY <1>4, <2>1
    <3> QED
      BY <1>1, <1>2, <1>3, <1>5, <1>6, <3>1
  <2>2. ASSUME NEW x \in Range(s), x # h PROVE x \in Range(t)
    <3>1. PICK i \in 1..n : s[i] = x
      BY <1>3, <2>2
    <3>2. i # 1
      BY <1>1, <2>2, <3>1
    <3>3. t[i - 1] = x
      BY <1>2, <1>6, <3>1, <3>2
    <3> QED
      BY <1>4, <1>6, <3>2, <3>3
  <2> QED
    BY <2>1, <2>2
<1>9. IsInjective(t)
  <2>1. \A i, j \in 1..(n - 1) : t[i] = t[j] => i = j
    BY <1>2, <1>5, <1>6
  <2> QED
    BY <1>2, <2>1 DEF IsInjective
<1> QED
  BY <1>1, <1>2, <1>7, <1>8, <1>9 DEF n, t, h

LEMMA HealthyWithin ==
    ASSUME NEW t \in Seq(Providers)
    PROVE  HealthyIn(t) \subseteq Range(t) /\ Range(t) \subseteq Providers
  BY RangeWithin DEF HealthyIn

LEMMA CandidatesAre ==
    ASSUME NEW t \in Seq(Providers), IsInjective(t), NEW asked \in SUBSET Providers
    PROVE  /\ Candidates(t, asked) \in Seq(Providers)
           /\ IsInjective(Candidates(t, asked))
           /\ Len(Candidates(t, asked)) <= Cardinality(Providers)
           /\ t = <<>> => Candidates(t, asked) = <<>>
<1> DEFINE S == {k \in DOMAIN t : t[k] \in asked \cap HealthyIn(t)}
           places == Ascending(S)
           N == Cardinality(S)
           c == Candidates(t, asked)
           all == 1..Len(t)
<1>1. DOMAIN t = all /\ Len(t) \in Nat /\ \A k \in all : t[k] \in Providers
  OBVIOUS
<1>2. S \in SUBSET Nat /\ IsFiniteSet(S) /\ S \subseteq all
  <2>1. S \in SUBSET all /\ all \in SUBSET Nat
    BY <1>1
  <2>2. IsFiniteSet(all)
    BY <1>1, FirstNumbers
  <2> HIDE DEF S, all
  <2> QED
    BY <2>1, <2>2, FS_Subset
<1>3. c = [n \in DOMAIN places |-> t[places[n]]]
  BY DEF Candidates
<1> HIDE DEF S, c, all
<1>4. /\ N \in Nat /\ DOMAIN places = 1..N
      /\ \A p \in 1..N : places[p] \in S
      /\ \A p, q \in 1..N : places[p] = places[q] => p = q
  BY <1>2, AscendingLists DEF Enumerates
<1> HIDE DEF places, N
<1>5. \A p \in 1..N : t[places[p]] \in Providers
  BY <1>1, <1>2, <1>4
<1>6. c \in Seq(Providers) /\ Len(c) = N
  BY <1>3, <1>4, <1>5
<1>7. IsInjective(c)
  <2>1. \A p, q \in 1..N : c[p] = c[q] => p = q
    <3>1. \A k, l \in all : t[k] = t[l] => k = l
      BY <1>1 DEF IsInjective
    <3> QED
      BY <1>2, <1>3, <1>4, <3>1
  <2> QED
    BY <1>3, <1>4, <2>1 DEF IsInjective
<1>8. Len(c) <= Cardinality(Providers)
  <2>1. Cardinality(Range(c)) = Len(c) /\ Range(c) \in SUBSET Providers
    BY <1>6, <1>7, AsManyAs, RangeWithin
  <2>2. Cardinality(Range(c)) <= Cardinality(Providers)
    BY <2>1, TablesAre, FS_Subset
  <2> QED
    BY <2>1, <2>2
<1>9. t = <<>> => c = <<>>
  <2> HAVE t = <<>>
  <2>1. S = {}
    BY <1>2 DEF all
  <2>2. N = 0
    BY <2>1, FS_EmptySet DEF N
  <2> QED
    BY <1>6, <2>2
<1> QED
  BY <1>6, <1>7, <1>8, <1>9 DEF c

LEMMA Modulo ==
    ASSUME NEW x \in Nat, NEW n \in Nat \ {0}
    PROVE  x % n \in 0..(n - 1) /\ (x < n => x % n = x) /\ n % n = 0
  OBVIOUS

LEMMA Joined ==
    ASSUME NEW S, NEW a \in Seq(S), NEW b \in Seq(S)
    PROVE  /\ a \o b \in Seq(S) /\ Len(a \o b) = Len(a) + Len(b)
           /\ \A i \in 1..(Len(a) + Len(b)) :
                 (a \o b)[i] = IF i <= Len(a) THEN a[i] ELSE b[i - Len(a)]
  OBVIOUS

LEMMA RotatedIs ==
    ASSUME NEW S, NEW s \in Seq(S), NEW n \in 0..(Len(s) - 1)
    PROVE  /\ Rotated(s, n) \in Seq(S) /\ Len(Rotated(s, n)) = Len(s)
           /\ \A i \in 1..Len(s) : Rotated(s, n)[i] =
                 IF i <= Len(s) - n THEN s[i + n] ELSE s[i - (Len(s) - n)]
<1> DEFINE L == Len(s)
           a == SubSeq(s, n + 1, L)
           b == SubSeq(s, 1, n)
<1>1. L \in Nat /\ \A i \in 1..L : s[i] \in S
  OBVIOUS
<1>2. a \in Seq(S) /\ Len(a) = L - n /\ \A i \in 1..(L - n) : a[i] = s[i + n]
  BY <1>1
<1>3. b \in Seq(S) /\ Len(b) = n /\ \A i \in 1..n : b[i] = s[i]
  BY <1>1
<1>4. Rotated(s, n) = a \o b
  BY DEF Rotated
<1> HIDE DEF a, b
<1>5. /\ a \o b \in Seq(S) /\ Len(a \o b) = Len(a) + Len(b)
      /\ \A i \in 1..(Len(a) + Len(b)) :
            (a \o b)[i] = IF i <= Len(a) THEN a[i] ELSE b[i - Len(a)]
  BY <1>2, <1>3, Joined
<1> HIDE DEF L
<1>6. Len(a) + Len(b) = L /\ Len(a) = L - n /\ n \in Nat /\ n < L
  BY <1>1, <1>2, <1>3 DEF L
<1>7. \A i \in 1..L : (a \o b)[i] = IF i <= L - n THEN s[i + n] ELSE s[i - (L - n)]
  <2> TAKE i \in 1..L
  <2>1. CASE i <= L - n
    BY <1>1, <1>2, <1>5, <1>6, <2>1
  <2>2. CASE ~(i <= L - n)
    <3>1. i - (L - n) \in 1..n
      BY <1>1, <1>6, <2>2
    <3> QED
      BY <1>1, <1>3, <1>5, <1>6, <2>2, <3>1
  <2> QED
    BY <2>1, <2>2
<1> QED
  BY <1>4, <1>5, <1>6, <1>7 DEF L

\* Whatever the strategy, the order is one of all candidates.
LEMMA OrdersAre ==
    ASSUME routing.strategy \in Strategies,
           NEW candidates \in Seq(Providers), IsInjective(candidates), candidates # <<>>,
           NEW at \in Nat, NEW order \in Orders(candidates, at)
    PROVE  /\ order \in Seq(Providers) /\ IsInjective(order)
           /\ Len(order) = Len(candidates)
           /\ \A i \in 1..Len(order) : order[i] \in Range(candidates)
           /\ routing.strategy = "round_robin" =>
                 order[1] = candidates[(at % Len(candidates)) + 1]
<1> DEFINE n == Len(candidates)
           S == Range(candidates)
<1>1. n \in Nat \ {0} /\ DOMAIN candidates = 1..n /\ S \subseteq Providers
      /\ \A i \in 1..n : candidates[i] \in S
  BY RangeWithin
<1>2. IsFiniteSet(S) /\ Cardinality(S) = n
  BY AsManyAs
<1>3. CASE routing.strategy = "round_robin"
  <2> DEFINE k == at % n
  <2>1. order = Rotated(candidates, k)
    BY <1>3 DEF Orders
  <2>2. k \in 0..(n - 1)
    BY <1>1, Modulo
  <2> HIDE DEF k
  <2>3. /\ order \in Seq(Providers) /\ Len(order) = n
        /\ \A i \in 1..n : order[i] =
              IF i <= n - k THEN candidates[i + k] ELSE candidates[i - (n - k)]
    BY <2>1, <2>2, RotatedIs
  <2> HIDE DEF n
  <2>4. \A i \in 1..n : order[i] \in S
    BY <1>1, <2>2, <2>3
  <2>5. \A i, j \in 1..n : order[i] = order[j] => i = j
    <3> DEFINE From(i) == IF i <= n - k THEN i + k ELSE i - (n - k)
    <3>1. \A i \in 1..n : From(i) \in 1..n /\ order[i] = candidates[From(i)]
      BY <1>1, <2>2, <2>3
    <3>2. \A i, j \in 1..n : From(i) = From(j) => i = j
      BY <1>1, <2>2
    <3> HIDE DEF From
    <3> QED
      BY <1>1, <3>1, <3>2 DEF IsInjective
  <2>6. DOMAIN order = 1..n
    BY <2>3
  <2>7. order[1] = candidates[k + 1]
    BY <1>1, <2>2, <2>3
  <2> QED
    BY <1>3, <2>3, <2>4, <2>5, <2>6, <2>7 DEF IsInjective, n, k
<1>4. CASE routing.strategy = "priority"
  <2> DEFINE before == {e \in Providers \X Providers : Rank[e[1]] < Rank[e[2]]}
  <2>1. order = InOrder(S, before)
    BY <1>4 DEF Orders
  <2>2. \A x, y \in S : <<x, y>> \in before <=> Rank[x] < Rank[y]
    BY <1>1
  <2>3. \A x \in S : Rank[x] \in Nat
    BY <1>1, LegacyGatewayAssumption
  <2>4. \A x, y \in S : Rank[x] = Rank[y] => x = y
    BY <1>1, LegacyGatewayAssumption DEF IsInjective
  <2> HIDE DEF before, S
  <2>5. IsOrder(before, S)
    <3>1. \A x, y \in S : x = y \/ <<x, y>> \in before \/ <<y, x>> \in before
      <4> TAKE x, y \in S
      <4>1. Rank[x] \in Nat /\ Rank[y] \in Nat /\ (Rank[x] = Rank[y] => x = y)
        BY <2>3, <2>4
      <4> QED
        BY <2>2, <4>1
    <3>2. \A x, y, z \in S : <<x, y>> \in before /\ <<y, z>> \in before => <<x, z>> \in before
      BY <2>2, <2>3
    <3>3. \A x \in S : <<x, x>> \notin before
      BY <2>2, <2>3
    <3> QED
      BY <3>1, <3>2, <3>3 DEF IsOrder
  <2>6. Enumerates(order, S)
    BY <1>2, <2>1, <2>5, InOrderLists
  <2>7. order \in Seq(S) /\ S \subseteq Providers
    BY <1>1, <2>6 DEF Enumerates, S
  <2>8. order \in Seq(Providers)
    BY <2>7
  <2> QED
    BY <1>2, <1>4, <2>6, <2>8 DEF Enumerates, IsInjective, S
<1>5. CASE routing.strategy = "weighted"
  <2>1. order \in SetToSeqs(S)
    BY <1>5 DEF Orders
  <2>2. order \in [1..n -> S] /\ \A i, j \in 1..n : i # j => order[i] # order[j]
    BY <1>2, <2>1, Zenon DEF SetToSeqs
  <2> HIDE DEF n, S
  <2>3. order \in Seq(Providers) /\ Len(order) = n /\ DOMAIN order = 1..n
    BY <1>1, <2>2
  <2> QED
    BY <1>5, <2>2, <2>3 DEF IsInjective, n, S
<1> QED
  BY <1>3, <1>4, <1>5 DEF Strategies

\* The attempts are the first of the order, as many as are allowed.
LEMMA AttemptsAre ==
    ASSUME routing.fallback \in BOOLEAN,
           NEW order \in Seq(Providers), order # <<>>, IsInjective(order)
    PROVE  /\ Attempts(order) \in Seq(Providers) /\ IsInjective(Attempts(order))
           /\ Attempts(order) # <<>> /\ Attempts(order)[1] = order[1]
           /\ Len(Attempts(order)) =
                 IF routing.fallback THEN Within(Len(order)) ELSE 1
           /\ \A i \in 1..Len(Attempts(order)) : Attempts(order)[i] \in Range(order)
<1> DEFINE n == Len(order)
           m == IF routing.fallback THEN Within(n) ELSE 1
           a == Attempts(order)
<1>1. n \in Nat \ {0} /\ DOMAIN order = 1..n /\ \A i \in 1..n : order[i] \in Providers
  OBVIOUS
<1>2. m \in 1..n
  BY <1>1, TablesAre DEF Within
<1>3. a = SubSeq(order, 1, m)
  BY DEF Attempts, Within
<1> HIDE DEF n, m, a
<1>4. a \in Seq(Providers) /\ Len(a) = m /\ \A i \in 1..m : a[i] = order[i]
  BY <1>1, <1>2, <1>3 DEF n
<1>5. DOMAIN a = 1..m /\ 1..m \subseteq 1..n
  BY <1>1, <1>2, <1>4
<1>6. IsInjective(a)
  BY <1>1, <1>4, <1>5 DEF IsInjective
<1>7. \A i \in 1..n : order[i] \in Range(order)
  BY RangeWithin DEF n
<1> QED
  BY <1>2, <1>4, <1>5, <1>6, <1>7 DEF n, m, a

\* After a plan the newest turn is the first place behind the cursor, and each
\* older one is a place further back.
LEMMA NextPlace ==
    ASSUME NEW n \in Nat \ {0}, NEW k \in 0..(n - 1)
    PROVE  (k + 1) % n = IF k + 1 = n THEN 0 ELSE k + 1
<1>1. k + 1 \in Nat /\ n % n = 0
  BY Modulo
<1>2. k + 1 < n => (k + 1) % n = k + 1
  BY <1>1, Modulo
<1> QED
  BY <1>1, <1>2

LEMMA BackShifts ==
    ASSUME NEW n \in Nat \ {0}, NEW k \in 0..(n - 1), NEW next,
           next = IF k + 1 = n THEN 0 ELSE k + 1
    PROVE  /\ Back(1, next, n) = k + 1
           /\ \A d \in 1..(n - 1) : Back(d + 1, next, n) = Back(d, k, n)
<1>1. Back(1, next, n) = k + 1
  BY DEF Back
<1>2. ASSUME NEW d \in 1..(n - 1) PROVE Back(d + 1, next, n) = Back(d, k, n)
  <2>1. CASE k + 1 = n
    BY <2>1 DEF Back
  <2>2. CASE k + 1 # n
    BY <2>2 DEF Back
  <2> QED
    BY <2>1, <2>2
<1> QED
  BY <1>1, <1>2

LEMMA AdvancedIs ==
    ASSUME routing.strategy = "round_robin",
           NEW candidates \in Seq(Providers), candidates # <<>>, NEW at \in Nat
    PROVE  LET n == Len(candidates)
               k == at % n
           IN  /\ k \in 0..(n - 1)
               /\ Advanced(candidates, at) = IF k + 1 = n THEN 0 ELSE k + 1
<1> DEFINE n == Len(candidates)
           k == at % n
<1>1. n \in Nat \ {0}
  OBVIOUS
<1>2. k \in 0..(n - 1)
  BY <1>1, Modulo
<1>3. Advanced(candidates, at) = (k + 1) % n
  BY DEF Advanced
<1> HIDE DEF n, k
<1>4. Advanced(candidates, at) = IF k + 1 = n THEN 0 ELSE k + 1
  BY <1>1, <1>2, <1>3, NextPlace
<1> QED
  BY <1>2, <1>4 DEF n, k

LEMMA AdvancedWithin ==
    ASSUME NEW candidates \in Seq(Providers), Len(candidates) <= Cardinality(Providers),
           NEW at \in 0..Cardinality(Providers)
    PROVE  Advanced(candidates, at) \in 0..Cardinality(Providers)
<1>1. CASE routing.strategy = "round_robin" /\ candidates # <<>>
  <2> DEFINE n == Len(candidates)
             k == at % n
  <2>1. Cardinality(Providers) \in Nat /\ at \in Nat /\ n \in Nat
    BY TablesAre
  <2>2. k \in 0..(n - 1) /\ Advanced(candidates, at) = IF k + 1 = n THEN 0 ELSE k + 1
    BY <1>1, <2>1, AdvancedIs
  <2> HIDE DEF n, k
  <2>3. n <= Cardinality(Providers)
    BY DEF n
  <2> QED
    BY <2>1, <2>2, <2>3
<1>2. CASE ~(routing.strategy = "round_robin" /\ candidates # <<>>)
  BY <1>2 DEF Advanced
<1> QED
  BY <1>1, <1>2

LEMMA Younger ==
    ASSUME NEW old \in Seq(Providers), NEW first \in Providers
    PROVE  /\ Append(old, first) \in Seq(Providers) /\ Len(Append(old, first)) = Len(old) + 1
           /\ Append(old, first)[Len(old) + 1] = first
           /\ \A i \in 1..Len(old) : Append(old, first)[i] = old[i]
           /\ Tail(Append(old, first)) \in Seq(Providers)
           /\ Len(Tail(Append(old, first))) = Len(old)
           /\ \A i \in 1..Len(old) : Tail(Append(old, first))[i] = Append(old, first)[i + 1]
  OBVIOUS

LEMMA TurnsGo ==
    ASSUME routing.strategy = "round_robin",
           turns \in [candidates : Seq(Providers), starts : Seq(Providers)],
           NEW candidates \in Seq(Providers), IsInjective(candidates), candidates # <<>>,
           NEW at \in Nat, InTurn(turns, at),
           NEW first, first = candidates[(at % Len(candidates)) + 1]
    PROVE  InTurn(Turned(candidates, first), Advanced(candidates, at))
<1> DEFINE n == Len(candidates)
           k == at % n
           next == Advanced(candidates, at)
           old == IF turns.candidates = candidates THEN turns.starts ELSE <<>>
           new == Append(old, first)
           l == Len(old)
           T == Turned(candidates, first)
<1>1. n \in Nat \ {0} /\ \A i \in 1..n : candidates[i] \in Providers
  OBVIOUS
<1>2. k \in 0..(n - 1) /\ next = IF k + 1 = n THEN 0 ELSE k + 1
  BY AdvancedIs
<1>3. first \in Providers
  <2> HIDE DEF n
  <2>1. k + 1 \in 1..n
    BY <1>1, <1>2
  <2> QED
    BY <1>1, <2>1 DEF n
<1>4. old \in Seq(Providers) /\ l \in Nat
  OBVIOUS
<1>5. T.candidates = candidates /\ T.starts = IF Len(new) <= n THEN new ELSE Tail(new)
  BY DEF Turned
<1>6. /\ l <= n
      /\ \A i \in 1..l : old[i] = candidates[Back(l - i + 1, k, n)]
  <2>1. CASE turns.candidates = candidates /\ turns.starts # <<>>
    <3>1. at < n /\ l <= n
          /\ \A i \in 1..l : old[i] = candidates[Back(l - i + 1, at, n)]
      BY <2>1 DEF InTurn
    <3>2. k = at
      BY <1>1, <3>1, Modulo
    <3> QED
      BY <3>1, <3>2
  <2>2. CASE ~(turns.candidates = candidates /\ turns.starts # <<>>)
    <3>1. old = <<>> /\ l = 0
      BY <2>2
    <3> QED
      BY <1>1, <3>1
  <2> QED
    BY <2>1, <2>2
<1> HIDE DEF n, k, old, next, T
<1>7. /\ Len(new) = l + 1 /\ new[l + 1] = first /\ \A i \in 1..l : new[i] = old[i]
      /\ new \in Seq(Providers) /\ Len(Tail(new)) = l
      /\ \A i \in 1..l : Tail(new)[i] = new[i + 1]
  <2>1. old \in Seq(Providers) /\ first \in Providers
    BY <1>3, <1>4
  <2>2. /\ new \in Seq(Providers) /\ Len(new) = Len(old) + 1
        /\ new[Len(old) + 1] = first
        /\ \A i \in 1..Len(old) : new[i] = old[i]
        /\ Tail(new) \in Seq(Providers) /\ Len(Tail(new)) = Len(old)
        /\ \A i \in 1..Len(old) : Tail(new)[i] = new[i + 1]
    BY <2>1, Younger, Zenon
  <2> QED
    BY <2>2, Zenon
<1> HIDE DEF l
<1>8. /\ Back(1, next, n) = k + 1
      /\ \A d \in 1..(n - 1) : Back(d + 1, next, n) = Back(d, k, n)
  BY <1>1, <1>2, BackShifts
<1> HIDE DEF new
<1>9. \A i \in 1..(l + 1) : i > l + 1 - n =>
          new[i] = candidates[Back(l + 1 - i + 1, next, n)]
  <2> SUFFICES ASSUME NEW i \in 1..(l + 1), i > l + 1 - n
               PROVE  new[i] = candidates[Back(l + 1 - i + 1, next, n)]
    OBVIOUS
  <2>1. CASE i = l + 1
    <3>1. l + 1 - i + 1 = 1
      BY <1>4, <2>1
    <3> QED
      BY <1>7, <1>8, <2>1, <3>1 DEF k, n
  <2>2. CASE i # l + 1
    <3> DEFINE d == l - i + 1
    <3>1. i \in 1..l /\ d \in 1..(n - 1) /\ l + 1 - i + 1 = d + 1
      BY <1>1, <1>4, <2>2
    <3>2. new[i] = candidates[Back(d, k, n)]
      BY <1>6, <1>7, <3>1
    <3> HIDE DEF d
    <3> QED
      BY <1>8, <3>1, <3>2
  <2> QED
    BY <2>1, <2>2
<1>10. next < n
  BY <1>1, <1>2
<1>11. Len(T.starts) <= n
       /\ \A i \in 1..Len(T.starts) :
             T.starts[i] = candidates[Back(Len(T.starts) - i + 1, next, n)]
  <2>1. CASE l + 1 <= n
    <3>1. T.starts = new /\ Len(T.starts) = l + 1
      BY <1>5, <1>7, <2>1
    <3>2. \A i \in 1..(l + 1) : i > l + 1 - n
      BY <1>1, <1>4, <2>1
    <3>3. \A i \in 1..(l + 1) : new[i] = candidates[Back(l + 1 - i + 1, next, n)]
      BY <1>9, <3>2
    <3> QED
      BY <1>1, <1>4, <2>1, <3>1, <3>3
  <2>2. CASE l + 1 > n
    <3>1. l = n /\ T.starts = Tail(new) /\ Len(T.starts) = l
      BY <1>1, <1>4, <1>5, <1>6, <1>7, <2>2
    <3>2. ASSUME NEW i \in 1..l
          PROVE  Tail(new)[i] = candidates[Back(l - i + 1, next, n)]
      <4>1. i + 1 \in 1..(l + 1) /\ i + 1 > l + 1 - n
        BY <1>1, <1>4, <3>1
      <4>2. l + 1 - (i + 1) + 1 = l - i + 1
        BY <1>4
      <4> QED
        BY <1>7, <1>9, <4>1, <4>2
    <3>3. \A i \in 1..Len(T.starts) :
            T.starts[i] = candidates[Back(Len(T.starts) - i + 1, next, n)]
      BY <3>1, <3>2, Zenon
    <3> QED
      BY <1>1, <1>4, <3>1, <3>3
  <2> QED
    BY <1>1, <1>4, <2>1, <2>2
<1> QED
  BY <1>5, <1>10, <1>11 DEF InTurn, n, next, T

\* Nobody has a second turn before each of the others had one.
LEMMA BackDiffers ==
    ASSUME NEW n \in Nat, NEW at \in Nat, at < n,
           NEW d \in 1..n, NEW e \in 1..n, Back(d, at, n) = Back(e, at, n)
    PROVE  d = e
  BY DEF Back

LEMMA BackWithin ==
    ASSUME NEW n \in Nat, NEW at \in Nat, at < n, NEW d \in 1..n
    PROVE  Back(d, at, n) \in 1..n
  BY DEF Back

LEMMA InTurnTakesTurns ==
    ASSUME NEW T \in [candidates : Seq(Providers), starts : Seq(Providers)],
           NEW at \in Nat, InTurn(T, at)
    PROVE  IsInjective(T.starts)
<1> DEFINE n == Len(T.candidates)
           l == Len(T.starts)
           c == T.candidates
           s == T.starts
<1>1. /\ n \in Nat /\ l \in Nat /\ l <= n /\ DOMAIN c = 1..n /\ DOMAIN s = 1..l
      /\ l # 0 => at < n
      /\ IsInjective(c)
      /\ \A i \in 1..l : s[i] = c[Back(l - i + 1, at, n)]
  BY DEF InTurn
<1>2. \A p, q \in 1..n : c[p] = c[q] => p = q
  BY <1>1 DEF IsInjective
<1> HIDE DEF n, l, c, s
<1>3. ASSUME NEW i \in 1..l, NEW j \in 1..l, s[i] = s[j]
      PROVE  i = j
  <2> DEFINE d == l - i + 1
             e == l - j + 1
  <2>1. d \in 1..n /\ e \in 1..n /\ at < n
    BY <1>1
  <2>2. c[Back(d, at, n)] = c[Back(e, at, n)]
    BY <1>1, <1>3
  <2>3. d = e => i = j
    BY <1>1
  <2> HIDE DEF d, e
  <2>4. Back(d, at, n) \in 1..n /\ Back(e, at, n) \in 1..n
    BY <1>1, <2>1, BackWithin
  <2>5. Back(d, at, n) = Back(e, at, n)
    BY <1>2, <2>2, <2>4
  <2> QED
    BY <1>1, <2>1, <2>3, <2>5, BackDiffers
<1> QED
  BY <1>1, <1>3 DEF IsInjective, s

(***************************************************************************)
(* The gateway: what the parts of the actions keep                         *)
(***************************************************************************)
Statuses == {"none", "200", "400", "429", "500", "502"}
Turns == [candidates : Seq(Providers), starts : Seq(Providers)]

LEMMA NothingTyped ==
    NoRequest \in Task /\ NoTurns \in Turns /\ InTurn(NoTurns, 0)
    /\ NoCheck \in [todo : Seq(Providers), sent : BOOLEAN]
<1>1. <<>> \in Seq(Providers) /\ IsInjective(<<>>) /\ Len(<<>>) = 0
  BY DEF IsInjective
<1>2. NoRequest \in Task
  BY <1>1 DEF NoRequest, Task
<1>3. NoTurns \in Turns /\ InTurn(NoTurns, 0)
  BY <1>1 DEF NoTurns, Turns, InTurn
<1>4. NoCheck \in [todo : Seq(Providers), sent : BOOLEAN]
  BY <1>1 DEF NoCheck
<1> QED
  BY <1>2, <1>3, <1>4

LEMMA RefreshKeeps ==
    ASSUME GatewayInv, NEW t \in Refreshed
    PROVE  /\ t \in Tables /\ t \in Seq(Providers) /\ IsInjective(t)
           /\ HealthyIn(t) \subseteq Range(t) /\ Range(t) \subseteq Providers
           /\ CursorIn(t) \in 0..Cardinality(Providers) /\ TurnsIn(t) \in Turns
           /\ routing.strategy = "round_robin" => InTurn(TurnsIn(t), CursorIn(t))
<1>1. t \in Tables /\ cursor \in 0..Cardinality(Providers) /\ turns \in Turns
  BY DEF GatewayInv, GatewayTypeOK, Refreshed, Turns
<1>2. t \in Seq(Providers) /\ IsInjective(t)
  BY <1>1, TablesAre
<1>3. HealthyIn(t) \subseteq Range(t) /\ Range(t) \subseteq Providers
  BY <1>2, HealthyWithin
<1>4. CursorIn(t) \in 0..Cardinality(Providers)
  BY <1>1, TablesAre DEF CursorIn
<1>5. TurnsIn(t) \in Turns
  BY <1>1, NothingTyped DEF TurnsIn
<1>6. routing.strategy = "round_robin" => InTurn(TurnsIn(t), CursorIn(t))
  BY NothingTyped DEF GatewayInv, Rounds, TurnsIn, CursorIn
<1> QED
  BY <1>1, <1>2, <1>3, <1>4, <1>5, <1>6

LEMMA MarkedWithin ==
    ASSUME healthy \subseteq Range(table), NEW p, NEW good
    PROVE  Marked(p, good) \subseteq Range(table)
  BY DEF Marked

LEMMA ProbingTyped ==
    ASSUME GatewayInv, NEW c \in Checks, NEW todo \in Seq(Providers), Probing(c, todo)
    PROVE  /\ check' \in [Checks -> [todo : Seq(Providers), sent : BOOLEAN]]
           /\ Probes'
<1> DEFINE new == IF todo = <<>> THEN NoCheck
                  ELSE [todo |-> todo, sent |-> Head(todo) \in working]
           Known == [todo : Seq(Providers), sent : BOOLEAN]
<1>1. check \in [Checks -> Known] /\ check' = [check EXCEPT ![c] = new]
  BY DEF GatewayInv, GatewayTypeOK, Probing
<1>2. new \in Known
  BY NothingTyped
<1>3. new # NoCheck => new.todo # <<>>
  OBVIOUS
<1>4. \A d \in Checks : check[d] # NoCheck => check[d].todo # <<>>
  BY DEF GatewayInv, Probes
<1> HIDE DEF new, Known
<1>5. check' \in [Checks -> Known]
  BY <1>1, <1>2
<1>6. \A d \in Checks : check'[d] # NoCheck => check'[d].todo # <<>>
  BY <1>1, <1>3, <1>4
<1> QED
  BY <1>5, <1>6 DEF Probes, Known

LEMMA FinishKeeps ==
    ASSUME GatewayInv, routing' = routing, NEW r \in Chats, NEW status \in Statuses,
           Finish(r, status)
    PROVE  chat' \in [Chats -> Task] /\ answer' \in [Chats -> Statuses] /\ Plans'
<1>1. chat \in [Chats -> Task] /\ answer \in [Chats -> Statuses]
  BY DEF GatewayInv, GatewayTypeOK, Statuses
<1>2. chat' = [chat EXCEPT ![r] = NoRequest] /\ answer' = [answer EXCEPT ![r] = status]
  BY DEF Finish
<1>3. chat' \in [Chats -> Task] /\ answer' \in [Chats -> Statuses]
  BY <1>1, <1>2, NothingTyped
<1>4. \A q \in Chats : Planned(chat'[q], routing.fallback)
  <2>1. Planned(NoRequest, routing.fallback)
    BY DEF Planned
  <2>2. \A q \in Chats : Planned(chat[q], routing.fallback)
    BY DEF GatewayInv, Plans
  <2> QED
    BY <1>1, <1>2, <2>1, <2>2
<1> QED
  BY <1>3, <1>4 DEF Plans

\* The failed call counts, and leaves the plan.
LEMMA FailedPlan ==
    ASSUME NEW q \in Task, q # NoRequest, NEW fallback \in BOOLEAN, Planned(q, fallback)
    PROVE  /\ Head(q.plan) \in Providers /\ Len(q.plan) \in Nat \ {0}
           /\ Cardinality(q.failed) \in Nat
           /\ Cardinality(q.failed \cup {Head(q.plan)}) = Cardinality(q.failed) + 1
           /\ Len(q.plan) # 1 =>
                 \A sent \in BOOLEAN :
                    LET rest == [q EXCEPT !.plan = Tail(@), !.sent = sent,
                                          !.failed = @ \cup {Head(q.plan)}]
                    IN rest \in Task /\ Planned(rest, fallback) /\ rest.plan # <<>>
<1> DEFINE s == q.plan
           t == Tail(s)
           h == Head(s)
           F == q.failed
           n == Len(s)
<1>1. /\ s \in Seq(Providers) /\ F \in SUBSET Providers /\ q.offered \in SUBSET Providers
      /\ q.bad \in BOOLEAN /\ q.sent \in BOOLEAN
      /\ q = [plan |-> s, sent |-> q.sent, bad |-> q.bad, failed |-> F, offered |-> q.offered]
  BY DEF Task
<1>2. /\ s # <<>> /\ IsInjective(s) /\ F \cap Range(s) = {}
      /\ F \cup Range(s) \subseteq q.offered
      /\ Cardinality(F) + n = IF fallback THEN Within(Cardinality(q.offered)) ELSE 1
  BY DEF Planned
<1>3. /\ t \in Seq(Providers) /\ IsInjective(t) /\ Len(t) = n - 1
      /\ n \in Nat \ {0} /\ h \in Providers
      /\ h \in Range(s) /\ Range(t) = Range(s) \ {h}
  BY <1>1, <1>2, TailIs
<1> HIDE DEF n, s, t, h, F
<1>4. IsFiniteSet(F) /\ Cardinality(F) \in Nat
  BY <1>1, TablesAre, FS_Subset, FS_CardinalityType
<1>5. Cardinality(F \cup {h}) = Cardinality(F) + 1
  BY <1>2, <1>3, <1>4, FS_AddElement
<1>6. ASSUME n # 1, NEW sent \in BOOLEAN,
             NEW rest, rest = [q EXCEPT !.plan = t, !.sent = sent, !.failed = F \cup {h}]
      PROVE  rest \in Task /\ Planned(rest, fallback) /\ rest.plan # <<>>
  <2>1. rest = [plan |-> t, sent |-> sent, bad |-> q.bad, failed |-> F \cup {h},
                offered |-> q.offered]
    BY <1>1, <1>6
  <2>2. rest \in Task
    BY <1>1, <1>3, <2>1 DEF Task
  <2>3. t # <<>>
    BY <1>3, <1>6
  <2>4. (F \cup {h}) \cap Range(t) = {} /\ (F \cup {h}) \cup Range(t) \subseteq q.offered
    BY <1>2, <1>3
  <2>5. Cardinality(F \cup {h}) + Len(t) = Cardinality(F) + n
    BY <1>3, <1>4, <1>5
  <2>6. rest.plan = t /\ rest.failed = F \cup {h} /\ rest.offered = q.offered
    BY <2>1
  <2> QED
    BY <1>2, <1>3, <2>2, <2>3, <2>4, <2>5, <2>6 DEF Planned
<1> QED
  BY <1>3, <1>4, <1>5, <1>6 DEF n, s, t, h, F

LEMMA FailKeeps ==
    ASSUME GatewayInv, routing' = routing, NEW r \in Chats, ~Quiet(r), Fail(r)
    PROVE  chat' \in [Chats -> Task] /\ answer' \in [Chats -> Statuses] /\ Plans'
<1>1. CASE Len(chat[r].plan) = 1
  BY <1>1, FinishKeeps DEF Fail, Statuses
<1>2. CASE Len(chat[r].plan) # 1
  <2> DEFINE sent == chat[r].plan[2] \in working
             rest == [chat[r] EXCEPT !.plan = Tail(@), !.sent = sent,
                                     !.failed = @ \cup {Head(chat[r].plan)}]
  <2>1. /\ chat \in [Chats -> Task] /\ answer \in [Chats -> Statuses]
        /\ routing.fallback \in BOOLEAN
        /\ \A q \in Chats : Planned(chat[q], routing.fallback)
    BY DEF GatewayInv, GatewayTypeOK, Statuses, Plans
  <2>2. chat' = [chat EXCEPT ![r] = rest] /\ answer' = answer
    BY <1>2 DEF Fail, Called
  <2>3. chat[r] \in Task /\ chat[r] # NoRequest /\ sent \in BOOLEAN
    BY <2>1 DEF Quiet
  <2>4. rest \in Task /\ Planned(rest, routing.fallback)
    <3> HIDE DEF sent
    <3> QED
      BY <1>2, <2>1, <2>3, FailedPlan
  <2> HIDE DEF rest
  <2>5. chat' \in [Chats -> Task]
    BY <2>1, <2>2, <2>4
  <2>6. \A q \in Chats : Planned(chat'[q], routing.fallback)
    BY <2>1, <2>2, <2>4
  <2> QED
    BY <2>1, <2>2, <2>5, <2>6 DEF Plans
<1> QED
  BY <1>1, <1>2

\* A step of a request that waits upstream.
LEMMA AwaitingKeeps ==
    ASSUME GatewayInv, NEW r \in Chats, ~Quiet(r), Awaiting,
           healthy' \subseteq Range(table),
           Fail(r) \/ \E status \in Statuses : Finish(r, status)
    PROVE  GatewayInv'
<1>1. routing' = routing /\ world' = world /\ table' = table /\ cursor' = cursor
      /\ check' = check /\ turns' = turns
  BY DEF Awaiting
<1>2. chat' \in [Chats -> Task] /\ answer' \in [Chats -> Statuses] /\ Plans'
  BY <1>1, FailKeeps, FinishKeeps
<1>3. Probes' /\ Rounds'
  BY <1>1 DEF GatewayInv, Probes, Rounds
<1>4. GatewayTypeOK'
  BY <1>1, <1>2 DEF GatewayInv, GatewayTypeOK, world, Statuses
<1> QED
  BY <1>2, <1>3, <1>4 DEF GatewayInv

(***************************************************************************)
(* The gateway: the invariant is inductive                                 *)
(***************************************************************************)
LEMMA GatewayBegins == GatewayInit => GatewayInv
<1> SUFFICES ASSUME GatewayInit PROVE GatewayInv
  OBVIOUS
<1>1. GatewayTypeOK
  <2>1. chat \in [Chats -> Task] /\ turns \in Turns
        /\ check \in [Checks -> [todo : Seq(Providers), sent : BOOLEAN]]
    BY NothingTyped DEF GatewayInit
  <2>2. cursor \in 0..Cardinality(Providers) /\ changes \in 0..MaxChanges
    BY TablesAre DEF GatewayInit
  <2> QED
    BY <2>1, <2>2 DEF GatewayInit, GatewayTypeOK, Turns
<1>2. Plans /\ Probes
  BY DEF GatewayInit, Plans, Planned, Probes
<1>3. Rounds
  BY NothingTyped DEF GatewayInit, Rounds
<1> QED
  BY <1>1, <1>2, <1>3 DEF GatewayInv

\* A refresh without a plan.
LEMMA OnlyRefreshKeeps ==
    ASSUME GatewayInv, NEW t \in Refreshed, Refresh(t),
           cursor' = CursorIn(t), turns' = TurnsIn(t),
           UNCHANGED <<routing, world, chat>>,
           check' \in [Checks -> [todo : Seq(Providers), sent : BOOLEAN]], Probes',
           answer' \in [Chats -> Statuses]
    PROVE  GatewayInv'
<1>1. GatewayTypeOK'
  BY RefreshKeeps DEF GatewayInv, GatewayTypeOK, Refresh, world, Statuses, Turns
<1>2. Plans'
  BY DEF GatewayInv, Plans
<1>3. Rounds'
  BY RefreshKeeps DEF Rounds
<1> QED
  BY <1>1, <1>2, <1>3 DEF GatewayInv

LEMMA PlanKeeps ==
    ASSUME GatewayInv, NEW r \in Chats,
           NEW asked \in {Providers} \cup {{p} : p \in Providers}, NEW bad \in BOOLEAN,
           Plan(r, asked, bad)
    PROVE  GatewayInv'
<1>1. PICK t \in Refreshed :
        LET candidates == Candidates(t, asked)
            alias == asked = Providers
            at == IF alias THEN CursorIn(t) ELSE 0
        IN  /\ candidates # <<>>
            /\ Refresh(t)
            /\ cursor' = IF alias THEN Advanced(candidates, at) ELSE CursorIn(t)
            /\ \E order \in Orders(candidates, at) :
                /\ chat' = [chat EXCEPT ![r] =
                      [plan |-> Attempts(order), sent |-> order[1] \in working, bad |-> bad,
                       failed |-> {}, offered |-> Range(candidates)]]
                /\ turns' = IF alias THEN Turned(candidates, order[1]) ELSE turns
  BY Zenon DEF Plan
<1> DEFINE candidates == Candidates(t, asked)
           alias == asked = Providers
           at == IF alias THEN CursorIn(t) ELSE 0
<1>2. PICK order \in Orders(candidates, at) :
        /\ chat' = [chat EXCEPT ![r] =
              [plan |-> Attempts(order), sent |-> order[1] \in working, bad |-> bad,
               failed |-> {}, offered |-> Range(candidates)]]
        /\ turns' = IF alias THEN Turned(candidates, order[1]) ELSE turns
  BY <1>1, Zenon
<1> DEFINE new == [plan |-> Attempts(order), sent |-> order[1] \in working, bad |-> bad,
                   failed |-> {}, offered |-> Range(candidates)]
           n == Len(candidates)
<1>3. /\ candidates # <<>> /\ Refresh(t)
      /\ cursor' = IF alias THEN Advanced(candidates, at) ELSE CursorIn(t)
      /\ UNCHANGED <<routing, world, check>>
      /\ answer' = [answer EXCEPT ![r] = "none"]
  BY <1>1 DEF Plan
<1>4. /\ t \in Tables /\ t \in Seq(Providers) /\ IsInjective(t)
      /\ HealthyIn(t) \subseteq Range(t) /\ Range(t) \subseteq Providers
      /\ CursorIn(t) \in 0..Cardinality(Providers) /\ TurnsIn(t) \in Turns
      /\ routing.strategy = "round_robin" => InTurn(TurnsIn(t), CursorIn(t))
  BY RefreshKeeps
<1>5. asked \in SUBSET Providers
  OBVIOUS
<1>6. candidates \in Seq(Providers) /\ IsInjective(candidates)
      /\ n <= Cardinality(Providers) /\ t # <<>>
  BY <1>3, <1>4, <1>5, CandidatesAre
<1>7. at \in 0..Cardinality(Providers) /\ at \in Nat
  BY <1>4, TablesAre
<1>8. routing \in [strategy : Strategies, fallback : BOOLEAN] /\ turns \in Turns
      /\ routing.strategy \in Strategies /\ routing.fallback \in BOOLEAN
      /\ TurnsIn(t) = turns
  BY <1>6 DEF GatewayInv, GatewayTypeOK, Turns, TurnsIn
<1> HIDE DEF candidates, at
<1>9. /\ order \in Seq(Providers) /\ IsInjective(order) /\ Len(order) = n /\ order # <<>>
      /\ \A i \in 1..n : order[i] \in Range(candidates)
      /\ routing.strategy = "round_robin" => order[1] = candidates[(at % n) + 1]
  <2>1. n # 0
    BY <1>3, <1>6
  <2>2. /\ order \in Seq(Providers) /\ IsInjective(order) /\ Len(order) = n
        /\ \A i \in 1..Len(order) : order[i] \in Range(candidates)
        /\ routing.strategy = "round_robin" => order[1] = candidates[(at % n) + 1]
    BY <1>2, <1>3, <1>6, <1>7, <1>8, OrdersAre
  <2> QED
    BY <2>1, <2>2
<1>10. order[1] \in Providers
  BY <1>9
<1>11. new \in Task /\ Planned(new, routing.fallback)
  <2> DEFINE a == Attempts(order)
             C == Range(candidates)
  <2>1. /\ a \in Seq(Providers) /\ IsInjective(a) /\ a # <<>>
        /\ Len(a) = IF routing.fallback THEN Within(n) ELSE 1
        /\ \A i \in 1..Len(a) : a[i] \in Range(order)
    BY <1>8, <1>9, AttemptsAre
  <2>2. IsFiniteSet(C) /\ Cardinality(C) = n /\ C \subseteq Providers
    BY <1>6, AsManyAs, RangeWithin
  <2>3. Range(order) \subseteq C
    BY <1>9, RangeWithin
  <2>4. Range(a) \subseteq C
    BY <2>1, <2>3, RangeWithin
  <2>5. Cardinality({}) = 0 /\ Len(a) \in Nat
    BY <2>1, FS_EmptySet
  <2>6. new.plan = a /\ new.failed = {} /\ new.offered = C
    OBVIOUS
  <2>7. new \in Task
    <3> HIDE DEF a, C
    <3> QED
      BY <2>1, <2>2 DEF Task, a, C
  <2> HIDE DEF new, a, C
  <2>8. Cardinality(new.failed) + Len(new.plan) =
           IF routing.fallback THEN Within(Cardinality(new.offered)) ELSE 1
    <3>1. Cardinality(new.failed) = 0 /\ Cardinality(new.offered) = n
      BY <2>2, <2>5, <2>6, Zenon
    <3>2. Len(new.plan) = IF routing.fallback THEN Within(n) ELSE 1
      BY <2>1, <2>6, Zenon
    <3>3. Cardinality(new.failed) + Len(new.plan) = Len(new.plan)
      BY <2>5, <2>6, <3>1
    <3> QED
      BY <3>1, <3>2, <3>3, Zenon
  <2>9. new.failed \cap Range(new.plan) = {}
        /\ new.failed \cup Range(new.plan) \subseteq new.offered
    BY <2>4, <2>6
  <2> QED
    BY <2>1, <2>6, <2>7, <2>8, <2>9 DEF Planned
<1>12. chat' = [chat EXCEPT ![r] = new]
  BY <1>2
<1> HIDE DEF new
<1>13. chat \in [Chats -> Task] /\ \A q \in Chats : Planned(chat[q], routing.fallback)
       /\ answer \in [Chats -> Statuses]
  BY DEF GatewayInv, GatewayTypeOK, Plans, Statuses
<1>14. chat' \in [Chats -> Task] /\ Plans'
  BY <1>3, <1>11, <1>12, <1>13 DEF Plans
<1>15. turns' \in Turns
  <2>1. CASE alias
    <3> DEFINE old == IF turns.candidates = candidates THEN turns.starts ELSE <<>>
    <3>1. old \in Seq(Providers)
      BY <1>8 DEF Turns
    <3> HIDE DEF old
    <3>2. Append(old, order[1]) \in Seq(Providers)
          /\ Tail(Append(old, order[1])) \in Seq(Providers)
      BY <1>10, <3>1, Younger
    <3>3. Turned(candidates, order[1]) \in Turns
      BY <1>6, <3>2 DEF Turned, Turns, old
    <3> QED
      BY <1>2, <2>1, <3>3
  <2>2. CASE ~alias
    BY <1>2, <1>8, <2>2
  <2> QED
    BY <2>1, <2>2
<1>16. cursor' \in 0..Cardinality(Providers)
  BY <1>3, <1>4, <1>6, <1>7, AdvancedWithin
<1>17. answer' \in [Chats -> Statuses]
  BY <1>3, <1>13 DEF Statuses
<1>18. GatewayTypeOK'
  BY <1>3, <1>4, <1>14, <1>15, <1>16, <1>17
    DEF GatewayInv, GatewayTypeOK, Refresh, world, Statuses, Turns
<1>19. Rounds'
  <2> SUFFICES ASSUME routing.strategy = "round_robin" PROVE InTurn(turns', cursor')
    BY <1>3 DEF Rounds
  <2>1. CASE alias
    <3>1. InTurn(turns, at)
      BY <1>4, <1>8, <2>1 DEF at
    <3>2. InTurn(Turned(candidates, order[1]), Advanced(candidates, at))
      BY <1>3, <1>6, <1>7, <1>8, <1>9, <3>1, TurnsGo DEF Turns
    <3> QED
      BY <1>2, <1>3, <2>1, <3>2
  <2>2. CASE ~alias
    BY <1>2, <1>3, <1>4, <1>8, <2>2
  <2> QED
    BY <2>1, <2>2
<1>20. Probes'
  BY <1>3 DEF GatewayInv, Probes
<1> QED
  BY <1>14, <1>18, <1>19, <1>20 DEF GatewayInv

LEMMA GatewayStep == GatewayInv /\ [GatewayNext]_gatewayVars => GatewayInv'
<1> SUFFICES ASSUME GatewayInv, [GatewayNext]_gatewayVars PROVE GatewayInv'
  OBVIOUS
<1> USE DEF GatewayInv
<1>1. ASSUME NEW r \in Chats, Refuse(r) PROVE GatewayInv'
  <2>1. check' = check /\ answer' = [answer EXCEPT ![r] = "429"]
    BY <1>1 DEF Refuse
  <2>2. answer' \in [Chats -> Statuses]
    BY <2>1 DEF GatewayTypeOK, Statuses
  <2>3. Probes' /\ check' \in [Checks -> [todo : Seq(Providers), sent : BOOLEAN]]
    BY <2>1 DEF GatewayTypeOK, Probes
  <2> HIDE DEF GatewayInv
  <2> QED
    BY <1>1, <2>2, <2>3, OnlyRefreshKeeps DEF Refuse
<1>2. ASSUME NEW r \in Chats, NEW asked, NoCandidate(r, asked) PROVE GatewayInv'
  <2>1. check' = check /\ answer' = [answer EXCEPT ![r] = "400"]
    BY <1>2 DEF NoCandidate
  <2>2. answer' \in [Chats -> Statuses]
    BY <2>1 DEF GatewayTypeOK, Statuses
  <2>3. Probes' /\ check' \in [Checks -> [todo : Seq(Providers), sent : BOOLEAN]]
    BY <2>1 DEF GatewayTypeOK, Probes
  <2> HIDE DEF GatewayInv
  <2> QED
    BY <1>2, <2>2, <2>3, OnlyRefreshKeeps DEF NoCandidate
<1>3. ASSUME NEW r \in Chats, RequestStep(r) PROVE GatewayInv'
  <2>1. healthy \subseteq Range(table)
    BY DEF GatewayTypeOK
  <2>2. \A p, good : Marked(p, good) \subseteq Range(table)
    BY <2>1, MarkedWithin
  <2> HIDE DEF GatewayInv
  <2>3. CASE Lost(r)
    BY <2>2, <2>3, AwaitingKeeps DEF Lost
  <2>4. CASE RemovedMeanwhile(r)
    BY <2>1, <2>4, AwaitingKeeps DEF RemovedMeanwhile, Statuses
  <2>5. CASE Succeed(r)
    BY <2>2, <2>5, AwaitingKeeps DEF Succeed, Statuses
  <2>6. CASE ErrorStatus(r)
    BY <2>2, <2>6, AwaitingKeeps DEF ErrorStatus
  <2>7. CASE Garbled(r)
    BY <2>2, <2>7, AwaitingKeeps DEF Garbled
  <2> QED
    BY <1>3, <2>3, <2>4, <2>5, <2>6, <2>7 DEF RequestStep
<1>4. ASSUME NEW c \in Checks, StartCheck(c) PROVE GatewayInv'
  <2>1. PICK t \in Refreshed : Refresh(t) /\ cursor' = CursorIn(t) /\ turns' = TurnsIn(t)
                               /\ Probing(c, t)
    BY <1>4 DEF StartCheck
  <2>2. UNCHANGED <<routing, world, chat>> /\ answer' = answer
    BY <1>4 DEF StartCheck
  <2>3. answer' \in [Chats -> Statuses]
    BY <2>2 DEF GatewayTypeOK, Statuses
  <2> HIDE DEF GatewayInv
  <2>4. t \in Seq(Providers)
    BY RefreshKeeps
  <2>5. check' \in [Checks -> [todo : Seq(Providers), sent : BOOLEAN]] /\ Probes'
    BY <2>1, <2>4, ProbingTyped
  <2> QED
    BY <2>1, <2>2, <2>3, <2>5, OnlyRefreshKeeps
<1>5. ASSUME NEW c \in Checks, CheckAnswered(c) PROVE GatewayInv'
  <2>1. healthy' \subseteq Range(table)
    BY <1>5, MarkedWithin DEF CheckAnswered, GatewayTypeOK
  <2>2. UNCHANGED <<routing, world, table, cursor, chat, answer, turns>>
        /\ Probing(c, Tail(check[c].todo)) /\ check[c] # NoCheck
    BY <1>5 DEF CheckAnswered
  <2>3. Tail(check[c].todo) \in Seq(Providers)
    <3>1. check[c].todo \in Seq(Providers) /\ check[c].todo # <<>>
      BY <2>2 DEF GatewayTypeOK, Probes
    <3> QED
      BY <3>1
  <2>4. check' \in [Checks -> [todo : Seq(Providers), sent : BOOLEAN]] /\ Probes'
    BY <2>2, <2>3, ProbingTyped
  <2>5. Plans' /\ Rounds'
    BY <2>2 DEF Plans, Rounds
  <2>6. GatewayTypeOK'
    BY <2>1, <2>2, <2>4 DEF GatewayTypeOK, world
  <2> QED
    BY <2>4, <2>5, <2>6
<1>6. ASSUME Inside, source' \in Tables, working' \subseteq Providers, changes' \in 0..MaxChanges
      PROVE GatewayInv'
  <2>1. Plans' /\ Probes' /\ Rounds'
    BY <1>6 DEF Inside, Plans, Probes, Rounds
  <2>2. GatewayTypeOK'
    BY <1>6 DEF Inside, GatewayTypeOK
  <2> QED
    BY <2>1, <2>2
<1>7. Change => changes' \in 0..MaxChanges
  BY TablesAre DEF Change, GatewayTypeOK
<1>8. CASE SourceChanges
  BY <1>6, <1>7, <1>8 DEF SourceChanges, GatewayTypeOK
<1>9. ASSUME NEW p \in Providers, Outage(p) PROVE GatewayInv'
  BY <1>6, <1>7, <1>9 DEF Outage, GatewayTypeOK
<1>10. CASE UNCHANGED gatewayVars
  BY <1>10 DEF gatewayVars, world, GatewayTypeOK, Plans, Probes, Rounds
<1> HIDE DEF GatewayInv
<1> QED
  BY <1>1, <1>2, <1>3, <1>4, <1>5, <1>8, <1>9, <1>10, PlanKeeps DEF GatewayNext, CheckStep

(***************************************************************************)
(* The gateway: theorems                                                   *)
(***************************************************************************)
\* The invariant holds whatever the event loop interleaves.
THEOREM GatewayInvariance == GatewaySpec => []GatewayInv
<1>1. GatewayInit => GatewayInv
  BY GatewayBegins
<1>2. GatewayInv /\ [GatewayNext]_gatewayVars => GatewayInv'
  BY GatewayStep
<1> QED
  BY <1>1, <1>2, PTL DEF GatewaySpec

\* Types; health is known of providers of the table only.
THEOREM GatewayTypes == GatewaySpec => []GatewayTypeOK
<1>1. GatewayInv => GatewayTypeOK
  BY DEF GatewayInv
<1> QED
  BY <1>1, GatewayInvariance, PTL

\* Round robin gives every candidate its turn before anyone's second, whatever
\* refreshes, checks and other requests come between the plans.
THEOREM RoundRobinTakesTurns == GatewaySpec => []TakesTurns
<1>1. GatewayInv => TakesTurns
  <2> SUFFICES ASSUME GatewayInv, routing.strategy = "round_robin"
               PROVE  IsInjective(turns.starts)
    BY DEF TakesTurns
  <2>1. turns \in Turns /\ cursor \in Nat /\ InTurn(turns, cursor)
    BY TablesAre DEF GatewayInv, GatewayTypeOK, Rounds, Turns
  <2> QED
    BY <2>1, InTurnTakesTurns DEF Turns
<1> QED
  BY <1>1, GatewayInvariance, PTL

\* A request fails for good only after all the attempts it is allowed, each with
\* another provider.
THEOREM FailsAfterAllAttempts == GatewaySpec => AllTried
<1> DEFINE Tried ==
      \A r \in Chats :
        ~Quiet(r) /\ chat'[r] = NoRequest /\ answer'[r] = "502" =>
            LET failed == Cardinality(chat[r].failed \cup {Called(r)}) IN
            IF routing.fallback
            THEN failed = MaxRetries + 1 \/ failed = Cardinality(chat[r].offered)
            ELSE failed = 1
<1>1. GatewayInv /\ [GatewayNext]_gatewayVars => [Tried]_gatewayVars
  <2> SUFFICES ASSUME GatewayInv, GatewayNext, NEW r \in Chats,
                      ~Quiet(r), chat'[r] = NoRequest, answer'[r] = "502"
               PROVE  LET failed == Cardinality(chat[r].failed \cup {Called(r)}) IN
                      IF routing.fallback
                      THEN failed = MaxRetries + 1 \/ failed = Cardinality(chat[r].offered)
                      ELSE failed = 1
    OBVIOUS
  <2>1. chat[r] # NoRequest /\ chat[r] \in Task /\ routing.fallback \in BOOLEAN
        /\ Planned(chat[r], routing.fallback)
        /\ chat \in [Chats -> Task] /\ answer \in [Chats -> Statuses]
    BY DEF GatewayInv, GatewayTypeOK, Quiet, Plans, Statuses
  <2>2. \A q \in Chats : RequestStep(q) => q = r /\ Fail(r) /\ Len(chat[r].plan) = 1
    <3> SUFFICES ASSUME NEW q \in Chats, RequestStep(q)
                 PROVE  q = r /\ Fail(r) /\ Len(chat[r].plan) = 1
      OBVIOUS
    <3>1. Fail(q) \/ \E status \in {"200", "500"} : Finish(q, status)
      BY DEF RequestStep, Lost, RemovedMeanwhile, Succeed, ErrorStatus, Garbled
    <3>2. q = r
      BY <2>1, <3>1 DEF Fail, Finish
    <3>3. Fail(r)
      BY <2>1, <3>1, <3>2 DEF Finish
    <3>4. ASSUME Len(chat[r].plan) # 1 PROVE FALSE
      <4> DEFINE sent == chat[r].plan[2] \in working
                 rest == [chat[r] EXCEPT !.plan = Tail(@), !.sent = sent,
                                         !.failed = @ \cup {Head(chat[r].plan)}]
      <4>1. chat' = [chat EXCEPT ![r] = rest]
        BY <3>3, <3>4 DEF Fail, Called
      <4>2. sent \in BOOLEAN
        OBVIOUS
      <4>3. rest.plan # <<>>
        <5> HIDE DEF sent
        <5> QED
          BY <2>1, <3>4, <4>2, FailedPlan
      <4>4. NoRequest.plan = <<>>
        BY DEF NoRequest
      <4> HIDE DEF rest
      <4> QED
        BY <2>1, <4>1, <4>3, <4>4
    <3> QED
      BY <3>2, <3>3, <3>4
  <2>3. \A q \in Chats : ~Refuse(q)
    BY <2>1 DEF Refuse
  <2>4. \A q \in Chats, asked \in {Providers} \cup {{p} : p \in Providers} :
            ~NoCandidate(q, asked)
    BY <2>1 DEF NoCandidate
  <2>5. \A q \in Chats, asked \in {Providers} \cup {{p} : p \in Providers}, bad \in BOOLEAN :
            ~Plan(q, asked, bad)
    <3> SUFFICES ASSUME NEW q \in Chats, NEW asked, NEW bad \in BOOLEAN, Plan(q, asked, bad)
                 PROVE  FALSE
      OBVIOUS
    <3>1. q # r /\ \E new : chat' = [chat EXCEPT ![q] = new]
      BY DEF Plan, Quiet
    <3> QED
      BY <2>1, <3>1
  <2>6. \A c \in Checks : ~CheckStep(c)
    BY <2>1 DEF CheckStep, StartCheck, CheckAnswered
  <2>7. ~SourceChanges /\ \A p \in Providers : ~Outage(p)
    BY <2>1 DEF SourceChanges, Outage, Inside
  <2>8. Len(chat[r].plan) = 1
    BY <2>2, <2>3, <2>4, <2>5, <2>6, <2>7 DEF GatewayNext
  <2>9. Cardinality(chat[r].failed \cup {Called(r)}) = Cardinality(chat[r].failed) + 1
        /\ Cardinality(chat[r].failed) \in Nat
    BY <2>1, FailedPlan DEF Called
  <2>10. Cardinality(chat[r].failed) + 1 =
            IF routing.fallback THEN Within(Cardinality(chat[r].offered)) ELSE 1
    BY <2>1, <2>8 DEF Planned
  <2> QED
    BY <2>9, <2>10 DEF Within
<1>2. AllTried <=> [][Tried]_gatewayVars
  BY DEF AllTried
<1> HIDE DEF Tried
<1> QED
  BY <1>1, <1>2, GatewayInvariance, PTL DEF GatewaySpec

(***************************************************************************)
(* The aliases of the free models: the inductive invariant                 *)
(***************************************************************************)
\* A request has all its parts, and what a sync has left is of its map: all of
\* it before it fills.
Work(pc, op, map, left, rest, before, touched) ==
    [pc |-> pc, op |-> op, map |-> map, left |-> left, rest |-> rest,
     before |-> before, touched |-> touched]

IsWork(q) ==
    /\ q = Work(q.pc, q.op, q.map, q.left, q.rest, q.before, q.touched)
    /\ q.pc \in {"find", "fill"} => q.op = "sync"
    /\ q.op = "sync" => /\ q.pc \in {"find", "create", "fill"}
                        /\ q.left \in Seq(Slots) /\ IsInjective(q.left)
                        /\ Range(q.left) \subseteq DOMAIN q.map
                        /\ DOMAIN q.map \subseteq Slots
                        /\ q.pc # "fill" => Range(q.left) = DOMAIN q.map

Shaped ==
    /\ model = [alias \in Aliases |-> model[alias]]
    /\ request = [r \in Requests |-> request[r]]
    /\ \A r \in Requests : IsWork(request[r])

\* What a sync has done so far: it has pointed the slots that are no longer
\* left to it, and nothing else, but for what others wrote since.
Done(q, models) ==
    q.op = "sync" =>
        \A alias \in Aliases \ q.touched : models[alias] =
            IF alias \in DOMAIN q.map \ Range(q.left) THEN q.map[alias] ELSE q.before[alias]

Filling == \A r \in Requests : Done(request[r], model)

\* The listing gave the sync two different models.
TwoModels(q) ==
    /\ "best" \in DOMAIN q.map /\ "general" \in DOMAIN q.map
    /\ q.map["best"] # q.map["general"]

\* The syncs that run while all is tidy have one map between them ...
TidyRuns ==
    tidy => \A r \in Requests : request[r].op = "sync" =>
        /\ TwoModels(request[r])
        /\ \A q \in Requests : request[q].op = "sync" => request[q].map = request[r].map

\* ... so that none of them takes back what another did ...
Pair == {"best", "general"}

Holds(q, models) ==
    q.op = "sync" => \A slot \in Pair \ Range(q.left) : models[slot] = q.map[slot]

TidyHolds == tidy => \A r \in Requests : Holds(request[r], model)

\* ... and only while one of them fills may the two slots be the same.
Fills(q) == q.op = "sync" /\ q.pc = "fill"

Differ(models) == models["best"] # NoModel => models["best"] # models["general"]

TidyDiffers == tidy /\ (\A r \in Requests : ~Fills(request[r])) => Differ(model)

FreeInv == Shaped /\ Filling /\ TidyRuns /\ TidyHolds /\ TidyDiffers

(***************************************************************************)
(* The aliases of the free models: what a step of one request keeps        *)
(***************************************************************************)
LEMMA Parts ==
    ASSUME NEW pc, NEW op, NEW map, NEW left, NEW rest, NEW before, NEW touched,
           NEW q, q = Work(pc, op, map, left, rest, before, touched)
    PROVE  /\ q.pc = pc /\ q.op = op /\ q.map = map /\ q.left = left
           /\ q.rest = rest /\ q.before = before /\ q.touched = touched
  BY DEF Work

\* What an update of one part makes of a request.
LEMMA Altered ==
    ASSUME NEW q, q = Work(q.pc, q.op, q.map, q.left, q.rest, q.before, q.touched), NEW x
    PROVE  /\ [q EXCEPT !.pc = x] = Work(x, q.op, q.map, q.left, q.rest, q.before, q.touched)
           /\ [q EXCEPT !.left = x] = Work(q.pc, q.op, q.map, x, q.rest, q.before, q.touched)
           /\ [q EXCEPT !.rest = x] = Work(q.pc, q.op, q.map, q.left, x, q.before, q.touched)
           /\ [q EXCEPT !.touched = x] = Work(q.pc, q.op, q.map, q.left, q.rest, q.before, x)
  BY DEF Work

LEMMA NoWorkIs == IsWork(NoWork) /\ NoWork.pc = "idle" /\ NoWork.op # "sync"
<1>1. NoWork = Work("idle", "none", <<>>, <<>>, <<>>, <<>>, {})
  BY DEF NoWork, Work
<1> QED
  BY <1>1, Parts DEF IsWork

LEMMA SyncsAre == \A r : r \in Syncs <=> r \in Requests /\ request[r].op = "sync"
  BY DEF Syncs

\* A request of which another one wrote the aliases.
LEMMA TouchedKeeps ==
    ASSUME FreeInv, NEW s \in Requests, NEW aliases, NEW q, q = Touched(s, aliases),
           \A alias \in Aliases \ aliases : model'[alias] = model[alias]
    PROVE  /\ IsWork(q) /\ q.pc = request[s].pc /\ q.op = request[s].op
           /\ q.map = request[s].map /\ q.left = request[s].left
           /\ Done(q, model')
<1> DEFINE old == request[s]
<1>1. IsWork(old) /\ Done(old, model)
  BY DEF FreeInv, Shaped, Filling
<1>2. CASE old.op # "sync"
  BY <1>1, <1>2, SyncsAre DEF Touched, Done
<1>3. CASE old.op = "sync"
  <2> DEFINE touched == old.touched \cup aliases
  <2>1. q = [old EXCEPT !.touched = touched]
    BY <1>3, SyncsAre DEF Touched
  <2> HIDE DEF touched
  <2>2. q = Work(old.pc, old.op, old.map, old.left, old.rest, old.before, touched)
    BY <1>1, <2>1, Altered, Zenon DEF IsWork
  <2>3. /\ q.pc = old.pc /\ q.op = old.op /\ q.map = old.map /\ q.left = old.left
        /\ q.rest = old.rest /\ q.before = old.before /\ q.touched = touched
    BY <2>2, Parts
  <2>4. IsWork(q)
    BY <1>1, <2>2, <2>3 DEF IsWork
  <2>5. Done(q, model')
    BY <1>1, <2>3 DEF Done, touched
  <2> QED
    BY <2>3, <2>4, <2>5
<1> QED
  BY <1>2, <1>3

\* A request goes on as new, having written the aliases: what is to be shown
\* of it.
LEMMA StepKeeps ==
    ASSUME FreeInv, NEW r \in Requests, NEW aliases, NEW new, Wrote(r, aliases, new),
           model' = [alias \in Aliases |-> model'[alias]],
           \A alias \in Aliases \ aliases : model'[alias] = model[alias],
           IsWork(new), Done(new, model'),
           tidy' => tidy,
           tidy' /\ new.op = "sync" =>
               /\ TwoModels(new) /\ Holds(new, model')
               /\ \A s \in Requests \ {r} : request[s].op = "sync" => request[s].map = new.map,
           tidy' => \A slot \in Pair \cap aliases, s \in Requests \ {r} :
                       request[s].op = "sync" => model'[slot] = request[s].map[slot],
           tidy' /\ ~Fills(new) /\ (\A s \in Requests \ {r} : ~Fills(request[s])) => Differ(model')
    PROVE  FreeInv'
<1>1. /\ request' = [s \in Requests |-> request'[s]] /\ request'[r] = new
      /\ \A s \in Requests \ {r} : request'[s] = Touched(s, aliases)
  BY DEF Wrote
<1>2. \A s \in Requests \ {r} :
        /\ IsWork(request'[s]) /\ request'[s].pc = request[s].pc /\ request'[s].op = request[s].op
        /\ request'[s].map = request[s].map /\ request'[s].left = request[s].left
        /\ Done(request'[s], model')
  BY <1>1, TouchedKeeps
<1>3. Shaped'
  BY <1>1, <1>2 DEF Shaped
<1>4. Filling'
  BY <1>1, <1>2 DEF Filling
<1>5. TidyRuns'
  <2> SUFFICES ASSUME tidy', NEW s \in Requests, request'[s].op = "sync"
               PROVE  /\ TwoModels(request'[s])
                      /\ \A q \in Requests : request'[q].op = "sync" => request'[q].map = request'[s].map
    BY DEF TidyRuns
  <2>1. CASE s = r
    BY <1>1, <1>2, <2>1
  <2>2. CASE s # r
    <3>1. TwoModels(request[s]) /\ \A q \in Requests \ {r} : request'[q].op = "sync" => request'[q].map = request'[s].map
      BY <1>2, <2>2 DEF FreeInv, TidyRuns
    <3>2. request'[r].op = "sync" => request'[r].map = request'[s].map
      BY <1>1, <1>2, <2>2
    <3> QED
      BY <1>2, <2>2, <3>1, <3>2 DEF TwoModels
  <2> QED
    BY <2>1, <2>2
<1>6. TidyHolds'
  <2> SUFFICES ASSUME tidy', NEW s \in Requests PROVE Holds(request'[s], model')
    BY DEF TidyHolds
  <2>1. CASE s = r
    BY <1>1, <2>1 DEF Holds
  <2>2. CASE s # r
    <3>1. Holds(request[s], model) /\ \A slot \in Pair \ aliases : model'[slot] = model[slot]
      BY DEF FreeInv, TidyHolds, Pair, Aliases, Slots
    <3> QED
      BY <1>2, <2>2, <3>1 DEF Holds
  <2> QED
    BY <2>1, <2>2
<1>7. TidyDiffers'
  BY <1>1, <1>2 DEF TidyDiffers, Fills
<1> QED
  BY <1>3, <1>4, <1>5, <1>6, <1>7 DEF FreeInv

\* A step that writes no alias.
LEMMA QuietKeeps ==
    ASSUME FreeInv, NEW r \in Requests, NEW new, request' = [request EXCEPT ![r] = new],
           model' = model, IsWork(new), Done(new, model),
           tidy' => tidy,
           tidy' /\ new.op = "sync" =>
               /\ TwoModels(new) /\ Holds(new, model)
               /\ \A s \in Requests \ {r} : request[s].op = "sync" => request[s].map = new.map,
           tidy' /\ ~Fills(new) /\ (\A s \in Requests \ {r} : ~Fills(request[s])) => Differ(model)
    PROVE  FreeInv'
<1>1. model' = [alias \in Aliases |-> model'[alias]] /\ request = [s \in Requests |-> request[s]]
  BY DEF FreeInv, Shaped
<1>2. \A s \in Requests : Touched(s, {}) = request[s]
  <2> SUFFICES ASSUME NEW s \in Requests, request[s].op = "sync"
               PROVE  [request[s] EXCEPT !.touched = @ \cup {}] = request[s]
    BY SyncsAre DEF Touched
  <2> DEFINE q == request[s]
             touched == q.touched \cup {}
  <2>1. q = Work(q.pc, q.op, q.map, q.left, q.rest, q.before, q.touched)
    BY DEF FreeInv, Shaped, IsWork
  <2>2. touched = q.touched
    OBVIOUS
  <2>3. [q EXCEPT !.touched = touched] = Work(q.pc, q.op, q.map, q.left, q.rest, q.before, touched)
    <3> HIDE DEF touched
    <3> QED
      BY <2>1, Altered, Zenon
  <2> QED
    BY <2>1, <2>2, <2>3
<1>3. Wrote(r, {}, new)
  <2>1. request' = [s \in Requests |-> IF s = r THEN new ELSE request[s]]
    BY <1>1
  <2> QED
    BY <1>2, <2>1 DEF Wrote
<1> QED
  BY <1>1, <1>3, StepKeeps

\* To the end, with the models as they are.
LEMMA EndKeeps ==
    ASSUME FreeInv, NEW r \in Requests, End(r), model' = model, tidy' = tidy,
           tidy /\ Fills(request[r]) => Differ(model)
    PROVE  FreeInv'
<1>1. IsWork(NoWork) /\ Done(NoWork, model) /\ NoWork.op # "sync"
  BY NoWorkIs DEF Done
<1>2. tidy /\ (\A s \in Requests \ {r} : ~Fills(request[s])) => Differ(model)
  BY DEF FreeInv, TidyDiffers
<1> QED
  BY <1>1, <1>2, QuietKeeps DEF End

\* To another step.
LEMMA GotoKeeps ==
    ASSUME FreeInv, NEW r \in Requests, NEW pc \in {"create", "fill", "models"},
           Goto(r, pc), model' = model, tidy' = tidy,
           pc = "fill" => request[r].op = "sync",
           request[r].op = "sync" => pc \in {"create", "fill"} /\ request[r].pc # "fill"
    PROVE  FreeInv'
<1> DEFINE old == request[r]
           new == [old EXCEPT !.pc = pc]
<1>1. request' = [request EXCEPT ![r] = new]
  BY DEF Goto
<1>2. IsWork(old) /\ Done(old, model)
  BY DEF FreeInv, Shaped, Filling
<1>3. new = Work(pc, old.op, old.map, old.left, old.rest, old.before, old.touched)
  BY <1>2, Altered, Zenon DEF IsWork
<1> HIDE DEF new
<1>4. /\ new.pc = pc /\ new.op = old.op /\ new.map = old.map /\ new.left = old.left
      /\ new.rest = old.rest /\ new.before = old.before /\ new.touched = old.touched
  BY <1>3, Parts
<1>5. IsWork(new) /\ Done(new, model)
  BY <1>2, <1>3, <1>4 DEF IsWork, Done
<1>6. tidy /\ new.op = "sync" =>
        /\ TwoModels(new) /\ Holds(new, model)
        /\ \A s \in Requests \ {r} : request[s].op = "sync" => request[s].map = new.map
  BY <1>4 DEF FreeInv, TidyRuns, TidyHolds, TwoModels, Holds
<1>7. tidy /\ ~Fills(new) /\ (\A s \in Requests \ {r} : ~Fills(request[s])) => Differ(model)
  BY <1>4 DEF FreeInv, TidyDiffers, Fills
<1> QED
  BY <1>1, <1>5, <1>6, <1>7, QuietKeeps

(***************************************************************************)
(* The aliases of the free models: requests that begin                     *)
(***************************************************************************)
LEMMA SyncIs ==
    ASSUME NEW map, NEW left, NEW before
    PROVE  [NoWork EXCEPT !.pc = "find", !.op = "sync", !.map = map,
                          !.left = left, !.before = before]
              = Work("find", "sync", map, left, <<>>, before, {})
<1> DEFINE empty == <<>>
           none == {}
           p1 == [NoWork EXCEPT !.pc = "find"]
           p2 == [p1 EXCEPT !.op = "sync"]
           p3 == [p2 EXCEPT !.map = map]
           p4 == [p3 EXCEPT !.left = left]
           p5 == [p4 EXCEPT !.before = before]
<1>1. NoWork = Work("idle", "none", empty, empty, empty, empty, none)
  BY DEF NoWork, Work
<1>2. [NoWork EXCEPT !.pc = "find", !.op = "sync", !.map = map,
                     !.left = left, !.before = before] = p5
  BY Zenon
<1> HIDE DEF p5, empty, none
<1>3. p1 = Work("find", "none", empty, empty, empty, empty, none)
  BY <1>1 DEF Work
<1> HIDE DEF p1
<1>4. p2 = Work("find", "sync", empty, empty, empty, empty, none)
  BY <1>3 DEF Work
<1> HIDE DEF p2
<1>5. p3 = Work("find", "sync", map, empty, empty, empty, none)
  BY <1>4 DEF Work
<1> HIDE DEF p3
<1>6. p4 = Work("find", "sync", map, left, empty, empty, none)
  BY <1>5 DEF Work
<1> HIDE DEF p4
<1>7. p5 = Work("find", "sync", map, left, empty, before, none)
  BY <1>6 DEF Work, p5
<1> QED
  BY <1>2, <1>7, Zenon DEF empty, none

LEMMA BatchIs ==
    ASSUME NEW n, NEW b
    PROVE  [NoWork EXCEPT !.pc = "create", !.op = n, !.rest = b]
              = Work("create", n, <<>>, <<>>, b, <<>>, {})
<1> DEFINE empty == <<>>
           none == {}
           p1 == [NoWork EXCEPT !.pc = "create"]
           p2 == [p1 EXCEPT !.op = n]
           p3 == [p2 EXCEPT !.rest = b]
<1>1. NoWork = Work("idle", "none", empty, empty, empty, empty, none)
  BY DEF NoWork, Work
<1>2. [NoWork EXCEPT !.pc = "create", !.op = n, !.rest = b] = p3
  BY Zenon
<1> HIDE DEF p3, empty, none
<1>3. p1 = Work("create", "none", empty, empty, empty, empty, none)
  BY <1>1 DEF Work
<1> HIDE DEF p1
<1>4. p2 = Work("create", n, empty, empty, empty, empty, none)
  BY <1>3 DEF Work
<1> HIDE DEF p2
<1>5. p3 = Work("create", n, empty, empty, b, empty, none)
  BY <1>4 DEF Work, p3
<1> QED
  BY <1>2, <1>5, Zenon DEF empty, none

LEMMA FetchKeeps ==
    ASSUME FreeInv, NEW r \in Requests, NEW listing \in Offers, Fetch(r, listing)
    PROVE  FreeInv'
<1> DEFINE map == AliasMap(listing)
           left == AliasOrder(listing)
           new == [NoWork EXCEPT !.pc = "find", !.op = "sync", !.map = map,
                                 !.left = left, !.before = model]
<1>1. /\ request[r].pc = "idle" /\ request' = [request EXCEPT ![r] = new] /\ model' = model
      /\ tidy' => /\ tidy /\ Cardinality(Named(listing)) > 1
                  /\ \A s \in Syncs : request[s].map = map
  BY DEF Fetch, Begin
<1>2. Enumerates(left, DOMAIN map)
  BY LegacyFreeAssumption, AliasesInOrder
<1>3. DOMAIN map \subseteq Slots
  BY DEF AliasMap
<1>4. new = Work("find", "sync", map, left, <<>>, model, {})
  <2> HIDE DEF map, left
  <2> QED
    BY SyncIs, Zenon
<1>5. Cardinality(Named(listing)) > 1 =>
        "best" \in DOMAIN map /\ "general" \in DOMAIN map /\ map["best"] # map["general"]
  BY GeneralIsAnother, LegacyFreeAssumption
<1> HIDE DEF map, left, new
<1>6. /\ new.pc = "find" /\ new.op = "sync" /\ new.map = map /\ new.left = left
      /\ new.rest = <<>> /\ new.before = model /\ new.touched = {}
  BY <1>4, Parts
<1>7. left \in Seq(Slots) /\ IsInjective(left) /\ Range(left) = DOMAIN map
  <2>1. left \in Seq(DOMAIN map) /\ IsInjective(left) /\ Len(left) = Cardinality(DOMAIN map)
        /\ \A x \in DOMAIN map : \E p \in 1..Len(left) : left[p] = x
    BY <1>2 DEF Enumerates, IsInjective
  <2>2. left \in Seq(Slots)
    BY <1>3, <2>1
  <2>3. Range(left) = DOMAIN map
    BY <2>1, RangeWithin
  <2> QED
    BY <2>1, <2>2, <2>3
<1>8. IsWork(new)
  BY <1>3, <1>4, <1>6, <1>7 DEF IsWork
<1>9. Done(new, model)
  BY <1>6, <1>7 DEF Done
<1>10. tidy' =>
        /\ TwoModels(new) /\ Holds(new, model)
        /\ \A s \in Requests \ {r} : request[s].op = "sync" => request[s].map = new.map
  BY <1>1, <1>5, <1>6, <1>7, SyncsAre DEF TwoModels, Holds, Pair
<1>11. tidy /\ (\A s \in Requests \ {r} : ~Fills(request[s])) => Differ(model)
  BY <1>1 DEF FreeInv, TidyDiffers, Fills
<1> QED
  BY <1>1, <1>8, <1>9, <1>10, <1>11, QuietKeeps

LEMMA CreateBatchKeeps ==
    ASSUME FreeInv, NEW r \in Requests, NEW n \in Names, NEW b, CreateBatch(r, n, b)
    PROVE  FreeInv'
<1> DEFINE new == [NoWork EXCEPT !.pc = "create", !.op = n, !.rest = b]
<1>1. /\ request[r].pc = "idle" /\ request' = [request EXCEPT ![r] = new] /\ model' = model
      /\ tidy' = tidy
  BY DEF CreateBatch, Begin
<1>2. new = Work("create", n, <<>>, <<>>, b, <<>>, {})
  BY BatchIs, Zenon
<1> HIDE DEF new
<1>3. new.pc = "create" /\ new.op = n /\ n # "sync"
  BY <1>2, Parts DEF Names
<1>4. IsWork(new) /\ Done(new, model)
  BY <1>2, <1>3, Parts DEF IsWork, Done
<1>5. tidy /\ (\A s \in Requests \ {r} : ~Fills(request[s])) => Differ(model)
  BY <1>1 DEF FreeInv, TidyDiffers, Fills
<1> QED
  BY <1>1, <1>3, <1>4, <1>5, QuietKeeps

(***************************************************************************)
(* The aliases of the free models: statements that write an alias          *)
(***************************************************************************)
LEMMA UpsertKeeps ==
    ASSUME FreeInv, NEW r \in Requests, Upsert(r)
    PROVE  FreeInv'
<1> DEFINE old == request[r]
           slot == Head(old.left)
           rest == Tail(old.left)
           touched == old.touched \ {slot}
           new == [old EXCEPT !.left = Tail(@), !.touched = @ \ {slot}]
<1>1. /\ old.pc = "fill" /\ old.left # <<>> /\ tidy' = tidy
      /\ model' = [model EXCEPT ![slot] = old.map[slot]]
      /\ Wrote(r, {slot}, new)
  BY DEF Upsert, Pointed
<1>2. IsWork(old) /\ Done(old, model) /\ old.op = "sync"
  BY <1>1 DEF FreeInv, Shaped, Filling, IsWork
<1>3. old.left \in Seq(Slots) /\ IsInjective(old.left) /\ DOMAIN old.map \subseteq Slots
      /\ Range(old.left) \subseteq DOMAIN old.map
  BY <1>2 DEF IsWork
<1>4. /\ rest \in Seq(Slots) /\ IsInjective(rest)
      /\ slot \in Range(old.left) /\ Range(rest) = Range(old.left) \ {slot}
  BY <1>1, <1>3, TailIs
<1>5. new = Work(old.pc, old.op, old.map, rest, old.rest, old.before, touched)
  <2> DEFINE mid == [old EXCEPT !.left = rest]
  <2>1. mid = Work(old.pc, old.op, old.map, rest, old.rest, old.before, old.touched)
    <3> HIDE DEF rest
    <3> QED
      BY <1>2, Altered, Zenon DEF IsWork
  <2>2. new = [mid EXCEPT !.touched = touched]
    BY <1>2 DEF IsWork, Work
  <2> HIDE DEF mid, rest, touched
  <2>3. [mid EXCEPT !.touched = touched] =
           Work(old.pc, old.op, old.map, rest, old.rest, old.before, touched)
    BY <2>1 DEF Work
  <2> QED
    BY <2>2, <2>3, Zenon
<1> HIDE DEF slot, rest, touched, new
<1>6. /\ new.pc = "fill" /\ new.op = "sync" /\ new.map = old.map /\ new.left = rest
      /\ new.rest = old.rest /\ new.before = old.before /\ new.touched = touched
  BY <1>1, <1>2, <1>5, Parts
<1>7. IsWork(new)
  BY <1>1, <1>2, <1>3, <1>4, <1>5, <1>6 DEF IsWork
<1>8. model = [alias \in Aliases |-> model[alias]]
  BY DEF FreeInv, Shaped
<1>9. \A alias \in Aliases :
        model'[alias] = IF alias = slot THEN old.map[slot] ELSE model[alias]
  BY <1>1, <1>8
<1>10. Done(new, model')
  <2> SUFFICES ASSUME NEW alias \in Aliases \ touched
               PROVE  model'[alias] = IF alias \in DOMAIN old.map \ Range(rest)
                                      THEN old.map[alias] ELSE old.before[alias]
    BY <1>6 DEF Done
  <2>1. CASE alias = slot
    BY <1>3, <1>4, <1>9, <2>1
  <2>2. CASE alias # slot
    <3>1. model[alias] = IF alias \in DOMAIN old.map \ Range(old.left) THEN old.map[alias]
                         ELSE old.before[alias]
      BY <1>2, <2>2 DEF Done, touched
    <3> QED
      BY <1>4, <1>9, <2>2, <3>1
  <2> QED
    BY <2>1, <2>2
<1>11. tidy => /\ TwoModels(new) /\ Holds(new, model')
               /\ \A s \in Requests \ {r} : request[s].op = "sync" => request[s].map = new.map
  <2> SUFFICES ASSUME tidy PROVE /\ TwoModels(new) /\ Holds(new, model')
               /\ \A s \in Requests \ {r} : request[s].op = "sync" => request[s].map = new.map
    OBVIOUS
  <2>1. TwoModels(old) /\ \A s \in Requests : request[s].op = "sync" => request[s].map = old.map
    BY <1>2 DEF FreeInv, TidyRuns
  <2>2. \A place \in Pair \ Range(old.left) : model[place] = old.map[place]
    BY <1>2 DEF FreeInv, TidyHolds, Holds
  <2>3. Pair \subseteq Aliases
    BY DEF Pair, Aliases, Slots
  <2> QED
    BY <1>4, <1>6, <1>9, <2>1, <2>2, <2>3 DEF TwoModels, Holds
<1>12. tidy => \A place \in Pair \cap {slot}, s \in Requests \ {r} :
                  request[s].op = "sync" => model'[place] = request[s].map[place]
  <2>1. tidy => \A s \in Requests : request[s].op = "sync" => request[s].map = old.map
    BY <1>2 DEF FreeInv, TidyRuns
  <2> QED
    BY <1>9, <2>1 DEF Pair, Aliases, Slots
<1>13. model' = [alias \in Aliases |-> model'[alias]] /\ Fills(new)
  BY <1>1, <1>6, <1>8 DEF Fills
<1>14. \A alias \in Aliases \ {slot} : model'[alias] = model[alias]
  BY <1>9
<1> QED
  BY <1>1, <1>7, <1>10, <1>11, <1>12, <1>13, <1>14, StepKeeps

LEMMA BatchModelKeeps ==
    ASSUME FreeInv, NEW r \in Requests, BatchModel(r)
    PROVE  FreeInv'
<1> DEFINE old == request[r]
           alias == Head(old.rest)[1]
           m == Head(old.rest)[2]
           rest == Tail(old.rest)
           new == [old EXCEPT !.rest = Tail(@)]
<1>1. old.pc = "models"
  BY DEF BatchModel
<1>2. IsWork(old) /\ old.op # "sync"
  BY <1>1 DEF FreeInv, Shaped, IsWork
<1>3. CASE End(r) /\ UNCHANGED <<model, tidy>>
  BY <1>2, <1>3, EndKeeps DEF Fills
<1>4. CASE /\ model' = [model EXCEPT ![alias] = m]
           /\ Wrote(r, {alias}, new)
           /\ tidy' = (tidy /\ alias \notin Slots)
  <2>1. new = Work(old.pc, old.op, old.map, old.left, rest, old.before, old.touched)
    BY <1>2, Altered, Zenon DEF IsWork
  <2> HIDE DEF new, rest, alias, m
  <2>2. /\ new.pc = old.pc /\ new.op = old.op /\ new.map = old.map /\ new.left = old.left
        /\ new.rest = rest /\ new.before = old.before /\ new.touched = old.touched
    BY <2>1, Parts
  <2>3. IsWork(new) /\ Done(new, model') /\ new.op # "sync"
    BY <1>2, <2>1, <2>2 DEF IsWork, Done
  <2>4. model' = [a \in Aliases |-> model'[a]] /\ \A a \in Aliases \ {alias} : model'[a] = model[a]
    BY <1>4 DEF FreeInv, Shaped
  <2>5. tidy' => tidy /\ Pair \cap {alias} = {} /\ (Differ(model) => Differ(model'))
    BY <1>4, <2>4 DEF Pair, Slots, Aliases, Differ
  <2>6. tidy /\ (\A s \in Requests \ {r} : ~Fills(request[s])) => Differ(model)
    BY <1>2 DEF FreeInv, TidyDiffers, Fills
  <2> QED
    BY <1>4, <2>3, <2>4, <2>5, <2>6, StepKeeps
<1> QED
  BY <1>3, <1>4 DEF BatchModel

\* Administrators' other changes.
LEMMA EditKeeps ==
    ASSUME FreeInv, NEW aliases, Edit(aliases),
           model' = [alias \in Aliases |-> model'[alias]],
           \A alias \in Aliases \ aliases : model'[alias] = model[alias]
    PROVE  FreeInv'
<1>1. /\ request' = [r \in Requests |-> Touched(r, aliases)]
      /\ tidy' => tidy /\ aliases \cap Slots = {}
  BY DEF Edit
<1>2. \A s \in Requests :
        /\ IsWork(request'[s]) /\ request'[s].pc = request[s].pc /\ request'[s].op = request[s].op
        /\ request'[s].map = request[s].map /\ request'[s].left = request[s].left
        /\ Done(request'[s], model')
  BY <1>1, TouchedKeeps
<1>3. Shaped' /\ Filling'
  BY <1>1, <1>2 DEF Shaped, Filling
<1>4. TidyRuns'
  BY <1>1, <1>2 DEF FreeInv, TidyRuns, TwoModels
<1>5. tidy' => \A slot \in Pair : model'[slot] = model[slot]
  BY <1>1 DEF Pair, Slots, Aliases
<1>6. TidyHolds'
  BY <1>1, <1>2, <1>5 DEF FreeInv, TidyHolds, Holds
<1>7. TidyDiffers'
  BY <1>1, <1>2, <1>5 DEF FreeInv, TidyDiffers, Fills, Differ, Pair
<1> QED
  BY <1>3, <1>4, <1>6, <1>7 DEF FreeInv

(***************************************************************************)
(* The aliases of the free models: the invariant is inductive              *)
(***************************************************************************)
LEMMA FreeBegins == FreeInit => FreeInv
<1> SUFFICES ASSUME FreeInit PROVE FreeInv
  OBVIOUS
<1>1. \A r \in Requests : request[r] = NoWork
  BY DEF FreeInit
<1>2. Shaped
  BY <1>1, NoWorkIs DEF FreeInit, Shaped
<1>3. Filling /\ TidyRuns /\ TidyHolds
  BY <1>1, NoWorkIs DEF Filling, Done, TidyRuns, TidyHolds, Holds
<1>4. TidyDiffers
  BY DEF FreeInit, TidyDiffers, Differ, Aliases, Slots
<1> QED
  BY <1>2, <1>3, <1>4 DEF FreeInv

LEMMA FreeStep == FreeInv /\ [FreeNext]_freeVars => FreeInv'
<1> SUFFICES ASSUME FreeInv, [FreeNext]_freeVars PROVE FreeInv'
  OBVIOUS
<1>1. ASSUME NEW r \in Requests, NEW listing \in Offers, Fetch(r, listing) PROVE FreeInv'
  BY <1>1, FetchKeeps
<1>2. ASSUME NEW r \in Requests, FindProvider(r) PROVE FreeInv'
  <2>1. /\ request[r].pc = "find" /\ model' = model /\ tidy' = tidy
        /\ Goto(r, IF "openrouter" \in providers THEN "fill" ELSE "create")
    BY <1>2 DEF FindProvider
  <2>2. request[r].op = "sync"
    BY <2>1 DEF FreeInv, Shaped, IsWork
  <2> QED
    BY <2>1, <2>2, GotoKeeps
<1>3. ASSUME NEW r \in Requests, CreateProvider(r) PROVE FreeInv'
  <2>1. request[r].pc = "create" /\ request[r].op = "sync" /\ model' = model /\ tidy' = tidy
    BY <1>3 DEF CreateProvider
  <2>2. CASE End(r)
    BY <2>1, <2>2, EndKeeps DEF Fills
  <2>3. CASE Goto(r, "fill")
    BY <2>1, <2>3, GotoKeeps
  <2> QED
    BY <1>3, <2>2, <2>3 DEF CreateProvider
<1>4. ASSUME NEW r \in Requests, AnswerAliases(r) PROVE FreeInv'
  <2>1. /\ request[r].pc = "fill" /\ request[r].left = <<>> /\ End(r)
        /\ model' = model /\ tidy' = tidy
    BY <1>4 DEF AnswerAliases
  <2>2. tidy => /\ request[r].op = "sync" => TwoModels(request[r])
                /\ Holds(request[r], model)
    BY DEF FreeInv, TidyRuns, TidyHolds
  <2>3. Range(<<>>) = {}
    BY DEF Range
  <2>4. tidy /\ Fills(request[r]) => Differ(model)
    BY <2>1, <2>2, <2>3 DEF Fills, Holds, TwoModels, Pair, Differ
  <2> QED
    BY <2>1, <2>4, EndKeeps
<1>5. ASSUME NEW r \in Requests, NEW n \in Names, NEW b \in Batches, CreateBatch(r, n, b)
      PROVE  FreeInv'
  BY <1>5, CreateBatchKeeps
<1>6. ASSUME NEW r \in Requests, BatchProvider(r) PROVE FreeInv'
  <2>1. request[r].pc = "create" /\ request[r].op # "sync" /\ model' = model /\ tidy' = tidy
    BY <1>6 DEF BatchProvider
  <2>2. CASE End(r)
    BY <2>1, <2>2, EndKeeps DEF Fills
  <2>3. CASE Goto(r, "models")
    BY <2>1, <2>3, GotoKeeps
  <2> QED
    BY <1>6, <2>2, <2>3 DEF BatchProvider
<1>7. ASSUME NEW a \in Aliases, NEW b \in Aliases, RenameAlias(a, b) \/ RepointAlias(a, b)
      PROVE  FreeInv'
  <2>1. model = [alias \in Aliases |-> model[alias]]
    BY DEF FreeInv, Shaped
  <2>2. CASE RenameAlias(a, b)
    BY <2>1, <2>2, EditKeeps DEF RenameAlias
  <2>3. CASE RepointAlias(a, b)
    BY <2>1, <2>3, EditKeeps DEF RepointAlias
  <2> QED
    BY <1>7, <2>2, <2>3
<1>8. ASSUME NEW old \in Names, NEW new \in Names, RenameProvider(old, new) PROVE FreeInv'
  <2>1. model = [alias \in Aliases |-> model[alias]]
    BY DEF FreeInv, Shaped
  <2> QED
    BY <1>8, <2>1, EditKeeps DEF RenameProvider
<1>9. CASE Crash
  <2>1. /\ request' = [r \in Requests |-> NoWork] /\ model' = model
        /\ tidy' = (tidy /\ Syncs = {})
    BY <1>9 DEF Crash
  <2>2. \A r \in Requests : request'[r] = NoWork
    BY <2>1
  <2>3. Shaped' /\ Filling' /\ TidyRuns' /\ TidyHolds'
    BY <2>1, <2>2, NoWorkIs DEF FreeInv, Shaped, Filling, Done, TidyRuns, TidyHolds, Holds
  <2>4. TidyDiffers'
    BY <2>1, SyncsAre DEF FreeInv, TidyDiffers, Fills
  <2> QED
    BY <2>3, <2>4 DEF FreeInv
<1>10. CASE UNCHANGED freeVars
  BY <1>10 DEF freeVars, FreeInv, Shaped, Filling, TidyRuns, TidyHolds, TidyDiffers
<1> QED
  BY <1>1, <1>2, <1>3, <1>4, <1>5, <1>6, <1>7, <1>8, <1>9, <1>10, UpsertKeeps, BatchModelKeeps
  DEF FreeNext

(***************************************************************************)
(* The aliases of the free models: theorems                                *)
(***************************************************************************)
\* The invariant holds whatever requests and crashes come in between.
THEOREM FreeInvariance == FreeSpec => []FreeInv
<1>1. FreeInit => FreeInv
  BY FreeBegins
<1>2. FreeInv /\ [FreeNext]_freeVars => FreeInv'
  BY FreeStep
<1> QED
  BY <1>1, <1>2, PTL DEF FreeSpec

\* A sync fills its slots and touches no others, but for what others wrote since,
\* and the slots of every listing are those the ranking calls for.
THEOREM SyncAlwaysFills == FreeSpec => []SyncFills
<1>1. FreeInv => SyncFills
  <2> SUFFICES ASSUME FreeInv PROVE SyncFills
    OBVIOUS
  <2>1. \A l \in Listings : MapIsRight(l)
    BY AliasesAreRight, LegacyFreeAssumption
  <2>2. ASSUME NEW r \in Syncs, request[r].pc = "fill", request[r].left = <<>>,
               NEW alias \in Aliases \ request[r].touched
        PROVE  model[alias] = IF alias \in DOMAIN request[r].map
                              THEN request[r].map[alias] ELSE request[r].before[alias]
    <3>1. Done(request[r], model) /\ request[r].op = "sync"
      BY <2>2, SyncsAre DEF FreeInv, Filling
    <3>2. Range(<<>>) = {}
      BY DEF Range
    <3> QED
      BY <2>2, <3>1, <3>2 DEF Done
  <2> QED
    BY <2>1, <2>2 DEF SyncFills
<1> QED
  BY <1>1, FreeInvariance, PTL

\* "general" is another model than "best" after tidy syncs, whatever they were
\* given and however they overlapped.
THEOREM GeneralStaysAnother == FreeSpec => []GeneralDiffers
<1>1. FreeInv => GeneralDiffers
  BY SyncsAre DEF FreeInv, TidyDiffers, Fills, Differ, GeneralDiffers
<1> QED
  BY <1>1, FreeInvariance, PTL
=============================================================================
