----------------------------- MODULE ConfigSync -----------------------------
(***************************************************************************)
(* How one device gets its configuration: the control plane compiles the   *)
(* registry into numbered snapshots, and the node agent polls, installs,   *)
(* reloads, reports and remembers what it installed.                       *)
(*                                                                         *)
(* The control plane is one process with one sqlite3 connection that every *)
(* request thread shares without a lock.  A statement takes effect at once *)
(* for every thread (db); a commit by any of them makes everything done so *)
(* far durable (disk); a crash falls back to disk.  Each statement is one  *)
(* step, so two requests interleave between statements.                    *)
(*                                                                         *)
(* The compiled payload is abstracted to the values of its NParts inputs   *)
(* (device row, bindings with their models, provider rows), each read by a *)
(* statement of its own.  A snapshot's etag is a hash of its content and   *)
(* its version, so the pair the agent compares is the snapshot row itself. *)
(***************************************************************************)
EXTENDS Naturals, Sequences

CONSTANTS
    Handlers,    \* request threads that serve this device's agent endpoints
    NParts,      \* statements that one compilation reads
    Values,      \* what each of them may return
    NoHandler,   \* the agent waits for no request
    Corrupt,     \* an agent.json that no longer parses
    MaxEdits,    \* bound: registry edits by administrators
    MaxDeaths,   \* bound: ends of the agent process by an error or a kill
    MaxCrashes   \* bound: ends of the control plane process

ASSUME ConfigSyncAssumption ==
    /\ NParts \in Nat \ {0}
    /\ NoHandler \notin Handlers
    /\ MaxEdits \in Nat /\ MaxDeaths \in Nat /\ MaxCrashes \in Nat

Content == [1..NParts -> Values]
Row == [version : Nat \ {0}, content : Content]
NoRow == [version |-> 0, content |-> <<>>]
MaybeRow == Row \cup {NoRow}

ASSUME CorruptAssumption == Corrupt \notin MaybeRow

VARIABLES
    db,         \* what the shared connection sees: registry, snaps, current
    disk,       \* what the last commit on that connection made durable
    handler,    \* the request threads
    agent,      \* the agent process: its pc and local variables
    agentFile,  \* the stamp saved in agent.json
    output,     \* the snapshot openclaw.json was written from
    running,    \* the snapshot OpenClaw last reloaded
    reported,   \* the highest version reported as applied
    lost,       \* history: the snapshots that crashes undid
    budget      \* edits, agent deaths and server crashes so far

server == <<db, disk, handler>>
files == <<output, running>>
vars == <<db, disk, handler, agent, agentFile, files, reported, lost, budget>>

(***************************************************************************)
(* The snapshot table                                                      *)
(***************************************************************************)
Versions(snaps) == {r.version : r \in snaps}

\* SELECT * FROM config_snapshots ... ORDER BY version DESC LIMIT 1
LatestRow(snaps) ==
    IF snaps = {} THEN NoRow
    ELSE CHOOSE r \in snaps : \A s \in snaps : s.version <= r.version

\* UNIQUE(device_id, version)
MayInsert(snaps, row) == row.version \notin Versions(snaps)

(***************************************************************************)
(* Request threads                                                         *)
(***************************************************************************)
Idle == [pc |-> "idle", payload |-> <<>>, row |-> NoRow]

Step(h, pc, payload, row) ==
    handler' = [handler EXCEPT ![h] = [pc |-> pc, payload |-> payload, row |-> row]]

Waits(h) == agent.req = h

\* The agent's locals at the top of its loop, and when the process has ended.
AgentAt(pc, mem) ==
    [pc |-> pc, req |-> NoHandler, mem |-> mem, meta |-> NoRow, payload |-> NoRow]

DeadAgent == AgentAt("boot", NoRow)

\* compile_device_config: the next of the statements it reads from.
CompileRead(h) ==
    LET p == handler[h].payload
        q == Append(p, db.registry[Len(p) + 1])
    IN  /\ handler[h].pc = "compile"
        /\ Step(h, IF Len(q) = NParts THEN "save" ELSE "compile", q, NoRow)
        /\ UNCHANGED <<db, disk, agent, agentFile, files, reported, lost, budget>>

\* Mutant of LookupLatest: the answer may be any stored row, as without the
\* ORDER BY.
LookupAny(h) ==
    /\ handler[h].pc = "lookup"
    /\ IF db.snaps = {} THEN Step(h, "compile", <<>>, NoRow)
       ELSE \E r \in db.snaps : Step(h, "reply", <<>>, r)
    /\ UNCHANGED <<db, disk, agent, agentFile, files, reported, lost, budget>>

\* Mutant of LookupLatest: without a snapshot the answer is empty.
LookupNoFallback(h) ==
    /\ handler[h].pc = "lookup"
    /\ Step(h, "reply", <<>>, LatestRow(db.snaps))
    /\ UNCHANGED <<db, disk, agent, agentFile, files, reported, lost, budget>>

\* get_latest_config_snapshot; without a snapshot /config compiles the first.
LookupLatest(h) ==
    LET r == LatestRow(db.snaps)
    IN  /\ handler[h].pc = "lookup"
        /\ Step(h, IF r = NoRow THEN "compile" ELSE "reply", <<>>, r)
        /\ UNCHANGED <<db, disk, agent, agentFile, files, reported, lost, budget>>

\* Mutant of CompareLatest: a stored snapshot is answered whatever was compiled.
CompareNothing(h) ==
    LET r == LatestRow(db.snaps)
    IN  /\ handler[h].pc = "save"
        /\ Step(h, IF r # NoRow THEN "reply" ELSE "insert", handler[h].payload, r)
        /\ UNCHANGED <<db, disk, agent, agentFile, files, reported, lost, budget>>

\* save_config_snapshot, first statement: an unchanged payload is answered
\* from the latest row, a changed one is to become that row's successor.
CompareLatest(h) ==
    LET p == handler[h].payload
        r == LatestRow(db.snaps)
    IN  /\ handler[h].pc = "save"
        /\ Step(h, IF r.content = p THEN "reply" ELSE "insert", p, r)
        /\ UNCHANGED <<db, disk, agent, agentFile, files, reported, lost, budget>>

NextRow(h) ==
    [version |-> handler[h].row.version + 1, content |-> handler[h].payload]

\* Mutant of InsertSnapshot: INSERT OR REPLACE.
InsertOrReplace(h) ==
    /\ handler[h].pc = "insert"
    /\ db' = [db EXCEPT !.snaps =
                {r \in @ : r.version # NextRow(h).version} \cup {NextRow(h)}]
    /\ Step(h, "update", <<>>, NextRow(h))
    /\ UNCHANGED <<disk, agent, agentFile, files, reported, lost, budget>>

InsertSnapshot(h) ==
    /\ handler[h].pc = "insert"
    /\ MayInsert(db.snaps, NextRow(h))
    /\ db' = [db EXCEPT !.snaps = @ \cup {NextRow(h)}]
    /\ Step(h, "update", <<>>, NextRow(h))
    /\ UNCHANGED <<disk, agent, agentFile, files, reported, lost, budget>>

\* Mutant of InsertConflict: the conflict is swallowed, as by INSERT OR IGNORE.
InsertOrIgnore(h) ==
    /\ handler[h].pc = "insert"
    /\ ~MayInsert(db.snaps, NextRow(h))
    /\ Step(h, "reply", <<>>, NextRow(h))
    /\ UNCHANGED <<db, disk, agent, agentFile, files, reported, lost, budget>>

\* The INSERT raises IntegrityError: the request answers 500, and the agent
\* that waits for it ends.
InsertConflict(h) ==
    /\ handler[h].pc = "insert"
    /\ ~MayInsert(db.snaps, NextRow(h))
    /\ handler' = [handler EXCEPT ![h] = Idle]
    /\ agent' = IF Waits(h) THEN DeadAgent ELSE agent
    /\ UNCHANGED <<db, disk, agentFile, files, reported, lost, budget>>

\* UPDATE devices SET current_config_version
PointDevice(h) ==
    /\ handler[h].pc = "update"
    /\ db' = [db EXCEPT !.current = handler[h].row.version]
    /\ Step(h, "commit", <<>>, handler[h].row)
    /\ UNCHANGED <<disk, agent, agentFile, files, reported, lost, budget>>

CommitSnapshot(h) ==
    /\ handler[h].pc = "commit"
    /\ disk' = db
    /\ Step(h, "reply", <<>>, handler[h].row)
    /\ UNCHANGED <<db, agent, agentFile, files, reported, lost, budget>>

\* The answer reaches the agent if it still waits for this request.
Reply(h) ==
    /\ handler[h].pc = "reply"
    /\ handler' = [handler EXCEPT ![h] = Idle]
    /\ agent' = IF ~Waits(h) THEN agent
                ELSE IF agent.pc = "meta"
                THEN [agent EXCEPT !.pc = "decide", !.req = NoHandler,
                                   !.meta = handler[h].row]
                ELSE [agent EXCEPT !.pc = "install", !.req = NoHandler,
                                   !.payload = handler[h].row]
    /\ UNCHANGED <<db, disk, agentFile, files, reported, lost, budget>>

HandlerStep(h) ==
    \/ CompileRead(h)
    \/ LookupLatest(h)
    \/ CompareLatest(h)
    \/ InsertSnapshot(h)
    \/ InsertConflict(h)
    \/ PointDevice(h)
    \/ CommitSnapshot(h)
    \/ Reply(h)

(***************************************************************************)
(* The rest of the control plane                                           *)
(***************************************************************************)
\* A statement of an admin request changes what compilations read.
AdminEdit ==
    /\ budget.edits < MaxEdits
    /\ \E c \in Content \ {db.registry} : db' = [db EXCEPT !.registry = c]
    /\ budget' = [budget EXCEPT !.edits = @ + 1]
    /\ UNCHANGED <<disk, handler, agent, agentFile, files, reported, lost>>

\* The commit that ends an admin request, or any other on the connection.
OtherCommit ==
    /\ disk # db
    /\ disk' = db
    /\ UNCHANGED <<db, handler, agent, agentFile, files, reported, lost, budget>>

\* The process ends and starts again on what was committed; every request
\* in flight fails.
ServerCrash ==
    /\ budget.crashes < MaxCrashes
    /\ budget' = [budget EXCEPT !.crashes = @ + 1]
    /\ db' = disk
    /\ lost' = lost \cup (db.snaps \ disk.snaps)
    /\ handler' = [h \in Handlers |-> Idle]
    /\ agent' = IF agent.req # NoHandler THEN DeadAgent ELSE agent
    /\ UNCHANGED <<disk, agentFile, files, reported>>

(***************************************************************************)
(* The agent                                                               *)
(***************************************************************************)
\* handle_run: load_agent_config raises on a file that does not parse, and
\* the service manager restarts the process for ever.
AgentBoot ==
    /\ agent.pc = "boot"
    /\ agentFile # Corrupt
    /\ agent' = AgentAt("idle", agentFile)
    /\ UNCHANGED <<server, agentFile, files, reported, lost, budget>>

Request(h, pc, start) ==
    /\ handler[h].pc = "idle"
    /\ Step(h, start, <<>>, NoRow)
    /\ agent' = [agent EXCEPT !.pc = pc, !.req = h]
    /\ UNCHANGED <<db, disk, agentFile, files, reported, lost, budget>>

\* GET /agent/v1/config/meta
PollMeta(h) == agent.pc = "idle" /\ Request(h, "meta", "compile")

Unchanged ==
    /\ agent.pc = "decide"
    /\ agent.meta = agent.mem
    /\ agent' = AgentAt("idle", agent.mem)
    /\ UNCHANGED <<server, agentFile, files, reported, lost, budget>>

\* Mutant of FetchConfig: the stamp is remembered when the difference is seen.
RememberThenFetch(h) ==
    /\ agent.pc = "decide" /\ agent.meta # agent.mem
    /\ handler[h].pc = "idle"
    /\ Step(h, "lookup", <<>>, NoRow)
    /\ agent' = [agent EXCEPT !.pc = "config", !.req = h, !.mem = agent.meta]
    /\ UNCHANGED <<db, disk, agentFile, files, reported, lost, budget>>

\* GET /agent/v1/config
FetchConfig(h) ==
    /\ agent.pc = "decide"
    /\ agent.meta # agent.mem
    /\ Request(h, "config", "lookup")

\* Mutant of InstallOutput: the reload is forgotten.
InstallWithoutReload ==
    /\ agent.pc = "install"
    /\ output' = agent.payload
    /\ agent' = [agent EXCEPT !.pc = "report"]
    /\ UNCHANGED <<server, agentFile, running, reported, lost, budget>>

\* write_openclaw_config ends with os.replace: the file is old or new.  The
\* preserve rules it merges by (write_preserve_sidecar) are not modelled here.
InstallOutput ==
    /\ agent.pc = "install"
    /\ output' = agent.payload
    /\ agent' = [agent EXCEPT !.pc = "reload"]
    /\ UNCHANGED <<server, agentFile, running, reported, lost, budget>>

Reload ==
    /\ agent.pc = "reload"
    /\ running' = output
    /\ agent' = [agent EXCEPT !.pc = "report"]
    /\ UNCHANGED <<server, agentFile, output, reported, lost, budget>>

\* POST /agent/v1/config/applied carries the version of the meta answer.
\* After it the stamp is assigned in memory, before it is saved.
ReportApplied ==
    /\ agent.pc = "report"
    /\ reported' = IF agent.meta.version > reported THEN agent.meta.version ELSE reported
    /\ agent' = [agent EXCEPT !.pc = "truncate", !.mem = agent.meta]
    /\ UNCHANGED <<server, agentFile, files, lost, budget>>

\* save_agent_config: write_text first truncates agent.json ...
TruncateFile ==
    /\ agent.pc = "truncate"
    /\ agentFile' = Corrupt
    /\ agent' = [agent EXCEPT !.pc = "write"]
    /\ UNCHANGED <<server, files, reported, lost, budget>>

\* ... and then writes it.
WriteFile ==
    /\ agent.pc = "write"
    /\ agentFile' = agent.mem
    /\ agent' = AgentAt("idle", agent.mem)
    /\ UNCHANGED <<server, files, reported, lost, budget>>

\* run_sync_loop catches nothing: an error answer, a timeout, a failed reload
\* command or a kill ends the process wherever it is.  The request it waited
\* for keeps running.
AgentDies ==
    /\ agent.pc # "boot"
    /\ budget.deaths < MaxDeaths
    /\ budget' = [budget EXCEPT !.deaths = @ + 1]
    /\ agent' = DeadAgent
    /\ UNCHANGED <<server, agentFile, files, reported, lost>>

AgentStep ==
    \/ AgentBoot
    \/ \E h \in Handlers : PollMeta(h) \/ FetchConfig(h)
    \/ Unchanged
    \/ InstallOutput
    \/ Reload
    \/ ReportApplied
    \/ TruncateFile
    \/ WriteFile

Init ==
    /\ \E c \in Content : db = [registry |-> c, snaps |-> {}, current |-> 0]
    /\ disk = db
    /\ handler = [h \in Handlers |-> Idle]
    /\ agent = DeadAgent
    /\ agentFile = NoRow
    /\ output = NoRow /\ running = NoRow
    /\ reported = 0
    /\ lost = {}
    /\ budget = [edits |-> 0, deaths |-> 0, crashes |-> 0]

Next ==
    \/ \E h \in Handlers : HandlerStep(h)
    \/ AgentStep
    \/ AgentDies
    \/ AdminEdit
    \/ OtherCommit
    \/ ServerCrash

Spec == Init /\ [][Next]_vars

\* Request threads run on, the agent's loop never stops by itself, and an
\* admin request that changed something goes on to its commit.
FairSpec ==
    /\ Spec
    /\ \A h \in Handlers : WF_vars(HandlerStep(h))
    /\ WF_vars(AgentStep)
    /\ WF_vars(OtherCommit)

(***************************************************************************)
(* Properties                                                              *)
(***************************************************************************)
HandlerPc == {"idle", "compile", "lookup", "save", "insert", "update", "commit", "reply"}
AgentPc == {"boot", "idle", "meta", "decide", "config", "install", "reload",
            "report", "truncate", "write"}

Store == [registry : Content, snaps : SUBSET Row, current : Nat]
Agent == [pc : AgentPc, req : Handlers \cup {NoHandler},
          mem : MaybeRow, meta : MaybeRow, payload : MaybeRow]
Budget == [edits : 0..MaxEdits, deaths : 0..MaxDeaths, crashes : 0..MaxCrashes]

\* Every variable has the shape its comment gives it; a request past the
\* compile loop holds a full payload and one that inserted holds its row.
TypeOK ==
    /\ db \in Store
    /\ disk \in Store
    /\ handler \in [Handlers -> [pc : HandlerPc, payload : Seq(Values), row : MaybeRow]]
    /\ \A h \in Handlers :
        /\ handler[h].pc = "compile" => Len(handler[h].payload) < NParts
        /\ handler[h].pc \in {"save", "insert"} => Len(handler[h].payload) = NParts
        /\ handler[h].pc \in {"update", "commit", "reply"} => handler[h].row \in Row
    /\ agent \in Agent
    /\ agentFile \in MaybeRow \cup {Corrupt}
    /\ output \in MaybeRow
    /\ running \in MaybeRow
    /\ reported \in Nat
    /\ lost \in SUBSET Row
    /\ budget \in Budget

\* The versions of a device are 1, 2, ..., n.
Gapless(snaps) == \E n \in {0} \cup Versions(snaps) : Versions(snaps) = 1..n

\* A version names one content.
UniqueVersions(snaps) == \A r, s \in snaps : r.version = s.version => r = s

\* The version does not move while the content stays the same.
AdjacentDiffer(snaps) ==
    \A r, s \in snaps : s.version = r.version + 1 => s.content # r.content

\* However requests interleave and wherever the process crashes, a device's
\* snapshots are one gapless history whose neighbours differ, as the threads
\* see it and as a restart finds it (save_config_snapshot; README.md:65).
SnapshotHistory ==
    \A t \in {db.snaps, disk.snaps} :
        Gapless(t) /\ UniqueVersions(t) /\ AdjacentDiffer(t)

\* The version shown for a device is one that exists, also after a crash
\* between the two statements of save_config_snapshot.
CurrentPublished ==
    /\ db.current \in {0} \cup Versions(db.snaps)
    /\ disk.current \in {0} \cup Versions(disk.snaps)
    /\ disk.snaps \subseteq db.snaps

\* What the requests in flight know: the row to succeed was the latest, and
\* differs; the row to answer with is stored.
HandlerKnows ==
    \A h \in Handlers :
        /\ handler[h].pc = "insert" =>
            /\ handler[h].row \in db.snaps \cup {NoRow}
            /\ handler[h].row.content # handler[h].payload
        /\ handler[h].pc \in {"update", "commit", "reply"} => handler[h].row \in db.snaps

\* The inductive invariant of the store: types are part of it because the
\* latest row of a table with gaps need not exist.
StoreInv == TypeOK /\ SnapshotHistory /\ CurrentPublished /\ HandlerKnows

\* What a device holds, runs or remembers is a snapshot the control plane
\* stored, never a payload whose insertion failed.
InstalledPublished ==
    {output, running, agent.mem, agent.meta, agent.payload} \cup ({agentFile} \ {Corrupt})
        \subseteq db.snaps \cup lost \cup {NoRow}

\* sync_once takes the version from /config/meta and the payload from a later
\* /config: as long as no crash undid a snapshot, what it remembers is never
\* newer than what it installed, so a mismatch is repaired by the next poll.
RecordedInstalled ==
    lost = {} =>
        /\ agent.mem.version <= output.version
        /\ agentFile # Corrupt => agentFile.version <= output.version

\* A version is reported as applied only once OpenClaw has reloaded it or a
\* newer one.
ReportedRunning == lost = {} => reported <= running.version

Latest == LatestRow(db.snaps).version

Requests == {"meta", "config"}

\* What the agent's steps rely on while no snapshot was undone: the answers it
\* got and the files it wrote are ordered by version along its loop.
AgentKnows ==
    /\ agent.req # NoHandler => agent.pc \in Requests
    /\ agent.pc = "install" => agent.payload \in Row
    /\ lost = {} =>
        /\ running.version <= output.version
        /\ output.version <= Latest
        /\ agent.pc \in {"decide", "config", "install"} => agent.meta.version <= Latest
        /\ \A h \in Handlers :
            (/\ agent.pc = "config" /\ Waits(h)
             /\ handler[h].pc \in {"update", "commit", "reply"}) =>
                /\ handler[h].row.version >= agent.meta.version
                /\ handler[h].row.version >= output.version
        /\ agent.pc = "install" =>
            /\ agent.payload.version >= agent.meta.version
            /\ agent.payload.version >= output.version
            /\ agent.payload.version <= Latest
        /\ agent.pc \in {"reload", "report"} => agent.meta.version <= output.version
        /\ agent.pc = "report" => agent.meta.version <= running.version

AgentInv == InstalledPublished /\ RecordedInstalled /\ ReportedRunning /\ AgentKnows

\* The inductive invariant of the whole protocol.
SyncInv == StoreInv /\ AgentInv

\* The installed file and the loaded configuration never go back to an older
\* snapshot, whatever requests, deaths and restarts interleave.
NeverGoesBack ==
    [][lost' = {} => /\ output'.version >= output.version
                     /\ running'.version >= running.version]_vars

\* Once edits, deaths and crashes are over, the device ends up running what
\* the registry says -- unless the agent was killed while it rewrote
\* agent.json, or a crash undid a snapshot.
Converges ==
    <>[](\/ agentFile = Corrupt
         \/ lost # {}
         \/ running.content = db.registry)

(***************************************************************************)
(* The promise this implements                                             *)
(***************************************************************************)
LogOf(snaps) ==
    [v \in 1..LatestRow(snaps).version |->
        (CHOOSE r \in snaps : r.version = v).content]

History == INSTANCE ConfigHistory WITH
    Contents <- Content,
    history <- LogOf(db.snaps),
    durable <- LogOf(disk.snaps),
    intact <- (lost = {}),
    installed <- output.version

\* With its threads, commits, crashes and retries, the sync protocol is one
\* growing log that the device follows forward.
ImplementsHistory == History!Spec
=============================================================================
