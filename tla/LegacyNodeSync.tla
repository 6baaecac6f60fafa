--------------------------- MODULE LegacyNodeSync ---------------------------
(***************************************************************************)
(* How the legacy control plane (control_plane/) hands a node its file:    *)
(* GET /nodes/{id}/openclaw-json compiles the node's profile, stores the   *)
(* result as a version and answers it, or 304 to the ETag of that version; *)
(* scripts/node_sync_agent.py polls, writes the file and reloads OpenClaw. *)
(*                                                                         *)
(* One sqlite3 connection serves all request threads.  Writers hold a lock *)
(* from their first statement to their commit; readers do not take it, and *)
(* the comparison that decides what to insert is a read.  Nothing here     *)
(* crashes but the script: ConfigSync has the control plane's crashes.     *)
(*                                                                         *)
(* One node is modelled.  Its payload is abstracted to the profile, the    *)
(* node's active flag, the models that are switched on, and generated_at.  *)
(* An ETag is a hash of the payload and the version, so it stands for the  *)
(* stored row itself.                                                      *)
(***************************************************************************)
EXTENDS Naturals, Sequences

CONSTANTS
    Handlers,      \* request threads
    Profiles,
    Models,
    BindingLists,  \* the lists of models an administrator binds to a profile
    Bound,         \* what the profiles have at first
    None,          \* no row, no save, no request
    MaxSeconds,    \* bound: the clock
    MaxEdits,      \* bound: administrators' requests
    MaxFaults      \* bound: timeouts, failed writes and reloads, restarts

LegacyNodeSyncAssumption ==
    /\ BindingLists \subseteq Seq(Models)
    /\ Bound \in [Profiles -> SUBSET Models]
    /\ {MaxSeconds, MaxEdits, MaxFaults} \subseteq Nat

ASSUME LegacyNodeSyncAssumption

Payload ==
    [profile : Profiles, active : BOOLEAN, models : SUBSET Models, at : 0..MaxSeconds]

Row == [version : Nat \ {0}, payload : Payload]

ASSUME NoneAssumption == None \notin Row /\ None \notin Handlers

VARIABLES
    db,        \* the node's row, the bindings, the models that are off
    rows,      \* node_config_versions of the node
    saving,    \* under the lock: the bindings still to insert; or None
    clock,     \* in seconds, as generated_at has it
    handler,   \* the request threads
    script,    \* the script's sync_once and its loop
    file,      \* the row that openclaw.json was written from
    running,   \* the row that OpenClaw reloaded last
    budget     \* what is left of the bounds

vars == <<db, rows, saving, clock, handler, script, file, running, budget>>

onNode == <<script, file, running>>

(***************************************************************************)
(* The table of versions                                                   *)
(***************************************************************************)
Versions == {r.version : r \in rows}

\* get_latest_node_version
LatestRow ==
    IF rows = {} THEN None
    ELSE CHOOSE r \in rows : \A s \in rows : s.version <= r.version

\* Mutant of MayInsert: no constraint.
MayInsertAnything(version) == TRUE

\* UNIQUE(node_id, version)
MayInsert(version) == version \notin Versions

(***************************************************************************)
(* Administrators                                                          *)
(***************************************************************************)
Edits ==
    /\ budget.edits > 0
    /\ budget' = [budget EXCEPT !.edits = @ - 1]

Unlocked == saving = None

\* set_profile_bindings: nobody else writes until its commit, everybody reads.
DeleteBindings(p, list) ==
    /\ Unlocked
    /\ Edits
    /\ db' = [db EXCEPT !.bound[p] = {}]
    /\ saving' = [profile |-> p, left |-> list]
    /\ UNCHANGED <<rows, clock, handler, onNode>>

InsertBinding ==
    /\ ~ Unlocked
    /\ saving.left # <<>>
    /\ Head(saving.left) \notin db.bound[saving.profile]
    /\ db' = [db EXCEPT !.bound[saving.profile] = @ \cup {Head(saving.left)}]
    /\ saving' = [saving EXCEPT !.left = Tail(@)]
    /\ UNCHANGED <<rows, clock, handler, onNode, budget>>

\* The commit, or the error that a repeated model is.
EndBindings ==
    /\ ~ Unlocked
    /\ saving.left # <<>> => Head(saving.left) \in db.bound[saving.profile]
    /\ saving' = None
    /\ UNCHANGED <<db, rows, clock, handler, onNode, budget>>

\* update_model
SwitchModel(m) ==
    /\ Unlocked
    /\ Edits
    /\ db' = [db EXCEPT !.off = IF m \in @ THEN @ \ {m} ELSE @ \cup {m}]
    /\ UNCHANGED <<rows, saving, clock, handler, onNode>>

\* update_node
UpdateNode(profile, active) ==
    /\ Unlocked
    /\ Edits
    /\ db' = [db EXCEPT !.profile = profile, !.active = active]
    /\ UNCHANGED <<rows, saving, clock, handler, onNode>>

\* rotate_node_token
RotateToken ==
    /\ Unlocked
    /\ Edits
    /\ db' = [db EXCEPT !.token = @ + 1]
    /\ UNCHANGED <<rows, saving, clock, handler, onNode>>

Tick ==
    /\ clock < MaxSeconds
    /\ clock' = clock + 1
    /\ UNCHANGED <<db, rows, saving, handler, onNode, budget>>

(***************************************************************************)
(* The request.  It compares with the latest version, inserts the next one *)
(* if that is different, and reads the latest version again to answer it.  *)
(***************************************************************************)
Idle == [pc |-> "idle", token |-> 0, etag |-> None, profile |-> None, active |-> FALSE,
         models |-> {}, payload |-> None, row |-> None]

At(h, pc) == handler[h].pc = pc

Server(h, thread) ==
    /\ handler' = [handler EXCEPT ![h] = thread]
    /\ UNCHANGED <<db, saving, clock, budget>>

\* require_node_or_admin
Verify(h) ==
    /\ At(h, "verify")
    /\ Server(h, [Idle EXCEPT !.etag = handler[h].etag,
           !.pc = IF db.active /\ handler[h].token = db.token THEN "node" ELSE "refused"])
    /\ UNCHANGED <<rows, onNode>>

ReadNode(h) ==
    /\ At(h, "node")
    /\ Server(h, [handler[h] EXCEPT !.pc = "models", !.profile = db.profile,
                                    !.active = db.active])
    /\ UNCHANGED <<rows, onNode>>

\* get_models_for_profile, one statement, and what is skipped afterwards.
ReadModels(h) ==
    /\ At(h, "models")
    /\ Server(h, [handler[h] EXCEPT !.pc = "stamp",
                                    !.models = db.bound[handler[h].profile] \ db.off])
    /\ UNCHANGED <<rows, onNode>>

\* Mutant of Stamped: the payload says nothing of when it was compiled.
NotStamped(h) ==
    [profile |-> handler[h].profile, active |-> handler[h].active,
     models |-> handler[h].models, at |-> 0]

\* generated_at is part of the payload, and of what is hashed.
Stamped(h) ==
    [profile |-> handler[h].profile, active |-> handler[h].active,
     models |-> handler[h].models, at |-> clock]

Replies(h, row) == [Idle EXCEPT !.pc = "reply", !.etag = handler[h].etag, !.row = row]

Stamp(h) ==
    /\ At(h, "stamp")
    /\ Server(h, [handler[h] EXCEPT !.pc = "compare", !.payload = Stamped(h),
                                    !.profile = None, !.active = FALSE, !.models = {}])
    /\ UNCHANGED <<rows, onNode>>

\* The same payload is not stored again; else the next version is remembered.
Compare(h) ==
    LET same == LatestRow # None /\ LatestRow.payload = handler[h].payload
    IN  /\ At(h, "compare")
        /\ Server(h, IF same THEN Replies(h, LatestRow)
                     ELSE [handler[h] EXCEPT !.pc = "insert", !.row = LatestRow])
        /\ UNCHANGED <<rows, onNode>>

\* Mutant of NextVersion: versions begin with 0.
NextVersionFromZero(h) == IF handler[h].row = None THEN 0 ELSE handler[h].row.version + 1

NextVersion(h) == IF handler[h].row = None THEN 1 ELSE handler[h].row.version + 1

Insert(h) ==
    /\ At(h, "insert")
    /\ Unlocked
    /\ MayInsert(NextVersion(h))
    /\ rows' = rows \cup {[version |-> NextVersion(h), payload |-> handler[h].payload]}
    /\ Server(h, [Idle EXCEPT !.pc = "reread", !.etag = handler[h].etag])
    /\ UNCHANGED onNode

\* Another thread took the version: 400.
Conflict(h) ==
    /\ At(h, "insert")
    /\ Unlocked
    /\ ~ MayInsert(NextVersion(h))
    /\ Server(h, [Idle EXCEPT !.pc = "refused"])
    /\ UNCHANGED <<rows, onNode>>

\* The row that is answered is the latest, which may be another thread's.
Reread(h) ==
    /\ At(h, "reread")
    /\ Server(h, Replies(h, LatestRow))
    /\ UNCHANGED <<rows, onNode>>

(***************************************************************************)
(* The script                                                              *)
(***************************************************************************)
AtPc(pc) == script.pc = pc

NotModified(h) == handler[h].etag = handler[h].row

Receive(h) ==
    script' = IF At(h, "refused") \/ NotModified(h)
              THEN [script EXCEPT !.req = None, !.pc = "idle"]
              ELSE [script EXCEPT !.req = None, !.pc = "write", !.got = handler[h].row]

\* Mutant of Answers: the script takes the next answer for its own.
AnswersAnybody(h) == AtPc("wait")

\* Only the script's last request is answered to it.  An administrator's, and
\* one that the script gave up, is answered to nobody here.
Answers(h) == script.req = h

Answer(h) ==
    /\ At(h, "reply") \/ At(h, "refused")
    /\ Server(h, Idle)
    /\ IF Answers(h) THEN Receive(h) ELSE script' = script
    /\ UNCHANGED <<rows, file, running>>

\* The thread takes the script's request.
Poll(h) ==
    /\ AtPc("idle")
    /\ At(h, "idle")
    /\ script' = [script EXCEPT !.pc = "wait", !.req = h]
    /\ Server(h, [Idle EXCEPT !.pc = "verify", !.token = script.token, !.etag = script.etag])
    /\ UNCHANGED <<rows, file, running>>

\* An administrator looks at the node's file.
AdminGet(h) ==
    /\ At(h, "idle")
    /\ Edits
    /\ handler' = [handler EXCEPT ![h] = [Idle EXCEPT !.pc = "node"]]
    /\ UNCHANGED <<db, rows, saving, clock, onNode>>

Faults ==
    /\ budget.faults > 0
    /\ budget' = [budget EXCEPT !.faults = @ - 1]

\* The thread goes on, and its answer is lost.
TimeOut ==
    /\ AtPc("wait")
    /\ Faults
    /\ script' = [script EXCEPT !.pc = "idle", !.req = None]
    /\ UNCHANGED <<db, rows, saving, clock, handler, file, running>>

\* Mutant of Write: the ETag is kept before the file is there.
WriteAfterEtag ==
    /\ AtPc("write")
    /\ IF script.etag # script.got
       THEN script' = [script EXCEPT !.etag = script.got] /\ file' = file
       ELSE script' = [script EXCEPT !.pc = "reload", !.got = None] /\ file' = script.got
    /\ UNCHANGED <<db, rows, saving, clock, handler, running, budget>>

\* atomic_write_json; then main has the new ETag.
Write ==
    /\ AtPc("write")
    /\ file' = script.got
    /\ script' = [script EXCEPT !.pc = "reload", !.etag = script.got, !.got = None]
    /\ UNCHANGED <<db, rows, saving, clock, handler, running, budget>>

WriteFails ==
    /\ AtPc("write")
    /\ Faults
    /\ script' = [script EXCEPT !.pc = "idle", !.got = None]
    /\ UNCHANGED <<db, rows, saving, clock, handler, file, running>>

Reload ==
    /\ AtPc("reload")
    /\ running' = file
    /\ script' = [script EXCEPT !.pc = "idle"]
    /\ UNCHANGED <<db, rows, saving, clock, handler, file, budget>>

\* The loop prints the error; the clock has not stopped yet (see Settles).
ReloadFails ==
    /\ AtPc("reload")
    /\ clock < MaxSeconds
    /\ Faults
    /\ script' = [script EXCEPT !.pc = "idle"]
    /\ UNCHANGED <<db, rows, saving, clock, handler, file, running>>

Boot(token) == [pc |-> "idle", token |-> token, req |-> None, etag |-> None, got |-> None]

\* The script is killed and started anew, with the token of the day.
Restart ==
    /\ Faults
    /\ script' = Boot(db.token)
    /\ UNCHANGED <<db, rows, saving, clock, handler, file, running>>

(***************************************************************************)
(* Specification                                                           *)
(***************************************************************************)
Init ==
    /\ \E p \in Profiles :
          db = [profile |-> p, active |-> TRUE, token |-> 1, bound |-> Bound, off |-> {}]
    /\ rows = {}
    /\ saving = None
    /\ clock = 0
    /\ handler = [h \in Handlers |-> Idle]
    /\ script = Boot(1)
    /\ file = None
    /\ running = None
    /\ budget = [edits |-> MaxEdits, faults |-> MaxFaults]

Admin ==
    \/ \E p \in Profiles, list \in BindingLists : DeleteBindings(p, list)
    \/ \E m \in Models : SwitchModel(m)
    \/ \E p \in Profiles, active \in BOOLEAN : UpdateNode(p, active)
    \/ RotateToken
    \/ \E h \in Handlers : AdminGet(h)

GoOn == InsertBinding \/ EndBindings

Request(h) ==
    \/ Verify(h)
    \/ ReadNode(h)
    \/ ReadModels(h)
    \/ Stamp(h)
    \/ Compare(h)
    \/ Insert(h)
    \/ Conflict(h)
    \/ Reread(h)
    \/ Answer(h)

Script == Write \/ Reload \/ \E h \in Handlers : Poll(h)

Fault == TimeOut \/ WriteFails \/ ReloadFails \/ Restart

Next == Admin \/ GoOn \/ Tick \/ (\E h \in Handlers : Request(h)) \/ Script \/ Fault

\* The lock is given back, threads go on, the script's loop has no end, and a
\* second ends.
Fairness ==
    /\ WF_vars(GoOn)
    /\ \A h \in Handlers : WF_vars(Request(h))
    /\ WF_vars(Script)
    /\ WF_vars(Tick)

Spec == Init /\ [][Next]_vars

FairSpec == Spec /\ Fairness

(***************************************************************************)
(* Properties                                                              *)
(***************************************************************************)
Locals ==
    [pc : {"idle", "verify", "node", "models", "stamp", "compare", "insert", "reread",
           "reply", "refused"},
     token : Nat, etag : Row \cup {None}, profile : Profiles \cup {None}, active : BOOLEAN,
     models : SUBSET Models, payload : Payload \cup {None}, row : Row \cup {None}]

\* What a thread needs at its next statement it has.
Threads ==
    {t \in Locals :
        /\ t.pc \in {"models", "stamp"} => t.profile \in Profiles
        /\ t.pc \in {"compare", "insert"} => t.payload \in Payload
        /\ t.pc = "reply" => t.row \in Row}

TypeOK ==
    /\ db \in [profile : Profiles, active : BOOLEAN, token : Nat,
               bound : [Profiles -> SUBSET Models], off : SUBSET Models]
    /\ rows \subseteq Row
    /\ saving = None \/ saving \in [profile : Profiles, left : Seq(Models)]
    /\ clock \in 0..MaxSeconds
    /\ handler \in [Handlers -> Threads]
    /\ script \in [pc : {"idle", "wait", "write", "reload"}, token : Nat,
                   req : Handlers \cup {None}, etag : Row \cup {None}, got : Row \cup {None}]
    /\ AtPc("write") => script.got \in Row
    /\ file \in Row \cup {None}
    /\ running \in Row \cup {None}
    /\ budget \in [edits : Nat, faults : Nat]

\* Versions are unique, although threads compute them from a row they read
\* before they took the lock, and two neighbours never hold the same payload.
VersionHistory ==
    \A r, s \in rows :
        /\ r.version = s.version => r = s
        /\ r.version + 1 = s.version => r.payload # s.payload

\* What the script believes to have is what it has: a 304 never leaves the node
\* with another file than the one that was stored as the answered version.
EtagNamesFile == script.etag # None => script.etag = file

Version(row) == IF row = None THEN 0 ELSE row.version

\* The node's file, and what OpenClaw runs, never go back to an older version,
\* whichever threads answer, and over timeouts and restarts of the script.
FileForward ==
    [][/\ Version(file) <= Version(file')
       /\ Version(running) <= Version(running')]_vars

\* OpenClaw ends up with the current models, if the script's token is good in
\* the end: also after a reload that failed, which nothing but the next second's
\* new version repeats.
Settles ==
    <>[](db.active /\ script.token = db.token) =>
    <>[](/\ running # None
         /\ running.payload.profile = db.profile
         /\ running.payload.active
         /\ running.payload.models = db.bound[db.profile] \ db.off)
=============================================================================
