----------------------------- MODULE Migration -----------------------------
(***************************************************************************)
(* What the control plane does to an older database when it starts, and the*)
(* media registry and the device bindings it then serves from it.          *)
(*                                                                         *)
(* An old media_templates refers to the table providers.  It is renamed,   *)
(* created anew and copied, with no transaction around it: DDL commits at  *)
(* once, and only INSERT, DROP and the final commit are one transaction.   *)
(* PRAGMA foreign_keys does nothing inside a transaction, so the start that*)
(* migrates goes on without foreign keys.                                  *)
(*                                                                         *)
(* The process may end between any two steps.  A start has no company; the *)
(* requests served after it are threads over one connection.               *)
(***************************************************************************)
EXTENDS Naturals, Sequences, SequencesExt

CONSTANTS
    Devices,
    Models,       \* ids of models
    Keys,         \* model_key values of media templates
    OldRows,      \* what an old media_templates may hold: sets of rows
    MaxIds,       \* bound: ids given out per table
    MaxCalls,     \* bound: requests in flight
    MaxEdits,     \* bound: requests accepted
    MaxCrashes    \* bound: ends of the process

ASSUME MigrationAssumption ==
    /\ Models \subseteq Nat /\ IsFiniteSet(Models)
    /\ MaxIds \in Nat /\ MaxCalls \in Nat /\ MaxEdits \in Nat /\ MaxCrashes \in Nat

MediaColumns == {"ui", "json"}         \* added to media_templates later
OtherColumns == {"models", "devices"}  \* added to these tables later

\* A row of media_templates; since tells rows written under this schema from
\* those of an older one, whose provider is an id of another table.
Row == [id : 1..MaxIds, key : Keys, provider : 1..MaxIds, since : BOOLEAN]

\* AUTOINCREMENT and UNIQUE(model_key).
Unique(rows) == \A r, s \in rows : r.id = s.id \/ r.key = s.key => r = s

ASSUME OldRowsAssumption ==
    \A rows \in OldRows : /\ rows \subseteq Row /\ Unique(rows) /\ IsFiniteSet(rows)
                          /\ \A r \in rows : ~r.since

NoTable == [kind |-> "none", missing |-> {}, rows |-> {}]
NewTable == [kind |-> "new", missing |-> {}, rows |-> {}]

VARIABLES
    table,      \* media_templates
    legacy,     \* media_templates_legacy
    media,      \* ids of media_providers
    given,      \* the last ids given out: of media providers, of media templates
    behind,     \* columns that other tables still lack
    priority,   \* whether device_model_bindings has its column
    bindings,   \* of each device: priority by model
    pc,         \* where the process is
    keys,       \* whether the connection enforces foreign keys
    calls,      \* requests past their checks
    edits,      \* requests accepted
    crashes,    \* ends of the process
    order,      \* history: the order of each device's models as saved
    owed,       \* history: rows of the old schema that nobody edited
    migrated,   \* history: whether a start renamed the table
    broken      \* history: whether a start ended between that and its commit

templates == <<table, legacy, media, given>>
devices == <<behind, priority, bindings>>
history == <<order, owed, migrated, broken>>
vars == <<templates, devices, pc, keys, calls, edits, crashes, history>>

(***************************************************************************)
(* init_schema                                                             *)
(***************************************************************************)
\* A new connection enforces no foreign keys.
Start ==
    /\ pc = "down"
    /\ pc' = "schema"
    /\ keys' = FALSE
    /\ UNCHANGED <<templates, devices, calls, edits, crashes, history>>

\* Mutant of Schema: what an earlier start left over is cleaned up.
SchemaTidied ==
    /\ pc = "schema"
    /\ pc' = "check"
    /\ keys' = TRUE
    /\ table' = IF table.kind = "none" THEN NewTable ELSE table
    /\ legacy' = NoTable
    /\ UNCHANGED <<media, given, devices, calls, edits, crashes, history>>

\* Mutant of Schema: foreign keys are not asked for.
SchemaNoKeys ==
    /\ pc = "schema"
    /\ pc' = "check"
    /\ table' = IF table.kind = "none" THEN NewTable ELSE table
    /\ UNCHANGED <<keys, legacy, media, given, devices, calls, edits, crashes, history>>

\* SCHEMA_SQL: PRAGMA foreign_keys = ON, and CREATE TABLE IF NOT EXISTS.
Schema ==
    /\ pc = "schema"
    /\ pc' = "check"
    /\ keys' = TRUE
    /\ table' = IF table.kind = "none" THEN NewTable ELSE table
    /\ UNCHANGED <<legacy, media, given, devices, calls, edits, crashes, history>>

\* Mutant of UpToDate: a table that needs no renaming is taken to be complete.
UpToDateServes ==
    /\ pc = "check" /\ table.kind = "new"
    /\ pc' = "serve"
    /\ UNCHANGED <<templates, devices, keys, calls, edits, crashes, history>>

\* "REFERENCES providers(id)" is not in the table's SQL.
UpToDate ==
    /\ pc = "check" /\ table.kind = "new"
    /\ pc' = "columns"
    /\ UNCHANGED <<templates, devices, keys, calls, edits, crashes, history>>

Rename ==
    /\ pc = "check" /\ table.kind = "old"
    /\ pc' = "create"
    /\ keys' = FALSE
    /\ legacy' = table
    /\ table' = NoTable
    /\ given' = [given EXCEPT !.template = 0]
    /\ migrated' = TRUE
    /\ UNCHANGED <<media, devices, calls, edits, crashes, order, owed, broken>>

Create ==
    /\ pc = "create"
    /\ pc' = "copy"
    /\ table' = NewTable
    /\ UNCHANGED <<legacy, media, given, devices, keys, calls, edits, crashes, history>>

LastId(rows) == IF rows = {} THEN 0 ELSE Max({r.id : r \in rows})

\* Mutant of Copy: a copy that fails puts the table back.
CopyRestores ==
    /\ pc = "copy"
    /\ IF legacy.missing = {}
       THEN /\ pc' = "columns"
            /\ table' = [table EXCEPT !.rows = legacy.rows]
            /\ legacy' = NoTable
            /\ given' = [given EXCEPT !.template = LastId(legacy.rows)]
            /\ UNCHANGED broken
       ELSE /\ pc' = "down"
            /\ table' = legacy
            /\ legacy' = NoTable
            /\ broken' = TRUE
            /\ UNCHANGED given
    /\ UNCHANGED <<media, devices, keys, calls, edits, crashes, order, owed, migrated>>

\* INSERT ... SELECT, DROP and commit.  The SELECT names columns that are
\* ensured further down only: without them the start fails, and create_app
\* with it.
Copy ==
    /\ pc = "copy"
    /\ IF legacy.missing = {}
       THEN /\ pc' = "columns"
            /\ table' = [table EXCEPT !.rows = legacy.rows]
            /\ legacy' = NoTable
            /\ given' = [given EXCEPT !.template = LastId(legacy.rows)]
            /\ UNCHANGED broken
       ELSE /\ pc' = "down"
            /\ broken' = TRUE
            /\ UNCHANGED <<table, legacy, given>>
    /\ UNCHANGED <<media, devices, keys, calls, edits, crashes, order, owed, migrated>>

\* _ensure_model_column, _ensure_device_column: a column and its commit.
EnsureColumn ==
    /\ pc = "columns"
    /\ IF behind = {} THEN pc' = "priority" /\ UNCHANGED behind
       ELSE \E c \in behind : behind' = behind \ {c} /\ UNCHANGED pc
    /\ UNCHANGED <<templates, priority, bindings, keys, calls, edits, crashes, history>>

\* The column is committed at once, and holds 0 until the backfill is.
EnsurePriority ==
    /\ pc = "priority"
    /\ pc' = IF priority THEN "media" ELSE "backfill"
    /\ priority' = TRUE
    /\ UNCHANGED <<templates, behind, bindings, keys, calls, edits, crashes, history>>

\* The models of a device are numbered by id.
Backfill ==
    /\ pc = "backfill"
    /\ pc' = "media"
    /\ bindings' = [d \in Devices |-> [m \in DOMAIN bindings[d] |->
                        Cardinality({n \in DOMAIN bindings[d] : n < m})]]
    /\ UNCHANGED <<templates, behind, priority, keys, calls, edits, crashes, history>>

EnsureMediaColumn ==
    /\ pc = "media"
    /\ IF table.missing = {} THEN pc' = "serve" /\ UNCHANGED table
       ELSE \E c \in table.missing :
                table' = [table EXCEPT !.missing = @ \ {c}] /\ UNCHANGED pc
    /\ UNCHANGED <<legacy, media, given, devices, keys, calls, edits, crashes, history>>

StartStep ==
    \/ Start \/ Schema \/ UpToDate \/ Rename \/ Create \/ Copy
    \/ EnsureColumn \/ EnsurePriority \/ Backfill \/ EnsureMediaColumn

(***************************************************************************)
(* Requests: the media registry                                            *)
(***************************************************************************)
Visible == {r \in table.rows : r.provider \in media}

\* A request passes its checks, and acts on them later.
Accept(call) ==
    /\ pc = "serve" /\ edits < MaxEdits
    /\ edits' = edits + 1
    /\ Cardinality(calls) < MaxCalls
    /\ calls' = calls \cup {call}
    /\ UNCHANGED <<templates, devices, pc, keys, crashes, history>>

CreateTemplate(k, p) ==
    /\ p \in media
    /\ Accept([op |-> "create", id |-> 0, key |-> k, provider |-> p])

UpdateTemplate(r, k, p) ==
    /\ p \in media
    /\ Accept([op |-> "update", id |-> r.id, key |-> k, provider |-> p])

DeleteTemplate(r) ==
    Accept([op |-> "delete", id |-> r.id, key |-> r.key, provider |-> r.provider])

\* A new name, and an id that nothing refers to, unless migrated rows do.
InsertMedia ==
    /\ given.media < MaxIds
    /\ given' = [given EXCEPT !.media = @ + 1]
    /\ media' = media \cup {given'.media}

AddMediaProvider ==
    /\ pc = "serve" /\ edits < MaxEdits
    /\ edits' = edits + 1
    /\ InsertMedia
    /\ UNCHANGED <<table, legacy, devices, pc, keys, calls, crashes, history>>

\* ON DELETE CASCADE, where it is enforced.
RemoveMedia(p) ==
    /\ media' = media \ {p}
    /\ table' = IF keys THEN [table EXCEPT !.rows = {r \in @ : r.provider # p}] ELSE table

DeleteMediaProvider(p) ==
    /\ pc = "serve" /\ edits < MaxEdits
    /\ edits' = edits + 1
    /\ RemoveMedia(p)
    /\ owed' = owed \cap (table'.rows \cup legacy.rows)
    /\ UNCHANGED <<legacy, given, devices, pc, keys, calls, crashes, order, migrated, broken>>

\* UNIQUE(model_key), and the foreign key of the provider.
Allowed(c, others) ==
    /\ \A r \in others : r.key # c.key
    /\ keys => c.provider \in media

InsertTemplate(c) ==
    /\ c.op = "create"
    /\ calls' = calls \ {c}
    /\ IF ~Allowed(c, table.rows) THEN UNCHANGED <<table, given>>
       ELSE /\ given.template < MaxIds
            /\ given' = [given EXCEPT !.template = @ + 1]
            /\ table' = [table EXCEPT !.rows = @ \cup
                   {[id |-> given'.template, key |-> c.key,
                     provider |-> c.provider, since |-> TRUE]}]
    /\ UNCHANGED <<legacy, media, devices, pc, keys, edits, crashes, history>>

Others(c) == {r \in table.rows : r.id # c.id}

WriteTemplate(c) ==
    LET mine == table.rows \ Others(c)
    IN /\ c.op = "update"
       /\ calls' = calls \ {c}
       /\ table' = IF mine = {} \/ ~Allowed(c, Others(c)) THEN table
                   ELSE [table EXCEPT !.rows = Others(c) \cup
                           {[id |-> c.id, key |-> c.key, provider |-> c.provider, since |-> TRUE]}]
       /\ owed' = owed \cap (table'.rows \cup legacy.rows)
       /\ UNCHANGED <<legacy, media, given, devices, pc, keys, edits, crashes,
                      order, migrated, broken>>

RemoveTemplate(c) ==
    /\ c.op = "delete"
    /\ calls' = calls \ {c}
    /\ table' = [table EXCEPT !.rows = Others(c)]
    /\ owed' = owed \cap (Others(c) \cup legacy.rows)
    /\ UNCHANGED <<legacy, media, given, devices, pc, keys, edits, crashes,
                   order, migrated, broken>>

(***************************************************************************)
(* Requests: the bindings of a device                                      *)
(***************************************************************************)
Lists == {l \in SeqOf(Models, Cardinality(Models)) : IsInjective(l)}

\* The row of each model holds its place in the list.
PlacesIn(l) == [m \in ToSet(l) |-> (CHOOSE i \in DOMAIN l : l[i] = m) - 1]

\* Mutant of SetBindings: rows are written without a priority.
SetBindingsUnordered(d, l) ==
    /\ pc = "serve"
    /\ edits < MaxEdits /\ edits' = edits + 1
    /\ bindings' = [bindings EXCEPT ![d] = [m \in ToSet(l) |-> 0]]
    /\ order' = [order EXCEPT ![d] = l]
    /\ UNCHANGED <<templates, behind, priority, pc, keys, calls, crashes, owed, migrated, broken>>

SetBindings(d, l) ==
    /\ pc = "serve"
    /\ edits < MaxEdits /\ edits' = edits + 1
    /\ bindings' = [bindings EXCEPT ![d] = PlacesIn(l)]
    /\ order' = [order EXCEPT ![d] = l]
    /\ UNCHANGED <<templates, behind, priority, pc, keys, calls, crashes, owed, migrated, broken>>

\* ORDER BY priority ASC, model_id ASC
Before(d, m, n) ==
    \/ bindings[d][m] < bindings[d][n]
    \/ bindings[d][m] = bindings[d][n] /\ m < n

Statement ==
    \E c \in calls : InsertTemplate(c) \/ WriteTemplate(c) \/ RemoveTemplate(c)

MediaRequest ==
    \/ AddMediaProvider
    \/ \E p \in media : DeleteMediaProvider(p)
    \/ \E p \in media, k \in Keys :
          \/ CreateTemplate(k, p)
          \/ \E r \in Visible : UpdateTemplate(r, k, p)
    \/ \E r \in Visible : DeleteTemplate(r)

Serve ==
    \/ MediaRequest
    \/ Statement
    \/ \E d \in Devices, l \in Lists : SetBindings(d, l)

(***************************************************************************)
(* The end of the process; the whole                                       *)
(***************************************************************************)
\* What a step has not committed was never done here; the schema is begun
\* anew by the next start.
Crash ==
    /\ pc # "down" /\ crashes < MaxCrashes
    /\ crashes' = crashes + 1
    /\ pc' = "down"
    /\ calls' = {}
    /\ broken' = (broken \/ pc \in {"create", "copy"})
    /\ UNCHANGED <<templates, devices, keys, edits, order, owed, migrated>>

\* The database of some earlier release, or none.  Before the column came a
\* device's models were those of its rows, by id.
Init ==
    /\ \/ table = NoTable
       \/ \E m \in SUBSET MediaColumns :
             \/ table = [NewTable EXCEPT !.missing = m]
             \/ \E rows \in OldRows : table = [kind |-> "old", missing |-> m, rows |-> rows]
    /\ legacy = NoTable
    /\ media = {} /\ given = [media |-> 0, template |-> 0]
    /\ behind \in SUBSET OtherColumns
    /\ order \in [Devices -> Lists]
    /\ priority \in BOOLEAN
    /\ ~priority => \A d \in Devices : \A i, j \in DOMAIN order[d] :
                        i < j => order[d][i] < order[d][j]
    /\ bindings = [d \in Devices |-> IF priority THEN PlacesIn(order[d])
                                     ELSE [m \in ToSet(order[d]) |-> 0]]
    /\ pc = "down" /\ keys = FALSE /\ calls = {} /\ edits = 0 /\ crashes = 0
    /\ owed = table.rows
    /\ migrated = FALSE /\ broken = FALSE

Next == StartStep \/ Serve \/ Crash

Spec == Init /\ [][Next]_vars

\* The container is restarted whenever it ends (restart: unless-stopped), and
\* a start goes on; nothing says that anybody ever sends a request.
FairSpec == Spec /\ WF_vars(StartStep)

(***************************************************************************)
(* Properties                                                              *)
(***************************************************************************)
Table == [kind : {"none", "old", "new"}, missing : SUBSET MediaColumns, rows : SUBSET Row]

Call == [op : {"create", "update", "delete"}, id : 0..MaxIds, key : Keys, provider : 1..MaxIds]

\* Types; keys and ids of rows are unique, and a served schema is complete:
\* whatever earlier starts left, no column is missing once requests come.
TypeOK ==
    /\ table \in Table /\ Unique(table.rows)
    /\ legacy \in Table /\ Unique(legacy.rows)
    /\ given \in [media : 0..MaxIds, template : 0..MaxIds]
    /\ media \subseteq 1..given.media
    /\ behind \subseteq OtherColumns /\ {priority, keys, migrated, broken} \subseteq BOOLEAN
    /\ order \in [Devices -> Lists]
    /\ \A d \in Devices : bindings[d] \in [ToSet(order[d]) -> 0..Cardinality(Models)]
    /\ pc \in {"down", "schema", "check", "create", "copy", "columns", "priority",
               "backfill", "media", "serve"}
    /\ calls \subseteq Call /\ (calls # {} => pc = "serve")
    /\ edits \in 0..MaxEdits /\ crashes \in 0..MaxCrashes
    /\ owed \subseteq Row
    /\ pc = "serve" => /\ table.kind = "new" /\ table.missing = {}
                       /\ behind = {} /\ priority

\* A template of the old schema is lost to no crash and no failed start: until
\* somebody edits it, it is in one of the two tables -- in the one that is
\* served, unless a start ended between the renaming and the commit.
RowsKept ==
    /\ owed \subseteq table.rows \cup legacy.rows
    /\ pc = "serve" /\ ~broken => owed \subseteq table.rows

\* The models of a device stay in the order in which they were saved, or in
\* that of their ids when they were saved before there was an order, even
\* when the backfill never ran because a crash came after its column.
OrderKept ==
    \A d \in Devices : \A i, j \in DOMAIN order[d] :
        i < j => Before(d, order[d][i], order[d][j])

\* No template hides: one whose provider is gone is listed nowhere and can be
\* neither deleted nor created again.  Checks made before another request
\* removed the provider do no harm, as long as this database was not migrated.
NothingHidden == pc = "serve" /\ ~migrated => table.rows = Visible

\* In the end the control plane serves, whatever the database was: a start
\* that fails does not fail for ever.
EventuallyServes == <>[](pc = "serve")
=============================================================================
