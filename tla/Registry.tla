------------------------------ MODULE Registry ------------------------------
(***************************************************************************)
(* The console's registry of providers and models, and the requests that   *)
(* fill it statement by statement: the synchronisation of OpenRouter's free*)
(* models, and the universal templates, which are saved and imported.      *)
(*                                                                         *)
(* The handlers are plain functions, so each request has a thread, and all *)
(* of them share one sqlite3 connection.  Every store method ends with a   *)
(* commit: a statement and its commit are one step here, a crash between   *)
(* the two being the crash before both.  An uncaught error ends a request  *)
(* where it is.                                                            *)
(*                                                                         *)
(* Ids are never reused (AUTOINCREMENT); one counter stands for those of   *)
(* all tables, where only their order within a table matters.              *)
(***************************************************************************)
EXTENDS FreeModels, FiniteSets

CONSTANTS
    Requests,    \* request threads
    Answers,     \* listings OpenRouter may answer with
    Listings,    \* listings on which the selection itself is checked
    Lists,       \* model lists a template is saved with
    Models,      \* ids of models
    FreeNamed,   \* those with ":free" in the id, and "openrouter/free"
    TopN,        \* how many free models are kept: 5
    MaxIds,      \* bound: rows ever inserted
    MaxStarts,   \* bound: requests begun
    MaxEdits     \* bound: other changes by administrators

ASSUME RegistryAssumption ==
    /\ FreeNamed \subseteq Models
    /\ \A l \in Lists : l \in Seq(ToSet(l))
    /\ \A l \in Answers \cup Listings : IsListing(l)
    /\ TopN \in Nat \ {0} /\ MaxIds \in Nat /\ MaxStarts \in Nat /\ MaxEdits \in Nat

Free == "openrouter-free"
Legacy == "openrouter"
Relay == "relay"          \* the template's name, and so its provider's
Names == {Free, Legacy, Relay}

\* Every id of a model that a row may hold: those that administrators enter,
\* and of what OpenRouter lists those that cost nothing.
Model == Models \cup (UNION {ToSet(l) : l \in Lists})
            \cup {i.id : i \in {i \in UNION {ToSet(a) : a \in Answers} :
                                   i.price = 0 /\ i.id # ""}}

VARIABLES
    providers,   \* id by name, 0 for none: names are UNIQUE
    models,      \* rows of models: id, provider, model
    template,    \* id of the template's row, 0 for none
    lines,       \* rows of universal_provider_template_models
    keys,        \* whether this connection enforces foreign keys
    ids,         \* ids given out
    request,     \* the request threads
    starts,      \* requests begun
    edits,       \* other changes made
    last,        \* history: selection of the sync that listed the rows last
    clean,       \* history: whether nothing failed or was edited since then
    raced,       \* history: whether two syncs or imports ever overlapped, or an edit was made
    mixed        \* history: whether two writers of the template ever overlapped

db == <<providers, models, template, lines>>
history == <<last, clean, raced, mixed>>
vars == <<db, keys, ids, request, starts, edits, history>>

Idle == [pc |-> "idle", op |-> "none", todo |-> <<>>, list |-> <<>>,
         provider |-> 0, legacy |-> 0, row |-> 0, doomed |-> {}, alone |-> FALSE]

\* list_models, get_model: the JOIN hides models whose provider is gone.
Visible == {m \in models : \E n \in Names : providers[n] = m.provider}

RowsOf(p) == {m \in Visible : m.provider = p}

Busy(ops) == {r \in Requests : request[r].op \in ops}

Writers == {"create", "update", "drop"}

\* Those that insert models.
Fillers == {"sync", "import"}

Abort(r) ==
    /\ request' = [request EXCEPT ![r] = Idle]
    /\ clean' = (clean /\ request[r].op \notin Fillers)
    /\ UNCHANGED <<db, keys, ids, starts, edits, last, raced, mixed>>

Goto(r, pc) == request' = [request EXCEPT ![r].pc = pc]

\* A request begins; other syncs are no longer alone, nor is it if they or
\* an import run.
Begin(r, new) ==
    /\ request[r].pc = "idle"
    /\ starts < MaxStarts
    /\ starts' = starts + 1
    /\ request' = [q \in Requests |->
          IF q = r THEN [new EXCEPT !.alone = (Busy(Fillers) = {})]
          ELSE IF new.op \in Fillers THEN [request[q] EXCEPT !.alone = FALSE]
          ELSE request[q]]
    /\ raced' = (raced \/ (new.op \in Fillers /\ Busy(Fillers) # {}))
    /\ mixed' = (mixed \/ (new.op \in Writers /\ Busy(Writers) # {}))
    /\ UNCHANGED <<keys, edits, last, clean>>

(***************************************************************************)
(* POST /sync/openrouter-free                                              *)
(***************************************************************************)
\* The selected models in the listing's order, which is that of the writes.
Chosen(answer) ==
    LET kept == Ascending(ToSet(SelectTop(answer, TopN)))
    IN [p \in DOMAIN kept |-> answer[kept[p]].id]

\* A fetch that fails leaves no trace.
Fetch(r, answer) ==
    /\ Begin(r, [Idle EXCEPT !.pc = "legacy", !.op = "sync",
                             !.list = Chosen(answer), !.todo = Chosen(answer)])
    /\ UNCHANGED <<db, ids>>

\* Where a request goes on when its provider is known, or a model is written.
Loop(q) ==
    IF q.todo # <<>> THEN IF q.op = "sync" THEN "lookup" ELSE "write"
    ELSE IF q.op = "sync" THEN "list" ELSE "done"

\* The two providers are looked up one after the other.
FindLegacy(r) ==
    /\ request[r].pc = "legacy"
    /\ request' = [request EXCEPT ![r].pc = "find", ![r].legacy = providers[Legacy]]
    /\ UNCHANGED <<db, keys, ids, starts, edits, history>>

FindProvider(r) ==
    LET found == [request[r] EXCEPT !.provider = providers[Free]]
    IN /\ request[r].pc = "find"
       /\ request' = [request EXCEPT ![r] =
             [found EXCEPT !.pc = IF found.provider = 0 THEN "create" ELSE Loop(found)]]
       /\ UNCHANGED <<db, keys, ids, starts, edits, history>>

\* Neither the sync nor an import catches the IntegrityError of the name.
CreateProvider(r) ==
    LET name == IF request[r].op = "sync" THEN Free ELSE Relay
    IN /\ request[r].pc = "create"
       /\ IF providers[name] # 0 THEN Abort(r)
          ELSE /\ ids < MaxIds
               /\ ids' = ids + 1
               /\ providers' = [providers EXCEPT ![name] = ids']
               /\ request' = [request EXCEPT ![r].pc = "created", ![r].provider = ids']
               /\ UNCHANGED <<models, template, lines, keys, starts, edits, history>>

\* create_provider reads its row back.
ProviderCreated(r) ==
    /\ request[r].pc = "created"
    /\ IF \E n \in Names : providers[n] = request[r].provider
       THEN /\ Goto(r, Loop(request[r]))
            /\ UNCHANGED <<db, keys, ids, starts, edits, history>>
       ELSE Abort(r)

\* Mutant of LookUp: no row is ever recognised, as when the names compared
\* are not those stored.
LookUpNothing(r) ==
    /\ request[r].pc = "lookup"
    /\ request' = [request EXCEPT ![r].pc = "write", ![r].row = 0]
    /\ UNCHANGED <<db, keys, ids, starts, edits, history>>

\* get_model_by_provider_and_upstream: LIMIT 1 takes the oldest row.
LookUp(r) ==
    LET same == {m.id : m \in {m \in RowsOf(request[r].provider) :
                                  m.model = Head(request[r].todo)}}
    IN /\ request[r].pc = "lookup"
       /\ request' = [request EXCEPT ![r].pc = "write",
                                     ![r].row = IF same = {} THEN 0 ELSE Min(same)]
       /\ UNCHANGED <<db, keys, ids, starts, edits, history>>

\* create_model
Insert(provider, m) ==
    /\ ids < MaxIds
    /\ ids' = ids + 1
    /\ models' = models \cup {[id |-> ids', provider |-> provider, model |-> m]}

\* upsert_model: without a row it inserts one, and no UNIQUE stops a second;
\* the UPDATE of a row that is gone does nothing.
WriteModel(r) ==
    LET q == request[r]
    IN /\ q.pc = "write"
       /\ IF q.row # 0 THEN Goto(r, "written") /\ UNCHANGED <<db, keys, ids, starts, edits, history>>
          ELSE IF keys /\ \A n \in Names : providers[n] # q.provider THEN Abort(r)
          ELSE /\ Insert(q.provider, Head(q.todo))
               /\ request' = [request EXCEPT ![r].pc = "written", ![r].row = ids']
               /\ UNCHANGED <<providers, template, lines, keys, starts, edits, history>>

\* get_model: the row that was written must still be there.
ModelWritten(r) ==
    LET next == [request[r] EXCEPT !.todo = Tail(@), !.row = 0]
    IN /\ request[r].pc = "written"
       /\ IF \E m \in Visible : m.id = request[r].row
          THEN /\ request' = [request EXCEPT ![r] = [next EXCEPT !.pc = Loop(next)]]
               /\ UNCHANGED <<db, keys, ids, starts, edits, history>>
          ELSE Abort(r)

\* Mutant of Doomed: only what is left under the legacy provider is removed.
DoomedLegacy(q) ==
    {m.id : m \in {m \in Visible :
        q.legacy # 0 /\ m.provider = q.legacy /\ m.model \in FreeNamed}}

\* Mutant of Doomed: a model that moved to the new provider stays in the old.
DoomedUnselected(q) ==
    {m.id : m \in {m \in Visible :
        m.provider \in {q.provider, q.legacy} /\ m.model \notin ToSet(q.list)}}

\* list_models, and which of its rows the loop will delete.
Doomed(q) ==
    {m.id : m \in {m \in Visible :
        \/ m.provider = q.provider /\ m.model \notin ToSet(q.list)
        \/ m.provider = q.legacy /\ m.model \in FreeNamed}}

ListModels(r) ==
    /\ request[r].pc = "list"
    /\ request' = [request EXCEPT ![r].doomed = Doomed(request[r]),
                      ![r].pc = IF Doomed(request[r]) = {} THEN "done" ELSE "delete"]
    /\ IF request[r].provider = providers[Free]
       THEN last' = ToSet(request[r].list) /\ clean' = TRUE
       ELSE UNCHANGED <<last, clean>>
    /\ UNCHANGED <<db, keys, ids, starts, edits, raced, mixed>>

DeleteModel(r) ==
    LET left == request[r].doomed \ {Min(request[r].doomed)}
    IN /\ request[r].pc = "delete"
       /\ models' = {m \in models : m.id # Min(request[r].doomed)}
       /\ request' = [request EXCEPT ![r].doomed = left,
                         ![r].pc = IF left = {} THEN "done" ELSE "delete"]
       /\ UNCHANGED <<providers, template, lines, keys, ids, starts, edits, history>>

Answer(r) ==
    /\ request[r].pc = "done"
    /\ request' = [request EXCEPT ![r] = Idle]
    /\ clean' = (clean /\ request[r].op # "import")
    /\ UNCHANGED <<db, keys, ids, starts, edits, last, raced, mixed>>

(***************************************************************************)
(* Universal templates                                                     *)
(***************************************************************************)
\* The template's row is as this request knows it.
Stands(r) == template = request[r].row

\* The name is UNIQUE: a second create ends at its first statement.
CreateTemplate(r, list) ==
    /\ template = 0
    /\ ids < MaxIds
    /\ ids' = ids + 1
    /\ template' = ids'
    /\ Begin(r, [Idle EXCEPT !.pc = "saved", !.op = "create", !.row = ids',
                             !.list = list, !.todo = list])
    /\ UNCHANGED <<providers, models, lines>>

\* update finds the row; the UPDATE itself changes nothing modelled here.
UpdateTemplate(r, list) ==
    /\ template # 0
    /\ Begin(r, [Idle EXCEPT !.pc = "saved", !.op = "update", !.row = template,
                             !.list = list, !.todo = list])
    /\ UNCHANGED <<db, ids>>

\* Either reads its row back; only an update has models to delete.
TemplateSaved(r) ==
    LET next == IF request[r].op = "update" THEN "clear"
                ELSE IF request[r].todo = <<>> THEN "done" ELSE "line"
    IN /\ request[r].pc = "saved"
       /\ IF Stands(r) THEN Goto(r, next) /\ UNCHANGED <<db, keys, ids, starts, edits, history>>
          ELSE Abort(r)

\* Mutant of ClearLines: an update adds to the models it should replace.
ClearLinesOfDropped(r) ==
    /\ request[r].pc = "clear"
    /\ lines' = IF request[r].op = "drop"
                THEN {l \in lines : l.template # request[r].row} ELSE lines
    /\ Goto(r, IF request[r].op = "drop" THEN "drop"
               ELSE IF request[r].todo = <<>> THEN "done" ELSE "line")
    /\ UNCHANGED <<providers, models, template, keys, ids, starts, edits, history>>

ClearLines(r) ==
    /\ request[r].pc = "clear"
    /\ lines' = {l \in lines : l.template # request[r].row}
    /\ Goto(r, IF request[r].op = "drop" THEN "drop"
               ELSE IF request[r].todo = <<>> THEN "done" ELSE "line")
    /\ UNCHANGED <<providers, models, template, keys, ids, starts, edits, history>>

\* create_universal_provider_template_model: the row, and its read back.
AddLine(r) ==
    LET q == request[r]
    IN /\ q.pc = "line"
       /\ IF keys /\ ~Stands(r) THEN Abort(r)
          ELSE /\ ids < MaxIds
               /\ ids' = ids + 1
               /\ lines' = lines \cup
                     {[id |-> ids', template |-> q.row, model |-> Head(q.todo)]}
               /\ request' = [request EXCEPT ![r].pc = "added", ![r].provider = ids']
               /\ UNCHANGED <<providers, models, template, keys, starts, edits, history>>

LineAdded(r) ==
    LET q == request[r]
    IN /\ q.pc = "added"
       /\ IF \E l \in lines : l.id = q.provider
          THEN /\ request' = [request EXCEPT ![r].todo = Tail(@), ![r].provider = 0,
                                 ![r].pc = IF Tail(q.todo) = <<>> THEN "done" ELSE "line"]
               /\ UNCHANGED <<db, keys, ids, starts, edits, history>>
          ELSE Abort(r)

\* delete: the models and then the row, which takes with it the models that
\* another request has added since, if foreign keys are enforced.
BeginDrop(r) ==
    /\ template # 0
    /\ Begin(r, [Idle EXCEPT !.pc = "clear", !.op = "drop", !.row = template])
    /\ UNCHANGED <<db, ids>>

DropTemplate(r) ==
    /\ request[r].pc = "drop"
    /\ template' = IF Stands(r) THEN 0 ELSE template
    /\ lines' = IF keys THEN {l \in lines : l.template # request[r].row} ELSE lines
    /\ Goto(r, "done")
    /\ UNCHANGED <<providers, models, keys, ids, starts, edits, history>>

\* import_to_openclaw, which creates provider and models as the sync does.
BeginImport(r) ==
    /\ template # 0
    /\ Begin(r, [Idle EXCEPT !.pc = "read", !.op = "import", !.row = template])
    /\ UNCHANGED <<db, ids>>

\* ORDER BY id
ById(rows) == InOrder(rows, {e \in rows \X rows : e[1].id < e[2].id})

ReadLines(r) ==
    LET rows == ById({l \in lines : l.template = request[r].row})
        list == [k \in DOMAIN rows |-> rows[k].model]
    IN /\ request[r].pc = "read"
       /\ request' = [request EXCEPT ![r].pc = "create", ![r].row = 0,
                                     ![r].list = list, ![r].todo = list]
       /\ UNCHANGED <<db, keys, ids, starts, edits, history>>

(***************************************************************************)
(* Administrators' other changes, and the end of the process               *)
(***************************************************************************)
Edit(twins) ==
    /\ edits < MaxEdits
    /\ edits' = edits + 1
    /\ request' = [r \in Requests |-> [request[r] EXCEPT !.alone = FALSE]]
    /\ clean' = FALSE
    /\ raced' = (raced \/ twins)
    /\ UNCHANGED <<template, lines, keys, starts, last, mixed>>

\* A name that is taken is answered 409.
AddProvider(n) ==
    /\ providers[n] = 0
    /\ ids < MaxIds
    /\ ids' = ids + 1
    /\ providers' = [providers EXCEPT ![n] = ids']
    /\ Edit(FALSE)
    /\ UNCHANGED models

RenameProvider(n, o) ==
    /\ providers[n] # 0 /\ providers[o] = 0
    /\ providers' = [providers EXCEPT ![n] = 0, ![o] = providers[n]]
    /\ Edit(TRUE)
    /\ UNCHANGED <<models, ids>>

\* ON DELETE CASCADE, where it is enforced.
RemoveProvider(n) ==
    /\ providers[n] # 0
    /\ providers' = [providers EXCEPT ![n] = 0]
    /\ models' = IF keys THEN {m \in models : m.provider # providers[n]} ELSE models
    /\ Edit(FALSE)
    /\ UNCHANGED ids

AddModel(n, m) ==
    /\ providers[n] # 0
    /\ Insert(providers[n], m)
    /\ Edit(TRUE)
    /\ UNCHANGED providers

\* update_model
Rewritten(row, m) == (models \ {row}) \cup {[row EXCEPT !.model = m]}

RenameModel(row, m) ==
    /\ models' = Rewritten(row, m)
    /\ Edit(TRUE)
    /\ UNCHANGED <<providers, ids>>

RemoveModel(row) ==
    /\ models' = models \ {row}
    /\ Edit(FALSE)
    /\ UNCHANGED <<providers, ids>>

\* The connection is opened anew, and enforces foreign keys.
Crash ==
    /\ request' = [r \in Requests |-> Idle]
    /\ keys' = TRUE
    /\ clean' = (clean /\ Busy(Fillers) = {})
    /\ UNCHANGED <<db, ids, starts, edits, last, raced, mixed>>

\* keys is FALSE when the start of this process migrated the database.
Init ==
    /\ providers \in [Names -> {0}]
    /\ models = {} /\ template = 0 /\ lines = {}
    /\ keys \in BOOLEAN
    /\ ids = 0 /\ starts = 0 /\ edits = 0
    /\ request = [r \in Requests |-> Idle]
    /\ last = {} /\ clean = FALSE /\ raced = FALSE /\ mixed = FALSE

SyncStep(r) ==
    \/ \E a \in Answers : Fetch(r, a)
    \/ FindLegacy(r) \/ FindProvider(r) \/ CreateProvider(r) \/ ProviderCreated(r)
    \/ LookUp(r) \/ WriteModel(r) \/ ModelWritten(r)
    \/ ListModels(r) \/ DeleteModel(r) \/ Answer(r)

TemplateStep(r) ==
    \/ \E l \in Lists : CreateTemplate(r, l) \/ UpdateTemplate(r, l)
    \/ TemplateSaved(r) \/ ClearLines(r) \/ AddLine(r) \/ LineAdded(r)
    \/ BeginDrop(r) \/ DropTemplate(r)
    \/ BeginImport(r) \/ ReadLines(r)

ProviderEdit ==
    \E n \in Names :
        \/ AddProvider(n) \/ RemoveProvider(n)
        \/ \E o \in Names : RenameProvider(n, o)

ModelEdit ==
    \/ \E n \in Names, m \in Models : AddModel(n, m)
    \/ \E row \in models :
          \/ RemoveModel(row)
          \/ \E m \in Models : RenameModel(row, m)

AdminEdit == ProviderEdit \/ ModelEdit

Next ==
    \/ \E r \in Requests : SyncStep(r) \/ TemplateStep(r)
    \/ AdminEdit
    \/ Crash

Spec == Init /\ [][Next]_vars

(***************************************************************************)
(* Properties                                                              *)
(***************************************************************************)
Request ==
    [pc : {"idle", "legacy", "find", "create", "created", "lookup", "write", "written",
           "list", "delete", "saved", "clear", "line", "added", "drop", "read", "done"},
     op : Fillers \cup Writers \cup {"none"},
     todo : Seq(Model), list : Seq(Model),
     provider : 0..ids, legacy : 0..ids, row : 0..ids,
     doomed : SUBSET (1..ids), alone : BOOLEAN]

ModelRow == [id : 1..ids, provider : 1..ids, model : Model]

LineRow == [id : 1..ids, template : 1..ids, model : Model]

\* Types: ids are those given out, no two rows of a table share one, and of
\* OpenRouter's models none gets a row that has a price or no id.
TypeOK ==
    /\ providers \in [Names -> 0..ids]
    /\ \A n, o \in Names : providers[n] = providers[o] /\ n # o => providers[n] = 0
    /\ models \subseteq ModelRow
    /\ \A m, o \in models : m.id = o.id => m = o
    /\ template \in 0..ids
    /\ lines \subseteq LineRow
    /\ \A l, o \in lines : l.id = o.id => l = o
    /\ ids \in 0..MaxIds /\ starts \in 0..MaxStarts /\ edits \in 0..MaxEdits
    /\ request \in [Requests -> Request]
    /\ last \subseteq Model
    /\ keys \in BOOLEAN /\ clean \in BOOLEAN /\ raced \in BOOLEAN /\ mixed \in BOOLEAN

NamesOf(p) == {m.model : m \in RowsOf(p)}

\* Overlapping syncs with different listings leave no mixture behind: when
\* all is quiet, and nothing failed or was edited since a sync last listed
\* the rows, each model of the free provider was selected by that sync.
\* (ModelService.sync_openrouter_free, the loop that removes models.)
LastListerWins ==
    clean /\ Busy(Fillers) = {} => NamesOf(providers[Free]) \subseteq last

\* Whatever earlier syncs, crashes and edits left, a sync that overlaps no
\* other and no edit ends with its selection, and with no free model under
\* the legacy provider.
AloneExact ==
    \A r \in Requests : LET q == request[r] IN
        q.pc = "done" /\ q.op = "sync" /\ q.alone =>
            /\ NamesOf(q.provider) = ToSet(q.list)
            /\ q.legacy # 0 => NamesOf(q.legacy) \cap FreeNamed = {}

\* Besides, the selection of any listing is the best models, with one that
\* takes images if there is any.  (It does not change: it is looked at once.)
AloneSyncIsExact ==
    /\ starts = 0 => \A l \in Listings : TopIsRight(l, TopN)
    /\ AloneExact

\* The same model is listed twice under a provider only after two syncs
\* overlapped or an administrator's edit: a sync that failed half way, or
\* was cut off by a crash, and one that follows it, make no twins.
TwinsOnlyFromRaces ==
    ~raced => \A m, o \in RowsOf(providers[Free]) : m.model = o.model => m = o

\* As long as writers of the template do not overlap, an import never reads
\* a mixture of two saves: what it reads is one save's list, or the part of
\* it that was written so far.
ImportOfOneSave ==
    \A r \in Requests : LET q == request[r] IN
        q.op = "import" /\ q.pc # "read" /\ ~mixed =>
            \E l \in Lists : IsPrefix(q.list, l)
=============================================================================
