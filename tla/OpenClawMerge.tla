---------------------------- MODULE OpenClawMerge ----------------------------
(***************************************************************************)
(* The content of a device's configuration: what the control plane         *)
(* compiles from the device's bindings (config_compiler.py), how the agent *)
(* merges it into openclaw.json (agent/openclaw_writer.py), and the        *)
(* sidecar file that names the local providers and models to preserve.     *)
(* ConfigSync models the versions and the transport of the same payload;   *)
(* here one agent compiles, fetches and installs, while administrators     *)
(* edit the database and somebody edits the files on the node.             *)
(*                                                                         *)
(* A model key is a pair <<provider, model>>.  Of a provider's entry we    *)
(* keep who wrote it and which models it lists, of an alias who wrote it.  *)
(* `other' stands for the rest of openclaw.json.  The .bak copy is left    *)
(* out: no code reads it back.                                             *)
(***************************************************************************)
EXTENDS Naturals, Sequences, Functions

CONSTANTS
    Providers, Models,   \* names
    BindingLists,        \* the lists of model keys an administrator assigns
    KeepConfigs,         \* the preserve configurations an administrator saves
    LocalKeys,           \* the models somebody adds to openclaw.json by hand
    MaxEdits,            \* bound: administrators' requests
    MaxLocalEdits,       \* bound: edits on the node
    MaxDeaths            \* bound: ends of the agent inside a cycle

Keys == Providers \X Models

NoKeep == [providers |-> {}, models |-> {}]

OpenClawMergeAssumption ==
    /\ BindingLists \subseteq Seq(Keys)
    /\ KeepConfigs \subseteq [providers : SUBSET Providers, models : SUBSET Keys]
    /\ NoKeep \in KeepConfigs
    /\ LocalKeys \subseteq Keys
    /\ {MaxEdits, MaxLocalEdits, MaxDeaths} \subseteq Nat

ASSUME OpenClawMergeAssumption

VARIABLES
    db,          \* the device's row and bindings, and what is switched on
    saving,      \* the bindings a save has still to insert
    latest,      \* the payload of the latest snapshot
    synced,      \* whether the agent's record names the latest snapshot
    agent,       \* the agent's sync_once, and the compilation it waits for
    file,        \* openclaw.json
    sidecar,     \* zhaocai-preserve.json, as it is understood when read
    installed,   \* the model keys of the payload that was last installed
    hand,        \* the providers that somebody added to the sidecar by hand
    budget       \* what is left of the bounds

vars == <<db, saving, latest, synced, agent, file, sidecar, installed, hand, budget>>

onServer == <<db, saving>>
onNode == <<file, sidecar, hand>>

(***************************************************************************)
(* Documents                                                               *)
(***************************************************************************)
Writers == {"managed", "local"}

Entries == [by : Writers, models : SUBSET Models]

Partial(S, T) == UNION {[R -> T] : R \in SUBSET S}

Docs == [providers : Partial(Providers, Entries),
         model : Seq(Keys),                      \* the primary, then the fallbacks
         aliases : Partial(Keys, Writers),
         other : {"none", "local"}]

Files == [kind : {"absent", "broken", "ok"}, doc : Docs]

EmptyDoc ==
    [providers |-> [p \in {} |-> p], model |-> <<>>, aliases |-> [k \in {} |-> k],
     other |-> "none"]

LocalDoc == [EmptyDoc EXCEPT !.other = "local"]

NoFile == [kind |-> "absent", doc |-> EmptyDoc]

BrokenFile == [kind |-> "broken", doc |-> EmptyDoc]

File(doc) == [kind |-> "ok", doc |-> doc]

\* provider_entries and catalog_entries of a compilation that listed `chain'.
PayloadProviders(chain) ==
    [p \in {k[1] : k \in Range(chain)} |->
        [by |-> "managed", models |-> {k[2] : k \in {j \in Range(chain) : j[1] = p}}]]

PayloadAliases(chain) == [k \in Range(chain) |-> "managed"]

\* Mutant of KeptProviders: a preserved model does not preserve its provider.
KeptProvidersOnly(keep) == keep.providers

\* _load_preserve_rules: a preserved model preserves its provider.
KeptProviders(keep) == keep.providers \cup {k[1] : k \in keep.models}

\* Mutant of Override: the preserved entries are laid over the new ones.
OverrideByOld(new, old, kept) ==
    [x \in DOMAIN new \cup (DOMAIN old \cap kept) |->
        IF x \in DOMAIN old \cap kept THEN old[x] ELSE new[x]]

\* The preserved entries of a section, updated with the payload's.
Override(new, old, kept) ==
    [x \in DOMAIN new \cup (DOMAIN old \cap kept) |->
        IF x \in DOMAIN new THEN new[x] ELSE old[x]]

\* _replace_model_sections; a payload without models has no "agents" section.
Merge(doc, chain, keep) ==
    [providers |-> Override(PayloadProviders(chain), doc.providers, KeptProviders(keep)),
     model     |-> IF chain = <<>> THEN doc.model ELSE chain,
     aliases   |-> IF chain = <<>> THEN doc.aliases
                   ELSE Override(PayloadAliases(chain), doc.aliases, keep.models),
     other     |-> doc.other]

\* What is written: the merge, or the bare payload if there is nothing to merge
\* with or it cannot be parsed.
Output(f, chain, keep) ==
    IF f.kind = "ok" THEN Merge(f.doc, chain, keep) ELSE Merge(EmptyDoc, chain, NoKeep)

(***************************************************************************)
(* Administrators.  A save of the bindings deletes them all and inserts    *)
(* the new ones one by one; on the shared connection a compilation reads   *)
(* whatever is there, and a refused row (a repeated or a deleted model)    *)
(* leaves the rows before it.                                              *)
(***************************************************************************)
Edits ==
    /\ budget.edits > 0
    /\ budget' = [budget EXCEPT !.edits = @ - 1]

DeleteBindings(list) ==
    /\ saving = <<>>
    /\ Edits
    /\ db' = [db EXCEPT !.bound = <<>>]
    /\ saving' = list
    /\ UNCHANGED <<latest, synced, agent, installed, onNode>>

InsertBinding ==
    /\ saving # <<>>
    /\ db' = [db EXCEPT !.bound = Append(@, Head(saving))]
    /\ saving' = Tail(saving)
    /\ UNCHANGED <<latest, synced, agent, installed, onNode, budget>>

RefuseBinding ==
    /\ saving # <<>>
    /\ saving' = <<>>
    /\ UNCHANGED <<db, latest, synced, agent, installed, onNode, budget>>

\* update_provider
SetProviderEnabled(p) ==
    /\ Edits
    /\ db' = [db EXCEPT !.off = IF p \in @ THEN @ \ {p} ELSE @ \cup {p}]
    /\ UNCHANGED <<saving, latest, synced, agent, installed, onNode>>

\* update_device_preserve_config
SetKeep(keep) ==
    /\ keep # db.keep
    /\ Edits
    /\ db' = [db EXCEPT !.keep = keep]
    /\ UNCHANGED <<saving, latest, synced, agent, installed, onNode>>

(***************************************************************************)
(* The agent's sync_once.  Its first request makes the control plane       *)
(* compile: the device's row, then its bindings, then each model's         *)
(* provider, one statement each.                                           *)
(***************************************************************************)
Idle == [pc |-> "idle", keep |-> NoKeep, rows |-> <<>>, chain |-> <<>>,
         seen |-> NoFile, out |-> EmptyDoc]

At(pc) == agent.pc = pc

Goto(pc) == agent' = [agent EXCEPT !.pc = pc]

ReadDevice ==
    /\ At("idle")
    /\ agent' = [agent EXCEPT !.pc = "bindings", !.keep = db.keep]
    /\ UNCHANGED <<onServer, latest, synced, onNode, installed, budget>>

ReadBindings ==
    /\ At("bindings")
    /\ agent' = [agent EXCEPT !.pc = "providers", !.rows = db.bound]
    /\ UNCHANGED <<onServer, latest, synced, onNode, installed, budget>>

ReadProvider ==
    LET k == Head(agent.rows)
    IN  /\ At("providers")
        /\ agent.rows # <<>>
        /\ agent' = [agent EXCEPT !.rows = Tail(@),
                                  !.chain = IF k[1] \in db.off THEN @ ELSE Append(@, k)]
        /\ UNCHANGED <<onServer, latest, synced, onNode, installed, budget>>

\* Mutant of Compiled: what is to be preserved is not part of what is compared.
CompiledWithoutKeep == [keep |-> latest.keep, chain |-> agent.chain]

\* The payload; "_zhaocai" is part of what is hashed.
Compiled == [keep |-> agent.keep, chain |-> agent.chain]

\* save_config_snapshot keeps the latest snapshot if nothing changed, and the
\* agent stops if that is the one in its record.
Unchanged ==
    /\ At("providers")
    /\ agent.rows = <<>>
    /\ Compiled = latest
    /\ synced
    /\ agent' = Idle
    /\ UNCHANGED <<onServer, latest, synced, onNode, installed, budget>>

Changed ==
    /\ At("providers")
    /\ agent.rows = <<>>
    /\ ~ (Compiled = latest /\ synced)
    /\ latest' = Compiled
    /\ synced' = FALSE
    /\ agent' = [Idle EXCEPT !.pc = "truncate"]
    /\ UNCHANGED <<onServer, onNode, installed, budget>>

\* write_preserve_sidecar: write_text truncates the file and then fills it; an
\* empty sidecar is read as one that preserves nothing.
TruncateSidecar ==
    /\ At("truncate")
    /\ sidecar' = NoKeep
    /\ Goto("sidecar")
    /\ UNCHANGED <<onServer, latest, synced, file, hand, installed, budget>>

\* Mutant of WriteSidecar: the whole payload is written, not its preserve section.
WriteSidecarPayload ==
    /\ At("sidecar")
    /\ sidecar' = latest
    /\ Goto("read")
    /\ UNCHANGED <<onServer, latest, synced, file, hand, installed, budget>>

WriteSidecar ==
    /\ At("sidecar")
    /\ sidecar' = latest.keep
    /\ Goto("read")
    /\ UNCHANGED <<onServer, latest, synced, file, hand, installed, budget>>

ReadFile ==
    /\ At("read")
    /\ agent' = [agent EXCEPT !.pc = "replace", !.seen = file,
                              !.out = Output(file, latest.chain, sidecar)]
    /\ UNCHANGED <<onServer, latest, synced, onNode, installed, budget>>

\* os.replace
Replace ==
    /\ At("replace")
    /\ file' = File(agent.out)
    /\ installed' = latest.chain
    /\ agent' = [Idle EXCEPT !.pc = "reload"]
    /\ UNCHANGED <<onServer, latest, synced, sidecar, hand, budget>>

\* The reload, the report and the record; a reload that fails ends the agent.
Finish ==
    /\ At("reload")
    /\ synced' = TRUE
    /\ agent' = Idle
    /\ UNCHANGED <<onServer, latest, onNode, installed, budget>>

\* The process is killed, or an exception leaves run_sync_loop.
AgentDies ==
    /\ ~ At("idle")
    /\ budget.deaths > 0
    /\ budget' = [budget EXCEPT !.deaths = @ - 1]
    /\ agent' = Idle
    /\ UNCHANGED <<onServer, latest, synced, onNode, installed>>

(***************************************************************************)
(* Somebody at the node: adds a model to openclaw.json, leaves it in a     *)
(* state that does not parse, writes it anew, or extends the sidecar.      *)
(***************************************************************************)
LocalEdits ==
    /\ budget.local > 0
    /\ budget' = [budget EXCEPT !.local = @ - 1]

WithModel(doc, k) ==
    LET p == k[1]
        old == doc.providers
        entry == IF p \in DOMAIN old THEN [old[p] EXCEPT !.models = @ \cup {k[2]}]
                 ELSE [by |-> "local", models |-> {k[2]}]
    IN  [doc EXCEPT
            !.providers = [q \in DOMAIN old \cup {p} |-> IF q = p THEN entry ELSE old[q]],
            !.aliases = Override(@, [j \in {k} |-> "local"], {k})]

AddLocal(k) ==
    /\ file.kind = "ok"
    /\ LocalEdits
    /\ file' = File(WithModel(file.doc, k))
    /\ UNCHANGED <<onServer, latest, synced, agent, sidecar, hand, installed>>

BreakFile ==
    /\ file.kind = "ok"
    /\ LocalEdits
    /\ file' = BrokenFile
    /\ UNCHANGED <<onServer, latest, synced, agent, sidecar, hand, installed>>

WriteFile ==
    /\ file.kind # "ok"
    /\ LocalEdits
    /\ file' = File(LocalDoc)
    /\ UNCHANGED <<onServer, latest, synced, agent, sidecar, hand, installed>>

EditSidecar(p) ==
    /\ p \notin sidecar.providers
    /\ LocalEdits
    /\ sidecar' = [sidecar EXCEPT !.providers = @ \cup {p}]
    /\ hand' = hand \cup {p}
    /\ UNCHANGED <<onServer, latest, synced, agent, file, installed>>

(***************************************************************************)
(* Specification                                                           *)
(***************************************************************************)
NoPayload == [keep |-> NoKeep, chain |-> <<<<"none", "none">>>>]

Init ==
    /\ \E list \in BindingLists : db = [bound |-> list, off |-> {}, keep |-> NoKeep]
    /\ saving = <<>>
    /\ latest = NoPayload
    /\ synced = FALSE
    /\ agent = Idle
    /\ file \in {NoFile, File(LocalDoc)}
    /\ sidecar = NoKeep
    /\ installed = <<>>
    /\ hand = {}
    /\ budget = [edits |-> MaxEdits, local |-> MaxLocalEdits, deaths |-> MaxDeaths]

Admin ==
    \/ \E list \in BindingLists : DeleteBindings(list)
    \/ InsertBinding
    \/ RefuseBinding
    \/ \E p \in Providers : SetProviderEnabled(p)
    \/ \E keep \in KeepConfigs : SetKeep(keep)

SyncOnce ==
    \/ ReadDevice
    \/ ReadBindings
    \/ ReadProvider
    \/ Unchanged
    \/ Changed
    \/ TruncateSidecar
    \/ WriteSidecar
    \/ ReadFile
    \/ Replace
    \/ Finish

Operator ==
    \/ \E k \in LocalKeys : AddLocal(k)
    \/ BreakFile
    \/ WriteFile
    \/ \E p \in Providers : EditSidecar(p)

Next == Admin \/ SyncOnce \/ AgentDies \/ Operator

\* The save of an administrator goes on, and the agent's loop has no end.
Fairness == WF_vars(InsertBinding) /\ WF_vars(SyncOnce)

Spec == Init /\ [][Next]_vars

FairSpec == Spec /\ Fairness

(***************************************************************************)
(* Properties                                                              *)
(***************************************************************************)
TypeOK ==
    /\ db \in [bound : Seq(Keys), off : SUBSET Providers, keep : KeepConfigs]
    /\ saving \in Seq(Keys)
    /\ latest \in [keep : KeepConfigs, chain : Seq(Keys)] \cup {NoPayload}
    /\ agent.pc \notin {"idle", "bindings", "providers"} => latest.chain \in Seq(Keys)
    /\ synced \in BOOLEAN
    /\ agent \in [pc : {"idle", "bindings", "providers", "truncate", "sidecar", "read",
                        "replace", "reload"},
                  keep : KeepConfigs, rows : Seq(Keys), chain : Seq(Keys),
                  seen : Files, out : Docs]
    /\ file \in Files
    /\ sidecar \in [providers : SUBSET Providers, models : SUBSET Keys]
    /\ installed \in Seq(Keys)
    /\ hand \subseteq Providers
    /\ budget \in [edits : Nat, local : Nat, deaths : Nat]

Listed(doc, k) == k[1] \in DOMAIN doc.providers /\ k[2] \in doc.providers[k[1]].models

\* The primary model and every fallback that OpenClaw is told to use are models
\* of a provider that the same document describes.
Resolves(doc) == \A k \in Range(doc.model) : Listed(doc, k)

\* After a payload with models was installed, the document resolves, whatever
\* is switched off, bound or preserved meanwhile and whoever edits the file.
DefaultsResolve == installed # <<>> => Resolves(file.doc)

\* What the sync says of every document (README, "node-agent": the sections the
\* gateway manages are refreshed).  False of the code: a payload without models
\* removes the providers and leaves the default models that name them.
NoDangling == Resolves(file.doc)

Installs == At("replace") /\ agent'.pc = "reload"

\* An installation that read the file as it is leaves alone what is not the
\* gateway's: the rest of the document, the providers and aliases that the
\* control plane's preserve configuration names and its payload does not, even
\* if the agent died between the sidecar and the file.
PreservedStay ==
    [][Installs /\ file = agent.seen /\ file.kind = "ok" =>
        /\ file'.doc.other = file.doc.other
        /\ \A p \in DOMAIN file.doc.providers :
              /\ p \in latest.keep.providers \/ \E m \in Models : <<p, m>> \in latest.keep.models
              /\ \A k \in Range(latest.chain) : k[1] # p
              => p \in DOMAIN file'.doc.providers /\ file'.doc.providers[p] = file.doc.providers[p]
        /\ \A k \in DOMAIN file.doc.aliases \cap latest.keep.models :
              k \in DOMAIN file'.doc.aliases]_vars

\* After an installation every provider in the file is the payload's, as it was
\* compiled, or preserved; what the control plane withdrew is gone.
ManagedRefreshed ==
    [][Installs =>
        \A p \in DOMAIN file'.doc.providers :
            \/ \E k \in Range(latest.chain) : k[1] = p
                 /\ file'.doc.providers[p].models =
                        {m \in Models : <<p, m>> \in Range(latest.chain)}
            \/ p \in latest.keep.providers \cup hand
            \/ \E m \in Models : <<p, m>> \in latest.keep.models]_vars

\* When the edits and the deaths end, the last bindings and the last preserve
\* configuration reach the device, even if only the latter changed.
Settles ==
    <>[](/\ \A p \in Providers : (\E k \in Range(installed) : k[1] = p) <=>
                (p \notin db.off /\ \E k \in Range(db.bound) : k[1] = p)
         /\ hand = {} => sidecar = db.keep)
=============================================================================
