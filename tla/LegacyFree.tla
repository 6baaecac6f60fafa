----------------------------- MODULE LegacyFree -----------------------------
(***************************************************************************)
(* The legacy control plane's aliases for OpenRouter's free models, filled *)
(* by POST /control/v1/sync/openrouter-free beside the administrators who  *)
(* create providers and models and rename aliases.                         *)
(*                                                                         *)
(* Each store method holds the store's lock from its first statement to    *)
(* its commit and is one step; a request is many of them.  What a request  *)
(* did not finish stays as it is: nothing is rolled back.  This store has  *)
(* no way to delete a provider or a model.                                 *)
(***************************************************************************)
EXTENDS FreeModels

CONSTANTS
    Requests,     \* request threads
    Offers,       \* listings OpenRouter may answer with
    Listings,     \* listings on which the choice itself is checked
    Batches,      \* what providers are created with: sequences of <<alias, model>>
    Own,          \* aliases that are not the sync's
    NoModel,      \* no model
    MaxStarts,    \* bound: requests begun
    MaxRenames    \* bound: other changes by administrators

ASSUME LegacyFreeAssumption ==
    /\ Own \cap Slots = {}
    /\ \A l \in Offers \cup Listings : IsListing(l)
    /\ MaxStarts \in Nat /\ MaxRenames \in Nat

Aliases == Slots \cup Own

Names == {"openrouter", "other"}

VARIABLES
    providers,   \* names of providers, which are UNIQUE
    model,       \* the model of each alias, or NoModel: aliases are UNIQUE
    request,     \* the request threads
    starts,      \* requests begun
    edits,       \* other changes made
    tidy         \* history: every sync so far had two free models or more and
                 \* was not cut off by the end of the process, those that
                 \* overlapped had the same map, and nothing else wrote a slot

freeVars == <<providers, model, request, starts, edits, tidy>>

\* What a sync has of its own: the aliases to fill (map), those still to do
\* (left) and a history, the models when it began (before) and the aliases
\* that others wrote since, or since it wrote them itself (touched).
NoWork == [pc |-> "idle", op |-> "none", map |-> <<>>, left |-> <<>>, rest |-> <<>>,
         before |-> <<>>, touched |-> {}]

Syncs == {r \in Requests : request[r].op = "sync"}

Begin(r, new) ==
    /\ request[r].pc = "idle"
    /\ starts < MaxStarts
    /\ starts' = starts + 1
    /\ request' = [request EXCEPT ![r] = new]
    /\ UNCHANGED <<providers, model, edits>>

\* A request when another one wrote the aliases.
Touched(r, aliases) ==
    IF r \in Syncs THEN [request[r] EXCEPT !.touched = @ \cup aliases] ELSE request[r]

\* Request r goes on as new, having written the aliases.
Wrote(r, aliases, new) ==
    request' = [q \in Requests |-> IF q = r THEN new ELSE Touched(q, aliases)]

Goto(r, pc) == request' = [request EXCEPT ![r].pc = pc]

End(r) == request' = [request EXCEPT ![r] = NoWork]

(***************************************************************************)
(* _run_openrouter_free_sync                                               *)
(***************************************************************************)
\* Without a free model, or without an answer, nothing happens.
Fetch(r, answer) ==
    /\ FreeItems(answer) # {}
    /\ Begin(r, [NoWork EXCEPT !.pc = "find", !.op = "sync", !.map = AliasMap(answer),
                             !.left = AliasOrder(answer), !.before = model])
    /\ tidy' = /\ tidy
               /\ Cardinality(Named(answer)) > 1
               /\ \A q \in Syncs : request[q].map = AliasMap(answer)

FindProvider(r) ==
    /\ request[r].pc = "find"
    /\ Goto(r, IF "openrouter" \in providers THEN "fill" ELSE "create")
    /\ UNCHANGED <<providers, model, starts, edits, tidy>>

\* The sync lets the IntegrityError of a name that is taken pass.
CreateProvider(r) ==
    /\ request[r].pc = "create" /\ request[r].op = "sync"
    /\ IF "openrouter" \in providers
       THEN End(r) /\ UNCHANGED providers
       ELSE Goto(r, "fill") /\ providers' = providers \cup {"openrouter"}
    /\ UNCHANGED <<model, starts, edits, tidy>>

\* Mutant of Upsert: an alias that exists is left alone.
UpsertNew(r) ==
    LET slot == Head(request[r].left) IN
    /\ request[r].pc = "fill" /\ request[r].left # <<>>
    /\ model' = [model EXCEPT ![slot] = IF @ = NoModel THEN request[r].map[slot] ELSE @]
    /\ Wrote(r, {slot}, [request[r] EXCEPT !.left = Tail(@), !.touched = @ \ {slot}])
    /\ UNCHANGED <<providers, starts, edits, tidy>>

\* upsert_model_by_alias: the row of the alias, or a new one.
Pointed(alias, m) == [model EXCEPT ![alias] = m]

\* The SELECT before it only counts.
Upsert(r) ==
    LET slot == Head(request[r].left) IN
    /\ request[r].pc = "fill" /\ request[r].left # <<>>
    /\ model' = Pointed(slot, request[r].map[slot])
    /\ Wrote(r, {slot}, [request[r] EXCEPT !.left = Tail(@), !.touched = @ \ {slot}])
    /\ UNCHANGED <<providers, starts, edits, tidy>>

AnswerAliases(r) ==
    /\ request[r].pc = "fill" /\ request[r].left = <<>>
    /\ End(r)
    /\ UNCHANGED <<providers, model, starts, edits, tidy>>

(***************************************************************************)
(* Administrators                                                          *)
(***************************************************************************)
\* create_provider_with_models: the provider, then each model; what fails is
\* answered 400, and what was done stays.
CreateBatch(r, name, batch) ==
    /\ name \notin providers
    /\ Begin(r, [NoWork EXCEPT !.pc = "create", !.op = name, !.rest = batch])
    /\ UNCHANGED tidy

BatchProvider(r) ==
    LET q == request[r]
    IN /\ q.pc = "create" /\ q.op # "sync"
       /\ IF q.op \in providers
          THEN End(r) /\ UNCHANGED providers
          ELSE Goto(r, "models") /\ providers' = providers \cup {q.op}
       /\ UNCHANGED <<model, starts, edits, tidy>>

\* create_model
BatchModel(r) ==
    LET q == request[r]
        alias == Head(q.rest)[1]
    IN /\ q.pc = "models"
       /\ IF q.rest = <<>> \/ model[alias] # NoModel
          THEN End(r) /\ UNCHANGED <<model, tidy>>
          ELSE /\ model' = [model EXCEPT ![alias] = Head(q.rest)[2]]
               /\ Wrote(r, {alias}, [q EXCEPT !.rest = Tail(@)])
               /\ tidy' = (tidy /\ alias \notin Slots)
       /\ UNCHANGED <<providers, starts, edits>>

\* One statement that writes these aliases.
Edit(aliases) ==
    /\ edits < MaxRenames
    /\ edits' = edits + 1
    /\ request' = [r \in Requests |-> Touched(r, aliases)]
    /\ tidy' = (tidy /\ aliases \cap Slots = {})
    /\ UNCHANGED starts

\* patch_model gives a row another alias, if it is free ...
RenameAlias(a, b) ==
    /\ model[a] # NoModel /\ model[b] = NoModel
    /\ model' = [model EXCEPT ![a] = NoModel, ![b] = model[a]]
    /\ Edit({a, b})
    /\ UNCHANGED providers

\* ... or another model.
RepointAlias(a, b) ==
    /\ model[a] # NoModel /\ model[b] # NoModel
    /\ model' = [model EXCEPT ![a] = model[b]]
    /\ Edit({a})
    /\ UNCHANGED providers

\* patch_provider: a sync that runs keeps the id it read.
RenameProvider(old, new) ==
    /\ old \in providers /\ new \notin providers
    /\ providers' = (providers \ {old}) \cup {new}
    /\ Edit({})
    /\ UNCHANGED model

\* The end of the process.
Crash ==
    /\ request' = [r \in Requests |-> NoWork]
    /\ tidy' = (tidy /\ Syncs = {})
    /\ UNCHANGED <<providers, model, starts, edits>>

FreeInit ==
    /\ providers = {}
    /\ model = [a \in Aliases |-> NoModel]
    /\ request = [r \in Requests |-> NoWork]
    /\ starts = 0 /\ edits = 0 /\ tidy = TRUE

FreeNext ==
    \/ \E r \in Requests :
          \/ \E a \in Offers : Fetch(r, a)
          \/ FindProvider(r) \/ CreateProvider(r) \/ Upsert(r) \/ AnswerAliases(r)
          \/ \E n \in Names, b \in Batches : CreateBatch(r, n, b)
          \/ BatchProvider(r) \/ BatchModel(r)
    \/ \E a, b \in Aliases : RenameAlias(a, b) \/ RepointAlias(a, b)
    \/ \E old, new \in Names : RenameProvider(old, new)
    \/ Crash

FreeSpec == FreeInit /\ [][FreeNext]_freeVars

(***************************************************************************)
(* Properties                                                              *)
(***************************************************************************)
\* A sync ends with its slots filled and the other aliases as they were, but for
\* what others wrote since, whatever earlier ones left half done; and the slots
\* of every listing that OpenRouter may give are those the ranking calls for.
\* (The latter does not change, so it is looked at once.)
SyncFills ==
    /\ starts = 0 => \A l \in Listings : MapIsRight(l)
    /\ \A r \in Syncs : LET q == request[r] IN
        q.pc = "fill" /\ q.left = <<>> =>
            \A a \in Aliases \ q.touched :
                model[a] = IF a \in DOMAIN q.map THEN q.map[a] ELSE q.before[a]

\* "general" is another model than "best", as phase2-impl.md has it, whenever no
\* sync is half way: also after syncs that overlapped, raced for the provider or
\* ran beside batches and renames, as long as those that overlapped had the same
\* map, each had two free models or more, and no crash cut one off.  Otherwise
\* it need not be: two overlapping syncs of different listings may leave the
\* "best" of one and the "general" of the other, the same model.
GeneralDiffers ==
    tidy /\ Syncs = {} /\ model["best"] # NoModel => model["best"] # model["general"]
=============================================================================
