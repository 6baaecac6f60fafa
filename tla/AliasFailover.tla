---------------------------- MODULE AliasFailover ----------------------------
(***************************************************************************)
(* How the gateway answers a runtime request for an alias: it tries the    *)
(* alias's targets in order, fails over on network errors, 429 and 5xx,    *)
(* and puts the account of a failed target into a cooldown.                *)
(*                                                                         *)
(* Runtime handlers are coroutines that block while they call upstream, so *)
(* one request runs at a time; administrators' requests run in threads     *)
(* beside it, on the same connection, and change the tables between any    *)
(* two of its statements.                                                  *)
(*                                                                         *)
(* A request compares cooldown deadlines with the time at which it began,  *)
(* new deadlines are after that, and time only passes: of a deadline the   *)
(* model keeps whether it is still ahead (cooling) and whether it is after *)
(* the running request's beginning (held), instead of a clock.             *)
(***************************************************************************)
EXTENDS Naturals, Sequences, FiniteSetsExt

CONSTANTS
    Accounts,      \* upstream accounts
    Models,        \* rows of gateway_models, by id
    AccountOf,     \* the account of each model
    TargetLists,   \* target lists an administrator may save, sorted by priority
    None,          \* no account
    MaxEdits,      \* bound: requests of administrators
    MaxOutages     \* bound: changes of what works upstream

Target == [model : Models,
           enabled : BOOLEAN,
           on429 : BOOLEAN,       \* fallback_on_429
           on5xx : BOOLEAN,       \* fallback_on_5xx
           onTimeout : BOOLEAN,   \* fallback_on_timeout
           cools : BOOLEAN]       \* cooldown_seconds > 0

ASSUME AliasFailoverAssumption ==
    /\ AccountOf \in [Models -> Accounts]
    /\ TargetLists \subseteq Seq(Target)
    /\ None \notin Accounts
    /\ MaxEdits \in Nat /\ MaxOutages \in Nat

VARIABLES
    account,   \* the rows of gateway_upstream_accounts
    model,     \* the rows of gateway_models
    targets,   \* the alias's rows, numbered in the order of priority and id
    saving,    \* the rows a replacement in progress still has to insert
    probe,     \* an administrator's connection test or model sync
    up,        \* accounts whose upstream works
    cooling,   \* accounts whose cooldown_until is ahead
    request,   \* the runtime request
    held,      \* accounts with a deadline after the request's beginning
    answer,    \* what the last request was answered
    calls,     \* history: the upstream calls of the last request
    owed,      \* history: accounts in the cooldown of their last failure
    cleared,   \* history: accounts cleared during the request, since they last failed in it
    edits,     \* requests of administrators so far
    outages    \* changes upstream so far

tables == <<account, model, targets, saving, probe>>
clock == <<cooling, held, owed, cleared>>
vars == <<tables, up, clock, request, answer, calls, edits, outages>>

AtRest == [pc |-> "idle", rest |-> <<>>, callable |-> FALSE, outcome |-> "none", last |-> "502"]
NotSaving == [active |-> FALSE, rest |-> <<>>]
NotProbing == [pc |-> "idle", account |-> None, sync |-> FALSE, found |-> {}]

\* Rows in their order: functions from some numbers, the first of them and
\* what follows it.
First(rows) == Min(DOMAIN rows)
Rest(rows) == Restrict(rows, DOMAIN rows \ {First(rows)})

Current == request.rest[First(request.rest)]
Account == AccountOf[Current.model]

\* A deadline that is removed.
Clear(a) ==
    /\ cooling' = cooling \ {a}
    /\ held' = held \ {a}
    /\ cleared' = cleared \cup {a}

(***************************************************************************)
(* The runtime request: _invoke_alias_request                              *)
(***************************************************************************)
Working == UNCHANGED <<tables, up, edits, outages>>

Skip == request' = [request EXCEPT !.pc = "next", !.rest = Rest(@)]

Respond(status) == request' = AtRest /\ answer' = status

\* list_gateway_alias_targets, then now = datetime.now(); without targets the
\* request "has no configured targets".
Begin ==
    /\ request.pc = "idle"
    /\ IF targets = <<>> THEN Respond("502")
       ELSE /\ request' = [AtRest EXCEPT !.pc = "next", !.rest = targets]
            /\ UNCHANGED answer
    /\ held' = cooling
    /\ calls' = <<>> /\ cleared' = {}
    /\ Working /\ UNCHANGED <<cooling, owed>>

\* "No available target", or the last failure.
Exhausted ==
    /\ request.pc = "next"
    /\ request.rest = <<>>
    /\ Respond(request.last)
    /\ Working /\ UNCHANGED <<clock, calls>>

SkipDisabled ==
    /\ request.pc = "next"
    /\ request.rest # <<>> /\ ~Current.enabled
    /\ Skip
    /\ Working /\ UNCHANGED <<clock, answer, calls>>

\* Mutant of Callable: the cooldown is not looked at.
CallableCooling(a) == account[a] = "on"

\* An account row that lets its target be called: it exists, is enabled, and
\* has no deadline after the time at which the request began.
Callable(a) == account[a] = "on" /\ a \notin held

\* get_gateway_upstream_account: the row is judged later as it was read here.
ReadAccount ==
    /\ request.pc = "next"
    /\ request.rest # <<>> /\ Current.enabled
    /\ request' = [request EXCEPT !.pc = "model", !.callable = Callable(Account)]
    /\ Working /\ UNCHANGED <<clock, answer, calls>>

\* get_gateway_model
ReadModel ==
    /\ request.pc = "model"
    /\ IF request.callable /\ model[Current.model] = "on"
       THEN request' = [request EXCEPT !.pc = "call"]
       ELSE Skip
    /\ Working /\ UNCHANGED <<clock, answer, calls>>

Failures == {"error", "429", "5xx"}
Answers == {"ok", "4xx"}

\* httpx.request and the usage event that records it.
CallUpstream ==
    /\ request.pc = "call"
    /\ \E o \in IF Account \in up THEN Answers ELSE Failures :
        /\ request' = [request EXCEPT !.pc = "settle", !.outcome = o]
        /\ calls' = Append(calls, [target |-> Current, outcome |-> o])
    /\ Working /\ UNCHANGED <<clock, answer>>

\* Mutant of FailsOver: 429 counts as the client's own error.
FailsOverNot429(outcome, target) ==
    \/ outcome = "error"
    \/ outcome = "5xx" /\ target.on5xx

\* _should_failover; a network error always fails over.
FailsOver(outcome, target) ==
    \/ outcome = "error"
    \/ outcome = "429" /\ target.on429
    \/ outcome = "5xx" /\ target.on5xx

Status(outcome) == IF outcome = "error" THEN "502" ELSE outcome

\* _mark_target_failed. The deadline of a target without a cooldown is the
\* present second, which the request's beginning may precede or not.
Cool(a) ==
    /\ IF Current.cools
       THEN /\ cooling' = cooling \cup {a} /\ owed' = owed \cup {a}
            /\ held' = held \cup {a} /\ cleared' = cleared \ {a}
       ELSE /\ cooling' = cooling \ {a} /\ owed' = owed \ {a}
            /\ held' \in {held \ {a}, held \cup {a}} /\ UNCHANGED cleared

\* Mutant of SettleFailure: the failure is not remembered for the answer.
SettleForgotten ==
    /\ request.pc = "settle" /\ request.outcome \in Failures
    /\ account[Account] # "gone"
    /\ Cool(Account)
    /\ IF FailsOver(request.outcome, Current)
       THEN Skip /\ UNCHANGED answer
       ELSE Respond(Status(request.outcome))
    /\ Working /\ UNCHANGED calls

SettleFailure ==
    /\ request.pc = "settle" /\ request.outcome \in Failures
    /\ account[Account] # "gone"
    /\ Cool(Account)
    /\ IF FailsOver(request.outcome, Current)
       THEN /\ request' = [request EXCEPT !.pc = "next", !.rest = Rest(@),
                                          !.last = Status(request.outcome)]
            /\ UNCHANGED answer
       ELSE Respond(Status(request.outcome))
    /\ Working /\ UNCHANGED calls

\* A 4xx is the client's fault: it is passed on and the account is healthy.
SettleAnswer ==
    /\ request.pc = "settle" /\ request.outcome \in Answers
    /\ account[Account] # "gone"
    /\ Clear(Account) /\ owed' = owed \ {Account}
    /\ Respond(request.outcome)
    /\ Working /\ UNCHANGED calls

\* update_gateway_upstream_account_status does not find the row any more and
\* raises RuntimeError, whatever upstream answered.
SettleDeleted ==
    /\ request.pc = "settle"
    /\ account[Account] = "gone"
    /\ Respond("502")
    /\ Working /\ UNCHANGED <<clock, calls>>

RequestStep ==
    \/ Begin \/ Exhausted \/ SkipDisabled \/ ReadAccount \/ ReadModel
    \/ CallUpstream \/ SettleFailure \/ SettleAnswer \/ SettleDeleted

(***************************************************************************)
(* Administrators                                                          *)
(***************************************************************************)
Beside == UNCHANGED <<up, request, answer, calls, outages>>
Edit == edits < MaxEdits /\ edits' = edits + 1

ModelsOf(a) == {m \in Models : AccountOf[m] = a}
Exists(m) == model[m] \in {"on", "off"}

\* update_gateway_upstream_account: of the fields, enabled.
SetAccountEnabled(a) ==
    /\ Edit
    /\ account[a] # "gone"
    /\ account' = [account EXCEPT ![a] = IF @ = "on" THEN "off" ELSE "on"]
    /\ Beside /\ UNCHANGED <<model, targets, saving, probe, clock>>

\* Mutant of Kept: nothing cascades.
KeptAll(deleted) == targets

\* The rows that a DELETE of models leaves: ON DELETE CASCADE.
Kept(deleted) == RestrictValues(targets, LAMBDA t : t.model \notin deleted)

DeleteModel(m) ==
    /\ Edit
    /\ Exists(m)
    /\ model' = [model EXCEPT ![m] = "gone"]
    /\ targets' = Kept({m})
    /\ Beside /\ UNCHANGED <<account, saving, probe, clock>>

DeleteAccount(a) ==
    /\ Edit
    /\ account[a] # "gone"
    /\ account' = [account EXCEPT ![a] = "gone"]
    /\ model' = [m \in Models |-> IF AccountOf[m] = a THEN "gone" ELSE model[m]]
    /\ targets' = Kept(ModelsOf(a))
    /\ Clear(a) /\ owed' = owed \ {a}
    /\ Beside /\ UNCHANGED <<saving, probe>>

\* upsert_gateway_model: a name that was deleted comes back under another id.
Upsert(m) == model[m] # "gone" /\ model' = [model EXCEPT ![m] = "on"]

\* import_models, for each model it is given.
ImportModel(m) ==
    /\ Edit
    /\ account[AccountOf[m]] # "gone"
    /\ Upsert(m)
    /\ Beside /\ UNCHANGED <<account, targets, saving, probe, clock>>

(***************************************************************************)
(* replace_gateway_alias_targets: a DELETE and one INSERT for each row. A  *)
(* row that breaks UNIQUE or a foreign key ends it without a rollback, and *)
(* every other request reads what it has written so far.                   *)
(***************************************************************************)
StartSave(list) ==
    /\ Edit
    /\ ~saving.active
    /\ list # <<>>
    /\ \A i \in DOMAIN list : Exists(list[i].model)
    /\ targets' = <<>>
    /\ saving' = [active |-> TRUE, rest |-> list]
    /\ Beside /\ UNCHANGED <<account, model, probe, clock>>

InsertTarget ==
    /\ saving.active /\ saving.rest # <<>>
    /\ LET n == First(saving.rest)
           row == saving.rest[n]
       IN
       IF Exists(row.model) /\ \A i \in DOMAIN targets : targets[i].model # row.model
       THEN /\ targets' = [i \in DOMAIN targets \cup {n} |-> IF i = n THEN row ELSE targets[i]]
            /\ saving' = [saving EXCEPT !.rest = Rest(@)]
       ELSE UNCHANGED targets /\ saving' = NotSaving
    /\ Beside /\ UNCHANGED <<account, model, probe, clock, edits>>

EndSave ==
    /\ saving.active /\ saving.rest = <<>>
    /\ saving' = NotSaving
    /\ Beside /\ UNCHANGED <<account, model, targets, probe, clock, edits>>

(***************************************************************************)
(* test_connection and sync_models: a call upstream and then a status      *)
(* update, which writes cooldown_until = NULL whatever the call brought.   *)
(***************************************************************************)
StartProbe(a, sync) ==
    /\ Edit
    /\ probe.pc = "idle"
    /\ account[a] # "gone"
    /\ probe' = [NotProbing EXCEPT !.pc = "call", !.account = a, !.sync = sync]
    /\ Beside /\ UNCHANGED <<account, model, targets, saving, clock>>

\* A healthy answer ends the cooldown that was owed, a failed one does not.
ProbeEnds(healthy) ==
    /\ probe' = NotProbing
    /\ IF account[probe.account] = "gone" THEN UNCHANGED clock
       ELSE /\ Clear(probe.account)
            /\ owed' = IF healthy THEN owed \ {probe.account} ELSE owed
    /\ Beside /\ UNCHANGED <<account, targets, saving, edits>>

ProbeFailed == probe.pc = "call" /\ ProbeEnds(FALSE) /\ UNCHANGED model

TestHealthy == probe.pc = "call" /\ ~probe.sync /\ ProbeEnds(TRUE) /\ UNCHANGED model

\* A success whose body is not the expected JSON ends the sync with an error
\* that nothing catches.
SyncAnswered ==
    /\ probe.pc = "call" /\ probe.sync
    /\ probe' \in {NotProbing, [probe EXCEPT !.pc = "upsert"]}
    /\ Beside /\ UNCHANGED <<account, model, targets, saving, clock, edits>>

\* Upstream lists another model. Its row is refused when the account is gone.
SyncModel ==
    /\ probe.pc = "upsert"
    /\ \/ /\ account[probe.account] = "gone"
          /\ probe' = NotProbing /\ UNCHANGED model
       \/ /\ account[probe.account] # "gone"
          /\ \E m \in ModelsOf(probe.account) \ probe.found :
              /\ Upsert(m)
              /\ probe' = [probe EXCEPT !.found = @ \cup {m}]
    /\ Beside /\ UNCHANGED <<account, targets, saving, clock, edits>>

\* The rows that upstream did not list, off ones too.
Missing == {m \in ModelsOf(probe.account) \ probe.found : Exists(m)}

\* disable_missing_gateway_models selects once ...
SyncListed ==
    /\ probe.pc = "upsert"
    /\ probe' = [probe EXCEPT !.pc = "disable", !.found = Missing]
    /\ Beside /\ UNCHANGED <<account, model, targets, saving, clock, edits>>

\* ... and updates row by row, whatever became of the row since; then comes
\* the status update.
SyncDisable ==
    /\ probe.pc = "disable"
    /\ \/ /\ \E m \in probe.found :
              /\ model' = [model EXCEPT ![m] = IF @ = "gone" THEN @ ELSE "off"]
              /\ probe' = [probe EXCEPT !.found = @ \ {m}]
          /\ Beside /\ UNCHANGED <<account, targets, saving, clock, edits>>
       \/ /\ probe.found = {}
          /\ ProbeEnds(TRUE) /\ UNCHANGED model

SaveStep == InsertTarget \/ EndSave
ProbeStep == ProbeFailed \/ TestHealthy \/ SyncAnswered \/ SyncModel \/ SyncListed \/ SyncDisable

AdminStep ==
    \/ \E a \in Accounts :
        \/ SetAccountEnabled(a) \/ DeleteAccount(a)
        \/ \E sync \in BOOLEAN : StartProbe(a, sync)
    \/ \E m \in Models : DeleteModel(m) \/ ImportModel(m)
    \/ \E list \in TargetLists : StartSave(list)
    \/ SaveStep \/ ProbeStep

(***************************************************************************)
(* Time and upstream                                                       *)
(***************************************************************************)
Expire(a) ==
    /\ a \in cooling
    /\ cooling' = cooling \ {a} /\ owed' = owed \ {a}
    /\ UNCHANGED <<tables, up, held, cleared, request, answer, calls, edits, outages>>

\* A failed test leaves a cooldown owed that cooldown_until no longer shows.
OwedEnds(a) ==
    /\ a \in owed \ cooling
    /\ owed' = owed \ {a}
    /\ UNCHANGED <<tables, up, cooling, held, cleared, request, answer, calls, edits, outages>>

Outage(a) ==
    /\ outages < MaxOutages /\ outages' = outages + 1
    /\ up' = IF a \in up THEN up \ {a} ELSE up \cup {a}
    /\ UNCHANGED <<tables, clock, request, answer, calls, edits>>

\* Before the alias has targets: accounts enabled, some of their models synced.
Init ==
    /\ account = [a \in Accounts |-> "on"]
    /\ model \in [Models -> {"new", "on"}]
    /\ targets = <<>> /\ saving = NotSaving /\ probe = NotProbing
    /\ up = Accounts
    /\ cooling = {} /\ held = {} /\ owed = {} /\ cleared = {}
    /\ request = AtRest /\ answer = "none" /\ calls = <<>>
    /\ edits = 0 /\ outages = 0

Next ==
    \/ RequestStep \/ AdminStep
    \/ \E a \in Accounts : Expire(a) \/ OwedEnds(a) \/ Outage(a)

Spec == Init /\ [][Next]_vars

\* Clients keep asking, handlers that began go on, and time passes.
FairSpec ==
    /\ Spec
    /\ WF_vars(RequestStep) /\ WF_vars(SaveStep) /\ WF_vars(ProbeStep)
    /\ \A a \in Accounts : WF_vars(Expire(a))

(***************************************************************************)
(* Properties                                                              *)
(***************************************************************************)
Outcomes == Failures \cup Answers
Statuses == {"502", "429", "5xx"} \cup Answers

Call == [target : Target, outcome : Outcomes]

IsRows(rows) == DOMAIN rows \subseteq Nat /\ rows \in [DOMAIN rows -> Target]

Request(rows) ==
    [pc : {"idle", "next", "model", "call", "settle"},
     rest : {rows},
     callable : BOOLEAN,
     outcome : Outcomes \cup {"none"},
     last : {"502", "429", "5xx"}]

Probe == [pc : {"idle", "call", "upsert", "disable"},
          account : Accounts \cup {None},
          sync : BOOLEAN,
          found : SUBSET Models]

\* Types; a request that is past its reads has a target in hand, and every
\* row of the alias refers to a model that exists (the foreign keys).
TypeOK ==
    /\ account \in [Accounts -> {"on", "off", "gone"}]
    /\ model \in [Models -> {"new", "on", "off", "gone"}]
    /\ IsRows(targets) /\ \A i \in DOMAIN targets : Exists(targets[i].model)
    /\ saving \in [active : BOOLEAN, rest : {saving.rest}] /\ IsRows(saving.rest)
    /\ probe \in Probe /\ (probe.pc # "idle" => probe.account \in Accounts)
    /\ up \in SUBSET Accounts
    /\ cooling \in SUBSET Accounts /\ held \in SUBSET Accounts
    /\ owed \in SUBSET Accounts /\ cleared \in SUBSET Accounts
    /\ request \in Request(request.rest) /\ IsRows(request.rest)
    /\ request.pc \in {"model", "call", "settle"} => request.rest # <<>>
    /\ answer \in Statuses \cup {"none"}
    /\ calls \in Seq(Call)
    /\ edits \in 0 .. MaxEdits /\ outages \in 0 .. MaxOutages

Cooled(a) ==
    \E i \in DOMAIN calls :
        /\ AccountOf[calls[i].target.model] = a
        /\ calls[i].outcome \in Failures /\ calls[i].target.cools

CallsUpstream == calls' \notin {calls, <<>>}

\* A request that put an account into a cooldown does not call the account
\* again for a later target, not even for another of its models and not even
\* when the cooldown ends meanwhile, unless a test or a sync cleared it since:
\* the account is read again for each target, but judged by the request's now.
CooldownProtects ==
    [][CallsUpstream /\ Cooled(Account) => Account \in cleared]_vars

\* The answer is that of the last call, or 502 when none was made or when its
\* account was deleted meanwhile. An earlier target's status never hides a
\* later one's (last_error_status).
AnswerFollowsCalls ==
    request.pc = "idle" /\ answer # "none" =>
        \/ calls = <<>> /\ answer = "502"
        \/ calls # <<>> /\ answer = Status(calls[Len(calls)].outcome)
        \/ calls # <<>> /\ answer = "502"
           /\ account[AccountOf[calls[Len(calls)].target.model]] = "gone"

Works(t) ==
    /\ t.enabled /\ model[t.model] = "on"
    /\ account[AccountOf[t.model]] = "on" /\ AccountOf[t.model] \in up

\* Once some target works and no flag stops the failover before it, clients
\* are answered by an upstream again: no cooldown or failed target lasts.
Recovers ==
    <>[](/\ ~saving.active
         /\ \E i \in DOMAIN targets : Works(targets[i])
         /\ \A i \in DOMAIN targets : targets[i].on429 /\ targets[i].on5xx)
    => <>[](answer \in Answers)

\* Claimed: during the cooldown that a failure earned, and that no healthy
\* call ended, the account is not called.
CooldownServed ==
    [][CallsUpstream => Account \notin owed]_vars
=============================================================================
