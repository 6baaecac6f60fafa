---------------------------- MODULE LegacyGateway ----------------------------
(***************************************************************************)
(* The legacy gateway process: chat requests and health checks are         *)
(* coroutines of one event loop, which share the routing table and the     *)
(* providers' health in memory.  A coroutine runs alone from one await to  *)
(* the next, and the only awaits are its calls upstream; everything else   *)
(* may happen during them: other requests, checks, and refreshes that      *)
(* replace the table by what config.yaml and the control plane now list.   *)
(*                                                                         *)
(* One model is asked for, by its alias or as provider/alias; the table is *)
(* the sequence of the providers that serve it, in the order of the dict.  *)
(***************************************************************************)
EXTENDS Ordering, Sequences, SequencesExt

CONSTANTS
    Providers,   \* names of providers that serve the model
    Rank,        \* their priorities, ties broken by name
    Tables,      \* what the sources may list
    Chats,    \* coroutines of chat requests
    Checks,      \* coroutines of health checks
    MaxRetries,  \* routing.max_retries
    MaxChanges   \* bound: changes of the sources and of what works upstream

ASSUME LegacyGatewayAssumption ==
    /\ IsFiniteSet(Providers)
    /\ Tables \subseteq {t \in Seq(Providers) : IsInjective(t)}
    /\ Rank \in [Providers -> Nat] /\ IsInjective(Rank)
    /\ MaxRetries \in Nat /\ MaxChanges \in Nat

VARIABLES
    routing,   \* config.yaml: strategy and fallback_enabled
    source,    \* what a refresh would read now
    table,     \* what the last refresh read
    healthy,   \* providers of the table whose status is healthy
    cursor,    \* round_robin_index of the model
    working,   \* providers whose upstream works
    chat,   \* the chat requests
    check,     \* the health checks
    answer,    \* what a request was answered, until the next one
    turns,     \* history: the first attempts of late, on unchanged candidates
    changes    \* changes of the sources and of what works so far

world == <<source, working, changes>>
gatewayVars == <<routing, world, table, healthy, cursor, chat, check, answer, turns>>

Strategies == {"round_robin", "priority", "weighted"}

NoRequest == [plan |-> <<>>, sent |-> FALSE, bad |-> FALSE, failed |-> {}, offered |-> {}]
NoCheck == [todo |-> <<>>, sent |-> FALSE]
NoTurns == [candidates |-> <<>>, starts |-> <<>>]

(***************************************************************************)
(* Refreshing the table                                                    *)
(***************************************************************************)
\* _apply_provider_set: a provider that stays keeps its health, a new one is
\* healthy, and the cursor goes with the last provider of the model.
HealthyIn(t) == {p \in Range(t) : p \in healthy \/ p \notin Range(table)}
CursorIn(t) == IF t = <<>> THEN 0 ELSE cursor

TurnsIn(t) == IF t = <<>> THEN NoTurns ELSE turns
Refresh(t) == table' = t /\ healthy' = HealthyIn(t)

\* refresh_from_sources returns early while the last one is recent.
Refreshed == {table, source}

(***************************************************************************)
(* Planning a request                                                      *)
(***************************************************************************)
Rotated(s, start) == SubSeq(s, start + 1, Len(s)) \o SubSeq(s, 1, start)

\* Of the providers that are asked, those the table has and that are healthy,
\* in the order of the table.
Candidates(t, asked) ==
    LET places == Ascending({k \in DOMAIN t : t[k] \in asked \cap HealthyIn(t)})
    IN [n \in DOMAIN places |-> t[places[n]]]

\* ordered_candidates
Orders(candidates, at) ==
    CASE routing.strategy = "round_robin" -> {Rotated(candidates, at % Len(candidates))}
      [] routing.strategy = "priority" ->
            {InOrder(Range(candidates),
                     {e \in Providers \X Providers : Rank[e[1]] < Rank[e[2]]})}
      [] routing.strategy = "weighted" -> SetToSeqs(Range(candidates))

\* Mutant of Advanced: the cursor moves at the plan and at the call.
AdvancedTwice(candidates, at) ==
    IF routing.strategy # "round_robin" \/ candidates = <<>> THEN at
    ELSE (at + 2) % Len(candidates)

Advanced(candidates, at) ==
    IF routing.strategy # "round_robin" \/ candidates = <<>> THEN at
    ELSE ((at % Len(candidates)) + 1) % Len(candidates)

\* Mutant of Attempts: max_retries counts the first attempt too.
AttemptsOff(order) ==
    SubSeq(order, 1, IF ~routing.fallback \/ MaxRetries < 1 THEN 1
                     ELSE IF Len(order) < MaxRetries THEN Len(order) ELSE MaxRetries)

\* _get_attempt_plan
Attempts(order) ==
    SubSeq(order, 1, IF ~routing.fallback THEN 1
                     ELSE IF Len(order) < MaxRetries + 1 THEN Len(order) ELSE MaxRetries + 1)

\* The first attempts of the last requests that had these candidates, as many
\* as there are candidates, since one of them had others.
Turned(candidates, first) ==
    LET old == IF turns.candidates = candidates THEN turns.starts ELSE <<>>
        new == Append(old, first)
    IN  [candidates |-> candidates,
         starts |-> IF Len(new) <= Len(candidates) THEN new ELSE Tail(new)]

(***************************************************************************)
(* Chat requests                                                           *)
(***************************************************************************)
Quiet(r) == chat[r] = NoRequest

\* chat_completion: the rate limiter refuses after the refresh.
Refuse(r) ==
    /\ Quiet(r)
    /\ \E t \in Refreshed :
        Refresh(t) /\ cursor' = CursorIn(t) /\ turns' = TurnsIn(t)
    /\ answer' = [answer EXCEPT ![r] = "429"]
    /\ UNCHANGED <<routing, world, chat, check>>

\* "unavailable or all providers are unhealthy"
NoCandidate(r, asked) ==
    /\ Quiet(r)
    /\ \E t \in Refreshed :
        /\ asked \cap HealthyIn(t) = {}
        /\ Refresh(t) /\ cursor' = CursorIn(t) /\ turns' = TurnsIn(t)
    /\ answer' = [answer EXCEPT ![r] = "400"]
    /\ UNCHANGED <<routing, world, chat, check>>

\* The plan is made and the first provider called.  An alias is asked of all
\* Providers, provider/alias of one, and only the former moves the cursor.  A
\* bad request is one that a provider answers with 4xx.
Plan(r, asked, bad) ==
    /\ Quiet(r)
    /\ \E t \in Refreshed :
        LET candidates == Candidates(t, asked)
            alias == asked = Providers
            at == IF alias THEN CursorIn(t) ELSE 0
        IN  /\ candidates # <<>>
            /\ Refresh(t)
            /\ cursor' = IF alias THEN Advanced(candidates, at) ELSE CursorIn(t)
            /\ \E order \in Orders(candidates, at) :
                /\ chat' = [chat EXCEPT ![r] =
                      [plan |-> Attempts(order), sent |-> order[1] \in working, bad |-> bad,
                       failed |-> {}, offered |-> Range(candidates)]]
                /\ turns' = IF alias THEN Turned(candidates, order[1]) ELSE turns
    /\ answer' = [answer EXCEPT ![r] = "none"]
    /\ UNCHANGED <<routing, world, check>>

Called(r) == Head(chat[r].plan)

\* An answer left upstream at some time since the call was sent.
Reached(p, sent) == IF sent = (p \in working) THEN {sent} ELSE BOOLEAN

\* Mutant of Marked: a status is made for a provider that has none.
MarkedAlways(p, good) == IF good THEN healthy \cup {p} ELSE healthy \ {p}

\* mark_provider_result: a provider that left the table has no status.
Marked(p, good) ==
    IF good /\ p \in Range(table) THEN healthy \cup {p} ELSE
    IF good THEN healthy ELSE healthy \ {p}

Finish(r, status) ==
    /\ chat' = [chat EXCEPT ![r] = NoRequest]
    /\ answer' = [answer EXCEPT ![r] = status]

\* ProviderCallError: the next provider of the plan is called, if any.
Fail(r) ==
    IF Len(chat[r].plan) = 1 THEN Finish(r, "502")
    ELSE /\ chat' = [chat EXCEPT ![r].plan = Tail(@),
                                       ![r].sent = chat[r].plan[2] \in working,
                                       ![r].failed = @ \cup {Called(r)}]
         /\ UNCHANGED answer

Awaiting == UNCHANGED <<routing, world, table, cursor, check, turns>>

\* A timeout, or no connection.
Lost(r) ==
    /\ ~Quiet(r)
    /\ FALSE \in Reached(Called(r), chat[r].sent)
    /\ healthy' = Marked(Called(r), FALSE)
    /\ Fail(r)
    /\ Awaiting

\* A response of a provider that a refresh removed during the call: the
\* status entry is looked up without a check and KeyError ends the request.
RemovedMeanwhile(r) ==
    /\ ~Quiet(r)
    /\ Called(r) \notin Range(table)
    /\ Finish(r, "500")
    /\ Awaiting /\ UNCHANGED healthy

Succeed(r) ==
    /\ ~Quiet(r) /\ Called(r) \in Range(table)
    /\ TRUE \in Reached(Called(r), chat[r].sent) /\ ~chat[r].bad
    /\ healthy' = Marked(Called(r), TRUE)
    /\ Finish(r, "200")
    /\ Awaiting

\* Any other status, be it the provider's fault or the request's.
ErrorStatus(r) ==
    /\ ~Quiet(r) /\ Called(r) \in Range(table)
    /\ FALSE \in Reached(Called(r), chat[r].sent) \/ chat[r].bad
    /\ healthy' = Marked(Called(r), FALSE)
    /\ Fail(r)
    /\ Awaiting

\* A 2xx that is not JSON fails over, but the provider stays healthy.
Garbled(r) ==
    /\ ~Quiet(r) /\ Called(r) \in Range(table)
    /\ TRUE \in Reached(Called(r), chat[r].sent)
    /\ healthy' = Marked(Called(r), TRUE)
    /\ Fail(r)
    /\ Awaiting

RequestStep(r) == Lost(r) \/ RemovedMeanwhile(r) \/ Succeed(r) \/ ErrorStatus(r) \/ Garbled(r)

(***************************************************************************)
(* Health checks                                                           *)
(***************************************************************************)
Probing(c, todo) ==
    check' = [check EXCEPT ![c] =
        IF todo = <<>> THEN NoCheck
        ELSE [todo |-> todo, sent |-> Head(todo) \in working]]

\* Mutant of StartCheck: providers known to be unhealthy are spared.
StartCheckHealthy(c) ==
    /\ check[c] = NoCheck
    /\ \E t \in Refreshed :
        /\ Refresh(t) /\ cursor' = CursorIn(t) /\ turns' = TurnsIn(t)
        /\ Probing(c, Candidates(t, Providers))
    /\ UNCHANGED <<routing, world, chat, answer>>

\* health_check: a refresh, then a snapshot of the table to go through.
StartCheck(c) ==
    /\ check[c] = NoCheck
    /\ \E t \in Refreshed :
        /\ Refresh(t) /\ cursor' = CursorIn(t) /\ turns' = TurnsIn(t)
        /\ Probing(c, t)
    /\ UNCHANGED <<routing, world, chat, answer>>

CheckAnswered(c) ==
    /\ check[c] # NoCheck
    /\ \E good \in Reached(Head(check[c].todo), check[c].sent) :
        healthy' = Marked(Head(check[c].todo), good)
    /\ Probing(c, Tail(check[c].todo))
    /\ UNCHANGED <<routing, world, table, cursor, chat, answer, turns>>

CheckStep(c) == StartCheck(c) \/ CheckAnswered(c)

(***************************************************************************)
(* The world outside                                                       *)
(***************************************************************************)
Inside == UNCHANGED <<routing, table, healthy, cursor, chat, check, answer, turns>>
Change == changes < MaxChanges /\ changes' = changes + 1

SourceChanges ==
    /\ Change
    /\ source' \in Tables \ {source}
    /\ Inside /\ UNCHANGED working

Outage(p) ==
    /\ Change
    /\ working' = IF p \in working THEN working \ {p} ELSE working \cup {p}
    /\ Inside /\ UNCHANGED source

GatewayInit ==
    /\ routing \in [strategy : Strategies, fallback : BOOLEAN]
    /\ source \in Tables
    /\ table = source /\ healthy = Range(table)
    /\ cursor = 0
    /\ working = Providers
    /\ chat = [r \in Chats |-> NoRequest]
    /\ check = [c \in Checks |-> NoCheck]
    /\ answer = [r \in Chats |-> "none"]
    /\ turns = NoTurns /\ changes = 0

GatewayNext ==
    \/ \E r \in Chats :
        \/ Refuse(r)
        \/ \E asked \in {Providers} \cup {{p} : p \in Providers} :
            \/ NoCandidate(r, asked)
            \/ \E bad \in BOOLEAN : Plan(r, asked, bad)
        \/ RequestStep(r)
    \/ \E c \in Checks : CheckStep(c)
    \/ SourceChanges
    \/ \E p \in Providers : Outage(p)

GatewaySpec == GatewayInit /\ [][GatewayNext]_gatewayVars

\* Every call upstream ends, if only by its timeout, and health is polled.
FairGateway ==
    /\ GatewaySpec
    /\ \A r \in Chats : WF_gatewayVars(RequestStep(r))
    /\ \A c \in Checks : WF_gatewayVars(CheckStep(c))

(***************************************************************************)
(* Properties                                                              *)
(***************************************************************************)
Task == [plan : Seq(Providers), sent : BOOLEAN, bad : BOOLEAN,
         failed : SUBSET Providers, offered : SUBSET Providers]

\* Types; health is known of providers of the table only (the status dict is
\* replaced together with the providers).
GatewayTypeOK ==
    /\ routing \in [strategy : Strategies, fallback : BOOLEAN]
    /\ source \in Tables /\ table \in Tables
    /\ healthy \subseteq Range(table)
    /\ cursor \in 0 .. Cardinality(Providers)
    /\ working \subseteq Providers
    /\ chat \in [Chats -> Task]
    /\ check \in [Checks -> [todo : Seq(Providers), sent : BOOLEAN]]
    /\ answer \in [Chats -> {"none", "200", "400", "429", "500", "502"}]
    /\ turns \in [candidates : Seq(Providers), starts : Seq(Providers)]
    /\ changes \in 0 .. MaxChanges

\* Round robin: while the candidates stay the same, no one has a second turn
\* before each of the others had one, whatever else the event loop does
\* between the requests (ordered_candidates).
TakesTurns == routing.strategy = "round_robin" => IsInjective(turns.starts)

\* "All provider attempts failed" is answered only when as many different
\* providers failed as the configuration allows: max_retries more than one,
\* fewer when there were fewer candidates, and one without fallback.
AllTried ==
    [][\A r \in Chats :
        ~Quiet(r) /\ chat'[r] = NoRequest /\ answer'[r] = "502" =>
            LET failed == Cardinality(chat[r].failed \cup {Called(r)}) IN
            IF routing.fallback
            THEN failed = MaxRetries + 1 \/ failed = Cardinality(chat[r].offered)
            ELSE failed = 1]_gatewayVars

Malformed == \E r \in Chats : chat[r].bad

\* The health of a provider follows its upstream, in spite of results that
\* arrive late: one that works for good is offered again and one that fails
\* for good is not, provided that /health is polled.  A malformed request
\* counts against the provider it was sent to, so the former needs them to end.
HealthTracks ==
    \A p \in Providers :
        /\ <>[](p \in Range(table) /\ p \in working /\ ~Malformed) => <>[](p \in healthy)
        /\ <>[](p \in Range(table) /\ p \notin working) => <>[](p \notin healthy)
=============================================================================
