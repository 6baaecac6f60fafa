------------------------- MODULE AliasFailoverProofs -------------------------
(***************************************************************************)
(* Proofs about AliasFailover: what a request is answered and whom it does *)
(* not call, for any accounts, models, target lists and edits beside it.   *)
(***************************************************************************)
EXTENDS AliasFailover, FiniteSetTheorems, TLAPS

(***************************************************************************)
(* The inductive invariant                                                 *)
(***************************************************************************)
LastCall == calls[Len(calls)]

\* While a request goes on it carries the status of its last call, and its
\* last call is that of the target in hand until that is settled.
Progress ==
    /\ request.pc \in {"next", "model", "call"} =>
          request.last = IF calls = <<>> THEN "502" ELSE Status(LastCall.outcome)
    /\ request.pc = "settle" =>
          /\ calls # <<>> /\ request.outcome \in Outcomes
          /\ LastCall = [target |-> Current, outcome |-> request.outcome]

\* The calls whose failure has put their account into a cooldown.
Settled == {i \in DOMAIN calls :
              /\ calls[i].outcome \in Failures /\ calls[i].target.cools
              /\ request.pc = "settle" => i # Len(calls)}

\* An account that the request cooled is held or was cleared, and one that it
\* found callable is not held: only the request itself adds to held.
Protected ==
    request.pc # "idle" =>
        /\ \/ request.pc \in {"call", "settle"}
           \/ request.pc = "model" /\ request.callable
           => Account \notin held
        /\ \A i \in Settled : AccountOf[calls[i].target.model] \in held \cup cleared

Inv == TypeOK /\ AnswerFollowsCalls /\ Progress /\ Protected

(***************************************************************************)
(* Rows                                                                    *)
(***************************************************************************)
LEMMA MinOfNaturals ==
    ASSUME NEW S \in SUBSET Nat, S # {}
    PROVE  Min(S) \in S
<1> DEFINE R == OpToRel(<, Nat)
<1>1. \E x \in S : \A y \in S : <<y, x>> \notin R
  <2>1. IsWellFoundedOn(R, Nat)
    BY NatLessThanWellFounded, Zenon
  <2> QED
    BY <2>1, WFMin, Zenon
<1>2. PICK x \in S : \A y \in S : ~(y < x)
  BY <1>1 DEF OpToRel
<1>3. \A y \in S : x =< y
  BY <1>2
<1> QED
  BY <1>3 DEF Min

LEMMA FirstOfRows ==
    ASSUME NEW rows, IsRows(rows), rows # <<>>
    PROVE  First(rows) \in DOMAIN rows /\ rows[First(rows)] \in Target
<1>1. DOMAIN rows # {}
  <2> SUFFICES ASSUME DOMAIN rows = {}
               PROVE  rows = <<>>
    OBVIOUS
  <2>1. rows \in [{} -> Target] /\ <<>> \in [{} -> Target]
    BY DEF IsRows
  <2> QED
    BY <2>1
<1> QED
  BY <1>1, MinOfNaturals DEF IsRows, First

LEMMA RestOfRows ==
    ASSUME NEW rows, IsRows(rows)
    PROVE  /\ IsRows(Rest(rows)) /\ DOMAIN Rest(rows) \subseteq DOMAIN rows
           /\ \A i \in DOMAIN Rest(rows) : Rest(rows)[i] = rows[i]
<1> DEFINE D == DOMAIN rows \ {First(rows)}
<1>1. Rest(rows) = [i \in D |-> rows[i]]
  BY DEF Rest, Restrict
<1> QED
  BY <1>1 DEF IsRows

LEMMA KeptRows ==
    ASSUME IsRows(targets), NEW deleted
    PROVE  /\ IsRows(Kept(deleted)) /\ DOMAIN Kept(deleted) \subseteq DOMAIN targets
           /\ \A i \in DOMAIN Kept(deleted) :
                 Kept(deleted)[i] = targets[i] /\ targets[i].model \notin deleted
<1> DEFINE D == {i \in DOMAIN targets : targets[i].model \notin deleted}
<1>1. Kept(deleted) = [i \in D |-> targets[i]]
  BY DEF Kept, RestrictValues, Restrict
<1> QED
  BY <1>1 DEF IsRows

LEMMA ListIsRows ==
    ASSUME NEW list \in TargetLists
    PROVE  IsRows(list)
<1>1. list \in Seq(Target)
  BY AliasFailoverAssumption
<1> QED
  BY <1>1 DEF IsRows

(***************************************************************************)
(* Type correctness                                                        *)
(***************************************************************************)
LEMMA CurrentIsTarget ==
    ASSUME TypeOK, request.rest # <<>>
    PROVE  /\ Current \in Target /\ Account \in Accounts
           /\ IsRows(Rest(request.rest))
<1>1. Current \in Target
  BY FirstOfRows DEF TypeOK, Current
<1>2. Account \in Accounts
  BY <1>1, AliasFailoverAssumption DEF Account, Target
<1> QED
  BY <1>1, <1>2, RestOfRows DEF TypeOK

LEMMA InitTypes == Init => TypeOK
<1> SUFFICES ASSUME Init
             PROVE  TypeOK
  OBVIOUS
<1>1. IsRows(<<>>)
  BY DEF IsRows
<1>2. model \in [Models -> {"new", "on", "off", "gone"}]
  BY DEF Init
<1> QED
  BY <1>1, <1>2, AliasFailoverAssumption
  DEF Init, TypeOK, AtRest, NotSaving, NotProbing, Request, Probe, Statuses, Outcomes

\* What the conjuncts of TypeOK say of the request's own variables.
RequestTypes ==
    /\ cooling \in SUBSET Accounts /\ held \in SUBSET Accounts
    /\ owed \in SUBSET Accounts /\ cleared \in SUBSET Accounts
    /\ request \in Request(request.rest) /\ IsRows(request.rest)
    /\ request.pc \in {"model", "call", "settle"} => request.rest # <<>>
    /\ answer \in Statuses \cup {"none"}
    /\ calls \in Seq(Call)

LEMMA RequestStepTypes ==
    ASSUME TypeOK, RequestStep
    PROVE  TypeOK'
<1>1. /\ UNCHANGED <<tables, up, edits, outages>>
  BY DEF RequestStep, Begin, Exhausted, SkipDisabled, ReadAccount, ReadModel, CallUpstream,
         SettleFailure, SettleAnswer, SettleDeleted, Working
<1>2. IsRows(<<>>)
  BY DEF IsRows
<1>3. AtRest \in Request(<<>>) /\ AtRest.rest = <<>> /\ AtRest.pc = "idle"
  BY DEF AtRest, Request, Outcomes
<1>4. RequestTypes
  BY DEF TypeOK, RequestTypes
<1>5. RequestTypes'
  <2>1. CASE Begin
    <3>1. IsRows(targets) /\ held' = cooling /\ cleared' = {} /\ calls' = <<>>
      BY <2>1 DEF TypeOK, Begin
    <3>2. CASE targets = <<>>
      BY <2>1, <3>1, <3>2, <1>2, <1>3, <1>4 DEF Begin, Respond, RequestTypes, Statuses
    <3>3. CASE targets # <<>>
      <4>1. request' = [AtRest EXCEPT !.pc = "next", !.rest = targets] /\ answer' = answer
        BY <2>1, <3>3 DEF Begin
      <4>2. request' \in Request(targets) /\ request'.rest = targets /\ request'.pc = "next"
        BY <4>1 DEF AtRest, Request, Outcomes
      <4> QED
        BY <2>1, <3>1, <4>1, <4>2, <1>4 DEF Begin, RequestTypes
    <3> QED
      BY <3>2, <3>3
  <2>2. CASE Exhausted
    BY <2>2, <1>2, <1>3, <1>4 DEF Exhausted, Respond, RequestTypes, Statuses, Request, clock
  <2>3. CASE SkipDisabled
    BY <2>3, <1>4, CurrentIsTarget DEF SkipDisabled, Skip, RequestTypes, Request, clock
  <2>4. CASE ReadAccount
    BY <2>4, <1>4 DEF ReadAccount, Callable, RequestTypes, Request, clock
  <2>5. CASE ReadModel
    BY <2>5, <1>4, CurrentIsTarget DEF ReadModel, Skip, RequestTypes, Request, clock
  <2>6. CASE CallUpstream
    <3>1. PICK o \in Outcomes :
            /\ request' = [request EXCEPT !.pc = "settle", !.outcome = o]
            /\ calls' = Append(calls, [target |-> Current, outcome |-> o])
      BY <2>6 DEF CallUpstream, Outcomes
    <3>2. request.rest # <<>>
      BY <2>6, <1>4 DEF CallUpstream, RequestTypes
    <3>3. [target |-> Current, outcome |-> o] \in Call
      BY <3>2, CurrentIsTarget DEF Call
    <3>4. request' \in Request(request.rest) /\ request'.rest = request.rest
      BY <3>1, <1>4 DEF RequestTypes, Request
    <3>5. calls' \in Seq(Call)
      BY <3>1, <3>3, <1>4 DEF RequestTypes
    <3> QED
      BY <2>6, <3>2, <3>4, <3>5, <1>4 DEF CallUpstream, RequestTypes, clock
  <2>7. CASE SettleFailure
    <3>1. request.rest # <<>> /\ calls' = calls
      BY <2>7, <1>4 DEF SettleFailure, RequestTypes
    <3>2. Account \in Accounts /\ IsRows(Rest(request.rest))
      BY <3>1, CurrentIsTarget
    <3>3. /\ cooling' \in SUBSET Accounts /\ held' \in SUBSET Accounts
          /\ owed' \in SUBSET Accounts /\ cleared' \in SUBSET Accounts
      BY <2>7, <3>2, <1>4 DEF SettleFailure, Cool, RequestTypes
    <3>4. Status(request.outcome) \in {"502", "429", "5xx"}
      BY <2>7 DEF SettleFailure, Status, Failures
    <3>5. CASE FailsOver(request.outcome, Current)
      <4>1. /\ request' = [request EXCEPT !.pc = "next", !.rest = Rest(@),
                                          !.last = Status(request.outcome)]
            /\ answer' = answer
        BY <2>7, <3>5 DEF SettleFailure
      <4>2. /\ request' \in Request(Rest(request.rest)) /\ request'.rest = Rest(request.rest)
            /\ request'.pc = "next"
        BY <4>1, <3>4, <1>4 DEF RequestTypes, Request
      <4> QED
        BY <3>1, <3>2, <3>3, <4>1, <4>2, <1>4 DEF RequestTypes
    <3>6. CASE ~FailsOver(request.outcome, Current)
      <4>1. request' = AtRest /\ answer' = Status(request.outcome)
        BY <2>7, <3>6 DEF SettleFailure, Respond
      <4> QED
        BY <3>1, <3>3, <3>4, <4>1, <1>2, <1>3, <1>4 DEF RequestTypes, Statuses
    <3> QED
      BY <3>5, <3>6
  <2>8. CASE SettleAnswer
    BY <2>8, <1>2, <1>3, <1>4, CurrentIsTarget
    DEF SettleAnswer, Clear, Respond, Statuses, RequestTypes
  <2>9. CASE SettleDeleted
    BY <2>9, <1>2, <1>3, <1>4 DEF SettleDeleted, Respond, Statuses, RequestTypes, clock
  <2> QED
    BY <2>1, <2>2, <2>3, <2>4, <2>5, <2>6, <2>7, <2>8, <2>9 DEF RequestStep
<1> QED
  BY <1>1, <1>5 DEF TypeOK, RequestTypes, tables, Exists

LEMMA AdminStepTypes ==
    ASSUME TypeOK, AdminStep
    PROVE  TypeOK'
<1>1. UNCHANGED <<up, request, answer, calls, outages>>
  BY DEF AdminStep, SaveStep, ProbeStep, SetAccountEnabled, DeleteAccount, StartProbe, DeleteModel,
         ImportModel, StartSave, InsertTarget, EndSave, ProbeFailed, TestHealthy, SyncAnswered,
         SyncModel, SyncListed, SyncDisable, ProbeEnds, Beside
<1> DEFINE Accts == account' \in [Accounts -> {"on", "off", "gone"}]
           Mods == model' \in [Models -> {"new", "on", "off", "gone"}]
           Rows == (IsRows(targets) /\ \A i \in DOMAIN targets : Exists(targets[i].model))'
           Saves == /\ saving' \in [active : BOOLEAN, rest : {saving'.rest}]
                    /\ IsRows(saving'.rest)
           Probes == probe' \in Probe /\ (probe'.pc # "idle" => probe'.account \in Accounts)
           Clocks == /\ cooling' \in SUBSET Accounts /\ held' \in SUBSET Accounts
                     /\ owed' \in SUBSET Accounts /\ cleared' \in SUBSET Accounts
           Edited == edits' \in 0 .. MaxEdits
           All == Accts /\ Mods /\ Rows /\ Saves /\ Probes /\ Clocks /\ Edited
<1>2. /\ UNCHANGED account => Accts
      /\ UNCHANGED model => Mods
      /\ UNCHANGED <<model, targets>> => Rows
      /\ UNCHANGED saving => Saves
      /\ UNCHANGED probe => Probes
      /\ UNCHANGED clock => Clocks
      /\ UNCHANGED edits => Edited
  BY DEF TypeOK, clock, Exists
<1>3. Edit => Edited
  BY AliasFailoverAssumption DEF TypeOK, Edit
<1>4. \A a \in Accounts : Clear(a) /\ owed' \in SUBSET Accounts => Clocks
  BY DEF TypeOK, Clear
<1>5. (/\ \A m \in Models : Exists(m) => Exists(m)'
       /\ targets' = targets) => Rows
  <2>1. \A i \in DOMAIN targets : targets[i].model \in Models
    BY DEF TypeOK, IsRows, Target
  <2> QED
    BY <2>1 DEF TypeOK
<1> SUFFICES All
  BY <1>1 DEF TypeOK
<1> HIDE DEF Accts, Mods, Rows, Saves, Probes, Clocks, Edited
<1>6. ASSUME NEW a \in Accounts, SetAccountEnabled(a)
      PROVE  All
  <2>1. Accts
    BY <1>6 DEF SetAccountEnabled, TypeOK, Accts
  <2> QED
    BY <1>2, <1>3, <1>6, <2>1 DEF SetAccountEnabled
<1>7. ASSUME NEW a \in Accounts, DeleteAccount(a)
      PROVE  All
  <2>1. Accts /\ Mods
    BY <1>7 DEF DeleteAccount, TypeOK, Accts, Mods
  <2>2. Clocks
    BY <1>4, <1>7 DEF DeleteAccount, TypeOK
  <2>3. Rows
    <3>1. IsRows(targets)
      BY DEF TypeOK
    <3>2. \A i \in DOMAIN targets : targets[i].model \in Models /\ Exists(targets[i].model)
      BY DEF TypeOK, IsRows, Target
    <3>3. \A m \in Models : m \notin ModelsOf(a) => model'[m] = model[m]
      BY <1>7 DEF DeleteAccount, ModelsOf
    <3> QED
      BY <1>7, <3>1, <3>2, <3>3, KeptRows DEF DeleteAccount, Exists, Rows
  <2> QED
    BY <1>2, <1>3, <1>7, <2>1, <2>2, <2>3 DEF DeleteAccount
<1>8. ASSUME NEW a \in Accounts, NEW sync \in BOOLEAN, StartProbe(a, sync)
      PROVE  All
  <2>1. Probes
    BY <1>8 DEF StartProbe, NotProbing, Probe, Probes
  <2> QED
    BY <1>2, <1>3, <1>8, <2>1 DEF StartProbe
<1>9. ASSUME NEW m \in Models, DeleteModel(m)
      PROVE  All
  <2>1. Mods
    BY <1>9 DEF DeleteModel, TypeOK, Mods
  <2>2. Rows
    <3>1. IsRows(targets)
      BY DEF TypeOK
    <3>2. \A i \in DOMAIN targets : targets[i].model \in Models /\ Exists(targets[i].model)
      BY DEF TypeOK, IsRows, Target
    <3>3. \A n \in Models : n # m => model'[n] = model[n]
      BY <1>9 DEF DeleteModel, TypeOK
    <3> QED
      BY <1>9, <3>1, <3>2, <3>3, KeptRows DEF DeleteModel, Exists, Rows
  <2> QED
    BY <1>2, <1>3, <1>9, <2>1, <2>2 DEF DeleteModel
<1>10. ASSUME NEW m \in Models, Upsert(m)
       PROVE  Mods /\ \A n \in Models : Exists(n) => Exists(n)'
  BY <1>10 DEF Upsert, TypeOK, Exists, Mods
<1>11. ASSUME NEW m \in Models, ImportModel(m)
       PROVE  All
  BY <1>2, <1>3, <1>5, <1>10, <1>11 DEF ImportModel
<1>12. ASSUME NEW list \in TargetLists, StartSave(list)
       PROVE  All
  <2>1. Rows
    BY <1>12 DEF StartSave, IsRows, Rows
  <2>2. Saves
    BY <1>12, ListIsRows DEF StartSave, Saves
  <2> QED
    BY <1>2, <1>3, <1>12, <2>1, <2>2 DEF StartSave
<1>13. CASE InsertTarget
  <2> DEFINE n == First(saving.rest)
             row == saving.rest[n]
  <2>1. IsRows(targets) /\ IsRows(saving.rest)
    BY DEF TypeOK
  <2>2. n \in Nat /\ row \in Target /\ IsRows(Rest(saving.rest))
    BY <1>13, <2>1, FirstOfRows, RestOfRows DEF InsertTarget, IsRows
  <2>3. CASE /\ Exists(row.model)
             /\ targets' = [i \in DOMAIN targets \cup {n} |-> IF i = n THEN row ELSE targets[i]]
             /\ saving' = [saving EXCEPT !.rest = Rest(@)]
    <3> HIDE DEF n, row
    <3>1. Saves
      BY <2>2, <2>3 DEF TypeOK, Saves
    <3>2. UNCHANGED model
      BY <1>13 DEF InsertTarget
    <3>3. IsRows(targets')
      BY <2>1, <2>2, <2>3 DEF IsRows
    <3>4. \A i \in DOMAIN targets' : Exists(targets'[i].model)
      BY <2>3 DEF TypeOK
    <3> QED
      BY <1>2, <1>13, <3>1, <3>2, <3>3, <3>4 DEF InsertTarget, Exists, Rows
  <2>4. CASE UNCHANGED targets /\ saving' = NotSaving
    <3>1. Saves
      BY <2>4 DEF NotSaving, IsRows, Saves
    <3> QED
      BY <1>2, <1>13, <2>4, <3>1 DEF InsertTarget
  <2> QED
    BY <1>13, <2>3, <2>4 DEF InsertTarget
<1>14. CASE EndSave
  <2>1. Saves
    BY <1>14 DEF EndSave, NotSaving, IsRows, Saves
  <2> QED
    BY <1>2, <1>14, <2>1 DEF EndSave
<1>15. ASSUME NEW healthy \in BOOLEAN, probe.pc # "idle", ProbeEnds(healthy)
       PROVE  Accts /\ Saves /\ Probes /\ Clocks /\ Edited /\ UNCHANGED targets
  <2>1. Probes
    BY <1>15 DEF ProbeEnds, NotProbing, Probe, Probes
  <2>2. Clocks
    BY <1>2, <1>4, <1>15 DEF ProbeEnds, TypeOK
  <2> QED
    BY <1>2, <1>15, <2>1, <2>2 DEF ProbeEnds
<1>16. CASE ProbeFailed \/ TestHealthy
  BY <1>2, <1>15, <1>16 DEF ProbeFailed, TestHealthy
<1>17. CASE SyncAnswered
  <2>1. Probes
    <3>1. CASE probe' = NotProbing
      BY <3>1 DEF NotProbing, Probe, Probes
    <3>2. CASE probe' = [probe EXCEPT !.pc = "upsert"]
      BY <1>17, <3>2 DEF SyncAnswered, Probe, TypeOK, Probes
    <3> QED
      BY <1>17, <3>1, <3>2 DEF SyncAnswered
  <2> QED
    BY <1>2, <1>17, <2>1 DEF SyncAnswered
<1>18. CASE SyncModel
  <2>1. CASE probe' = NotProbing /\ UNCHANGED model
    <3>1. Probes
      BY <2>1 DEF NotProbing, Probe, Probes
    <3> QED
      BY <1>2, <1>18, <2>1, <3>1 DEF SyncModel
  <2>2. ASSUME NEW m \in Models, Upsert(m), probe' = [probe EXCEPT !.found = @ \cup {m}]
        PROVE  All
    <3>1. Probes
      BY <2>2 DEF TypeOK, Probe, Probes
    <3> QED
      BY <1>2, <1>5, <1>10, <1>18, <2>2, <3>1 DEF SyncModel
  <2> QED
    BY <1>18, <2>1, <2>2 DEF SyncModel, ModelsOf
<1>19. CASE SyncListed
  <2>1. Probes
    <3>1. Missing \in SUBSET Models
      BY DEF Missing, ModelsOf
    <3> QED
      BY <1>19, <3>1 DEF SyncListed, TypeOK, Probe, Probes
  <2> QED
    BY <1>2, <1>19, <2>1 DEF SyncListed
<1>20. CASE SyncDisable
  <2>1. ASSUME NEW m \in probe.found,
               model' = [model EXCEPT ![m] = IF @ = "gone" THEN @ ELSE "off"],
               probe' = [probe EXCEPT !.found = @ \ {m}],
               Beside, UNCHANGED <<account, targets, saving, clock, edits>>
        PROVE  All
    <3>1. m \in Models /\ probe.found \ {m} \in SUBSET Models
      BY DEF TypeOK, Probe
    <3>2. Mods /\ \A n \in Models : Exists(n) => Exists(n)'
      BY <2>1, <3>1 DEF TypeOK, Exists, Mods
    <3>3. Probes
      BY <2>1, <3>1 DEF TypeOK, Probe, Probes
    <3> QED
      BY <1>2, <1>5, <2>1, <3>2, <3>3
  <2>2. CASE ProbeEnds(TRUE) /\ UNCHANGED model
    BY <1>2, <1>15, <1>20, <2>2 DEF SyncDisable
  <2> QED
    BY <1>20, <2>1, <2>2 DEF SyncDisable
<1> QED
  BY <1>6, <1>7, <1>8, <1>9, <1>11, <1>12, <1>13, <1>14, <1>16, <1>17, <1>18, <1>19, <1>20
  DEF AdminStep, SaveStep, ProbeStep

LEMMA WorldStepTypes ==
    ASSUME TypeOK, NEW a \in Accounts, Expire(a) \/ OwedEnds(a) \/ Outage(a)
    PROVE  TypeOK'
<1>1. CASE Expire(a)
  BY <1>1 DEF Expire, TypeOK, tables, Exists
<1>2. CASE OwedEnds(a)
  BY <1>2 DEF OwedEnds, TypeOK, tables, Exists
<1>3. CASE Outage(a)
  BY <1>3, AliasFailoverAssumption DEF Outage, TypeOK, tables, clock, Exists
<1> QED
  BY <1>1, <1>2, <1>3

LEMMA NextTypes == TypeOK /\ [Next]_vars => TypeOK'
<1>1. TypeOK /\ UNCHANGED vars => TypeOK'
  BY DEF TypeOK, vars, tables, clock, Exists
<1> QED
  BY <1>1, RequestStepTypes, AdminStepTypes, WorldStepTypes DEF Next

\* Types, and every row of the alias refers to a model that exists, whatever
\* is saved, deleted and synchronised in whatever order.
THEOREM TypeCorrect == Spec => []TypeOK
BY InitTypes, NextTypes, PTL DEF Spec

(***************************************************************************)
(* Answers                                                                 *)
(***************************************************************************)
LEMMA InitInv == Init => Inv
<1> SUFFICES ASSUME Init
             PROVE  Inv
  OBVIOUS
<1>1. request.pc = "idle" /\ answer = "none" /\ calls = <<>>
  BY DEF Init, AtRest
<1> QED
  BY <1>1, InitTypes DEF Inv, AnswerFollowsCalls, Progress, Protected

\* What other steps than the request's must leave alone, or may only do so.
LEMMA BesideInv ==
    ASSUME Inv, TypeOK', UNCHANGED <<request, answer, calls>>,
           \A a \in Accounts : account[a] = "gone" => account'[a] = "gone",
           held' \subseteq held, held \cup cleared \subseteq held' \cup cleared'
    PROVE  Inv'
<1>1. Progress'
  BY DEF Inv, Progress, LastCall, Current
<1>2. Protected'
  BY DEF Inv, Protected, Settled, Account, Current
<1>3. AnswerFollowsCalls'
  <2>1. calls # <<>> => AccountOf[calls[Len(calls)].target.model] \in Accounts
    <3> SUFFICES ASSUME calls # <<>>
                 PROVE  AccountOf[calls[Len(calls)].target.model] \in Accounts
      OBVIOUS
    <3>1. calls[Len(calls)] \in Call
      BY DEF Inv, TypeOK
    <3> QED
      BY <3>1, AliasFailoverAssumption DEF Call, Target
  <2> QED
    BY <2>1 DEF Inv, AnswerFollowsCalls
<1> QED
  BY <1>1, <1>2, <1>3 DEF Inv

LEMMA AdminInv ==
    ASSUME Inv, AdminStep
    PROVE  Inv'
<1>1. UNCHANGED <<up, request, answer, calls, outages>>
  BY DEF AdminStep, SaveStep, ProbeStep, SetAccountEnabled, DeleteAccount, StartProbe, DeleteModel,
         ImportModel, StartSave, InsertTarget, EndSave, ProbeFailed, TestHealthy, SyncAnswered,
         SyncModel, SyncListed, SyncDisable, ProbeEnds, Beside
<1>2. \A a \in Accounts : account[a] = "gone" => account'[a] = "gone"
  BY DEF Inv, TypeOK, AdminStep, SaveStep, ProbeStep, SetAccountEnabled, DeleteAccount, StartProbe,
         DeleteModel, ImportModel, StartSave, InsertTarget, EndSave, ProbeFailed, TestHealthy,
         SyncAnswered, SyncModel, SyncListed, SyncDisable, ProbeEnds
<1>3. held' \subseteq held /\ held \cup cleared \subseteq held' \cup cleared'
  <2>1. UNCHANGED clock \/ \E a : Clear(a)
    BY DEF AdminStep, SaveStep, ProbeStep, SetAccountEnabled, DeleteAccount, StartProbe, DeleteModel,
           ImportModel, StartSave, InsertTarget, EndSave, ProbeFailed, TestHealthy, SyncAnswered,
           SyncModel, SyncListed, SyncDisable, ProbeEnds
  <2> QED
    BY <2>1 DEF Clear, clock
<1>4. TypeOK'
  BY AdminStepTypes DEF Inv
<1> QED
  BY <1>1, <1>2, <1>3, <1>4, BesideInv

LEMMA WorldInv ==
    ASSUME Inv, NEW a \in Accounts, Expire(a) \/ OwedEnds(a) \/ Outage(a)
    PROVE  Inv'
<1>1. UNCHANGED <<account, request, answer, calls, held, cleared>>
  BY DEF Expire, OwedEnds, Outage, tables, clock
<1>2. TypeOK'
  BY WorldStepTypes DEF Inv
<1> QED
  BY <1>1, <1>2, BesideInv

LEMMA RequestInv ==
    ASSUME Inv, RequestStep
    PROVE  Inv'
<1> USE DEF Inv
<1>1. TypeOK'
  BY RequestStepTypes
<1>2. calls \in Seq(Call) /\ request \in Request(request.rest) /\ request.pc # "none"
  BY DEF TypeOK, Request
<1>3. ASSUME UNCHANGED <<calls, held, cleared>>, request.pc = "next",
             request'.pc \in {"next", "model"}, request'.last = request.last,
             request'.pc = "model" /\ request'.callable => Account' \notin held
      PROVE  Inv'
  BY <1>1, <1>3 DEF Progress, Protected, Settled, LastCall, AnswerFollowsCalls
<1>4. CASE Begin
  <2>1. calls' = <<>>
    BY <1>4 DEF Begin
  <2>2. Settled' = {}
    BY <2>1 DEF Settled
  <2>3. \/ request'.pc = "idle" /\ answer' = "502"
        \/ request'.pc = "next" /\ request'.last = "502"
    <3>1. CASE targets = <<>>
      BY <1>4, <3>1 DEF Begin, Respond, AtRest
    <3>2. CASE targets # <<>>
      <4>1. request' = [AtRest EXCEPT !.pc = "next", !.rest = targets]
        BY <1>4, <3>2 DEF Begin
      <4> QED
        BY <4>1 DEF AtRest
    <3> QED
      BY <3>1, <3>2
  <2> QED
    BY <1>1, <2>1, <2>2, <2>3 DEF Progress, Protected, AnswerFollowsCalls
<1>5. CASE Exhausted
  <2>1. request'.pc = "idle" /\ answer' = request.last /\ calls' = calls
    BY <1>5 DEF Exhausted, Respond, AtRest
  <2> QED
    BY <1>1, <1>5, <2>1 DEF Exhausted, Progress, Protected, AnswerFollowsCalls, LastCall
<1>6. CASE SkipDisabled
  BY <1>2, <1>3, <1>6 DEF SkipDisabled, Skip, Request, clock
<1>7. CASE ReadAccount
  <2>1. /\ request'.pc = "model" /\ request'.last = request.last /\ request'.rest = request.rest
        /\ request'.callable = Callable(Account) /\ UNCHANGED <<calls, held, cleared>>
    BY <1>2, <1>7 DEF ReadAccount, Request, clock
  <2>2. Account' = Account
    BY <2>1 DEF Account, Current
  <2> QED
    BY <1>3, <1>7, <2>1, <2>2 DEF ReadAccount, Callable
<1>8. CASE ReadModel
  <2>1. request.pc = "model" /\ UNCHANGED <<calls, held, cleared>> /\ request'.last = request.last
    BY <1>2, <1>8 DEF ReadModel, Skip, Request, clock
  <2>2. CASE request'.pc = "next"
    BY <1>1, <2>1, <2>2 DEF Progress, Protected, Settled, LastCall, AnswerFollowsCalls
  <2>3. CASE request.callable /\ request'.pc = "call" /\ request'.rest = request.rest
    <3>1. Account' = Account
      BY <2>3 DEF Account, Current
    <3> QED
      BY <1>1, <2>1, <2>3, <3>1 DEF Progress, Protected, Settled, LastCall, AnswerFollowsCalls
  <2> QED
    BY <1>2, <1>8, <2>2, <2>3 DEF ReadModel, Skip, Request
<1>9. CASE CallUpstream
  <2>1. PICK o \in Outcomes :
          /\ request' = [request EXCEPT !.pc = "settle", !.outcome = o]
          /\ calls' = Append(calls, [target |-> Current, outcome |-> o])
    BY <1>9 DEF CallUpstream, Outcomes
  <2>2. /\ request.pc = "call" /\ request'.pc = "settle" /\ request'.outcome = o
        /\ request'.rest = request.rest /\ UNCHANGED <<held, cleared>>
    BY <1>2, <1>9, <2>1 DEF CallUpstream, Request, clock
  <2>3. Current' = Current /\ Account' = Account
    BY <2>2 DEF Account, Current
  <2>4. [target |-> Current, outcome |-> o] \in Call
    BY <2>2, CurrentIsTarget DEF Call, TypeOK
  <2>5. /\ calls' # <<>> /\ Len(calls') = Len(calls) + 1
        /\ LastCall' = [target |-> Current, outcome |-> o]
        /\ \A i \in 1 .. Len(calls) : calls'[i] = calls[i]
    BY <1>2, <2>1, <2>4 DEF LastCall
  <2>6. Progress'
    BY <2>2, <2>3, <2>5 DEF Progress
  <2>7. Settled' \subseteq Settled
    <3>1. SUFFICES ASSUME NEW i \in Settled'
                   PROVE  i \in Settled
      OBVIOUS
    <3>2. Len(calls) \in Nat /\ DOMAIN calls = 1 .. Len(calls)
          /\ DOMAIN calls' = 1 .. (Len(calls) + 1)
      BY <1>2, <2>1, <2>4
    <3>3. i \in DOMAIN calls' /\ i # Len(calls')
      BY <2>2 DEF Settled
    <3>4. i \in 1 .. Len(calls)
      BY <2>5, <3>2, <3>3
    <3>5. calls'[i] = calls[i]
      BY <2>5, <3>4
    <3>6. calls'[i].outcome \in Failures /\ calls'[i].target.cools
      BY <3>1 DEF Settled
    <3> QED
      BY <2>2, <3>2, <3>4, <3>5, <3>6 DEF Settled
  <2>8. \A i \in Settled : calls'[i] = calls[i]
    BY <1>2, <2>5 DEF Settled
  <2>9. Protected'
    BY <2>2, <2>3, <2>7, <2>8 DEF Protected
  <2> QED
    BY <1>1, <2>2, <2>6, <2>9 DEF AnswerFollowsCalls
<1>10. ASSUME request.pc = "settle", calls' = calls, request'.pc = "idle",
              answer' = Status(request.outcome)
       PROVE  Inv'
  BY <1>1, <1>10 DEF Progress, Protected, AnswerFollowsCalls, LastCall
<1>11. CASE SettleFailure
  <2>1. request.pc = "settle" /\ calls' = calls /\ Cool(Account)
    BY <1>11 DEF SettleFailure
  <2>2. LastCall = [target |-> Current, outcome |-> request.outcome] /\ calls # <<>>
    BY <2>1 DEF Progress
  <2>3. CASE FailsOver(request.outcome, Current)
    <3>1. request'.pc = "next" /\ request'.last = Status(request.outcome)
      BY <1>2, <1>11, <2>3 DEF SettleFailure, Request
    <3>2. Progress'
      BY <2>1, <2>2, <3>1 DEF Progress, LastCall
    <3>3. \A i \in Settled' : i \in Settled \/ i = Len(calls)
      BY <2>1 DEF Settled
    <3>4. ASSUME NEW i \in Settled'
          PROVE  AccountOf[calls[i].target.model] \in held' \cup cleared'
      <4> DEFINE b == AccountOf[calls[i].target.model]
      <4>1. calls[i].target.cools
        BY <2>1, <3>4 DEF Settled
      <4>2. CASE i = Len(calls)
        BY <2>1, <2>2, <4>1, <4>2 DEF LastCall, Account, Cool
      <4>3. CASE i \in Settled
        <5>1. b \in held \cup cleared /\ Account \notin held
          BY <2>1, <4>3 DEF Protected
        <5> HIDE DEF b
        <5> QED
          BY <2>1, <5>1 DEF Cool, b
      <4> QED
        BY <3>3, <3>4, <4>2, <4>3
    <3>5. Protected'
      BY <2>1, <3>1, <3>4 DEF Protected
    <3> QED
      BY <1>1, <3>1, <3>2, <3>5 DEF AnswerFollowsCalls
  <2>4. CASE ~FailsOver(request.outcome, Current)
    BY <1>10, <1>11, <2>1, <2>4 DEF SettleFailure, Respond, AtRest
  <2> QED
    BY <2>3, <2>4
<1>12. CASE SettleAnswer
  BY <1>10, <1>12 DEF SettleAnswer, Respond, AtRest, Status, Answers
<1>13. CASE SettleDeleted
  <2>1. /\ request.pc = "settle" /\ calls' = calls /\ request'.pc = "idle" /\ answer' = "502"
        /\ account' = account /\ account[Account] = "gone"
    BY <1>13 DEF SettleDeleted, Respond, AtRest, Working, tables
  <2>2. calls # <<>> /\ LastCall.target = Current
    BY <2>1 DEF Progress
  <2> QED
    BY <1>1, <2>1, <2>2 DEF Progress, Protected, AnswerFollowsCalls, LastCall, Account
<1> QED
  BY <1>4, <1>5, <1>6, <1>7, <1>8, <1>9, <1>11, <1>12, <1>13 DEF RequestStep

LEMMA NextInv == Inv /\ [Next]_vars => Inv'
<1>1. Inv /\ UNCHANGED vars => Inv'
  <2> SUFFICES ASSUME Inv, UNCHANGED vars
               PROVE  Inv'
    OBVIOUS
  <2>1. TypeOK'
    BY NextTypes DEF Inv
  <2>2. UNCHANGED <<account, request, answer, calls, held, cleared>>
    BY DEF vars, tables, clock
  <2> QED
    BY <2>1, <2>2, BesideInv
<1> QED
  BY <1>1, RequestInv, AdminInv, WorldInv DEF Next

\* The invariant holds for any accounts, lists and edits.
THEOREM Invariance == Spec => []Inv
BY InitInv, NextInv, PTL DEF Spec

\* A client is answered what its last call brought, or 502 without a call or
\* when the account was deleted under it.
THEOREM AnswerCorrect == Spec => []AnswerFollowsCalls
<1>1. Inv => AnswerFollowsCalls
  BY DEF Inv
<1> QED
  BY <1>1, Invariance, PTL

\* A request never calls an account again that it cooled, unless a test, a
\* sync or a deletion cleared the account in between.
THEOREM CooldownAlwaysProtects == Spec => CooldownProtects
<1>1. Inv /\ [Next]_vars =>
        [CallsUpstream /\ Cooled(Account) => Account \in cleared]_vars
  <2> SUFFICES ASSUME Inv, Next, CallsUpstream, Cooled(Account)
               PROVE  Account \in cleared
    BY DEF CallsUpstream, vars
  <2>1. CallUpstream
    <3>1. calls' # calls /\ calls' # <<>>
      BY DEF CallsUpstream
    <3> QED
      BY <3>1 DEF Next, RequestStep, AdminStep, SaveStep, ProbeStep, SetAccountEnabled,
                DeleteAccount, StartProbe, DeleteModel, ImportModel, StartSave, InsertTarget, EndSave,
                ProbeFailed, TestHealthy, SyncAnswered, SyncModel, SyncListed, SyncDisable, ProbeEnds,
                Beside, Begin, Exhausted, SkipDisabled, ReadAccount, ReadModel, SettleFailure,
                SettleAnswer, SettleDeleted, Expire, OwedEnds, Outage
  <2>2. request.pc = "call"
    BY <2>1 DEF CallUpstream
  <2> QED
    BY <2>2 DEF Inv, Protected, Settled, Cooled
<1> QED
  BY <1>1, Invariance, PTL DEF Spec, CooldownProtects

=============================================================================
