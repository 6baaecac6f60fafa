------------------------- MODULE OpenClawMergeProofs -------------------------
(***************************************************************************)
(* Proofs about OpenClawMerge: what a merge keeps and replaces, and that   *)
(* the agent's steps, in any interleaving with the administrators and with *)
(* whoever edits the node's files, install exactly such a merge.           *)
(***************************************************************************)
EXTENDS OpenClawMerge, TLAPS

(***************************************************************************)
(* Partial functions and documents                                         *)
(***************************************************************************)
\* A member of Partial is a function on a part of S with values in T.
LEMMA PartialElim ==
    ASSUME NEW S, NEW T, NEW f \in Partial(S, T)
    PROVE  /\ f = [x \in DOMAIN f |-> f[x]]
           /\ DOMAIN f \subseteq S
           /\ \A x \in DOMAIN f : f[x] \in T
<1>1. PICK R \in SUBSET S : f \in [R -> T]
  BY DEF Partial
<1>2. QED
  BY <1>1

\* And every such function is a member.
LEMMA PartialIntro ==
    ASSUME NEW S, NEW T, NEW R, R \subseteq S, NEW f, f \in [R -> T]
    PROVE  f \in Partial(S, T)
<1>1. R \in SUBSET S
  OBVIOUS
<1>2. QED
  BY <1>1 DEF Partial

\* The update of a section with a payload is a section.
LEMMA OverrideType ==
    ASSUME NEW S, NEW T, NEW new \in Partial(S, T), NEW old \in Partial(S, T), NEW kept
    PROVE  Override(new, old, kept) \in Partial(S, T)
<1> DEFINE R == DOMAIN new \cup (DOMAIN old \cap kept)
<1>1. R \subseteq S /\ Override(new, old, kept) \in [R -> T]
  BY PartialElim DEF Override
<1>2. QED
  BY <1>1, PartialIntro

\* The keys of a chain are keys.
LEMMA RangeType ==
    ASSUME NEW chain \in Seq(Keys)
    PROVE  Range(chain) \subseteq Keys
BY DEF Range

\* What a compilation describes is well formed.
LEMMA PayloadType ==
    ASSUME NEW chain \in Seq(Keys)
    PROVE  /\ PayloadProviders(chain) \in Partial(Providers, Entries)
           /\ PayloadAliases(chain) \in Partial(Keys, Writers)
<1> DEFINE P == {k[1] : k \in Range(chain)}
           M(p) == {k[2] : k \in {j \in Range(chain) : j[1] = p}}
<1>1. Range(chain) \subseteq Providers \X Models
  BY RangeType DEF Keys
<1>2. P \subseteq Providers
  BY <1>1
<1>3. \A p : M(p) \subseteq Models
  BY <1>1
<1>4. \A p : [by |-> "managed", models |-> M(p)] \in Entries
  BY <1>3 DEF Entries, Writers
<1>5. PayloadProviders(chain) \in [P -> Entries]
  BY <1>4 DEF PayloadProviders
<1>6. PayloadAliases(chain) \in [Range(chain) -> Writers]
  BY DEF PayloadAliases, Writers
<1>7. Range(chain) \subseteq Keys
  BY RangeType
<1>8. PayloadProviders(chain) \in Partial(Providers, Entries)
  BY <1>2, <1>5, PartialIntro
<1>9. QED
  BY <1>6, <1>7, <1>8, PartialIntro

\* The document without content.
LEMMA EmptyDocType == EmptyDoc \in Docs /\ LocalDoc \in Docs
<1>1. [p \in {} |-> p] \in Partial(Providers, Entries)
  <2>1. [p \in {} |-> p] \in [{} -> Entries]
    OBVIOUS
  <2>2. QED
    BY <2>1, PartialIntro
<1>2. [k \in {} |-> k] \in Partial(Keys, Writers)
  <2>1. [k \in {} |-> k] \in [{} -> Writers]
    OBVIOUS
  <2>2. QED
    BY <2>1, PartialIntro
<1>3. EmptyDoc \in Docs
  BY <1>1, <1>2 DEF EmptyDoc, Docs
<1>4. QED
  BY <1>3 DEF LocalDoc, Docs

\* What a merge returns is a document.
LEMMA MergeType ==
    ASSUME NEW doc \in Docs, NEW chain \in Seq(Keys), NEW keep
    PROVE  Merge(doc, chain, keep) \in Docs
<1>1. doc.providers \in Partial(Providers, Entries) /\ doc.aliases \in Partial(Keys, Writers)
  BY DEF Docs
<1>2. Override(PayloadProviders(chain), doc.providers, KeptProviders(keep))
        \in Partial(Providers, Entries)
  BY <1>1, PayloadType, OverrideType
<1>3. Override(PayloadAliases(chain), doc.aliases, keep.models) \in Partial(Keys, Writers)
  BY <1>1, PayloadType, OverrideType
<1>4. QED
  BY <1>1, <1>2, <1>3 DEF Merge, Docs

\* So is what is written.
LEMMA OutputType ==
    ASSUME NEW f \in Files, NEW chain \in Seq(Keys), NEW keep
    PROVE  Output(f, chain, keep) \in Docs
<1>1. f.doc \in Docs
  BY DEF Files
<1>2. QED
  BY <1>1, MergeType, EmptyDocType DEF Output

\* The entry of a provider that the payload describes is the payload's, whatever
\* the document had and whatever is preserved.
LEMMA PayloadWins ==
    ASSUME NEW doc, NEW chain \in Seq(Keys), NEW keep, NEW k \in Range(chain)
    PROVE  LET d == Merge(doc, chain, keep)
           IN  /\ k[1] \in DOMAIN d.providers
               /\ d.providers[k[1]].models = {m \in Models : <<k[1], m>> \in Range(chain)}
<1> DEFINE p == k[1]
           d == Merge(doc, chain, keep)
           M == {j[2] : j \in {i \in Range(chain) : i[1] = p}}
<1>1. Range(chain) \subseteq Providers \X Models
  BY RangeType DEF Keys
<1>2. p \in DOMAIN PayloadProviders(chain) /\ PayloadProviders(chain)[p].models = M
  BY DEF PayloadProviders
<1>3. p \in DOMAIN d.providers /\ d.providers[p].models = M
  BY <1>2 DEF Merge, Override
<1>4. \A i \in Range(chain) : i = <<i[1], i[2]>> /\ i[2] \in Models
  BY <1>1
<1>5. M = {m \in Models : <<p, m>> \in Range(chain)}
  <2>1. ASSUME NEW m \in M
        PROVE  m \in Models /\ <<p, m>> \in Range(chain)
    BY <1>4
  <2>2. ASSUME NEW m \in Models, <<p, m>> \in Range(chain)
        PROVE  m \in M
    <3>1. <<p, m>>[1] = p /\ <<p, m>>[2] = m
      OBVIOUS
    <3>2. QED
      BY <2>2, <3>1
  <2>3. QED
    BY <2>1, <2>2
<1>6. QED
  BY <1>3, <1>5

\* The default models of a payload that has any resolve in the merged document.
LEMMA MergeResolves ==
    ASSUME NEW doc, NEW chain \in Seq(Keys), chain # <<>>, NEW keep
    PROVE  Resolves(Merge(doc, chain, keep))
<1> DEFINE d == Merge(doc, chain, keep)
<1>1. d.model = chain
  BY DEF Merge
<1>2. SUFFICES ASSUME NEW k \in Range(chain)
               PROVE  Listed(d, k)
  BY <1>1 DEF Resolves
<1>3. Range(chain) \subseteq Providers \X Models
  BY RangeType DEF Keys
<1>4. k = <<k[1], k[2]>> /\ k[2] \in Models
  BY <1>3
<1>5. k[1] \in DOMAIN d.providers /\ k[2] \in d.providers[k[1]].models
  BY <1>4, PayloadWins
<1>6. QED
  BY <1>5 DEF Listed

\* Installing the same payload again changes nothing: the sync may be repeated
\* after any failure.
THEOREM MergeIdempotent ==
    ASSUME NEW doc, NEW chain \in Seq(Keys), NEW keep
    PROVE  Merge(Merge(doc, chain, keep), chain, keep) = Merge(doc, chain, keep)
<1>1. ASSUME NEW new, NEW old, NEW kept
      PROVE  Override(new, Override(new, old, kept), kept) = Override(new, old, kept)
  BY DEF Override
<1>2. QED
  BY <1>1 DEF Merge

(***************************************************************************)
(* Type correctness                                                        *)
(***************************************************************************)
LEMMA IdleType ==
    /\ NoKeep \in KeepConfigs
    /\ Idle \in [pc : {"idle"}, keep : KeepConfigs, rows : Seq(Keys), chain : Seq(Keys),
                 seen : Files, out : Docs]
<1>1. NoFile \in Files
  BY EmptyDocType DEF NoFile, Files
<1>2. NoKeep \in KeepConfigs
  BY OpenClawMergeAssumption DEF OpenClawMergeAssumption
<1>3. <<>> \in Seq(Keys)
  OBVIOUS
<1>4. QED
  BY <1>1, <1>2, <1>3, EmptyDocType DEF Idle

\* Somebody's addition to openclaw.json leaves a document.
LEMMA AddLocalType ==
    ASSUME TypeOK, NEW k \in LocalKeys, AddLocal(k)
    PROVE  file' \in Files
<1> DEFINE doc == file.doc
           p == k[1]
           old == doc.providers
           entry == IF p \in DOMAIN old THEN [old[p] EXCEPT !.models = @ \cup {k[2]}]
                    ELSE [by |-> "local", models |-> {k[2]}]
           prov == [q \in DOMAIN old \cup {p} |-> IF q = p THEN entry ELSE old[q]]
           mark == [j \in {k} |-> "local"]
           alias == Override(doc.aliases, mark, {k})
<1>1. k \in Keys /\ p \in Providers /\ k[2] \in Models
  BY OpenClawMergeAssumption DEF OpenClawMergeAssumption, Keys
<1>2. /\ doc \in Docs
      /\ old \in Partial(Providers, Entries)
      /\ doc.aliases \in Partial(Keys, Writers)
  BY DEF TypeOK, Files, Docs
<1>3. DOMAIN old \subseteq Providers /\ \A q \in DOMAIN old : old[q] \in Entries
  BY <1>2, PartialElim
<1>4. prov \in Partial(Providers, Entries)
  <2>1. entry \in Entries
    BY <1>1, <1>3 DEF Entries, Writers
  <2>2. prov \in [DOMAIN old \cup {p} -> Entries]
    BY <1>3, <2>1
  <2>3. QED
    BY <1>1, <1>3, <2>2, PartialIntro
<1>5. mark \in Partial(Keys, Writers)
  <2>1. mark \in [{k} -> Writers]
    BY DEF Writers
  <2>2. QED
    BY <1>1, <2>1, PartialIntro
<1>6. alias \in Partial(Keys, Writers)
  BY <1>2, <1>5, OverrideType
<1>7. file' = File([doc EXCEPT !.providers = prov, !.aliases = alias])
  BY DEF AddLocal, WithModel
<1>8. [doc EXCEPT !.providers = prov, !.aliases = alias] \in Docs
  BY <1>2, <1>4, <1>6 DEF Docs
<1>9. QED
  BY <1>7, <1>8 DEF File, Files

LEMMA InitType == Init => TypeOK
<1> SUFFICES ASSUME Init PROVE TypeOK
  OBVIOUS
<1>1. db \in [bound : Seq(Keys), off : SUBSET Providers, keep : KeepConfigs]
  BY IdleType, OpenClawMergeAssumption DEF OpenClawMergeAssumption, Init
<1>2. file \in Files
  BY EmptyDocType DEF Init, NoFile, File, Files
<1>3. budget \in [edits : Nat, local : Nat, deaths : Nat]
  BY OpenClawMergeAssumption DEF OpenClawMergeAssumption, Init
<1>4. agent \in [pc : {"idle"}, keep : KeepConfigs, rows : Seq(Keys), chain : Seq(Keys),
                 seen : Files, out : Docs] /\ agent.pc = "idle"
  BY IdleType DEF Init, Idle
<1>5. latest = NoPayload /\ synced = FALSE /\ hand = {}
  BY DEF Init
<1>6. saving \in Seq(Keys) /\ installed \in Seq(Keys)
  BY DEF Init
<1>7. sidecar \in [providers : SUBSET Providers, models : SUBSET Keys]
  BY DEF Init, NoKeep
<1>8. QED
  BY <1>1, <1>2, <1>3, <1>4, <1>5, <1>6, <1>7 DEF TypeOK

LEMMA NextType == TypeOK /\ [Next]_vars => TypeOK'
<1> SUFFICES ASSUME TypeOK, [Next]_vars PROVE TypeOK'
  OBVIOUS
<1> USE DEF onServer, onNode, Goto
<1>b. budget \in [edits : Nat, local : Nat, deaths : Nat]
  BY DEF TypeOK
<1>n. /\ budget.edits > 0 => budget.edits - 1 \in Nat
      /\ budget.local > 0 => budget.local - 1 \in Nat
      /\ budget.deaths > 0 => budget.deaths - 1 \in Nat
  <2>1. budget.edits \in Nat /\ budget.local \in Nat /\ budget.deaths \in Nat
    BY <1>b
  <2>2. \A n \in Nat : n > 0 => n - 1 \in Nat
    OBVIOUS
  <2>3. QED
    BY <2>1, <2>2
<1>e. Edits => budget' \in [edits : Nat, local : Nat, deaths : Nat]
  BY <1>b, <1>n DEF Edits
<1>l. LocalEdits => budget' \in [edits : Nat, local : Nat, deaths : Nat]
  BY <1>b, <1>n DEF LocalEdits
<1>1. ASSUME NEW list \in BindingLists, DeleteBindings(list) PROVE TypeOK'
  <2>1. list \in Seq(Keys)
    BY OpenClawMergeAssumption DEF OpenClawMergeAssumption
  <2>2. db' \in [bound : Seq(Keys), off : SUBSET Providers, keep : KeepConfigs]
    BY <1>1 DEF DeleteBindings, TypeOK
  <2>3. QED
    BY <1>1, <1>e, <2>1, <2>2 DEF TypeOK, DeleteBindings, At
<1>2. CASE InsertBinding
  <2>1. Head(saving) \in Keys /\ Tail(saving) \in Seq(Keys)
    BY <1>2 DEF InsertBinding, TypeOK
  <2>2. db.bound \in Seq(Keys) /\ Append(db.bound, Head(saving)) \in Seq(Keys)
    BY <2>1 DEF TypeOK
  <2>3. db' \in [bound : Seq(Keys), off : SUBSET Providers, keep : KeepConfigs]
    BY <1>2, <2>2 DEF InsertBinding, TypeOK
  <2>4. QED
    BY <1>2, <2>1, <2>3 DEF TypeOK, InsertBinding, At
<1>3. CASE RefuseBinding
  BY <1>3 DEF TypeOK, RefuseBinding, At
<1>4. ASSUME NEW p \in Providers, SetProviderEnabled(p) PROVE TypeOK'
  <2>1. db' \in [bound : Seq(Keys), off : SUBSET Providers, keep : KeepConfigs]
    BY <1>4 DEF SetProviderEnabled, TypeOK
  <2>2. QED
    BY <1>4, <1>e, <2>1 DEF TypeOK, SetProviderEnabled, At
<1>5. ASSUME NEW keep \in KeepConfigs, SetKeep(keep) PROVE TypeOK'
  <2>1. db' \in [bound : Seq(Keys), off : SUBSET Providers, keep : KeepConfigs]
    BY <1>5 DEF SetKeep, TypeOK
  <2>2. QED
    BY <1>5, <1>e, <2>1 DEF TypeOK, SetKeep, At
<1>6. CASE ReadDevice
  BY <1>6 DEF TypeOK, ReadDevice, At
<1>7. CASE ReadBindings
  BY <1>7 DEF TypeOK, ReadBindings, At
<1>8. CASE ReadProvider
  <2>1. Head(agent.rows) \in Keys /\ Tail(agent.rows) \in Seq(Keys)
    BY <1>8 DEF ReadProvider, TypeOK
  <2>2. Append(agent.chain, Head(agent.rows)) \in Seq(Keys)
    BY <2>1 DEF TypeOK
  <2>3. agent' = [agent EXCEPT !.rows = Tail(agent.rows), !.chain = agent'.chain]
        /\ agent'.chain \in Seq(Keys)
    BY <1>8, <2>2 DEF TypeOK, ReadProvider
  <2>4. QED
    BY <1>8, <2>1, <2>3 DEF TypeOK, ReadProvider, At
<1>9. CASE Unchanged
  BY <1>9, IdleType DEF TypeOK, Unchanged, At
<1>10. CASE Changed
  <2>1. Compiled \in [keep : KeepConfigs, chain : Seq(Keys)]
    BY DEF TypeOK, Compiled
  <2>2. QED
    BY <1>10, <2>1, IdleType DEF TypeOK, Changed, At
<1>11. CASE TruncateSidecar
  BY <1>11 DEF TypeOK, TruncateSidecar, At, NoKeep
<1>12. CASE WriteSidecar
  <2>1. NoKeep \in KeepConfigs
    BY IdleType
  <2>2. latest.keep \in KeepConfigs
    BY <2>1 DEF TypeOK, NoPayload
  <2>3. latest.keep \in [providers : SUBSET Providers, models : SUBSET Keys]
    BY <2>2, OpenClawMergeAssumption DEF OpenClawMergeAssumption
  <2>4. QED
    BY <1>12, <2>3 DEF TypeOK, WriteSidecar, At
<1>13. CASE ReadFile
  <2>1. latest.chain \in Seq(Keys)
    BY <1>13 DEF ReadFile, TypeOK, At
  <2>2. Output(file, latest.chain, sidecar) \in Docs
    BY <2>1, OutputType DEF TypeOK
  <2>3. QED
    BY <1>13, <2>2 DEF TypeOK, ReadFile, At
<1>14. CASE Replace
  BY <1>14, IdleType DEF TypeOK, Replace, At, File, Files
<1>15. CASE Finish
  BY <1>15, IdleType DEF TypeOK, Finish, At
<1>16. CASE AgentDies
  <2>1. budget' \in [edits : Nat, local : Nat, deaths : Nat]
    BY <1>16, <1>b, <1>n DEF AgentDies
  <2>2. QED
    BY <1>16, <2>1, IdleType DEF TypeOK, AgentDies, At
<1>17. ASSUME NEW k \in LocalKeys, AddLocal(k) PROVE TypeOK'
  BY <1>17, <1>l, AddLocalType DEF TypeOK, AddLocal, At
<1>18. CASE BreakFile
  BY <1>18, <1>l, EmptyDocType DEF TypeOK, BreakFile, BrokenFile, Files, At
<1>19. CASE WriteFile
  BY <1>19, <1>l, EmptyDocType DEF TypeOK, WriteFile, File, Files, At
<1>20. ASSUME NEW p \in Providers, EditSidecar(p) PROVE TypeOK'
  <2>1. sidecar' \in [providers : SUBSET Providers, models : SUBSET Keys]
    BY <1>20 DEF TypeOK, EditSidecar
  <2>2. QED
    BY <1>20, <1>l, <2>1 DEF TypeOK, EditSidecar, At
<1>21. CASE UNCHANGED vars
  BY <1>21 DEF TypeOK, vars, At
<1>22. QED
  BY <1>1, <1>2, <1>3, <1>4, <1>5, <1>6, <1>7, <1>8, <1>9, <1>10, <1>11, <1>12, <1>13,
     <1>14, <1>15, <1>16, <1>17, <1>18, <1>19, <1>20, <1>21
     DEF Next, Admin, SyncOnce, Operator

\* Every variable has its type in every reachable state.
THEOREM TypeCorrect == Spec => []TypeOK
BY InitType, NextType, PTL DEF Spec

(***************************************************************************)
(* The inductive invariant                                                 *)
(***************************************************************************)
\* What the agent reads of the sidecar: the control plane's preserve
\* configuration, to which somebody may have added providers.
SidecarHolds(keep) ==
    /\ latest.keep.providers \subseteq keep.providers
    /\ keep.providers \subseteq latest.keep.providers \cup hand
    /\ keep.models = latest.keep.models

MergeInv ==
    /\ TypeOK
    /\ DefaultsResolve
    /\ At("read") => SidecarHolds(sidecar)
    /\ At("replace") =>
          \E keep : SidecarHolds(keep) /\ agent.out = Output(agent.seen, latest.chain, keep)

\* An addition by hand lists no model less, and leaves the default models alone.
LEMMA AddLocalResolves ==
    ASSUME NEW doc \in Docs, NEW k, Resolves(doc)
    PROVE  Resolves(WithModel(doc, k))
<1> DEFINE d == WithModel(doc, k)
<1>1. d.model = doc.model
  BY DEF WithModel, Docs
<1>2. \A p \in DOMAIN doc.providers : doc.providers[p] \in Entries
  BY PartialElim DEF Docs
<1>3. \A p \in DOMAIN doc.providers :
        p \in DOMAIN d.providers /\ doc.providers[p].models \subseteq d.providers[p].models
  BY <1>2 DEF WithModel, Docs, Entries
<1>4. QED
  BY <1>1, <1>3 DEF Resolves, Listed

\* What is written resolves if the payload has models.
LEMMA OutputResolves ==
    ASSUME NEW f, NEW chain \in Seq(Keys), chain # <<>>, NEW keep
    PROVE  Resolves(Output(f, chain, keep))
BY MergeResolves DEF Output

LEMMA InitInv == Init => MergeInv
<1> SUFFICES ASSUME Init PROVE MergeInv
  OBVIOUS
<1>1. installed = <<>> /\ agent.pc = "idle"
  BY DEF Init, Idle
<1>2. TypeOK
  BY InitType
<1>3. QED
  BY <1>1, <1>2 DEF MergeInv, DefaultsResolve, At

LEMMA NextInv == MergeInv /\ [Next]_vars => MergeInv'
<1> SUFFICES ASSUME MergeInv, [Next]_vars PROVE MergeInv'
  OBVIOUS
<1>t. TypeOK /\ TypeOK'
  BY NextType DEF MergeInv
<1> USE DEF onServer, onNode, Goto, DefaultsResolve, SidecarHolds, At
<1>1. ASSUME UNCHANGED <<latest, agent, file, sidecar, installed, hand>> PROVE MergeInv'
  BY <1>t, <1>1 DEF MergeInv
<1>2. ASSUME UNCHANGED <<file, installed>>, agent'.pc \notin {"read", "replace"} PROVE MergeInv'
  BY <1>t, <1>2 DEF MergeInv
<1>3. CASE WriteSidecar
  <2>1. UNCHANGED <<file, installed, latest, hand>> /\ sidecar' = latest.keep
        /\ agent'.pc = "read"
    BY <1>3, <1>t DEF WriteSidecar, TypeOK
  <2>2. QED
    BY <1>t, <2>1 DEF MergeInv
<1>4. CASE ReadFile
  <2>1. /\ UNCHANGED <<file, installed, latest, hand, sidecar>>
        /\ agent'.pc = "replace" /\ agent'.seen = file
        /\ agent'.out = Output(file, latest.chain, sidecar)
    BY <1>4, <1>t DEF ReadFile, TypeOK
  <2>2. SidecarHolds(sidecar)
    BY <1>4 DEF MergeInv, ReadFile
  <2>3. agent'.out = Output(agent'.seen, latest'.chain, sidecar)
    BY <2>1 DEF Output
  <2>4. QED
    BY <1>t, <2>1, <2>2, <2>3 DEF MergeInv
<1>5. CASE Replace
  <2>1. /\ file' = File(agent.out) /\ installed' = latest.chain
        /\ agent'.pc = "reload"
    BY <1>5, <1>t DEF Replace, Idle
  <2>2. PICK keep : agent.out = Output(agent.seen, latest.chain, keep)
    BY <1>5 DEF MergeInv, Replace
  <2>3. latest.chain \in Seq(Keys)
    BY <1>5, <1>t DEF TypeOK, Replace
  <2>4. installed' # <<>> => Resolves(file'.doc)
    BY <2>1, <2>2, <2>3, OutputResolves DEF File
  <2>5. (installed # <<>> => Resolves(file.doc))'
    BY <2>4
  <2>6. QED
    BY <1>t, <2>1, <2>5 DEF MergeInv
<1>6. ASSUME NEW k \in LocalKeys, AddLocal(k) PROVE MergeInv'
  <2>1. /\ UNCHANGED <<agent, latest, hand, sidecar, installed>>
        /\ file' = File(WithModel(file.doc, k))
    BY <1>6 DEF AddLocal
  <2>2. file.doc \in Docs
    BY <1>t DEF TypeOK, Files
  <2>3. installed' # <<>> => Resolves(file'.doc)
    BY <2>1, <2>2, AddLocalResolves DEF MergeInv, File, Docs
  <2>4. (installed # <<>> => Resolves(file.doc))'
    BY <2>3
  <2>5. QED
    BY <1>t, <2>1, <2>4 DEF MergeInv
<1>7. ASSUME BreakFile \/ WriteFile PROVE MergeInv'
  <2>1. /\ UNCHANGED <<agent, latest, hand, sidecar, installed>>
        /\ file'.doc \in {EmptyDoc, LocalDoc}
    BY <1>7 DEF BreakFile, WriteFile, BrokenFile, File
  <2>2. Range(<<>>) = {}
    BY DEF Range
  <2>3. file'.doc.model = <<>>
    BY <2>1 DEF EmptyDoc, LocalDoc
  <2>4. (Resolves(file.doc))'
    BY <2>2, <2>3 DEF Resolves
  <2>5. QED
    BY <1>t, <2>1, <2>4 DEF MergeInv
<1>8. ASSUME NEW p \in Providers, EditSidecar(p) PROVE MergeInv'
  <2>1. UNCHANGED <<agent, latest, file, installed>>
    BY <1>8 DEF EditSidecar
  <2>2. /\ sidecar'.providers = sidecar.providers \cup {p}
        /\ sidecar'.models = sidecar.models
        /\ hand' = hand \cup {p}
    BY <1>8, <1>t DEF EditSidecar, TypeOK
  <2>3. \A keep : SidecarHolds(keep) => SidecarHolds(keep)'
    BY <2>1, <2>2
  <2>4. SidecarHolds(sidecar) => SidecarHolds(sidecar)'
    BY <2>1, <2>2
  <2>5. QED
    BY <1>t, <2>1, <2>3, <2>4 DEF MergeInv
<1>9. ASSUME SyncOnce PROVE MergeInv'
  <2>1. CASE ReadDevice
    BY <1>t, <1>2, <2>1 DEF ReadDevice, TypeOK
  <2>2. CASE ReadBindings
    BY <1>t, <1>2, <2>2 DEF ReadBindings, TypeOK
  <2>3. CASE ReadProvider
    BY <1>t, <1>2, <2>3 DEF ReadProvider, TypeOK
  <2>4. CASE Unchanged
    BY <1>2, <2>4 DEF Unchanged, Idle
  <2>5. CASE Changed
    BY <1>2, <2>5 DEF Changed, Idle
  <2>6. CASE TruncateSidecar
    BY <1>t, <1>2, <2>6 DEF TruncateSidecar, TypeOK
  <2>7. CASE Finish
    BY <1>2, <2>7 DEF Finish, Idle
  <2>8. QED
    BY <1>3, <1>4, <1>5, <1>9, <2>1, <2>2, <2>3, <2>4, <2>5, <2>6, <2>7 DEF SyncOnce
<1>10. CASE AgentDies
  BY <1>2, <1>10 DEF AgentDies, Idle
<1>11. CASE Admin \/ UNCHANGED vars
  BY <1>1, <1>11 DEF Admin, DeleteBindings, InsertBinding, RefuseBinding,
     SetProviderEnabled, SetKeep, vars
<1>12. CASE Operator
  BY <1>6, <1>7, <1>8, <1>12 DEF Operator
<1>13. QED
  BY <1>9, <1>10, <1>11, <1>12 DEF Next

\* The invariant holds in every reachable state.
THEOREM Invariance == Spec => []MergeInv
BY InitInv, NextInv, PTL DEF Spec

\* After an installation of models the primary and the fallbacks of
\* openclaw.json resolve in every reachable state.
THEOREM DefaultsAlwaysResolve == Spec => []DefaultsResolve
<1>1. MergeInv => DefaultsResolve
  BY DEF MergeInv
<1>2. QED
  BY Invariance, <1>1, PTL

(***************************************************************************)
(* What an installation does                                               *)
(***************************************************************************)
\* Only os.replace leads from the merge to the reload.
LEMMA InstallsStep ==
    ASSUME MergeInv, Next, Installs
    PROVE  /\ file' = File(agent.out)
           /\ latest.keep \in KeepConfigs /\ latest.chain \in Seq(Keys)
           /\ \E keep : /\ SidecarHolds(keep)
                        /\ agent.out = Output(agent.seen, latest.chain, keep)
<1> USE DEF onServer, onNode, Goto, At, Installs
<1>1. Replace
  <2>1. agent.pc = "replace" /\ agent' # agent
    OBVIOUS
  <2>2. ~ Admin /\ ~ Operator
    BY <2>1 DEF Admin, DeleteBindings, InsertBinding, RefuseBinding, SetProviderEnabled,
       SetKeep, Operator, AddLocal, BreakFile, WriteFile, EditSidecar
  <2>3. ~ AgentDies
    BY DEF AgentDies, Idle
  <2>4. QED
    BY <2>1, <2>2, <2>3 DEF Next, SyncOnce, ReadDevice, ReadBindings, ReadProvider,
       Unchanged, Changed, TruncateSidecar, WriteSidecar, ReadFile, Finish
<1>2. latest.keep \in KeepConfigs
  BY IdleType DEF MergeInv, TypeOK, NoPayload
<1>3. latest.chain \in Seq(Keys)
  BY DEF MergeInv, TypeOK
<1>4. QED
  BY <1>1, <1>2, <1>3 DEF MergeInv, Replace

\* An installation leaves alone what is not the gateway's and what the control
\* plane says is to be preserved.
THEOREM PreservedAlwaysStay == Spec => PreservedStay
<1>1. ASSUME MergeInv, [Next]_vars, Installs, file = agent.seen, file.kind = "ok"
      PROVE  /\ file'.doc.other = file.doc.other
             /\ \A p \in DOMAIN file.doc.providers :
                   /\ \/ p \in latest.keep.providers
                      \/ \E m \in Models : <<p, m>> \in latest.keep.models
                   /\ \A k \in Range(latest.chain) : k[1] # p
                   => /\ p \in DOMAIN file'.doc.providers
                      /\ file'.doc.providers[p] = file.doc.providers[p]
             /\ \A k \in DOMAIN file.doc.aliases \cap latest.keep.models :
                   k \in DOMAIN file'.doc.aliases
  <2>1. Next
    BY <1>1 DEF vars, Installs, At
  <2>2. PICK keep : SidecarHolds(keep) /\ agent.out = Output(agent.seen, latest.chain, keep)
    BY <1>1, <2>1, InstallsStep
  <2>3. file'.doc = Merge(file.doc, latest.chain, keep)
    BY <1>1, <2>1, <2>2, InstallsStep DEF Output, File
  <2>4. file'.doc.other = file.doc.other
    BY <2>3 DEF Merge
  <2>5. ASSUME NEW p \in DOMAIN file.doc.providers,
               \/ p \in latest.keep.providers
               \/ \E m \in Models : <<p, m>> \in latest.keep.models,
               \A k \in Range(latest.chain) : k[1] # p
        PROVE  /\ p \in DOMAIN file'.doc.providers
               /\ file'.doc.providers[p] = file.doc.providers[p]
    <3>1. p \in KeptProviders(keep)
      <4>1. CASE p \in latest.keep.providers
        BY <2>2, <4>1 DEF SidecarHolds, KeptProviders
      <4>2. CASE \E m \in Models : <<p, m>> \in latest.keep.models
        <5>1. PICK m \in Models : <<p, m>> \in keep.models
          BY <2>2, <4>2 DEF SidecarHolds
        <5>2. <<p, m>>[1] = p
          OBVIOUS
        <5>3. QED
          BY <5>1, <5>2 DEF KeptProviders
      <4>3. QED
        BY <2>5, <4>1, <4>2
    <3>2. p \notin DOMAIN PayloadProviders(latest.chain)
      BY <2>5 DEF PayloadProviders
    <3>3. QED
      BY <2>3, <3>1, <3>2 DEF Merge, Override
  <2>6. ASSUME NEW k \in DOMAIN file.doc.aliases \cap latest.keep.models
        PROVE  k \in DOMAIN file'.doc.aliases
    BY <2>2, <2>3 DEF Merge, Override, SidecarHolds
  <2>7. QED
    BY <2>4, <2>5, <2>6
<1>2. MergeInv /\ [Next]_vars =>
         (Installs /\ file = agent.seen /\ file.kind = "ok" =>
            /\ file'.doc.other = file.doc.other
            /\ \A p \in DOMAIN file.doc.providers :
                  /\ p \in latest.keep.providers \/ \E m \in Models : <<p, m>> \in latest.keep.models
                  /\ \A k \in Range(latest.chain) : k[1] # p
                  => p \in DOMAIN file'.doc.providers /\ file'.doc.providers[p] = file.doc.providers[p]
            /\ \A k \in DOMAIN file.doc.aliases \cap latest.keep.models :
                  k \in DOMAIN file'.doc.aliases)
  BY <1>1
<1>3. QED
  BY Invariance, <1>2, PTL DEF Spec, PreservedStay

\* After an installation nothing is left that the control plane withdrew.
THEOREM ManagedAlwaysRefreshed == Spec => ManagedRefreshed
<1>1. ASSUME MergeInv, [Next]_vars, Installs, NEW p \in DOMAIN file'.doc.providers
      PROVE  \/ \E k \in Range(latest.chain) :
                   /\ k[1] = p
                   /\ file'.doc.providers[p].models =
                          {m \in Models : <<p, m>> \in Range(latest.chain)}
             \/ p \in latest.keep.providers \cup hand
             \/ \E m \in Models : <<p, m>> \in latest.keep.models
  <2>1. Next
    BY <1>1 DEF vars, Installs, At
  <2>2. PICK held : SidecarHolds(held) /\ agent.out = Output(agent.seen, latest.chain, held)
    BY <1>1, <2>1, InstallsStep
  <2>3. PICK doc, keep : /\ file'.doc = Merge(doc, latest.chain, keep)
                         /\ keep \in {held, NoKeep}
    BY <1>1, <2>1, <2>2, InstallsStep DEF Output, File
  <2>4. latest.chain \in Seq(Keys) /\ latest.keep.models \subseteq Keys
    BY <1>1, <2>1, InstallsStep, OpenClawMergeAssumption DEF OpenClawMergeAssumption
  <2>5. CASE p \in DOMAIN PayloadProviders(latest.chain)
    <3>1. PICK k \in Range(latest.chain) : k[1] = p
      BY <2>5 DEF PayloadProviders
    <3>2. file'.doc.providers[k[1]].models =
             {m \in Models : <<k[1], m>> \in Range(latest.chain)}
      BY <2>3, <2>4, PayloadWins
    <3>3. QED
      BY <3>1, <3>2
  <2>6. CASE p \notin DOMAIN PayloadProviders(latest.chain)
    <3>1. p \in KeptProviders(keep)
      BY <1>1, <2>3, <2>6 DEF Merge, Override
    <3>2. CASE p \in keep.providers
      BY <2>2, <2>3, <3>2 DEF SidecarHolds, NoKeep
    <3>3. CASE \E k \in keep.models : k[1] = p
      <4>1. PICK k \in latest.keep.models : k[1] = p
        BY <2>2, <2>3, <3>3 DEF SidecarHolds, NoKeep
      <4>2. k = <<k[1], k[2]>> /\ k[2] \in Models
        BY <2>4 DEF Keys
      <4>3. QED
        BY <4>1, <4>2
    <3>4. QED
      BY <3>1, <3>2, <3>3 DEF KeptProviders
  <2>7. QED
    BY <2>5, <2>6
<1>2. MergeInv /\ [Next]_vars =>
         (Installs =>
            \A p \in DOMAIN file'.doc.providers :
                \/ \E k \in Range(latest.chain) : k[1] = p
                     /\ file'.doc.providers[p].models =
                            {m \in Models : <<p, m>> \in Range(latest.chain)}
                \/ p \in latest.keep.providers \cup hand
                \/ \E m \in Models : <<p, m>> \in latest.keep.models)
  BY <1>1
<1>3. QED
  BY Invariance, <1>2, PTL DEF Spec, ManagedRefreshed
=============================================================================
