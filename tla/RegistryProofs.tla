--------------------------- MODULE RegistryProofs ---------------------------
(***************************************************************************)
(* Proofs about Registry: what synchronisations leave behind, for any      *)
(* number of request threads, edits and crashes.                           *)
(***************************************************************************)
EXTENDS Registry, FreeModelsProofs

(***************************************************************************)
(* The operators                                                           *)
(***************************************************************************)
\* Rows by id, each once.
LEMMA RowsById ==
    ASSUME NEW mine, NEW n \in Nat,
           \A l \in mine : l.id \in 1..n,
           \A l, m \in mine : l.id = m.id => l = m
    PROVE  /\ IsFiniteSet(mine) /\ Enumerates(ById(mine), mine)
           /\ \A p \in 1..Cardinality(mine) :
                 Cardinality({y \in mine : y.id < ById(mine)[p].id}) = p - 1
<1> DEFINE f == [l \in mine |-> l.id]
           before == {e \in mine \X mine : e[1].id < e[2].id}
           s == ById(mine)
<1>1. IsFiniteSet(mine)
  <2>1. f \in Injection(mine, 1..n)
    BY DEF Injection, IsInjective
  <2> QED
    BY <2>1, FirstNumbers, FS_Injection
<1>2. \A l, m \in mine : <<l, m>> \in before <=> l.id < m.id
  OBVIOUS
<1>3. s = InOrder(mine, before)
  BY DEF ById
<1> HIDE DEF before, s
<1>4. IsOrder(before, mine)
  <2>1. \A l \in mine : l.id \in Nat
    OBVIOUS
  <2>2. \A l \in mine : <<l, l>> \notin before
    BY <1>2, <2>1
  <2>3. \A l, m, o \in mine : <<l, m>> \in before /\ <<m, o>> \in before => <<l, o>> \in before
    BY <1>2, <2>1
  <2>4. \A l, m \in mine : l = m \/ <<l, m>> \in before \/ <<m, l>> \in before
    <3> TAKE l, m \in mine
    <3>1. l.id \in Nat /\ m.id \in Nat /\ (l.id = m.id => l = m)
      BY <2>1
    <3> QED
      BY <1>2, <3>1
  <2> QED
    BY <2>2, <2>3, <2>4 DEF IsOrder
<1>5. /\ Enumerates(s, mine)
      /\ \A p \in 1..Cardinality(mine) : Cardinality({y \in mine : <<y, s[p]>> \in before}) = p - 1
  BY <1>1, <1>3, <1>4, InOrderLists
<1>6. \A p \in 1..Cardinality(mine) : Cardinality({y \in mine : y.id < s[p].id}) = p - 1
  <2> TAKE p \in 1..Cardinality(mine)
  <2>1. s[p] \in mine
    BY <1>5 DEF Enumerates
  <2>2. {y \in mine : y.id < s[p].id} = {y \in mine : <<y, s[p]>> \in before}
    BY <1>2, <2>1
  <2> QED
    BY <1>5, <2>2
<1> QED
  BY <1>1, <1>5, <1>6 DEF s

LEMMA HeadAndTail ==
    ASSUME NEW S, NEW s \in Seq(S), s # <<>>
    PROVE  /\ Head(s) \in S /\ Tail(s) \in Seq(S)
           /\ ToSet(s) = {Head(s)} \cup ToSet(Tail(s))
<1>1. Head(s) \in S /\ Tail(s) \in Seq(S)
  OBVIOUS
<1>2. \A i \in 1..Len(s) : s[i] = IF i = 1 THEN Head(s) ELSE Tail(s)[i - 1]
  OBVIOUS
<1>3. Len(s) \in Nat \ {0} /\ Len(Tail(s)) = Len(s) - 1
  OBVIOUS
<1>4. \A i \in 1..Len(Tail(s)) : Tail(s)[i] = s[i + 1]
  OBVIOUS
<1>5. DOMAIN s = 1..Len(s) /\ DOMAIN Tail(s) = 1..Len(Tail(s))
  BY <1>1
<1>6. s[1] = Head(s) /\ 1 \in DOMAIN s
  BY <1>2, <1>3, <1>5
<1>7. ToSet(s) \subseteq {Head(s)} \cup ToSet(Tail(s))
  <2> SUFFICES ASSUME NEW x \in ToSet(s)
               PROVE  x \in {Head(s)} \cup ToSet(Tail(s))
    BY Zenon
  <2>1. PICK i \in 1..Len(s) : x = s[i]
    BY <1>5 DEF ToSet
  <2>2. i # 1 => i - 1 \in DOMAIN Tail(s) /\ x = Tail(s)[i - 1]
    BY <1>2, <1>3, <1>5, <2>1
  <2> QED
    BY <1>2, <2>1, <2>2 DEF ToSet
<1>8. {Head(s)} \cup ToSet(Tail(s)) \subseteq ToSet(s)
  <2>1. \A i \in DOMAIN Tail(s) : i + 1 \in DOMAIN s /\ s[i + 1] = Tail(s)[i]
    BY <1>3, <1>4, <1>5
  <2> QED
    BY <1>6, <2>1 DEF ToSet
<1> QED
  BY <1>1, <1>7, <1>8

LEMMA SeqGrows ==
    ASSUME NEW S, NEW T, S \subseteq T, NEW s \in Seq(S)
    PROVE  s \in Seq(T)
  OBVIOUS

FreeOf(a) == {i \in ToSet(a) : i.price = 0 /\ i.id # ""}

\* A selection is one of the models that were listed and cost nothing.
LEMMA ChosenLists ==
    ASSUME NEW a \in Answers
    PROVE  Chosen(a) \in Seq({i.id : i \in FreeOf(a)})
<1> DEFINE top == ToSet(SelectTop(a, TopN))
           kept == Ascending(top)
           N == Cardinality(top)
           Id == {i.id : i \in FreeOf(a)}
<1>1. IsListing(a) /\ TopN \in Nat \ {0}
  BY RegistryAssumption
<1>2. top \in SUBSET Named(a)
  BY <1>1, SelectionIsRight DEF TopIsRight
<1>3. top \in SUBSET Nat /\ IsFiniteSet(top) /\ top \subseteq DOMAIN a
  <2> HIDE DEF top
  <2> QED
    BY <1>1, <1>2, ItemsOf, FS_Subset
<1>4. N \in Nat /\ DOMAIN kept = 1..N /\ \A p \in 1..N : kept[p] \in top
  <2> HIDE DEF top
  <2> QED
    BY <1>3, AscendingLists DEF Enumerates
<1>5. Chosen(a) = [p \in 1..N |-> a[kept[p]].id]
  BY <1>4 DEF Chosen
<1>6. \A k \in Named(a) : a[k].id \in Id
  BY DEF ToSet, Named, FreeItems, FreeOf
<1> HIDE DEF top, kept, N, Id
<1>7. \A p \in 1..N : a[kept[p]].id \in Id
  BY <1>2, <1>4, <1>6
<1>8. Chosen(a) \in Seq(Id)
  BY <1>4, <1>5, <1>7
<1> QED
  BY <1>8 DEF Id

LEMMA GivenLists ==
    /\ \A l \in Lists : l \in Seq(Model)
    /\ \A a \in Answers : Chosen(a) \in Seq(Model)
    /\ <<>> \in Seq(Model)
<1>1. \A l \in Lists : ToSet(l) \subseteq Model
  BY DEF Model
<1>2. \A a \in Answers : {i.id : i \in FreeOf(a)} \subseteq Model
  BY DEF Model, FreeOf
<1>3. \A l \in Lists : l \in Seq(Model)
  BY <1>1, SeqGrows, RegistryAssumption
<1>4. \A a \in Answers : Chosen(a) \in Seq(Model)
  BY <1>2, SeqGrows, ChosenLists
<1>5. <<>> \in Seq(Model)
  OBVIOUS
<1> QED
  BY <1>3, <1>4, <1>5

(***************************************************************************)
(* The inductive invariant                                                 *)
(***************************************************************************)
\* What a request is about at each of its steps.
Phase(q) ==
    /\ q.pc = "idle" => q.op = "none"
    /\ q.pc \in {"legacy", "find", "lookup", "list", "delete"} => q.op = "sync"
    /\ q.pc = "read" => q.op = "import"
    /\ q.pc \in {"create", "created", "write", "written"} => q.op \in Fillers
    /\ q.pc \in {"saved", "clear", "line", "added", "drop"} => q.op \in Writers
    /\ q.pc \in {"lookup", "write", "written", "line", "added"} => q.todo # <<>>
    /\ q.op \in Fillers /\ q.pc \notin {"legacy", "find", "create", "read"} => q.provider # 0
    /\ q.pc = "delete" => q.doomed # {}
    /\ q.pc \in {"legacy", "find", "create", "created"} => q.todo = q.list
    /\ q.op \in Writers => q.row # 0

Phases == \A r \in Requests : Phase(request[r])

\* The rest of the invariant speaks of tables and requests that are arguments,
\* so that what holds before and after a step can be compared.
RowsIn(P, M, p) == {m \in M : m.provider = p /\ \E n \in Names : P[n] = p}

NamesIn(P, M, p) == {m.model : m \in RowsIn(P, M, p)}

DoomedIn(P, M, q) ==
    {m.id : m \in {m \in M :
        /\ \E n \in Names : P[n] = m.provider
        /\ \/ m.provider = q.provider /\ m.model \notin ToSet(q.list)
           \/ m.provider = q.legacy /\ m.model \in FreeNamed}}

\* What a synchronisation does not find when it looks is still not there when
\* it writes, and an import writes elsewhere.
Apart(P, M, q) ==
    /\ q.op = "import" /\ q.pc \notin {"read", "create"} => q.provider # P[Free]
    /\ q.op = "sync" /\ q.pc = "write" /\ q.row = 0 =>
           Head(q.todo) \notin NamesIn(P, M, q.provider)

NoTwins(P, M) == \A m, o \in RowsIn(P, M, P[Free]) : m.model = o.model => m = o

OneFiller(R) ==
    \A r, s \in Requests : R[r].op \in Fillers /\ R[s].op \in Fillers => r = s

NoRace(P, M, R) ==
    OneFiller(R) /\ (\A r \in Requests : Apart(P, M, R[r])) /\ NoTwins(P, M)

Unraced == ~raced => NoRace(providers, models, request)

\* A request that may have written under the free provider what the last
\* listing of its rows did not see.
Threat(P, q) ==
    /\ q.op \in Fillers /\ q.pc \notin {"legacy", "find", "create", "read"}
    /\ q.provider = P[Free]
    /\ ~(q.op = "sync" /\ q.pc \in {"delete", "done"})

\* Unless there is one, what the last listing did not select is being deleted.
Seen(P, M, R, L) ==
    (\A r \in Requests : ~Threat(P, R[r])) =>
        \A m \in RowsIn(P, M, P[Free]) :
            \/ m.model \in L
            \/ \E r \in Requests : R[r].pc = "delete" /\ m.id \in R[r].doomed

Listed == clean => Seen(providers, models, request, last)

\* A synchronisation that is alone, with what it has done so far.
AloneIn(P, M, q) ==
    /\ q.pc # "legacy" => q.legacy = P[Legacy]
    /\ q.pc \notin {"legacy", "find", "create"} => q.provider = P[Free] /\ q.provider # 0
    /\ q.pc \in {"created", "lookup", "write", "written", "list"} =>
           ToSet(q.list) \subseteq ToSet(q.todo) \cup NamesIn(P, M, q.provider)
    /\ q.pc = "written" => q.row # 0
    /\ q.pc \in {"write", "written"} /\ q.row # 0 =>
           \E m \in RowsIn(P, M, q.provider) : m.id = q.row /\ m.model = Head(q.todo)
    /\ q.pc = "list" => q.todo = <<>>
    /\ q.pc = "delete" => q.doomed = DoomedIn(P, M, q)
    /\ q.pc = "done" => DoomedIn(P, M, q) = {}
    /\ q.pc \in {"delete", "done"} => ToSet(q.list) \subseteq NamesIn(P, M, q.provider)

AloneSync(q) == q.op = "sync" /\ q.alone

Lone(P, M, R) ==
    \A r \in Requests : AloneSync(R[r]) =>
        (\A s \in Requests : R[s].op \in Fillers => s = r) /\ AloneIn(P, M, R[r])

Undisturbed == Lone(providers, models, request)

RegistryInv == TypeOK /\ Phases /\ Unraced /\ Listed /\ Undisturbed

LEMMA Views ==
    /\ \A p : RowsOf(p) = RowsIn(providers, models, p)
    /\ \A p : NamesOf(p) = NamesIn(providers, models, p)
    /\ \A q : Doomed(q) = DoomedIn(providers, models, q)
<1>1. \A p : RowsOf(p) = RowsIn(providers, models, p)
  BY DEF RowsOf, RowsIn, Visible
<1>2. \A p : NamesOf(p) = NamesIn(providers, models, p)
  BY <1>1 DEF NamesOf, NamesIn
<1>3. \A q : Doomed(q) = DoomedIn(providers, models, q)
  BY DEF Doomed, DoomedIn, Visible
<1> QED
  BY <1>1, <1>2, <1>3

(***************************************************************************)
(* Types                                                                   *)
(***************************************************************************)
\* What was typed by the ids given out is still so when more are.
LEMMA TypesGrow ==
    ASSUME TypeOK, ids' \in Nat, ids <= ids'
    PROVE  /\ request \in [Requests -> Request']
           /\ models \subseteq ModelRow' /\ lines \subseteq LineRow'
           /\ providers \in [Names -> 0..ids'] /\ template \in 0..ids'
<1>1. 0..ids \subseteq 0..ids' /\ 1..ids \subseteq 1..ids'
  BY DEF TypeOK
<1>2. Request \subseteq Request'
  BY <1>1 DEF Request
<1>3. ModelRow \subseteq ModelRow' /\ LineRow \subseteq LineRow'
  BY <1>1 DEF ModelRow, LineRow
<1> QED
  BY <1>1, <1>2, <1>3 DEF TypeOK

LEMMA RequestTyped ==
    ASSUME TypeOK, ids' \in Nat, ids <= ids', NEW r \in Requests, NEW q \in Request',
           request' = [request EXCEPT ![r] = q]
    PROVE  request' \in [Requests -> Request']
  BY TypesGrow

LEMMA IdleTyped ==
    ASSUME ids \in Nat
    PROVE  Idle \in Request
  BY GivenLists DEF Idle, Request, Fillers, Writers

LEMMA InitTyped == Init => TypeOK
<1> SUFFICES ASSUME Init PROVE TypeOK
  OBVIOUS
<1>1. ids \in Nat /\ request = [r \in Requests |-> Idle]
  BY DEF Init
<1>2. request \in [Requests -> Request]
  BY <1>1, IdleTyped
<1>3. /\ providers \in [Names -> 0..ids]
      /\ \A n, o \in Names : providers[n] = providers[o] /\ n # o => providers[n] = 0
  BY DEF Init
<1>4. ids \in 0..MaxIds /\ starts \in 0..MaxStarts /\ edits \in 0..MaxEdits
  BY RegistryAssumption DEF Init
<1>5. models \subseteq ModelRow /\ lines \subseteq LineRow /\ template \in 0..ids /\ last \subseteq Model
  BY DEF Init
<1>6. keys \in BOOLEAN /\ clean \in BOOLEAN /\ raced \in BOOLEAN /\ mixed \in BOOLEAN
  BY Zenon DEF Init
<1>7. models = {} /\ lines = {}
  BY DEF Init
<1> QED
  BY <1>2, <1>3, <1>4, <1>5, <1>6, <1>7 DEF TypeOK

\* A step that changes one request and no table.
LEMMA OneRequestTyped ==
    ASSUME TypeOK, NEW r \in Requests, NEW q \in Request,
           request' = [request EXCEPT ![r] = q],
           UNCHANGED <<db, keys, ids, starts, edits, raced, mixed>>,
           last' \subseteq Model, clean' \in BOOLEAN
    PROVE  TypeOK'
<1>1. Request' = Request /\ ModelRow' = ModelRow /\ LineRow' = LineRow
  BY DEF Request, ModelRow, LineRow
<1>2. request' \in [Requests -> Request']
  BY <1>1 DEF TypeOK
<1> QED
  BY <1>1, <1>2 DEF TypeOK, db

LEMMA AbortTyped ==
    ASSUME TypeOK, NEW r \in Requests, Abort(r)
    PROVE  TypeOK'
<1>1. Idle \in Request
  BY IdleTyped DEF TypeOK
<1> QED
  BY <1>1, OneRequestTyped DEF Abort, TypeOK

LEMMA GotoTyped ==
    ASSUME TypeOK, NEW r \in Requests,
           NEW pc \in {"created", "lookup", "write", "written", "list", "done",
                       "clear", "line", "drop"},
           Goto(r, pc), UNCHANGED <<db, keys, ids, starts, edits, history>>
    PROVE  TypeOK'
<1>1. request[r] \in Request
  BY DEF TypeOK
<1>2. [request[r] EXCEPT !.pc = pc] \in Request
  BY <1>1 DEF Request
<1>3. request' = [request EXCEPT ![r] = [request[r] EXCEPT !.pc = pc]]
  BY DEF Goto
<1> QED
  BY <1>2, <1>3, OneRequestTyped DEF TypeOK, history

LEMMA LoopTyped == \A q : Loop(q) \in {"lookup", "write", "list", "done"}
  BY DEF Loop

LEMMA SyncStepTyped ==
    ASSUME TypeOK, Phases, NEW r \in Requests,
           \/ FindLegacy(r) \/ FindProvider(r) \/ ProviderCreated(r) \/ LookUp(r)
           \/ ModelWritten(r) \/ ListModels(r) \/ Answer(r)
    PROVE  TypeOK'
<1> DEFINE q == request[r]
<1>1. /\ q \in Request /\ Phase(q)
      /\ last \subseteq Model /\ clean \in BOOLEAN
      /\ ids \in Nat /\ \A n \in Names : providers[n] \in 0..ids
      /\ \A m \in models : m.id \in 1..ids
  BY DEF TypeOK, Phases, ModelRow
<1>2. CASE FindProvider(r)
  <2> DEFINE found == [q EXCEPT !.provider = providers[Free]]
             new == [found EXCEPT !.pc = IF found.provider = 0 THEN "create" ELSE Loop(found)]
  <2>1. providers[Free] \in 0..ids
    BY <1>1 DEF Names
  <2>2. found \in Request
    BY <1>1, <2>1 DEF Request
  <2>3. new \in Request
    <3> HIDE DEF found
    <3> QED
      BY <2>2, LoopTyped DEF Request
  <2>4. request' = [request EXCEPT ![r] = new] /\ UNCHANGED <<db, keys, ids, starts, edits, history>>
    BY <1>2 DEF FindProvider
  <2> HIDE DEF new
  <2> QED
    BY <1>1, <2>3, <2>4, OneRequestTyped DEF history
<1>8. CASE FindLegacy(r)
  <2> DEFINE new == [q EXCEPT !.pc = "find", !.legacy = providers[Legacy]]
  <2>1. new \in Request
    BY <1>1 DEF Names, Request
  <2>2. request' = [request EXCEPT ![r] = new] /\ UNCHANGED <<db, keys, ids, starts, edits, history>>
    BY <1>8 DEF FindLegacy
  <2> HIDE DEF new
  <2> QED
    BY <1>1, <2>1, <2>2, OneRequestTyped DEF history
<1>3. CASE ProviderCreated(r)
  BY <1>3, AbortTyped, GotoTyped, LoopTyped DEF ProviderCreated
<1>4. CASE LookUp(r)
  <2> DEFINE same == {m.id : m \in {m \in RowsOf(q.provider) : m.model = Head(q.todo)}}
             row == IF same = {} THEN 0 ELSE Min(same)
             new == [q EXCEPT !.pc = "write", !.row = row]
  <2>1. same \subseteq 1..ids
    BY <1>1 DEF RowsOf, Visible
  <2>2. row \in 0..ids
    <3> HIDE DEF same
    <3>1. CASE same = {}
      BY <1>1, <3>1
    <3>2. CASE same # {}
      <4>1. same \in SUBSET Nat
        BY <1>1, <2>1
      <4>2. Min(same) \in same
        BY <3>2, <4>1, MinOfNaturals, Zenon
      <4>3. Min(same) \in 1..ids /\ row = Min(same)
        BY <2>1, <3>2, <4>2
      <4> QED
        BY <1>1, <4>3
    <3> QED
      BY <3>1, <3>2
  <2>3. request' = [request EXCEPT ![r] = new] /\ UNCHANGED <<db, keys, ids, starts, edits, history>>
    BY <1>4 DEF LookUp
  <2> HIDE DEF row
  <2>4. new \in Request
    BY <1>1, <2>2 DEF Request
  <2> HIDE DEF new
  <2> QED
    BY <1>1, <2>3, <2>4, OneRequestTyped DEF history
<1>5. CASE ModelWritten(r)
  <2> DEFINE next == [q EXCEPT !.todo = Tail(@), !.row = 0]
             new == [next EXCEPT !.pc = Loop(next)]
  <2>1. CASE Abort(r)
    BY <2>1, AbortTyped
  <2>2. CASE request' = [request EXCEPT ![r] = new]
             /\ UNCHANGED <<db, keys, ids, starts, edits, history>>
    <3>1. q.todo \in Seq(Model) /\ q.todo # <<>>
      BY <1>1, <1>5 DEF ModelWritten, Request, Phase
    <3>2. Tail(q.todo) \in Seq(Model)
      BY <3>1, HeadAndTail
    <3>3. next \in Request
      <4>1. 0 \in 0..ids
        BY <1>1
      <4> QED
        BY <1>1, <3>2, <4>1 DEF Request
    <3> HIDE DEF next
    <3>4. new \in Request
      BY <3>3, LoopTyped DEF Request
    <3> HIDE DEF new
    <3> QED
      BY <1>1, <2>2, <3>4, OneRequestTyped DEF history
  <2> QED
    BY <1>5, <2>1, <2>2 DEF ModelWritten
<1>6. CASE ListModels(r)
  <2> DEFINE gone == Doomed(q)
             pc == IF gone = {} THEN "done" ELSE "delete"
             new == [q EXCEPT !.doomed = gone, !.pc = pc]
  <2>1. gone \in SUBSET (1..ids)
    BY <1>1 DEF Doomed, Visible
  <2>2. request' = [request EXCEPT ![r] = new]
        /\ UNCHANGED <<db, keys, ids, starts, edits, raced, mixed>>
    BY <1>6 DEF ListModels
  <2>3. last' \subseteq Model /\ clean' \in BOOLEAN
    <3>1. ToSet(q.list) \subseteq Model
      <4>1. q.list \in Seq(Model)
        BY <1>1 DEF Request
      <4> QED
        BY <4>1 DEF ToSet
    <3> QED
      BY <1>1, <1>6, <3>1 DEF ListModels
  <2> HIDE DEF gone
  <2>4. new \in Request
    BY <1>1, <2>1 DEF Request
  <2> HIDE DEF new
  <2> QED
    BY <2>2, <2>3, <2>4, OneRequestTyped
<1>7. CASE Answer(r)
  <2>1. Idle \in Request
    BY <1>1, IdleTyped
  <2> QED
    BY <1>1, <1>7, <2>1, OneRequestTyped DEF Answer
<1> QED
  BY <1>2, <1>3, <1>4, <1>5, <1>6, <1>7, <1>8

LEMMA BeginTyped ==
    ASSUME TypeOK, ids' \in Nat, ids <= ids',
           NEW r \in Requests, NEW new \in Request', Begin(r, new)
    PROVE  /\ request' \in [Requests -> Request']
           /\ starts' \in 0..MaxStarts /\ edits' \in 0..MaxEdits
           /\ last' \subseteq Model
           /\ keys' \in BOOLEAN /\ clean' \in BOOLEAN /\ raced' \in BOOLEAN /\ mixed' \in BOOLEAN
<1>1. starts' \in 0..MaxStarts /\ edits' \in 0..MaxEdits /\ last' \subseteq Model
  BY RegistryAssumption DEF Begin, TypeOK
<1>2. keys' \in BOOLEAN /\ clean' \in BOOLEAN
  BY DEF Begin, TypeOK
<1>3. raced' \in BOOLEAN /\ mixed' \in BOOLEAN
  BY Zenon DEF Begin, TypeOK
<1>4. \A s \in Requests : request[s] \in Request'
  BY TypesGrow
<1>5. \A q \in Request', b \in BOOLEAN : [q EXCEPT !.alone = b] \in Request'
  BY DEF Request
<1>6. (Busy(Fillers) = {}) \in BOOLEAN
  OBVIOUS
<1>7. [new EXCEPT !.alone = (Busy(Fillers) = {})] \in Request'
  BY <1>5, <1>6
<1>8. \A s \in Requests : [request[s] EXCEPT !.alone = FALSE] \in Request'
  BY <1>4, <1>5
<1> QED
  BY <1>1, <1>2, <1>3, <1>4, <1>7, <1>8 DEF Begin

LEMMA BeginStepTyped ==
    ASSUME TypeOK, NEW r \in Requests,
           \/ \E a \in Answers : Fetch(r, a)
           \/ \E l \in Lists : UpdateTemplate(r, l)
           \/ BeginDrop(r) \/ BeginImport(r)
    PROVE  TypeOK'
<1>1. PICK new \in Request : Begin(r, new) /\ UNCHANGED <<db, ids>>
  <2>1. Idle \in Request /\ template \in 0..ids
    BY IdleTyped DEF TypeOK
  <2>2. ASSUME NEW a \in Answers, Fetch(r, a)
        PROVE  \E new \in Request : Begin(r, new) /\ UNCHANGED <<db, ids>>
    <3> DEFINE new == [Idle EXCEPT !.pc = "legacy", !.op = "sync",
                                   !.list = Chosen(a), !.todo = Chosen(a)]
    <3>1. Chosen(a) \in Seq(Model)
      BY GivenLists
    <3>2. new \in Request
      BY <2>1, <3>1 DEF Request, Fillers
    <3> QED
      BY <2>2, <3>2 DEF Fetch
  <2>3. ASSUME NEW l \in Lists, UpdateTemplate(r, l)
        PROVE  \E new \in Request : Begin(r, new) /\ UNCHANGED <<db, ids>>
    <3> DEFINE new == [Idle EXCEPT !.pc = "saved", !.op = "update", !.row = template,
                                   !.list = l, !.todo = l]
    <3>1. l \in Seq(Model)
      BY GivenLists
    <3>2. new \in Request
      BY <2>1, <3>1 DEF Request, Writers
    <3> QED
      BY <2>3, <3>2 DEF UpdateTemplate
  <2>4. CASE BeginDrop(r)
    <3> DEFINE new == [Idle EXCEPT !.pc = "clear", !.op = "drop", !.row = template]
    <3>1. new \in Request
      BY <2>1 DEF Request, Writers
    <3> QED
      BY <2>4, <3>1 DEF BeginDrop
  <2>5. CASE BeginImport(r)
    <3> DEFINE new == [Idle EXCEPT !.pc = "read", !.op = "import", !.row = template]
    <3>1. new \in Request
      BY <2>1 DEF Request, Fillers
    <3> QED
      BY <2>5, <3>1 DEF BeginImport
  <2> QED
    BY <2>2, <2>3, <2>4, <2>5
<1>2. Request' = Request /\ ModelRow' = ModelRow /\ LineRow' = LineRow
  BY <1>1 DEF Request, ModelRow, LineRow
<1>3. ids' \in Nat /\ ids <= ids' /\ ids' \in 0..MaxIds
  BY <1>1 DEF TypeOK
<1>4. request' \in [Requests -> Request']
  BY <1>1, <1>2, <1>3, BeginTyped
<1>5. /\ starts' \in 0..MaxStarts /\ edits' \in 0..MaxEdits /\ last' \subseteq Model
      /\ keys' \in BOOLEAN /\ clean' \in BOOLEAN /\ raced' \in BOOLEAN /\ mixed' \in BOOLEAN
  BY <1>1, <1>2, <1>3, BeginTyped
<1> QED
  BY <1>1, <1>2, <1>3, <1>4, <1>5 DEF TypeOK, db

\* A step that inserts a row.
LEMMA NewId ==
    ASSUME TypeOK, ids < MaxIds, ids' = ids + 1
    PROVE  /\ ids' \in 0..MaxIds /\ ids' \in Nat /\ ids <= ids' /\ ids' \in 1..ids'
           /\ \A n \in Names : providers[n] # ids'
           /\ \A m \in models : m.id # ids' /\ m.provider # ids'
           /\ \A l \in lines : l.id # ids'
           /\ template # ids'
  BY RegistryAssumption DEF TypeOK, ModelRow, LineRow

LEMMA InsertTyped ==
    ASSUME TypeOK, NEW p \in 1..ids, NEW m \in Model, Insert(p, m)
    PROVE  /\ models' \subseteq ModelRow'
           /\ \A x, y \in models' : x.id = y.id => x = y
           /\ ids' \in 0..MaxIds /\ ids <= ids' /\ ids' \in Nat
<1> DEFINE new == [id |-> ids', provider |-> p, model |-> m]
<1>1. /\ ids' \in 0..MaxIds /\ ids' \in Nat /\ ids <= ids' /\ ids' \in 1..ids'
      /\ \A x \in models : x.id # ids'
  BY NewId DEF Insert
<1>2. models \subseteq ModelRow'
  BY <1>1, TypesGrow
<1>3. p \in 1..ids'
  BY <1>1 DEF TypeOK
<1>4. new \in ModelRow' /\ new.id = ids'
  BY <1>1, <1>3 DEF ModelRow
<1>5. models' = models \cup {new}
  BY DEF Insert
<1> HIDE DEF new
<1> QED
  BY <1>1, <1>2, <1>4, <1>5 DEF TypeOK

LEMMA FillStepTyped ==
    ASSUME TypeOK, Phases, NEW r \in Requests,
           CreateProvider(r) \/ WriteModel(r) \/ DeleteModel(r)
    PROVE  TypeOK'
<1> DEFINE q == request[r]
<1>1. q \in Request /\ Phase(q) /\ ids \in Nat
  BY DEF TypeOK, Phases
<1>2. CASE CreateProvider(r)
  <2> DEFINE name == IF q.op = "sync" THEN Free ELSE Relay
             new == [q EXCEPT !.pc = "created", !.provider = ids']
  <2>1. CASE providers[name] # 0
    BY <1>2, <2>1, AbortTyped DEF CreateProvider
  <2>2. CASE providers[name] = 0
    <3>1. /\ ids < MaxIds /\ ids' = ids + 1
          /\ providers' = [providers EXCEPT ![name] = ids']
          /\ request' = [request EXCEPT ![r] = new]
          /\ UNCHANGED <<models, template, lines, keys, starts, edits, history>>
      BY <1>2, <2>2 DEF CreateProvider
    <3>2. /\ ids' \in 0..MaxIds /\ ids' \in Nat /\ ids <= ids' /\ ids' \in 1..ids'
          /\ \A n \in Names : providers[n] # ids'
      BY <3>1, NewId
    <3>3. q \in Request' /\ ids' \in 0..ids'
      BY <3>2, TypesGrow
    <3>4. new \in Request'
      BY <3>3 DEF Request
    <3>5. request' \in [Requests -> Request']
      <4> HIDE DEF new
      <4> QED
        BY <3>1, <3>2, <3>4, RequestTyped
    <3>6. providers \in [Names -> 0..ids'] /\ name \in Names
      BY <3>2, TypesGrow DEF Names
    <3>7. /\ providers' \in [Names -> 0..ids']
          /\ \A n, o \in Names : providers'[n] = providers'[o] /\ n # o => providers'[n] = 0
      <4> HIDE DEF name
      <4> QED
        BY <3>1, <3>2, <3>3, <3>6 DEF TypeOK
    <3>8. models' \subseteq ModelRow' /\ lines' \subseteq LineRow' /\ template' \in 0..ids'
      BY <3>1, <3>2, TypesGrow
    <3> QED
      BY <3>1, <3>2, <3>5, <3>7, <3>8 DEF TypeOK, history
  <2> QED
    BY <2>1, <2>2
<1>3. CASE WriteModel(r)
  <2> DEFINE new == [q EXCEPT !.pc = "written", !.row = ids']
  <2>1. CASE Goto(r, "written") /\ UNCHANGED <<db, keys, ids, starts, edits, history>>
    BY <2>1, GotoTyped
  <2>2. CASE Abort(r)
    BY <2>2, AbortTyped
  <2>3. CASE /\ Insert(q.provider, Head(q.todo))
             /\ request' = [request EXCEPT ![r] = new]
             /\ UNCHANGED <<providers, template, lines, keys, starts, edits, history>>
    <3>1. q.provider \in 1..ids /\ Head(q.todo) \in Model
      <4>1. q.provider \in 0..ids /\ q.provider # 0 /\ q.todo \in Seq(Model) /\ q.todo # <<>>
        BY <1>1, <1>3 DEF WriteModel, Request, Phase
      <4> QED
        BY <1>1, <4>1, HeadAndTail
    <3>2. /\ models' \subseteq ModelRow'
          /\ \A x, y \in models' : x.id = y.id => x = y
          /\ ids' \in 0..MaxIds /\ ids <= ids' /\ ids' \in Nat
      BY <2>3, <3>1, InsertTyped
    <3>3. q \in Request' /\ ids' \in 0..ids'
      BY <3>2, TypesGrow
    <3>4. new \in Request'
      BY <3>3 DEF Request
    <3>5. request' \in [Requests -> Request']
      <4> HIDE DEF new
      <4> QED
        BY <2>3, <3>2, <3>4, RequestTyped
    <3>6. lines' \subseteq LineRow' /\ template' \in 0..ids' /\ providers' \in [Names -> 0..ids']
      BY <2>3, <3>2, TypesGrow
    <3> QED
      BY <2>3, <3>2, <3>5, <3>6 DEF TypeOK, history
  <2> QED
    BY <1>3, <2>1, <2>2, <2>3 DEF WriteModel
<1>4. CASE DeleteModel(r)
  <2> DEFINE left == q.doomed \ {Min(q.doomed)}
             pc == IF left = {} THEN "done" ELSE "delete"
             new == [q EXCEPT !.doomed = left, !.pc = pc]
  <2>1. left \in SUBSET (1..ids)
    BY <1>1 DEF Request
  <2>2. new \in Request
    <3> HIDE DEF left
    <3> QED
      BY <1>1, <2>1 DEF Request
  <2>3. /\ request' = [request EXCEPT ![r] = new] /\ models' \subseteq models
        /\ UNCHANGED <<providers, template, lines, keys, ids, starts, edits, history>>
    BY <1>4 DEF DeleteModel
  <2>4. Request' = Request /\ ModelRow' = ModelRow /\ LineRow' = LineRow
    BY <2>3 DEF Request, ModelRow, LineRow
  <2> HIDE DEF new
  <2> QED
    BY <2>2, <2>3, <2>4 DEF TypeOK, history
<1> QED
  BY <1>2, <1>3, <1>4

LEMMA TemplateStepTyped ==
    ASSUME TypeOK, Phases, NEW r \in Requests, TemplateStep(r)
    PROVE  TypeOK'
<1> DEFINE q == request[r]
<1>1. /\ q \in Request /\ Phase(q)
      /\ ids \in Nat /\ last \subseteq Model /\ clean \in BOOLEAN
  BY DEF TypeOK, Phases
<1>2. ASSUME NEW l \in Lists, CreateTemplate(r, l)
      PROVE  TypeOK'
  <2> DEFINE new == [Idle EXCEPT !.pc = "saved", !.op = "create", !.row = ids',
                                 !.list = l, !.todo = l]
  <2>1. /\ ids < MaxIds /\ ids' = ids + 1 /\ template' = ids'
        /\ Begin(r, new) /\ UNCHANGED <<providers, models, lines>>
    BY <1>2 DEF CreateTemplate
  <2>2. ids' \in 0..MaxIds /\ ids' \in Nat /\ ids <= ids' /\ ids' \in 0..ids'
    BY <2>1, NewId
  <2>3. new \in Request'
    <3>1. Idle \in Request'
      <4>1. request \in [Requests -> Request'] /\ Idle \in Request
        BY <1>1, <2>2, TypesGrow, IdleTyped
      <4>2. 0..ids \subseteq 0..ids' /\ 1..ids \subseteq 1..ids'
        BY <1>1, <2>2
      <4> QED
        BY <4>1, <4>2 DEF Request
    <3>2. l \in Seq(Model)
      BY GivenLists
    <3> QED
      BY <2>2, <3>1, <3>2 DEF Request, Writers
  <2> HIDE DEF new
  <2>4. /\ request' \in [Requests -> Request']
        /\ starts' \in 0..MaxStarts /\ edits' \in 0..MaxEdits /\ last' \subseteq Model
        /\ keys' \in BOOLEAN /\ clean' \in BOOLEAN /\ raced' \in BOOLEAN /\ mixed' \in BOOLEAN
    BY <2>1, <2>2, <2>3, BeginTyped
  <2>5. models' \subseteq ModelRow' /\ lines' \subseteq LineRow' /\ providers' \in [Names -> 0..ids']
    BY <2>1, <2>2, TypesGrow
  <2> QED
    BY <2>1, <2>2, <2>4, <2>5 DEF TypeOK
<1>3. CASE TemplateSaved(r)
  BY <1>3, AbortTyped, GotoTyped DEF TemplateSaved
<1>4. CASE ClearLines(r) \/ DropTemplate(r)
  <2>1. PICK pc \in {"done", "line", "drop"} : request' = [request EXCEPT ![r].pc = pc]
    BY <1>4 DEF ClearLines, DropTemplate, Goto
  <2>2. [q EXCEPT !.pc = pc] \in Request
    BY <1>1 DEF Request
  <2>3. /\ lines' \subseteq lines /\ template' \in {0, template}
        /\ UNCHANGED <<providers, models, keys, ids, starts, edits, history>>
    BY <1>4 DEF ClearLines, DropTemplate
  <2>4. Request' = Request /\ ModelRow' = ModelRow /\ LineRow' = LineRow
    BY <2>3 DEF Request, ModelRow, LineRow
  <2> QED
    BY <1>1, <2>1, <2>2, <2>3, <2>4 DEF TypeOK, history
<1>5. CASE AddLine(r)
  <2> DEFINE new == [q EXCEPT !.pc = "added", !.provider = ids']
             line == [id |-> ids', template |-> q.row, model |-> Head(q.todo)]
  <2>1. CASE Abort(r)
    BY <2>1, AbortTyped
  <2>2. CASE /\ ids < MaxIds /\ ids' = ids + 1
             /\ lines' = lines \cup {line}
             /\ request' = [request EXCEPT ![r] = new]
             /\ UNCHANGED <<providers, models, template, keys, starts, edits, history>>
    <3>1. q.row \in 1..ids /\ Head(q.todo) \in Model
      <4>1. q.row \in 0..ids /\ q.row # 0 /\ q.todo \in Seq(Model) /\ q.todo # <<>>
        BY <1>1, <1>5 DEF AddLine, Request, Phase
      <4> QED
        BY <1>1, <4>1, HeadAndTail
    <3>2. /\ ids' \in 0..MaxIds /\ ids' \in Nat /\ ids <= ids' /\ ids' \in 1..ids' /\ ids' \in 0..ids'
          /\ \A l \in lines : l.id # ids'
      BY <2>2, NewId
    <3>3. q \in Request' /\ q.row \in 1..ids'
      BY <1>1, <3>1, <3>2, TypesGrow
    <3>4. new \in Request'
      BY <3>2, <3>3 DEF Request
    <3>5. request' \in [Requests -> Request']
      <4> HIDE DEF new
      <4> QED
        BY <2>2, <3>2, <3>4, RequestTyped
    <3>6. line \in LineRow' /\ line.id = ids'
      BY <3>1, <3>2, <3>3 DEF LineRow
    <3>7. lines \subseteq LineRow' /\ models' \subseteq ModelRow'
          /\ template' \in 0..ids' /\ providers' \in [Names -> 0..ids']
      BY <2>2, <3>2, TypesGrow
    <3>8. lines' \subseteq LineRow' /\ \A x, y \in lines' : x.id = y.id => x = y
      <4> HIDE DEF line
      <4> QED
        BY <2>2, <3>2, <3>6, <3>7 DEF TypeOK
    <3> QED
      BY <2>2, <3>2, <3>5, <3>7, <3>8 DEF TypeOK, history
  <2> QED
    BY <1>5, <2>1, <2>2 DEF AddLine
<1>6. CASE LineAdded(r)
  <2> DEFINE pc == IF Tail(q.todo) = <<>> THEN "done" ELSE "line"
             new == [q EXCEPT !.todo = Tail(@), !.provider = 0, !.pc = pc]
  <2>1. CASE Abort(r)
    BY <2>1, AbortTyped
  <2>2. CASE request' = [request EXCEPT ![r] = new]
             /\ UNCHANGED <<db, keys, ids, starts, edits, history>>
    <3>1. Tail(q.todo) \in Seq(Model) /\ 0 \in 0..ids
      <4>1. q.todo \in Seq(Model) /\ q.todo # <<>>
        BY <1>1, <1>6 DEF LineAdded, Request, Phase
      <4> QED
        BY <1>1, <4>1, HeadAndTail
    <3>2. new \in Request
      BY <1>1, <3>1 DEF Request
    <3> HIDE DEF new
    <3> QED
      BY <1>1, <2>2, <3>2, OneRequestTyped DEF history
  <2> QED
    BY <1>6, <2>1, <2>2 DEF LineAdded
<1>7. CASE ReadLines(r)
  <2> DEFINE mine == {l \in lines : l.template = q.row}
             N == Cardinality(mine)
             rows == ById(mine)
             list == [k \in DOMAIN rows |-> rows[k].model]
             new == [q EXCEPT !.pc = "create", !.row = 0, !.list = list, !.todo = list]
  <2>1. /\ \A l \in mine : l.id \in 1..ids /\ l.model \in Model
        /\ \A l, m \in mine : l.id = m.id => l = m
    BY DEF TypeOK, LineRow
  <2>2. Enumerates(rows, mine)
    <3> HIDE DEF mine
    <3> QED
      BY <1>1, <2>1, RowsById
  <2>3. N \in Nat /\ DOMAIN rows = 1..N /\ \A k \in 1..N : rows[k] \in mine
    BY <2>2 DEF Enumerates
  <2>4. list \in Seq(Model)
    <3>1. \A k \in 1..N : rows[k].model \in Model
      BY <2>1, <2>3
    <3> HIDE DEF rows, N
    <3> QED
      BY <2>3, <3>1
  <2>5. request' = [request EXCEPT ![r] = new] /\ UNCHANGED <<db, keys, ids, starts, edits, history>>
    BY <1>7 DEF ReadLines
  <2> HIDE DEF list
  <2>6. new \in Request
    <3>1. 0 \in 0..ids
      BY <1>1
    <3> QED
      BY <1>1, <2>4, <3>1 DEF Request
  <2> HIDE DEF new
  <2> QED
    BY <1>1, <2>5, <2>6, OneRequestTyped DEF history
<1> QED
  BY <1>2, <1>3, <1>4, <1>5, <1>6, <1>7, BeginStepTyped DEF TemplateStep

LEMMA EditTyped ==
    ASSUME TypeOK, ids' \in 0..MaxIds, ids <= ids', NEW twins \in BOOLEAN, Edit(twins)
    PROVE  /\ request' \in [Requests -> Request']
           /\ template' \in 0..ids' /\ lines' \subseteq LineRow'
           /\ \A l, o \in lines' : l.id = o.id => l = o
           /\ starts' \in 0..MaxStarts /\ edits' \in 0..MaxEdits
           /\ last' \subseteq Model
           /\ keys' \in BOOLEAN /\ clean' \in BOOLEAN /\ raced' \in BOOLEAN /\ mixed' \in BOOLEAN
<1>0. ids' \in Nat
  BY RegistryAssumption
<1>1. \A s \in Requests : request[s] \in Request'
  BY <1>0, TypesGrow
<1>2. \A s \in Requests : [request[s] EXCEPT !.alone = FALSE] \in Request'
  BY <1>1 DEF Request
<1>3. request' = [s \in Requests |-> [request[s] EXCEPT !.alone = FALSE]]
  BY DEF Edit
<1>4. template' \in 0..ids' /\ lines' \subseteq LineRow'
  BY <1>0, TypesGrow DEF Edit
<1>5. starts' \in 0..MaxStarts /\ edits' \in 0..MaxEdits
  BY RegistryAssumption DEF Edit, TypeOK
<1>6. keys' \in BOOLEAN /\ clean' \in BOOLEAN /\ raced' \in BOOLEAN /\ mixed' \in BOOLEAN
  BY Zenon DEF Edit, TypeOK
<1> QED
  BY <1>2, <1>3, <1>4, <1>5, <1>6 DEF Edit, TypeOK

\* An edit changes one of the two tables, within their types.
LEMMA EditedTyped ==
    ASSUME TypeOK, ids' \in 0..MaxIds, ids <= ids', NEW twins \in BOOLEAN, Edit(twins),
           /\ providers' \in [Names -> 0..ids']
           /\ \A n, o \in Names : providers'[n] = providers'[o] /\ n # o => providers'[n] = 0
           /\ models' \subseteq ModelRow'
           /\ \A m, o \in models' : m.id = o.id => m = o
    PROVE  TypeOK'
  BY EditTyped DEF TypeOK

LEMMA ProviderEditTyped ==
    ASSUME TypeOK, NEW n \in Names,
           AddProvider(n) \/ RemoveProvider(n) \/ \E o \in Names : RenameProvider(n, o)
    PROVE  TypeOK'
<1>1. /\ ids' \in 0..MaxIds /\ ids' \in Nat /\ ids <= ids'
      /\ models' \subseteq models
      /\ ids' # ids => ids' \in 1..ids' /\ \A o \in Names : providers[o] # ids'
  <2>1. CASE AddProvider(n)
    BY <2>1, NewId DEF AddProvider
  <2>2. CASE RemoveProvider(n) \/ \E o \in Names : RenameProvider(n, o)
    <3>1. ids' = ids /\ models' \subseteq models
      BY <2>2 DEF RemoveProvider, RenameProvider
    <3>2. ids \in 0..MaxIds /\ ids \in Nat
      BY RegistryAssumption DEF TypeOK
    <3> QED
      BY <3>1, <3>2
  <2> QED
    BY <2>1, <2>2
<1>2. providers \in [Names -> 0..ids'] /\ models \subseteq ModelRow' /\ 0 \in 0..ids'
  BY <1>1, TypesGrow
<1>3. models' \subseteq ModelRow' /\ \A m, o \in models' : m.id = o.id => m = o
  BY <1>1, <1>2 DEF TypeOK
<1>4. /\ providers' \in [Names -> 0..ids']
      /\ \A x, o \in Names : providers'[x] = providers'[o] /\ x # o => providers'[x] = 0
  <2>1. CASE AddProvider(n)
    <3>1. ids' # ids /\ providers' = [providers EXCEPT ![n] = ids']
      BY <2>1 DEF AddProvider, TypeOK
    <3>2. ids' \in 0..ids'
      BY <1>1
    <3> QED
      BY <1>1, <1>2, <3>1, <3>2 DEF TypeOK
  <2>2. CASE RemoveProvider(n)
    BY <1>2, <2>2 DEF RemoveProvider, TypeOK
  <2>3. ASSUME NEW o \in Names, RenameProvider(n, o)
        PROVE  /\ providers' \in [Names -> 0..ids']
               /\ \A x, y \in Names : providers'[x] = providers'[y] /\ x # y => providers'[x] = 0
    <3>1. /\ providers[o] = 0 /\ providers[n] # 0
          /\ providers' = [providers EXCEPT ![n] = 0, ![o] = providers[n]]
      BY <2>3 DEF RenameProvider
    <3>2. n # o /\ providers[n] \in 0..ids'
      BY <1>2, <3>1
    <3>3. providers' = [x \in Names |-> IF x = o THEN providers[n]
                                        ELSE IF x = n THEN 0 ELSE providers[x]]
      BY <1>2, <3>1, <3>2
    <3> QED
      BY <1>2, <3>2, <3>3 DEF TypeOK
  <2> QED
    BY <2>1, <2>2, <2>3
<1>5. \E twins \in BOOLEAN : Edit(twins)
  BY DEF AddProvider, RemoveProvider, RenameProvider
<1> QED
  BY <1>1, <1>3, <1>4, <1>5, EditedTyped

LEMMA ModelEditTyped ==
    ASSUME TypeOK, ModelEdit
    PROVE  TypeOK'
<1>1. Models \subseteq Model
  BY DEF Model
<1>2. ASSUME NEW n \in Names, NEW m \in Models, AddModel(n, m)
      PROVE  TypeOK'
  <2>1. providers[n] \in 1..ids /\ m \in Model
    BY <1>1, <1>2 DEF AddModel, TypeOK
  <2>2. Insert(providers[n], m) /\ Edit(TRUE) /\ UNCHANGED providers
    BY <1>2 DEF AddModel
  <2>3. /\ models' \subseteq ModelRow'
        /\ \A x, y \in models' : x.id = y.id => x = y
        /\ ids' \in 0..MaxIds /\ ids <= ids' /\ ids' \in Nat
    BY <2>1, <2>2, InsertTyped
  <2>4. providers' \in [Names -> 0..ids']
    BY <2>2, <2>3, TypesGrow
  <2> QED
    BY <2>2, <2>3, <2>4, EditedTyped DEF TypeOK
<1>3. ASSUME NEW row \in models, RemoveModel(row) \/ \E m \in Models : RenameModel(row, m)
      PROVE  TypeOK'
  <2>1. UNCHANGED <<providers, ids>> /\ \E twins \in BOOLEAN : Edit(twins)
    BY <1>3 DEF RemoveModel, RenameModel
  <2>2. ModelRow' = ModelRow /\ ids' \in 0..MaxIds /\ ids <= ids'
    BY <2>1 DEF ModelRow, TypeOK
  <2>3. models' \subseteq ModelRow /\ \A x, y \in models' : x.id = y.id => x = y
    <3>1. CASE RemoveModel(row)
      BY <3>1 DEF RemoveModel, TypeOK
    <3>2. ASSUME NEW m \in Models, RenameModel(row, m)
          PROVE  models' \subseteq ModelRow /\ \A x, y \in models' : x.id = y.id => x = y
      <4> DEFINE new == [row EXCEPT !.model = m]
      <4>1. row \in ModelRow
        BY DEF TypeOK
      <4>2. new \in ModelRow /\ new.id = row.id
        BY <1>1, <4>1 DEF ModelRow
      <4>3. models' = (models \ {row}) \cup {new}
        BY <3>2 DEF RenameModel, Rewritten
      <4> HIDE DEF new
      <4> QED
        BY <4>2, <4>3 DEF TypeOK
    <3> QED
      BY <1>3, <3>1, <3>2
  <2> QED
    BY <2>1, <2>2, <2>3, EditedTyped DEF TypeOK
<1> QED
  BY <1>2, <1>3 DEF ModelEdit

LEMMA CrashTyped ==
    ASSUME TypeOK, Crash
    PROVE  TypeOK'
<1>1. Request' = Request /\ ModelRow' = ModelRow /\ LineRow' = LineRow
  BY DEF Crash, Request, ModelRow, LineRow
<1>2. Idle \in Request
  BY IdleTyped DEF TypeOK
<1>3. request' \in [Requests -> Request]
  BY <1>2 DEF Crash
<1>4. clean' \in BOOLEAN /\ keys' \in BOOLEAN
  BY Zenon DEF Crash, TypeOK
<1> QED
  BY <1>1, <1>3, <1>4 DEF Crash, TypeOK, db

LEMMA StepTyped ==
    ASSUME TypeOK, Phases, [Next]_vars
    PROVE  TypeOK'
<1>1. CASE UNCHANGED vars
  BY <1>1 DEF vars, db, history, TypeOK, Request, ModelRow, LineRow
<1>2. ASSUME NEW r \in Requests, SyncStep(r)
      PROVE  TypeOK'
  BY <1>2, BeginStepTyped, SyncStepTyped, FillStepTyped DEF SyncStep
<1>3. ASSUME NEW r \in Requests, TemplateStep(r)
      PROVE  TypeOK'
  BY <1>3, TemplateStepTyped
<1>4. CASE AdminEdit
  BY <1>4, ProviderEditTyped, ModelEditTyped DEF AdminEdit, ProviderEdit
<1>5. CASE Crash
  BY <1>5, CrashTyped
<1> QED
  BY <1>1, <1>2, <1>3, <1>4, <1>5 DEF Next

(***************************************************************************)
(* Where a request stands                                                  *)
(***************************************************************************)
LEMMA IdlePhase == Phase(Idle)
  BY DEF Phase, Idle, Fillers, Writers

LEMMA LoopPhase ==
    ASSUME NEW q \in Request, q.op \in Fillers, q.provider # 0
    PROVE  Phase([q EXCEPT !.pc = Loop(q)])
  BY DEF Phase, Loop, Request, Fillers, Writers

\* Steps that only take a request on.
LEMMA OnePhase ==
    ASSUME Phases, request \in [Requests -> Request], NEW r \in Requests, NEW q,
           Phase(q), request' = [request EXCEPT ![r] = q]
    PROVE  Phases'
  BY DEF Phases, Phase

LEMMA AlonePhase ==
    ASSUME NEW q \in Request, Phase(q), NEW b
    PROVE  Phase([q EXCEPT !.alone = b])
  BY DEF Phase, Request

LEMMA BeginPhase ==
    ASSUME TypeOK, Phases, NEW r \in Requests, NEW new,
           \A b : Phase([new EXCEPT !.alone = b]), Begin(r, new)
    PROVE  Phases'
<1>1. \A s \in Requests : request[s] \in Request /\ Phase(request[s])
  BY DEF TypeOK, Phases
<1>2. \A s \in Requests : Phase([request[s] EXCEPT !.alone = FALSE])
  BY <1>1, AlonePhase
<1>3. \A s \in Requests : Phase(request'[s])
  BY <1>1, <1>2 DEF Begin
<1> QED
  BY <1>3 DEF Phases, Phase

LEMMA StepPhases ==
    ASSUME TypeOK, Phases, [Next]_vars
    PROVE  Phases'
<1>0. request \in [Requests -> Request] /\ ids \in Nat /\ template \in 0..ids
  BY DEF TypeOK
<1>1. ASSUME NEW r \in Requests, Abort(r)
      PROVE  Phases'
  BY <1>0, <1>1, IdlePhase, OnePhase DEF Abort
<1>2. CASE UNCHANGED vars
  BY <1>2 DEF vars, Phases, Phase
<1>3. ASSUME NEW r \in Requests, SyncStep(r)
      PROVE  Phases'
  <2> DEFINE q == request[r]
  <2>1. q \in Request /\ Phase(q)
    BY <1>0 DEF Phases
  <2>2. ASSUME NEW a \in Answers, Fetch(r, a)
        PROVE  Phases'
    <3> DEFINE new == [Idle EXCEPT !.pc = "legacy", !.op = "sync",
                                   !.list = Chosen(a), !.todo = Chosen(a)]
    <3>1. \A b : Phase([new EXCEPT !.alone = b])
      BY DEF Phase, Idle, Fillers, Writers
    <3>2. Begin(r, new)
      BY <2>2 DEF Fetch
    <3> HIDE DEF new
    <3> QED
      BY <3>1, <3>2, BeginPhase
  <2>12. CASE FindLegacy(r)
    <3> DEFINE new == [q EXCEPT !.pc = "find", !.legacy = providers[Legacy]]
    <3>1. q.pc = "legacy" /\ q.op = "sync" /\ q.todo = q.list
      BY <2>1, <2>12 DEF FindLegacy, Phase
    <3>2. Phase(new)
      BY <2>1, <3>1 DEF Phase, Request, Fillers, Writers
    <3>3. request' = [request EXCEPT ![r] = new]
      BY <2>12 DEF FindLegacy
    <3> HIDE DEF new
    <3> QED
      BY <1>0, <3>2, <3>3, OnePhase
  <2>3. CASE FindProvider(r)
    <3> DEFINE found == [q EXCEPT !.provider = providers[Free]]
               new == [found EXCEPT !.pc = IF found.provider = 0 THEN "create" ELSE Loop(found)]
    <3>1. found \in Request
      <4>1. providers[Free] \in 0..ids
        BY DEF TypeOK, Names
      <4> QED
        BY <2>1, <4>1 DEF Request
    <3>2. q.pc = "find" /\ q.op = "sync" /\ q.todo = q.list
      BY <2>1, <2>3 DEF FindProvider, Phase
    <3>3. found.op = "sync" /\ found.todo = found.list
      BY <2>1, <3>2 DEF Request
    <3>4. Phase(new)
      <4> HIDE DEF found
      <4>1. CASE found.provider = 0
        BY <3>1, <3>3, <4>1 DEF Phase, Request, Fillers, Writers
      <4>2. CASE found.provider # 0
        BY <3>1, <3>3, <4>2, LoopPhase DEF Fillers
      <4> QED
        BY <4>1, <4>2
    <3>5. request' = [request EXCEPT ![r] = new]
      BY <2>3 DEF FindProvider
    <3> HIDE DEF new
    <3> QED
      BY <1>0, <3>4, <3>5, OnePhase
  <2>4. CASE CreateProvider(r)
    <3>1. CASE request' = [request EXCEPT ![r].pc = "created", ![r].provider = ids']
                 /\ ids' = ids + 1
      <4> DEFINE new == [q EXCEPT !.pc = "created", !.provider = ids']
      <4>1. q.op \in Fillers /\ q.todo = q.list /\ ids' # 0
        BY <1>0, <2>1, <2>4, <3>1 DEF CreateProvider, Phase
      <4>2. Phase(new)
        BY <2>1, <4>1 DEF Phase, Request, Fillers, Writers
      <4>3. request' = [request EXCEPT ![r] = new]
        BY <3>1
      <4> HIDE DEF new
      <4> QED
        BY <1>0, <4>2, <4>3, OnePhase
    <3> QED
      BY <1>1, <2>4, <3>1 DEF CreateProvider
  <2>5. CASE ProviderCreated(r)
    <3>1. CASE Goto(r, Loop(q))
      <4>1. Phase([q EXCEPT !.pc = Loop(q)])
        BY <2>1, <2>5, LoopPhase DEF ProviderCreated, Phase
      <4> QED
        BY <1>0, <3>1, <4>1, OnePhase DEF Goto
    <3> QED
      BY <1>1, <2>5, <3>1 DEF ProviderCreated
  <2>6. CASE LookUp(r)
    <3>1. PICK row : request' = [request EXCEPT ![r].pc = "write", ![r].row = row]
      BY <2>6 DEF LookUp
    <3>2. Phase([q EXCEPT !.pc = "write", !.row = row])
      BY <2>1, <2>6 DEF LookUp, Phase, Request, Fillers, Writers
    <3> QED
      BY <1>0, <3>1, <3>2, OnePhase
  <2>7. CASE WriteModel(r)
    <3>1. \A row : Phase([q EXCEPT !.pc = "written", !.row = row]) /\ Phase([q EXCEPT !.pc = "written"])
      BY <2>1, <2>7 DEF WriteModel, Phase, Request, Fillers, Writers
    <3>2. CASE Goto(r, "written")
      BY <1>0, <3>1, <3>2, OnePhase DEF Goto
    <3>3. CASE request' = [request EXCEPT ![r].pc = "written", ![r].row = ids']
      <4>1. request' = [request EXCEPT ![r] = [q EXCEPT !.pc = "written", !.row = ids']]
        BY <3>3
      <4> QED
        BY <1>0, <3>1, <4>1, OnePhase
    <3> QED
      BY <1>1, <2>7, <3>2, <3>3 DEF WriteModel
  <2>8. CASE ModelWritten(r)
    <3> DEFINE next == [q EXCEPT !.todo = Tail(@), !.row = 0]
               new == [next EXCEPT !.pc = Loop(next)]
    <3>1. CASE request' = [request EXCEPT ![r] = new]
      <4>1. q.op \in Fillers /\ q.provider # 0 /\ Tail(q.todo) \in Seq(Model) /\ 0 \in 0..ids
        <5>1. q.todo \in Seq(Model) /\ q.todo # <<>>
          BY <2>1, <2>8 DEF ModelWritten, Request, Phase
        <5> QED
          BY <1>0, <2>1, <2>8, <5>1, HeadAndTail DEF ModelWritten, Phase
      <4>2. next \in Request /\ next.op \in Fillers /\ next.provider # 0
        BY <2>1, <4>1 DEF Request
      <4> HIDE DEF next
      <4>3. Phase(new)
        BY <4>2, LoopPhase
      <4> HIDE DEF new
      <4> QED
        BY <1>0, <3>1, <4>3, OnePhase
    <3> QED
      BY <1>1, <2>8, <3>1 DEF ModelWritten
  <2>9. CASE ListModels(r)
    <3> DEFINE gone == Doomed(q)
    <3>1. request' = [request EXCEPT ![r] = [q EXCEPT !.doomed = gone,
                                    !.pc = IF gone = {} THEN "done" ELSE "delete"]]
      BY <2>9 DEF ListModels
    <3> HIDE DEF gone
    <3>2. Phase([q EXCEPT !.doomed = gone, !.pc = IF gone = {} THEN "done" ELSE "delete"])
      BY <2>1, <2>9 DEF ListModels, Phase, Request, Fillers, Writers
    <3> QED
      BY <1>0, <3>1, <3>2, OnePhase
  <2>10. CASE DeleteModel(r)
    <3> DEFINE left == q.doomed \ {Min(q.doomed)}
    <3>1. request' = [request EXCEPT ![r] = [q EXCEPT !.doomed = left,
                                    !.pc = IF left = {} THEN "done" ELSE "delete"]]
      BY <2>10 DEF DeleteModel
    <3> HIDE DEF left
    <3>2. Phase([q EXCEPT !.doomed = left, !.pc = IF left = {} THEN "done" ELSE "delete"])
      BY <2>1, <2>10 DEF DeleteModel, Phase, Request, Fillers, Writers
    <3> QED
      BY <1>0, <3>1, <3>2, OnePhase
  <2>11. CASE Answer(r)
    BY <1>0, <2>11, IdlePhase, OnePhase DEF Answer
  <2> QED
    BY <1>3, <2>2, <2>3, <2>4, <2>5, <2>6, <2>7, <2>8, <2>9, <2>10, <2>11, <2>12 DEF SyncStep
<1>4. ASSUME NEW r \in Requests, TemplateStep(r)
      PROVE  Phases'
  <2> DEFINE q == request[r]
  <2>1. q \in Request /\ Phase(q)
    BY <1>0 DEF Phases
  <2>2. ASSUME NEW l \in Lists, CreateTemplate(r, l) \/ UpdateTemplate(r, l)
        PROVE  Phases'
    <3>1. PICK op \in {"create", "update"}, row \in Nat \ {0} :
            Begin(r, [Idle EXCEPT !.pc = "saved", !.op = op, !.row = row, !.list = l, !.todo = l])
      <4>1. CASE CreateTemplate(r, l)
        <5>1. ids' \in Nat \ {0}
          BY <1>0, <4>1 DEF CreateTemplate
        <5> QED
          BY <4>1, <5>1 DEF CreateTemplate
      <4>2. CASE UpdateTemplate(r, l)
        <5>1. template \in Nat \ {0}
          BY <1>0, <4>2 DEF UpdateTemplate
        <5> QED
          BY <4>2, <5>1 DEF UpdateTemplate
      <4> QED
        BY <2>2, <4>1, <4>2
    <3> DEFINE new == [Idle EXCEPT !.pc = "saved", !.op = op, !.row = row, !.list = l, !.todo = l]
    <3>2. \A b : Phase([new EXCEPT !.alone = b])
      BY <3>1 DEF Phase, Idle, Fillers, Writers
    <3> HIDE DEF new
    <3> QED
      BY <3>1, <3>2, BeginPhase DEF new
  <2>3. CASE BeginDrop(r) \/ BeginImport(r)
    <3>1. PICK pc, op, row :
            /\ <<pc, op>> \in {<<"clear", "drop">>, <<"read", "import">>} /\ row # 0
            /\ Begin(r, [Idle EXCEPT !.pc = pc, !.op = op, !.row = row])
      BY <2>3 DEF BeginDrop, BeginImport
    <3> DEFINE new == [Idle EXCEPT !.pc = pc, !.op = op, !.row = row]
    <3>2. \A b : Phase([new EXCEPT !.alone = b])
      BY <3>1 DEF Phase, Idle, Fillers, Writers
    <3> HIDE DEF new
    <3> QED
      BY <3>1, <3>2, BeginPhase DEF new
  <2>4. CASE TemplateSaved(r)
    <3> DEFINE next == IF q.op = "update" THEN "clear"
                       ELSE IF q.todo = <<>> THEN "done" ELSE "line"
    <3>1. CASE Goto(r, next)
      <4>1. Phase([q EXCEPT !.pc = next])
        BY <2>1, <2>4 DEF TemplateSaved, Phase, Request, Fillers, Writers
      <4> QED
        BY <1>0, <3>1, <4>1, OnePhase DEF Goto
    <3> QED
      BY <1>1, <2>4, <3>1 DEF TemplateSaved
  <2>5. CASE ClearLines(r)
    <3> DEFINE next == IF q.op = "drop" THEN "drop"
                       ELSE IF q.todo = <<>> THEN "done" ELSE "line"
    <3>1. Phase([q EXCEPT !.pc = next])
      BY <2>1, <2>5 DEF ClearLines, Phase, Request, Fillers, Writers
    <3> QED
      BY <1>0, <2>5, <3>1, OnePhase DEF ClearLines, Goto
  <2>6. CASE AddLine(r)
    <3>1. CASE request' = [request EXCEPT ![r].pc = "added", ![r].provider = ids']
      <4> DEFINE new == [q EXCEPT !.pc = "added", !.provider = ids']
      <4>1. Phase(new)
        BY <2>1, <2>6 DEF AddLine, Phase, Request, Fillers, Writers
      <4>2. request' = [request EXCEPT ![r] = new]
        BY <3>1
      <4> HIDE DEF new
      <4> QED
        BY <1>0, <4>1, <4>2, OnePhase
    <3> QED
      BY <1>1, <2>6, <3>1 DEF AddLine
  <2>7. CASE LineAdded(r)
    <3> DEFINE todo == Tail(q.todo)
               new == [q EXCEPT !.todo = todo, !.provider = 0,
                                !.pc = IF todo = <<>> THEN "done" ELSE "line"]
    <3>1. CASE request' = [request EXCEPT ![r].todo = Tail(@), ![r].provider = 0,
                               ![r].pc = IF Tail(q.todo) = <<>> THEN "done" ELSE "line"]
      <4>1. request' = [request EXCEPT ![r] = new]
        BY <3>1
      <4> HIDE DEF todo
      <4>2. Phase(new)
        BY <2>1, <2>7 DEF LineAdded, Phase, Request, Fillers, Writers
      <4> HIDE DEF new
      <4> QED
        BY <1>0, <4>1, <4>2, OnePhase
    <3> QED
      BY <1>1, <2>7, <3>1 DEF LineAdded
  <2>8. CASE DropTemplate(r)
    <3>1. Phase([q EXCEPT !.pc = "done"])
      BY <2>1, <2>8 DEF DropTemplate, Phase, Request, Fillers, Writers
    <3> QED
      BY <1>0, <2>8, <3>1, OnePhase DEF DropTemplate, Goto
  <2>9. CASE ReadLines(r)
    <3>1. PICK list : request' = [request EXCEPT ![r].pc = "create", ![r].row = 0,
                                      ![r].list = list, ![r].todo = list]
      BY <2>9 DEF ReadLines
    <3> DEFINE new == [q EXCEPT !.pc = "create", !.row = 0, !.list = list, !.todo = list]
    <3>2. Phase(new)
      BY <2>1, <2>9 DEF ReadLines, Phase, Request, Fillers, Writers
    <3>3. request' = [request EXCEPT ![r] = new]
      BY <3>1
    <3> HIDE DEF new
    <3> QED
      BY <1>0, <3>2, <3>3, OnePhase
  <2> QED
    BY <1>4, <2>2, <2>3, <2>4, <2>5, <2>6, <2>7, <2>8, <2>9 DEF TemplateStep
<1>5. CASE AdminEdit
  <2>1. request' = [s \in Requests |-> [request[s] EXCEPT !.alone = FALSE]]
    BY <1>5 DEF AdminEdit, ProviderEdit, ModelEdit, AddProvider, RemoveProvider,
                RenameProvider, AddModel, RemoveModel, RenameModel, Edit
  <2>2. \A s \in Requests : Phase([request[s] EXCEPT !.alone = FALSE])
    BY <1>0, AlonePhase DEF Phases
  <2>3. \A s \in Requests : Phase(request'[s])
    BY <2>1, <2>2
  <2> QED
    BY <2>3 DEF Phases, Phase
<1>6. CASE Crash
  <2>1. \A s \in Requests : Phase(request'[s])
    BY <1>6, IdlePhase DEF Crash
  <2> QED
    BY <2>1 DEF Phases, Phase
<1> QED
  BY <1>2, <1>3, <1>4, <1>5, <1>6 DEF Next

(***************************************************************************)
(* What a step leaves of the rest                                          *)
(***************************************************************************)
Rest == Unraced /\ Listed /\ Undisturbed

\* A step of a request that writes no models, or its beginning.
LEMMA Bystander ==
    ASSUME TypeOK, Phases, Rest, NEW r \in Requests,
           request[r].op \notin Fillers, request'[r].op \notin Fillers,
           \A s \in Requests \ {r} : request'[s] = request[s],
           request[r].pc # "delete", request'[r].pc # "delete",
           UNCHANGED <<providers, models, last, clean, raced>>
    PROVE  Rest'
<1>1. ~raced => NoRace(providers, models, request')
  <2> SUFFICES ASSUME ~raced PROVE NoRace(providers, models, request')
    OBVIOUS
  <2>1. NoRace(providers, models, request)
    BY DEF Rest, Unraced
  <2>2. OneFiller(request')
    BY <2>1 DEF NoRace, OneFiller
  <2>3. Apart(providers, models, request'[r])
    BY DEF Apart, Fillers
  <2> QED
    BY <2>1, <2>2, <2>3 DEF NoRace
<1>2. clean => Seen(providers, models, request', last)
  <2>1. ~Threat(providers, request[r]) /\ ~Threat(providers, request'[r])
    BY DEF Threat
  <2> QED
    BY <2>1 DEF Rest, Listed, Seen
<1>3. Lone(providers, models, request')
  <2>1. ~AloneSync(request'[r])
    BY DEF AloneSync, Fillers
  <2> QED
    BY <2>1 DEF Rest, Undisturbed, Lone
<1> QED
  BY <1>1, <1>2, <1>3 DEF Rest, Unraced, Listed, Undisturbed

\* A step of a filler that changes no table and does not begin or end it.
LEMMA FillerStep ==
    ASSUME TypeOK, Rest, NEW r \in Requests, NEW q,
           request' = [request EXCEPT ![r] = q],
           UNCHANGED <<providers, models, last, clean, raced>>,
           request[r].op \in Fillers, request[r].pc # "delete",
           q.op = request[r].op, q.alone = request[r].alone,
           ~raced => Apart(providers, models, q),
           Threat(providers, request[r]) => Threat(providers, q),
           AloneSync(q) => AloneIn(providers, models, q)
    PROVE  Rest'
<1>0. /\ request'[r] = q /\ \A s \in Requests \ {r} : request'[s] = request[s]
      /\ \A s \in Requests : request'[s].op = request[s].op
  BY DEF TypeOK
<1>1. ~raced => NoRace(providers, models, request')
  <2> SUFFICES ASSUME ~raced PROVE NoRace(providers, models, request')
    OBVIOUS
  <2>1. NoRace(providers, models, request)
    BY DEF Rest, Unraced
  <2> QED
    BY <1>0, <2>1 DEF NoRace, OneFiller
<1>2. clean => Seen(providers, models, request', last)
  BY <1>0 DEF Rest, Listed, Seen
<1>3. Lone(providers, models, request')
  BY <1>0 DEF Rest, Undisturbed, Lone, AloneSync
<1> QED
  BY <1>1, <1>2, <1>3 DEF Rest, Unraced, Listed, Undisturbed

\* A request ends, in order or not.
LEMMA Leaves ==
    ASSUME TypeOK, Rest, NEW r \in Requests,
           request' = [request EXCEPT ![r] = Idle],
           UNCHANGED <<providers, models, last, raced>>,
           clean' => clean /\ ~Threat(providers, request[r]) /\ request[r].pc # "delete"
    PROVE  Rest'
<1>0. /\ request'[r] = Idle /\ \A s \in Requests \ {r} : request'[s] = request[s]
      /\ Idle.op = "none" /\ Idle.pc = "idle"
  BY DEF TypeOK, Idle
<1>1. ~raced => NoRace(providers, models, request')
  <2> SUFFICES ASSUME ~raced PROVE NoRace(providers, models, request')
    OBVIOUS
  <2>1. NoRace(providers, models, request)
    BY DEF Rest, Unraced
  <2>2. Apart(providers, models, Idle)
    BY <1>0 DEF Apart
  <2> QED
    BY <1>0, <2>1, <2>2 DEF NoRace, OneFiller, Fillers
<1>2. clean' => Seen(providers, models, request', last)
  BY <1>0 DEF Rest, Listed, Seen
<1>3. Lone(providers, models, request')
  BY <1>0 DEF Rest, Undisturbed, Lone, AloneSync, Fillers
<1> QED
  BY <1>1, <1>2, <1>3 DEF Rest, Unraced, Listed, Undisturbed

\* A request that another one joined.
LEMMA Joined ==
    ASSUME NEW q \in Request, NEW n, n = [q EXCEPT !.alone = FALSE]
    PROVE  /\ n.op = q.op /\ n.pc = q.pc /\ n.provider = q.provider
           /\ n.doomed = q.doomed /\ n.row = q.row /\ n.todo = q.todo
           /\ n.alone = FALSE
  BY DEF Request

\* A filler begins.
LEMMA FillerBegins ==
    ASSUME TypeOK, Phases, Rest, NEW r \in Requests, NEW new,
           Begin(r, new), UNCHANGED <<db, ids>>,
           \A b : LET q == [new EXCEPT !.alone = b] IN
               /\ q.op \in Fillers /\ q.alone = b /\ ~Threat(providers, q) /\ q.pc # "delete"
               /\ \A M : Apart(providers, M, q)
               /\ q.op = "sync" => AloneIn(providers, models, q),
           new.op \in Fillers
    PROVE  Rest'
<1> DEFINE free == (Busy(Fillers) = {})
           q == [new EXCEPT !.alone = free]
<1>0. /\ request'[r] = q
      /\ q.op \in Fillers /\ q.alone = free /\ ~Threat(providers, q) /\ q.pc # "delete"
      /\ Apart(providers, models, q)
      /\ q.op = "sync" => AloneIn(providers, models, q)
  BY DEF Begin
<1>1. /\ \A s \in Requests \ {r} : request'[s] = [request[s] EXCEPT !.alone = FALSE]
      /\ \A s \in Requests : request[s] \in Request
      /\ request[r].pc = "idle" /\ request[r].op = "none"
      /\ raced' = (raced \/ ~free) /\ UNCHANGED <<providers, models, last, clean>>
  BY DEF Begin, TypeOK, Phases, Phase, db
<1>2. \A s \in Requests \ {r} :
          /\ request'[s].op = request[s].op /\ request'[s].pc = request[s].pc
          /\ request'[s].provider = request[s].provider /\ request'[s].doomed = request[s].doomed
          /\ request'[s].row = request[s].row /\ request'[s].todo = request[s].todo
          /\ request'[s].alone = FALSE
  <2> TAKE s \in Requests \ {r}
  <2>1. request[s] \in Request /\ request'[s] = [request[s] EXCEPT !.alone = FALSE]
    BY <1>1
  <2> QED
    BY <2>1, Joined, Zenon
<1>3. free => \A s \in Requests \ {r} : request'[s].op \notin Fillers
  BY <1>2 DEF Busy
<1> HIDE DEF free, q
<1>4. ~raced' => NoRace(providers, models, request')
  <2> SUFFICES ASSUME ~raced' PROVE NoRace(providers, models, request')
    OBVIOUS
  <2>1. NoRace(providers, models, request) /\ free
    BY <1>1 DEF Rest, Unraced
  <2>2. OneFiller(request')
    BY <1>3, <2>1 DEF OneFiller
  <2>3. \A s \in Requests \ {r} : Apart(providers, models, request'[s])
    BY <1>3, <2>1 DEF Apart, Fillers
  <2> QED
    BY <1>0, <2>1, <2>2, <2>3 DEF NoRace
<1>5. clean => Seen(providers, models, request', last)
  <2>1. \A s \in Requests : Threat(providers, request[s]) => Threat(providers, request'[s])
    BY <1>0, <1>1, <1>2 DEF Threat, Fillers
  <2>2. \A s \in Requests : request[s].pc = "delete" =>
            request'[s].pc = "delete" /\ request'[s].doomed = request[s].doomed
    BY <1>1, <1>2
  <2> QED
    BY <2>1, <2>2 DEF Rest, Listed, Seen
<1>6. Lone(providers, models, request')
  BY <1>0, <1>2, <1>3 DEF Lone, AloneSync
<1> QED
  BY <1>1, <1>4, <1>5, <1>6 DEF Rest, Unraced, Listed, Undisturbed

(***************************************************************************)
(* The steps of those that insert models                                   *)
(***************************************************************************)
\* What is known of a request before its step.
LEMMA Known ==
    ASSUME TypeOK, Phases, Rest, NEW r \in Requests
    PROVE  /\ request[r] \in Request /\ Phase(request[r]) /\ ids \in Nat
           /\ ~raced => Apart(providers, models, request[r])
           /\ AloneSync(request[r]) => AloneIn(providers, models, request[r])
  BY DEF TypeOK, Phases, Rest, Unraced, NoRace, Undisturbed, Lone

LEMMA TablelessSteps ==
    ASSUME TypeOK, Phases, Rest, NEW r \in Requests,
           \/ FindLegacy(r) \/ FindProvider(r) \/ LookUp(r) \/ ReadLines(r)
           \/ (ProviderCreated(r) \/ ModelWritten(r)) /\ ~Abort(r)
           \/ WriteModel(r) /\ request[r].row # 0
    PROVE  Rest'
<1> DEFINE old == request[r]
<1>0. /\ old \in Request /\ Phase(old) /\ ids \in Nat
      /\ ~raced => Apart(providers, models, old)
      /\ AloneSync(old) => AloneIn(providers, models, old)
  BY Known
<1>1. CASE FindProvider(r)
  <2> DEFINE found == [old EXCEPT !.provider = providers[Free]]
             pc == IF found.provider = 0 THEN "create" ELSE Loop(found)
             q == [found EXCEPT !.pc = pc]
  <2>1. /\ old.pc = "find" /\ old.op = "sync" /\ old.todo = old.list
        /\ request' = [request EXCEPT ![r] = q]
        /\ UNCHANGED <<providers, models, last, clean, raced>>
    BY <1>0, <1>1 DEF FindProvider, Phase, db, history
  <2>2. /\ found.op = "sync" /\ found.todo = old.list /\ found.list = old.list
        /\ found.legacy = old.legacy /\ found.provider = providers[Free]
        /\ found.alone = old.alone
    BY <1>0, <2>1 DEF Request
  <2>3. /\ pc \in {"create", "lookup", "list"}
        /\ pc = "list" => found.todo = <<>>
        /\ pc # "create" => found.provider # 0
    <3> HIDE DEF found
    <3> QED
      BY <2>2 DEF Loop
  <2>4. /\ q.op = "sync" /\ q.todo = old.list /\ q.list = old.list /\ q.alone = old.alone
        /\ q.legacy = old.legacy /\ q.provider = providers[Free] /\ q.pc = pc
    BY <1>0, <2>2 DEF Request
  <2> HIDE DEF q, pc
  <2>5. /\ Apart(providers, models, q) /\ ~Threat(providers, old)
        /\ AloneSync(q) => AloneIn(providers, models, q)
    BY <1>0, <2>1, <2>2, <2>3, <2>4 DEF Apart, Threat, AloneIn, AloneSync
  <2> QED
    BY <2>1, <2>4, <2>5, FillerStep DEF Fillers
<1>7. CASE FindLegacy(r)
  <2> DEFINE q == [old EXCEPT !.pc = "find", !.legacy = providers[Legacy]]
  <2>1. /\ old.pc = "legacy" /\ old.op = "sync"
        /\ request' = [request EXCEPT ![r] = q]
        /\ UNCHANGED <<providers, models, last, clean, raced>>
    BY <1>0, <1>7 DEF FindLegacy, Phase, db, history
  <2>2. /\ q.op = "sync" /\ q.todo = old.todo /\ q.list = old.list /\ q.alone = old.alone
        /\ q.legacy = providers[Legacy] /\ q.pc = "find"
    BY <1>0, <2>1 DEF Request
  <2> HIDE DEF q
  <2>3. Apart(providers, models, q) /\ ~Threat(providers, old) /\ AloneIn(providers, models, q)
    BY <2>1, <2>2 DEF Apart, Threat, AloneIn
  <2> QED
    BY <2>1, <2>2, <2>3, FillerStep DEF Fillers
<1>2. CASE LookUp(r)
  <2> DEFINE same == {m.id : m \in {m \in RowsOf(old.provider) : m.model = Head(old.todo)}}
             row == IF same = {} THEN 0 ELSE Min(same)
             q == [old EXCEPT !.pc = "write", !.row = row]
  <2>1. /\ old.pc = "lookup" /\ old.op = "sync"
        /\ request' = [request EXCEPT ![r] = q]
        /\ UNCHANGED <<providers, models, last, clean, raced>>
    BY <1>0, <1>2 DEF LookUp, Phase, db, history
  <2>2. same = {m.id : m \in {m \in RowsIn(providers, models, old.provider) :
                                   m.model = Head(old.todo)}}
    BY Views
  <2>3. /\ row = 0 => Head(old.todo) \notin NamesIn(providers, models, old.provider)
        /\ row # 0 => \E m \in RowsIn(providers, models, old.provider) :
                          m.id = row /\ m.model = Head(old.todo)
    <3>1. same \in SUBSET Nat /\ 0 \notin same
      <4>1. \A m \in RowsIn(providers, models, old.provider) : m.id \in 1..ids
        BY DEF RowsIn, TypeOK, ModelRow
      <4> QED
        BY <1>0, <2>2, <4>1
    <3>2. same # {} => Min(same) \in same
      BY <3>1, MinOfNaturals
    <3>3. same = {} => Head(old.todo) \notin NamesIn(providers, models, old.provider)
      BY <2>2 DEF NamesIn
    <3> QED
      BY <2>2, <3>1, <3>2, <3>3
  <2> HIDE DEF row
  <2>4. /\ q.op = "sync" /\ q.todo = old.todo /\ q.list = old.list /\ q.alone = old.alone
        /\ q.legacy = old.legacy /\ q.provider = old.provider /\ q.pc = "write" /\ q.row = row
    BY <1>0, <2>1 DEF Request
  <2> HIDE DEF q
  <2>5. Apart(providers, models, q)
    BY <2>3, <2>4 DEF Apart
  <2>6. Threat(providers, old) => Threat(providers, q)
    BY <2>1, <2>4 DEF Threat
  <2>7. AloneSync(q) => AloneIn(providers, models, q)
    BY <1>0, <2>1, <2>3, <2>4 DEF AloneSync, AloneIn
  <2> QED
    BY <2>1, <2>4, <2>5, <2>6, <2>7, FillerStep DEF Fillers
<1>3. CASE ReadLines(r)
  <2>1. PICK list : request' = [request EXCEPT ![r] =
                        [old EXCEPT !.pc = "create", !.row = 0, !.list = list, !.todo = list]]
    BY <1>3 DEF ReadLines
  <2> DEFINE q == [old EXCEPT !.pc = "create", !.row = 0, !.list = list, !.todo = list]
  <2>2. /\ old.pc = "read" /\ old.op = "import"
        /\ UNCHANGED <<providers, models, last, clean, raced>>
    BY <1>0, <1>3 DEF ReadLines, Phase, db, history
  <2>3. q.op = "import" /\ q.alone = old.alone /\ q.pc = "create"
    BY <1>0, <2>2 DEF Request
  <2>4. request' = [request EXCEPT ![r] = q]
    BY <2>1
  <2> HIDE DEF q
  <2>5. Apart(providers, models, q) /\ ~Threat(providers, old) /\ ~AloneSync(q)
    BY <2>2, <2>3 DEF Apart, Threat, AloneSync
  <2> QED
    BY <2>2, <2>3, <2>4, <2>5, FillerStep DEF Fillers
<1>4. CASE ProviderCreated(r) /\ ~Abort(r)
  <2> DEFINE q == [old EXCEPT !.pc = Loop(old)]
  <2>1. /\ old.pc = "created" /\ old.op \in Fillers /\ old.todo = old.list
        /\ request' = [request EXCEPT ![r] = q]
        /\ UNCHANGED <<providers, models, last, clean, raced>>
    BY <1>0, <1>4 DEF ProviderCreated, Goto, Phase, db, history
  <2>2. /\ q.op = old.op /\ q.todo = old.todo /\ q.list = old.list /\ q.alone = old.alone
        /\ q.legacy = old.legacy /\ q.provider = old.provider /\ q.pc = Loop(old)
    BY <1>0, <2>1 DEF Request
  <2>3. /\ old.op = "sync" => q.pc \in {"lookup", "list"}
        /\ old.op = "import" => q.pc \in {"write", "done"}
        /\ q.pc = "list" => q.todo = <<>>
    BY <2>1, <2>2 DEF Loop, Fillers
  <2> HIDE DEF q
  <2>4. ~raced => Apart(providers, models, q)
    BY <1>0, <2>1, <2>2, <2>3 DEF Apart, Fillers
  <2>5. Threat(providers, old) => Threat(providers, q)
    BY <2>1, <2>2, <2>3 DEF Threat, Fillers
  <2>6. AloneSync(q) => AloneIn(providers, models, q)
    BY <1>0, <2>1, <2>2, <2>3 DEF AloneSync, AloneIn
  <2> QED
    BY <2>1, <2>2, <2>4, <2>5, <2>6, FillerStep
<1>5. CASE ModelWritten(r) /\ ~Abort(r)
  <2> DEFINE next == [old EXCEPT !.todo = Tail(@), !.row = 0]
             q == [next EXCEPT !.pc = Loop(next)]
  <2>1. /\ old.pc = "written" /\ old.op \in Fillers
        /\ request' = [request EXCEPT ![r] = q]
        /\ UNCHANGED <<providers, models, last, clean, raced>>
    BY <1>0, <1>5 DEF ModelWritten, Phase, db, history
  <2>2. old.todo \in Seq(Model) /\ ToSet(old.todo) = {Head(old.todo)} \cup ToSet(Tail(old.todo))
    BY <1>0, <2>1, HeadAndTail DEF Request, Phase
  <2>3. /\ next.op = old.op /\ next.todo = Tail(old.todo) /\ next.list = old.list
        /\ next.alone = old.alone /\ next.legacy = old.legacy /\ next.provider = old.provider
    BY <1>0 DEF Request
  <2>4. /\ q.op = old.op /\ q.todo = Tail(old.todo) /\ q.list = old.list /\ q.alone = old.alone
        /\ q.legacy = old.legacy /\ q.provider = old.provider /\ q.pc = Loop(next)
    BY <1>0, <2>3 DEF Request
  <2>5. /\ old.op = "sync" => q.pc \in {"lookup", "list"}
        /\ old.op = "import" => q.pc \in {"write", "done"}
        /\ q.pc = "list" => q.todo = <<>>
    <3> HIDE DEF next, q
    <3> QED
      BY <2>1, <2>3, <2>4 DEF Loop, Fillers
  <2> HIDE DEF q, next
  <2>6. ~raced => Apart(providers, models, q)
    BY <1>0, <2>1, <2>4, <2>5 DEF Apart, Fillers
  <2>7. Threat(providers, old) => Threat(providers, q)
    BY <2>1, <2>4, <2>5 DEF Threat, Fillers
  <2>8. AloneSync(q) => AloneIn(providers, models, q)
    <3> SUFFICES ASSUME AloneSync(q) PROVE AloneIn(providers, models, q)
      OBVIOUS
    <3>1. AloneIn(providers, models, old) /\ old.op = "sync"
      BY <1>0, <2>4 DEF AloneSync
    <3>2. Head(old.todo) \in NamesIn(providers, models, old.provider)
      BY <2>1, <3>1 DEF AloneIn, NamesIn
    <3>3. ToSet(q.list) \subseteq ToSet(q.todo) \cup NamesIn(providers, models, q.provider)
      BY <2>1, <2>2, <2>4, <3>1, <3>2 DEF AloneIn
    <3> QED
      BY <2>1, <2>4, <2>5, <3>1, <3>3 DEF AloneIn
  <2> QED
    BY <2>1, <2>4, <2>6, <2>7, <2>8, FillerStep
<1>6. CASE WriteModel(r) /\ old.row # 0
  <2> DEFINE q == [old EXCEPT !.pc = "written"]
  <2>1. /\ old.pc = "write" /\ old.op \in Fillers
        /\ request' = [request EXCEPT ![r] = q]
        /\ UNCHANGED <<providers, models, last, clean, raced>>
    BY <1>0, <1>6 DEF WriteModel, Goto, Phase, db, history
  <2>2. /\ q.op = old.op /\ q.todo = old.todo /\ q.list = old.list /\ q.alone = old.alone
        /\ q.legacy = old.legacy /\ q.provider = old.provider /\ q.pc = "written" /\ q.row = old.row
    BY <1>0 DEF Request
  <2> HIDE DEF q
  <2>3. ~raced => Apart(providers, models, q)
    BY <1>0, <2>1, <2>2 DEF Apart
  <2>4. Threat(providers, old) => Threat(providers, q)
    BY <2>1, <2>2 DEF Threat
  <2>5. AloneSync(q) => AloneIn(providers, models, q)
    BY <1>0, <1>6, <2>1, <2>2 DEF AloneSync, AloneIn
  <2> QED
    BY <2>1, <2>2, <2>3, <2>4, <2>5, FillerStep
<1> QED
  BY <1>1, <1>2, <1>3, <1>4, <1>5, <1>6, <1>7

LEMMA AbortRest ==
    ASSUME TypeOK, Phases, Rest, NEW r \in Requests, Abort(r) \/ Answer(r)
    PROVE  Rest'
<1>1. Phase(request[r])
  BY DEF Phases
<1>2. clean' => clean /\ ~Threat(providers, request[r]) /\ request[r].pc # "delete"
  BY <1>1 DEF Abort, Answer, Threat, Phase, Fillers
<1>3. request' = [request EXCEPT ![r] = Idle] /\ UNCHANGED <<providers, models, last, raced>>
  BY DEF Abort, Answer, db
<1> QED
  BY <1>2, <1>3, Leaves

LEMMA BeginFiller ==
    ASSUME TypeOK, Phases, Rest, NEW r \in Requests,
           BeginImport(r) \/ \E a \in Answers : Fetch(r, a)
    PROVE  Rest'
<1>1. CASE BeginImport(r)
  <2> DEFINE new == [Idle EXCEPT !.pc = "read", !.op = "import", !.row = template]
  <2>1. new.op \in Fillers /\ \A b : LET q == [new EXCEPT !.alone = b] IN
            q.op = "import" /\ q.alone = b /\ q.pc = "read"
    BY DEF Idle, Fillers
  <2>2. Begin(r, new) /\ UNCHANGED <<db, ids>>
    BY <1>1 DEF BeginImport
  <2> HIDE DEF new
  <2>3. \A b : LET q == [new EXCEPT !.alone = b] IN
            /\ q.op \in Fillers /\ q.alone = b /\ ~Threat(providers, q) /\ q.pc # "delete"
            /\ \A M : Apart(providers, M, q)
            /\ q.op = "sync" => AloneIn(providers, models, q)
    BY <2>1 DEF Threat, Apart, Fillers
  <2> QED
    BY <2>1, <2>2, <2>3, FillerBegins
<1>2. ASSUME NEW a \in Answers, Fetch(r, a)
      PROVE  Rest'
  <2> DEFINE list == Chosen(a)
             new == [Idle EXCEPT !.pc = "legacy", !.op = "sync", !.list = list, !.todo = list]
  <2> HIDE DEF list
  <2>1. new.op \in Fillers /\ \A b : LET q == [new EXCEPT !.alone = b] IN
            q.op = "sync" /\ q.alone = b /\ q.pc = "legacy"
    BY DEF Idle, Fillers
  <2>2. Begin(r, new) /\ UNCHANGED <<db, ids>>
    BY <1>2 DEF Fetch, list
  <2> HIDE DEF new
  <2>3. \A b : LET q == [new EXCEPT !.alone = b] IN
            /\ q.op \in Fillers /\ q.alone = b /\ ~Threat(providers, q) /\ q.pc # "delete"
            /\ \A M : Apart(providers, M, q)
            /\ q.op = "sync" => AloneIn(providers, models, q)
    BY <2>1 DEF Threat, Apart, AloneIn, Fillers
  <2> QED
    BY <2>1, <2>2, <2>3, FillerBegins
<1> QED
  BY <1>1, <1>2

\* A provider whose id is new has no rows, and the others keep theirs.
LEMMA NewProvider ==
    ASSUME TypeOK, ids < MaxIds, NEW name \in Names, providers[name] = 0,
           providers' = [providers EXCEPT ![name] = ids + 1]
    PROVE  /\ \A p : RowsIn(providers', models, p) = RowsIn(providers, models, p)
           /\ \A p : NamesIn(providers', models, p) = NamesIn(providers, models, p)
           /\ RowsIn(providers', models, ids + 1) = {}
           /\ providers'[name] = ids + 1 /\ \A n \in Names \ {name} : providers'[n] = providers[n]
<1>1. /\ ids \in Nat /\ providers \in [Names -> 0..ids]
      /\ \A m \in models : m.provider \in 1..ids
  BY DEF TypeOK, ModelRow
<1>2. providers'[name] = ids + 1 /\ \A n \in Names \ {name} : providers'[n] = providers[n]
  BY <1>1
<1>3. \A m \in models :
          (\E n \in Names : providers'[n] = m.provider) <=> (\E n \in Names : providers[n] = m.provider)
  <2> TAKE m \in models
  <2>1. m.provider # 0 /\ m.provider # ids + 1
    BY <1>1
  <2> QED
    BY <1>2, <2>1
<1>4. \A p : RowsIn(providers', models, p) = RowsIn(providers, models, p)
  BY <1>3 DEF RowsIn
<1>5. RowsIn(providers', models, ids + 1) = {}
  BY <1>1 DEF RowsIn
<1> QED
  BY <1>2, <1>4, <1>5 DEF NamesIn

LEMMA CreateProviderRest ==
    ASSUME TypeOK, Phases, Rest, NEW r \in Requests, CreateProvider(r), ~Abort(r)
    PROVE  Rest'
<1> DEFINE old == request[r]
           name == IF old.op = "sync" THEN Free ELSE Relay
           q == [old EXCEPT !.pc = "created", !.provider = ids + 1]
<1>0. /\ old \in Request /\ Phase(old) /\ ids \in Nat
      /\ ~raced => Apart(providers, models, old)
      /\ AloneSync(old) => AloneIn(providers, models, old)
  BY Known
<1>1. /\ old.pc = "create" /\ old.op \in Fillers /\ old.todo = old.list
      /\ ids < MaxIds /\ ids' = ids + 1 /\ providers[name] = 0
      /\ providers' = [providers EXCEPT ![name] = ids + 1]
      /\ UNCHANGED <<models, last, clean, raced>>
  BY <1>0 DEF CreateProvider, Phase, history
<1>2. request' = [request EXCEPT ![r] = q]
  BY <1>1 DEF CreateProvider
<1>3. /\ q.op = old.op /\ q.todo = old.list /\ q.list = old.list /\ q.alone = old.alone
      /\ q.legacy = old.legacy /\ q.provider = ids + 1 /\ q.pc = "created"
  BY <1>0, <1>1 DEF Request
<1>4. /\ request'[r] = q /\ \A s \in Requests \ {r} : request'[s] = request[s]
      /\ \A s \in Requests : request'[s].op = request[s].op
  BY <1>2, <1>3 DEF TypeOK
<1> HIDE DEF q
<1>5. /\ name \in Names /\ Free \in Names
      /\ name = Free => old.op = "sync"
      /\ old.op = "sync" => name = Free
      /\ name # Legacy
  BY DEF Names, Free, Legacy, Relay
<1> HIDE DEF name
<1>6. /\ \A p : RowsIn(providers', models, p) = RowsIn(providers, models, p)
      /\ \A p : NamesIn(providers', models, p) = NamesIn(providers, models, p)
      /\ RowsIn(providers', models, ids + 1) = {}
      /\ providers'[name] = ids + 1 /\ \A n \in Names \ {name} : providers'[n] = providers[n]
  BY <1>1, <1>5, NewProvider
<1>7. providers[Free] # ids + 1
  BY <1>0, <1>5 DEF TypeOK
<1>8. ~raced => NoRace(providers', models, request')
  <2> SUFFICES ASSUME ~raced PROVE NoRace(providers', models, request')
    OBVIOUS
  <2>1. NoRace(providers, models, request)
    BY DEF Rest, Unraced
  <2>2. OneFiller(request')
    BY <1>4, <2>1 DEF NoRace, OneFiller
  <2>3. Apart(providers', models, q)
    BY <1>3, <1>5, <1>6, <1>7 DEF Apart
  <2>4. \A s \in Requests \ {r} : Apart(providers', models, request'[s])
    <3>1. \A s \in Requests \ {r} : request'[s].op \notin Fillers
      BY <1>1, <1>4, <2>1 DEF NoRace, OneFiller
    <3> QED
      BY <3>1 DEF Apart, Fillers
  <2>5. NoTwins(providers', models)
    <3>1. CASE name = Free
      BY <1>6, <3>1 DEF NoTwins
    <3>2. CASE name # Free
      BY <1>5, <1>6, <2>1, <3>2 DEF NoTwins, NoRace
    <3> QED
      BY <3>1, <3>2
  <2> QED
    BY <1>4, <2>2, <2>3, <2>4, <2>5 DEF NoRace
<1>9. clean => Seen(providers', models, request', last)
  <2>1. CASE name = Free
    <3>1. Threat(providers', request'[r])
      BY <1>1, <1>3, <1>4, <1>6, <2>1 DEF Threat
    <3> QED
      BY <3>1 DEF Seen
  <2>2. CASE name # Free
    <3>1. providers'[Free] = providers[Free]
      BY <1>5, <1>6, <2>2
    <3>2. \A s \in Requests : Threat(providers, request[s]) => Threat(providers', request'[s])
      BY <1>1, <1>4, <3>1 DEF Threat
    <3>3. \A s \in Requests : request[s].pc = "delete" =>
              request'[s].pc = "delete" /\ request'[s].doomed = request[s].doomed
      BY <1>1, <1>4
    <3> QED
      BY <1>6, <3>1, <3>2, <3>3 DEF Rest, Listed, Seen
  <2> QED
    BY <2>1, <2>2
<1>10. Lone(providers', models, request')
  <2>1. \A s \in Requests : AloneSync(request'[s]) => s = r
    BY <1>1, <1>3, <1>4 DEF Rest, Undisturbed, Lone, AloneSync
  <2>2. AloneSync(q) => AloneIn(providers', models, q)
    <3>1. Legacy \in Names
      BY DEF Names
    <3> QED
      BY <1>0, <1>1, <1>3, <1>5, <1>6, <3>1 DEF AloneSync, AloneIn
  <2>3. AloneSync(q) => \A s \in Requests : request'[s].op \in Fillers => s = r
    BY <1>3, <1>4 DEF Rest, Undisturbed, Lone, AloneSync
  <2> QED
    BY <1>4, <2>1, <2>2, <2>3 DEF Lone
<1> QED
  BY <1>1, <1>8, <1>9, <1>10 DEF Rest, Unraced, Listed, Undisturbed

LEMMA WriteModelRest ==
    ASSUME TypeOK, Phases, Rest, NEW r \in Requests,
           WriteModel(r), request[r].row = 0, ~Abort(r)
    PROVE  Rest'
<1> DEFINE old == request[r]
           q == [old EXCEPT !.pc = "written", !.row = ids']
           new == [id |-> ids', provider |-> old.provider, model |-> Head(old.todo)]
<1>0. /\ old \in Request /\ Phase(old) /\ ids \in Nat
      /\ ~raced => Apart(providers, models, old)
      /\ AloneSync(old) => AloneIn(providers, models, old)
  BY Known
<1>1. /\ old.pc = "write" /\ old.op \in Fillers
      /\ ids' = ids + 1 /\ models' = models \cup {new}
      /\ UNCHANGED <<providers, last, clean, raced>>
  BY <1>0 DEF WriteModel, Insert, Phase, history
<1>2. request' = [request EXCEPT ![r] = q]
  BY DEF WriteModel
<1>3. /\ q.op = old.op /\ q.todo = old.todo /\ q.list = old.list /\ q.alone = old.alone
      /\ q.legacy = old.legacy /\ q.provider = old.provider /\ q.pc = "written" /\ q.row = ids + 1
  BY <1>0, <1>1 DEF Request
<1>4. /\ request'[r] = q /\ \A s \in Requests \ {r} : request'[s] = request[s]
      /\ \A s \in Requests : request'[s].op = request[s].op
  BY <1>2, <1>3 DEF TypeOK
<1>5. new.id = ids + 1 /\ new.provider = old.provider /\ new.model = Head(old.todo)
  BY <1>1
<1> HIDE DEF q, new
<1>6. /\ \A p : p # old.provider => RowsIn(providers, models', p) = RowsIn(providers, models, p)
      /\ \A p : RowsIn(providers, models, p) \subseteq RowsIn(providers, models', p)
      /\ \A p : RowsIn(providers, models', p) \subseteq RowsIn(providers, models, p) \cup {new}
      /\ (\E n \in Names : providers[n] = old.provider) => new \in RowsIn(providers, models', old.provider)
  BY <1>1, <1>5 DEF RowsIn
<1>7. ~raced => NoRace(providers, models', request')
  <2> SUFFICES ASSUME ~raced PROVE NoRace(providers, models', request')
    OBVIOUS
  <2>1. NoRace(providers, models, request)
    BY DEF Rest, Unraced
  <2>2. OneFiller(request')
    BY <1>4, <2>1 DEF NoRace, OneFiller
  <2>3. Apart(providers, models', q)
    BY <1>0, <1>1, <1>3 DEF Apart
  <2>4. \A s \in Requests \ {r} : Apart(providers, models', request'[s])
    <3>1. \A s \in Requests \ {r} : request'[s].op \notin Fillers
      BY <1>1, <1>4, <2>1 DEF NoRace, OneFiller
    <3> QED
      BY <3>1 DEF Apart, Fillers
  <2>5. NoTwins(providers, models')
    <3>1. CASE old.provider = providers[Free]
      <4>1. old.op = "sync"
        BY <1>0, <1>1, <3>1 DEF Apart, Fillers
      <4>2. \A m \in RowsIn(providers, models, providers[Free]) : m.model # new.model
        BY <1>0, <1>1, <1>5, <3>1, <4>1 DEF Apart, NamesIn
      <4> QED
        BY <1>6, <2>1, <4>2 DEF NoTwins, NoRace
    <3>2. CASE old.provider # providers[Free]
      BY <1>6, <2>1, <3>2 DEF NoTwins, NoRace
    <3> QED
      BY <3>1, <3>2
  <2> QED
    BY <1>4, <2>2, <2>3, <2>4, <2>5 DEF NoRace
<1>8. clean => Seen(providers, models', request', last)
  <2>1. CASE old.provider = providers[Free]
    <3>1. Threat(providers, request'[r])
      BY <1>1, <1>3, <1>4, <2>1 DEF Threat
    <3> QED
      BY <3>1 DEF Seen
  <2>2. CASE old.provider # providers[Free]
    <3>1. \A s \in Requests : Threat(providers, request[s]) => Threat(providers, request'[s])
      BY <1>4, <2>2 DEF Threat
    <3>2. \A s \in Requests : request[s].pc = "delete" =>
              request'[s].pc = "delete" /\ request'[s].doomed = request[s].doomed
      BY <1>1, <1>4
    <3> QED
      BY <1>6, <2>2, <3>1, <3>2 DEF Rest, Listed, Seen
  <2> QED
    BY <2>1, <2>2
<1>9. Lone(providers, models', request')
  <2>1. \A s \in Requests : AloneSync(request'[s]) => s = r
    BY <1>1, <1>3, <1>4 DEF Rest, Undisturbed, Lone, AloneSync
  <2>2. ASSUME AloneSync(q) PROVE AloneIn(providers, models', q)
    <3>1. AloneIn(providers, models, old)
      BY <1>0, <1>3, <2>2 DEF AloneSync
    <3>2. q.legacy = providers[Legacy] /\ q.provider = providers[Free] /\ q.provider # 0
      BY <1>1, <1>3, <3>1 DEF AloneIn
    <3>3. new \in RowsIn(providers, models', q.provider)
      BY <1>3, <1>6, <3>2 DEF Names
    <3>4. ToSet(q.list) \subseteq ToSet(q.todo) \cup NamesIn(providers, models', q.provider)
      <4>1. NamesIn(providers, models, old.provider) \subseteq NamesIn(providers, models', old.provider)
        BY <1>6 DEF NamesIn
      <4> QED
        BY <1>1, <1>3, <3>1, <4>1 DEF AloneIn
    <3>5. q.row # 0
      BY <1>0, <1>3
    <3> QED
      BY <1>3, <1>5, <3>2, <3>3, <3>4, <3>5 DEF AloneIn
  <2>3. AloneSync(q) => \A s \in Requests : request'[s].op \in Fillers => s = r
    BY <1>3, <1>4 DEF Rest, Undisturbed, Lone, AloneSync
  <2> QED
    BY <1>4, <2>1, <2>2, <2>3 DEF Lone
<1> QED
  BY <1>1, <1>7, <1>8, <1>9 DEF Rest, Unraced, Listed, Undisturbed

LEMMA ListModelsRest ==
    ASSUME TypeOK, Phases, Rest, NEW r \in Requests, ListModels(r)
    PROVE  Rest'
<1> DEFINE old == request[r]
           gone == DoomedIn(providers, models, old)
           q == [old EXCEPT !.doomed = gone, !.pc = IF gone = {} THEN "done" ELSE "delete"]
<1>0. /\ old \in Request /\ Phase(old) /\ ids \in Nat
      /\ AloneSync(old) => AloneIn(providers, models, old)
  BY Known
<1>1. /\ old.pc = "list" /\ old.op = "sync"
      /\ UNCHANGED <<providers, models, raced>>
      /\ IF old.provider = providers[Free] THEN last' = ToSet(old.list) /\ clean' = TRUE
         ELSE UNCHANGED <<last, clean>>
  BY <1>0 DEF ListModels, Phase, db
<1>2. request' = [request EXCEPT ![r] = q]
  BY Views DEF ListModels
<1>3. /\ q.op = "sync" /\ q.list = old.list /\ q.alone = old.alone
      /\ q.legacy = old.legacy /\ q.provider = old.provider /\ q.doomed = gone
      /\ q.pc = IF gone = {} THEN "done" ELSE "delete"
  BY <1>0, <1>1 DEF Request
<1>4. /\ request'[r] = q /\ \A s \in Requests \ {r} : request'[s] = request[s]
      /\ \A s \in Requests : request'[s].op = request[s].op
  BY <1>1, <1>2, <1>3 DEF TypeOK
<1>5. gone = DoomedIn(providers, models, q)
  BY <1>3 DEF DoomedIn
<1>6. \A m \in RowsIn(providers, models, old.provider) :
          m.model \in ToSet(old.list) \/ m.id \in gone
  BY DEF RowsIn, DoomedIn
<1> HIDE DEF q, gone
<1>7. ~raced => NoRace(providers, models, request')
  <2>1. Apart(providers, models, q)
    BY <1>3 DEF Apart
  <2> QED
    BY <1>4, <2>1 DEF Rest, Unraced, NoRace, OneFiller
<1>8. clean' => Seen(providers, models, request', last')
  <2>1. CASE old.provider = providers[Free]
    BY <1>1, <1>3, <1>4, <1>6, <2>1 DEF Seen
  <2>2. CASE old.provider # providers[Free]
    <3>1. \A s \in Requests : Threat(providers, request[s]) => Threat(providers, request'[s])
      BY <1>4, <2>2 DEF Threat
    <3>2. \A s \in Requests : request[s].pc = "delete" =>
              request'[s].pc = "delete" /\ request'[s].doomed = request[s].doomed
      BY <1>1, <1>4
    <3> QED
      BY <1>1, <2>2, <3>1, <3>2 DEF Rest, Listed, Seen
  <2> QED
    BY <2>1, <2>2
<1>9. Lone(providers, models, request')
  <2>1. AloneSync(q) => AloneIn(providers, models, q)
    <3> SUFFICES ASSUME AloneSync(q) PROVE AloneIn(providers, models, q)
      OBVIOUS
    <3>1. AloneIn(providers, models, old)
      BY <1>0, <1>1, <1>3 DEF AloneSync
    <3>2. ToSet(old.list) \subseteq NamesIn(providers, models, old.provider)
      <4>1. ToSet(<<>>) = {}
        BY DEF ToSet
      <4> QED
        BY <1>1, <3>1, <4>1 DEF AloneIn
    <3> QED
      BY <1>1, <1>3, <1>5, <3>1, <3>2 DEF AloneIn
  <2>2. \A s \in Requests : AloneSync(request'[s]) => s = r
    BY <1>1, <1>3, <1>4 DEF Rest, Undisturbed, Lone, AloneSync, Fillers
  <2>3. AloneSync(q) => \A s \in Requests : request'[s].op \in Fillers => s = r
    BY <1>1, <1>3, <1>4 DEF Rest, Undisturbed, Lone, AloneSync
  <2> QED
    BY <1>4, <2>1, <2>2, <2>3 DEF Lone
<1> QED
  BY <1>1, <1>7, <1>8, <1>9 DEF Rest, Unraced, Listed, Undisturbed

LEMMA DeleteModelRest ==
    ASSUME TypeOK, Phases, Rest, NEW r \in Requests, DeleteModel(r)
    PROVE  Rest'
<1> DEFINE old == request[r]
           min == Min(old.doomed)
           left == old.doomed \ {min}
           q == [old EXCEPT !.doomed = left, !.pc = IF left = {} THEN "done" ELSE "delete"]
<1>0. /\ old \in Request /\ Phase(old) /\ ids \in Nat
      /\ AloneSync(old) => AloneIn(providers, models, old)
  BY Known
<1>1. /\ old.pc = "delete" /\ old.op = "sync"
      /\ models' = {m \in models : m.id # min}
      /\ UNCHANGED <<providers, last, clean, raced>>
  BY <1>0 DEF DeleteModel, Phase, history
<1>2. request' = [request EXCEPT ![r] = q]
  BY DEF DeleteModel
<1>3. /\ q.op = "sync" /\ q.list = old.list /\ q.alone = old.alone
      /\ q.legacy = old.legacy /\ q.provider = old.provider /\ q.doomed = left
      /\ q.pc = IF left = {} THEN "done" ELSE "delete"
  BY <1>0, <1>1 DEF Request
<1>4. /\ request'[r] = q /\ \A s \in Requests \ {r} : request'[s] = request[s]
      /\ \A s \in Requests : request'[s].op = request[s].op
  BY <1>1, <1>2, <1>3 DEF TypeOK
<1>5. min \in old.doomed
  <2>1. old.doomed \in SUBSET Nat /\ old.doomed # {}
    BY <1>0, <1>1 DEF Request, Phase
  <2> QED
    BY <2>1, MinOfNaturals
<1> HIDE DEF min
<1>6. DoomedIn(providers, models', q) = DoomedIn(providers, models, old) \ {min}
  <2> HIDE DEF q
  <2> QED
    BY <1>1, <1>3 DEF DoomedIn
<1>7. \A p : RowsIn(providers, models', p) = {m \in RowsIn(providers, models, p) : m.id # min}
  BY <1>1 DEF RowsIn
<1> HIDE DEF q
<1>8. ~raced => NoRace(providers, models', request')
  <2> SUFFICES ASSUME ~raced PROVE NoRace(providers, models', request')
    OBVIOUS
  <2>1. NoRace(providers, models, request)
    BY DEF Rest, Unraced
  <2>2. Apart(providers, models', q)
    BY <1>3 DEF Apart
  <2>3. \A s \in Requests \ {r} : Apart(providers, models', request'[s])
    <3>1. \A s \in Requests \ {r} : request'[s].op \notin Fillers
      BY <1>1, <1>4, <2>1 DEF NoRace, OneFiller, Fillers
    <3> QED
      BY <3>1 DEF Apart, Fillers
  <2>4. NoTwins(providers, models')
    BY <1>7, <2>1 DEF NoRace, NoTwins
  <2>5. OneFiller(request')
    BY <1>4, <2>1 DEF NoRace, OneFiller
  <2> QED
    BY <1>4, <2>2, <2>3, <2>4, <2>5 DEF NoRace
<1>9. clean => Seen(providers, models', request', last)
  <2>1. \A s \in Requests : Threat(providers, request[s]) => Threat(providers, request'[s])
    BY <1>1, <1>4 DEF Threat
  <2>2. \A x : \A s \in Requests : request[s].pc = "delete" /\ x \in request[s].doomed /\ x # min =>
            request'[s].pc = "delete" /\ x \in request'[s].doomed
    BY <1>1, <1>3, <1>4
  <2> QED
    BY <1>7, <2>1, <2>2 DEF Rest, Listed, Seen
<1>10. Lone(providers, models', request')
  <2>1. AloneSync(q) => AloneIn(providers, models', q)
    <3> SUFFICES ASSUME AloneSync(q) PROVE AloneIn(providers, models', q)
      OBVIOUS
    <3>1. AloneIn(providers, models, old)
      BY <1>0, <1>1, <1>3 DEF AloneSync
    <3>2. /\ old.doomed = DoomedIn(providers, models, old)
          /\ ToSet(old.list) \subseteq NamesIn(providers, models, old.provider)
          /\ old.provider = providers[Free] /\ old.provider # 0 /\ old.legacy = providers[Legacy]
      BY <1>1, <3>1 DEF AloneIn
    <3>3. old.provider # old.legacy
      BY <3>2 DEF TypeOK, Names, Free, Legacy
    <3>4. PICK doomed \in models : /\ doomed.id = min
                                  /\ \/ doomed.provider = old.provider /\ doomed.model \notin ToSet(old.list)
                                     \/ doomed.provider = old.legacy
      BY <1>5, <3>2 DEF DoomedIn
    <3>5. \A m \in RowsIn(providers, models, old.provider) :
              m.model \in ToSet(old.list) => m.id # min
      BY <3>3, <3>4 DEF RowsIn, TypeOK
    <3>6. ToSet(old.list) \subseteq NamesIn(providers, models', old.provider)
      BY <1>7, <3>2, <3>5 DEF NamesIn
    <3>7. DoomedIn(providers, models', q) = left
      BY <1>6, <3>2
    <3> HIDE DEF left
    <3> QED
      BY <1>3, <3>2, <3>6, <3>7 DEF AloneIn
  <2>2. \A s \in Requests : AloneSync(request'[s]) => s = r
    BY <1>1, <1>3, <1>4 DEF Rest, Undisturbed, Lone, AloneSync, Fillers
  <2>3. AloneSync(q) => \A s \in Requests : request'[s].op \in Fillers => s = r
    BY <1>1, <1>3, <1>4 DEF Rest, Undisturbed, Lone, AloneSync
  <2> QED
    BY <1>4, <2>1, <2>2, <2>3 DEF Lone
<1> QED
  BY <1>1, <1>8, <1>9, <1>10 DEF Rest, Unraced, Listed, Undisturbed

LEMMA SyncRest ==
    ASSUME TypeOK, Phases, Rest, NEW r \in Requests, SyncStep(r)
    PROVE  Rest'
<1>1. CASE Abort(r)
  BY <1>1, AbortRest
<1>2. CASE ~Abort(r)
  BY <1>2, BeginFiller, TablelessSteps, CreateProviderRest, WriteModelRest,
     ListModelsRest, DeleteModelRest, AbortRest DEF SyncStep
<1> QED
  BY <1>1, <1>2

LEMMA TemplateRest ==
    ASSUME TypeOK, Phases, Rest, NEW r \in Requests, TemplateStep(r)
    PROVE  Rest'
<1>1. CASE Abort(r)
  BY <1>1, AbortRest
<1>2. CASE BeginImport(r)
  BY <1>2, BeginFiller
<1>3. CASE ReadLines(r)
  BY <1>3, TablelessSteps
<1>4. ASSUME \/ BeginDrop(r)
             \/ \E l \in Lists : CreateTemplate(r, l) \/ UpdateTemplate(r, l)
      PROVE  Rest'
  <2>1. PICK new : /\ Begin(r, new) /\ UNCHANGED <<providers, models>>
                   /\ \A b : LET q == [new EXCEPT !.alone = b] IN
                           q.op \notin Fillers /\ q.pc # "delete"
                   /\ new.op \notin Fillers
    <3> DEFINE Fits(new) == /\ \A b : LET q == [new EXCEPT !.alone = b] IN
                                    q.op \notin Fillers /\ q.pc # "delete"
                            /\ new.op \notin Fillers
    <3>1. CASE BeginDrop(r)
      <4> DEFINE new == [Idle EXCEPT !.pc = "clear", !.op = "drop", !.row = template]
      <4>1. Begin(r, new) /\ UNCHANGED <<providers, models>>
        BY <3>1 DEF BeginDrop, db
      <4>2. Fits(new)
        BY DEF Idle, Fillers
      <4> HIDE DEF new
      <4> QED
        BY <4>1, <4>2
    <3>2. ASSUME NEW l \in Lists, CreateTemplate(r, l)
          PROVE  \E new : Begin(r, new) /\ UNCHANGED <<providers, models>> /\ Fits(new)
      <4> DEFINE new == [Idle EXCEPT !.pc = "saved", !.op = "create", !.row = ids', !.list = l, !.todo = l]
      <4>1. Begin(r, new) /\ UNCHANGED <<providers, models>>
        BY <3>2 DEF CreateTemplate
      <4>2. Fits(new)
        BY DEF Idle, Fillers
      <4> HIDE DEF new
      <4> QED
        BY <4>1, <4>2
    <3>3. ASSUME NEW l \in Lists, UpdateTemplate(r, l)
          PROVE  \E new : Begin(r, new) /\ UNCHANGED <<providers, models>> /\ Fits(new)
      <4> DEFINE new == [Idle EXCEPT !.pc = "saved", !.op = "update", !.row = template, !.list = l, !.todo = l]
      <4>1. Begin(r, new) /\ UNCHANGED <<providers, models>>
        BY <3>3 DEF UpdateTemplate, db
      <4>2. Fits(new)
        BY DEF Idle, Fillers
      <4> HIDE DEF new
      <4> QED
        BY <4>1, <4>2
    <3> QED
      BY <1>4, <3>1, <3>2, <3>3
  <2>2. /\ request[r].pc = "idle" /\ request[r].op = "none"
        /\ \A s \in Requests \ {r} : request'[s] = request[s]
        /\ request'[r].op \notin Fillers /\ request'[r].pc # "delete"
        /\ UNCHANGED <<last, clean>>
    BY <2>1 DEF Begin, Phases, Phase
  <2>3. raced' = raced
    BY <2>1 DEF Begin, TypeOK
  <2> QED
    BY <2>1, <2>2, <2>3, Bystander DEF Fillers
<1>5. ASSUME \/ (TemplateSaved(r) \/ AddLine(r) \/ LineAdded(r)) /\ ~Abort(r)
             \/ ClearLines(r) \/ DropTemplate(r)
      PROVE  Rest'
  <2>1. /\ request[r].pc \in {"saved", "clear", "line", "added", "drop"}
        /\ request[r].op \notin Fillers
        /\ request[r] \in Request
    <3>1. request[r].pc \in {"saved", "clear", "line", "added", "drop"}
      BY <1>5 DEF TemplateSaved, AddLine, LineAdded, ClearLines, DropTemplate
    <3> QED
      BY <3>1, Known DEF Phase, Fillers, Writers
  <2>2. UNCHANGED <<providers, models, last, clean, raced>>
    BY <1>5 DEF TemplateSaved, AddLine, LineAdded, ClearLines, DropTemplate, db, history
  <2>3. request \in [Requests -> Request]
    BY DEF TypeOK
  <2>4. /\ \A s \in Requests \ {r} : request'[s] = request[s]
        /\ request'[r].op = request[r].op /\ request'[r].pc # "delete"
    <3>1. CASE TemplateSaved(r) /\ ~Abort(r)
      BY <2>1, <2>3, <3>1 DEF TemplateSaved, Goto, Request
    <3>2. CASE ClearLines(r) \/ DropTemplate(r)
      BY <2>1, <2>3, <3>2 DEF ClearLines, DropTemplate, Goto, Request
    <3>3. CASE AddLine(r) /\ ~Abort(r)
      BY <2>1, <2>3, <3>3 DEF AddLine, Request
    <3>4. CASE LineAdded(r) /\ ~Abort(r)
      BY <2>1, <2>3, <3>4 DEF LineAdded, Request
    <3> QED
      BY <1>5, <3>1, <3>2, <3>3, <3>4
  <2> QED
    BY <2>1, <2>2, <2>4, Bystander
<1> QED
  BY <1>1, <1>2, <1>3, <1>4, <1>5 DEF TemplateStep

(***************************************************************************)
(* Edits, crashes and the theorem                                          *)
(***************************************************************************)
\* An edit after which no twin is seen that was not seen before.
LEMMA EditRest ==
    ASSUME TypeOK, Phases, Rest, NEW twins \in BOOLEAN, Edit(twins),
           ~twins => /\ \A p : RowsIn(providers', models', p) \subseteq RowsIn(providers, models, p)
                     /\ \/ providers'[Free] \in {0, providers[Free]}
                        \/ providers'[Free] = ids + 1 /\ RowsIn(providers', models', ids + 1) = {}
    PROVE  Rest'
<1>1. \A s \in Requests : request[s] \in Request /\ Phase(request[s])
  BY DEF TypeOK, Phases
<1>2. \A s \in Requests :
          /\ request'[s].op = request[s].op /\ request'[s].pc = request[s].pc
          /\ request'[s].provider = request[s].provider
          /\ request'[s].row = request[s].row /\ request'[s].todo = request[s].todo
          /\ request'[s].alone = FALSE
  <2> TAKE s \in Requests
  <2>1. request[s] \in Request /\ request'[s] = [request[s] EXCEPT !.alone = FALSE]
    BY <1>1 DEF Edit
  <2> QED
    BY <2>1, Joined, Zenon
<1>3. ~raced' => NoRace(providers', models', request')
  <2> SUFFICES ASSUME ~raced' PROVE NoRace(providers', models', request')
    OBVIOUS
  <2>1. NoRace(providers, models, request) /\ ~twins
    BY DEF Edit, Rest, Unraced
  <2>2. OneFiller(request')
    BY <1>2, <2>1 DEF NoRace, OneFiller
  <2>3. \A p : NamesIn(providers', models', p) \subseteq NamesIn(providers, models, p)
    BY <2>1 DEF NamesIn
  <2>4. ASSUME NEW s \in Requests PROVE Apart(providers', models', request'[s])
    <3>1. Apart(providers, models, request[s])
      BY <2>1 DEF NoRace
    <3>2. request[s].op = "import" /\ request[s].pc \notin {"read", "create"} =>
              request[s].provider # 0 /\ request[s].provider # ids + 1
      <4>1. request[s].provider \in 0..ids /\ ids \in Nat
        BY <1>1 DEF Request, TypeOK
      <4>2. request[s].op = "import" /\ request[s].pc \notin {"read", "create"} =>
              request[s].provider # 0
        BY <1>1 DEF Phase, Fillers
      <4> QED
        BY <4>1, <4>2
    <3> QED
      BY <1>2, <2>1, <2>3, <3>1, <3>2 DEF Apart
  <2>5. NoTwins(providers', models')
    <3>1. RowsIn(providers', models', 0) = {}
      <4>1. RowsIn(providers, models, 0) = {}
        BY DEF RowsIn, TypeOK, ModelRow
      <4> QED
        BY <2>1, <4>1
    <3> QED
      BY <2>1, <3>1 DEF NoTwins, NoRace
  <2> QED
    BY <2>1, <2>2, <2>4, <2>5 DEF NoRace
<1>4. ~clean'
  BY DEF Edit
<1>5. Lone(providers', models', request')
  BY <1>2 DEF Lone, AloneSync
<1> QED
  BY <1>3, <1>4, <1>5 DEF Rest, Unraced, Listed, Undisturbed

LEMMA AdminRest ==
    ASSUME TypeOK, Phases, Rest, AdminEdit
    PROVE  Rest'
<1>1. ASSUME NEW n \in Names, AddProvider(n)
      PROVE  Rest'
  <2>1. /\ providers[n] = 0 /\ ids < MaxIds /\ Edit(FALSE) /\ UNCHANGED models
        /\ providers' = [providers EXCEPT ![n] = ids + 1]
    BY <1>1 DEF AddProvider
  <2>2. /\ \A p : RowsIn(providers', models, p) = RowsIn(providers, models, p)
        /\ RowsIn(providers', models, ids + 1) = {}
        /\ providers'[n] = ids + 1 /\ \A o \in Names \ {n} : providers'[o] = providers[o]
    BY <2>1, NewProvider
  <2>3. providers'[Free] \in {0, providers[Free], ids + 1}
    BY <2>2 DEF Names
  <2> QED
    BY <2>1, <2>2, <2>3, EditRest
<1>2. ASSUME NEW n \in Names, RemoveProvider(n)
      PROVE  Rest'
  <2>1. /\ Edit(FALSE) /\ models' \subseteq models
        /\ providers' = [providers EXCEPT ![n] = 0] /\ providers \in [Names -> 0..ids]
    BY <1>2 DEF RemoveProvider, TypeOK
  <2>2. providers'[Free] \in {0, providers[Free]}
    BY <2>1 DEF Names
  <2>3. \A p : RowsIn(providers', models', p) \subseteq RowsIn(providers, models, p)
    <3>1. \A m \in models : m.provider # 0
      BY DEF TypeOK, ModelRow
    <3> QED
      BY <2>1, <3>1 DEF RowsIn
  <2> QED
    BY <2>1, <2>2, <2>3, EditRest
<1>3. ASSUME NEW row \in models, RemoveModel(row)
      PROVE  Rest'
  <2>1. Edit(FALSE) /\ models' \subseteq models /\ UNCHANGED providers
    BY <1>3 DEF RemoveModel
  <2>2. \A p : RowsIn(providers', models', p) \subseteq RowsIn(providers, models, p)
    BY <2>1 DEF RowsIn
  <2> QED
    BY <2>1, <2>2, EditRest
<1>4. CASE Edit(TRUE)
  BY <1>4, EditRest
<1> QED
  BY <1>1, <1>2, <1>3, <1>4
     DEF AdminEdit, ProviderEdit, ModelEdit, RenameProvider, AddModel, RenameModel

LEMMA CrashRest ==
    ASSUME TypeOK, Phases, Rest, Crash
    PROVE  Rest'
<1>1. /\ \A s \in Requests : request'[s] = Idle
      /\ Idle.op = "none" /\ UNCHANGED <<providers, models, last, raced>>
      /\ clean' => clean /\ Busy(Fillers) = {}
  BY DEF Crash, Idle, db
<1>2. Apart(providers, models, Idle) /\ ~Threat(providers, Idle) /\ ~AloneSync(Idle)
  BY <1>1 DEF Apart, Threat, AloneSync, Fillers
<1>3. ~raced => NoRace(providers, models, request')
  BY <1>1, <1>2 DEF NoRace, OneFiller, Fillers, Rest, Unraced
<1>4. clean' => Seen(providers, models, request', last)
  <2> SUFFICES ASSUME clean' PROVE Seen(providers, models, request', last)
    OBVIOUS
  <2>1. \A s \in Requests : request[s].op \notin Fillers
    BY <1>1 DEF Busy
  <2>2. \A s \in Requests : ~Threat(providers, request[s]) /\ request[s].pc # "delete"
    BY <2>1 DEF Threat, Phases, Phase, Fillers
  <2>3. \A m \in RowsIn(providers, models, providers[Free]) : m.model \in last
    BY <1>1, <2>2 DEF Rest, Listed, Seen
  <2> QED
    BY <2>3 DEF Seen
<1>5. Lone(providers, models, request')
  BY <1>1, <1>2 DEF Lone
<1> QED
  BY <1>1, <1>3, <1>4, <1>5 DEF Rest, Unraced, Listed, Undisturbed

\* The inductive invariant: where every request stands, what it knows of the
\* tables, and what the last listing and an undisturbed synchronisation left.
THEOREM Invariance == Spec => []RegistryInv
<1>1. Init => RegistryInv
  <2> SUFFICES ASSUME Init PROVE RegistryInv
    OBVIOUS
  <2>1. TypeOK
    BY InitTyped
  <2>2. \A r \in Requests : request[r] = Idle
    BY DEF Init
  <2>3. Phases
    BY <2>2, IdlePhase DEF Phases
  <2>4. Idle.op = "none"
    BY DEF Idle
  <2>5. Unraced
    BY <2>2, <2>4 DEF Init, Unraced, NoRace, OneFiller, Apart, NoTwins, RowsIn, Fillers
  <2>6. Listed /\ Undisturbed
    BY <2>2, <2>4 DEF Init, Listed, Undisturbed, Lone, AloneSync
  <2> QED
    BY <2>1, <2>3, <2>5, <2>6 DEF RegistryInv
<1>2. RegistryInv /\ [Next]_vars => RegistryInv'
  <2> SUFFICES ASSUME RegistryInv, [Next]_vars PROVE RegistryInv'
    OBVIOUS
  <2>1. TypeOK /\ Phases /\ Rest
    BY DEF RegistryInv, Rest
  <2>2. TypeOK' /\ Phases'
    BY <2>1, StepTyped, StepPhases
  <2>3. Rest'
    <3>1. CASE UNCHANGED vars
      BY <2>1, <3>1 DEF Rest, Unraced, Listed, Undisturbed, vars, db, history
    <3>2. CASE Next
      BY <2>1, <3>2, SyncRest, TemplateRest, AdminRest, CrashRest DEF Next
    <3> QED
      BY <3>1, <3>2
  <2> QED
    BY <2>2, <2>3 DEF RegistryInv, Rest
<1> QED
  BY <1>1, <1>2, PTL DEF Spec

\* Types, for any number of requests, ids and edits.
THEOREM TypeCorrect == Spec => []TypeOK
<1>1. RegistryInv => TypeOK
  BY DEF RegistryInv
<1> QED
  BY <1>1, Invariance, PTL

\* Syncs that overlap leave no mixture: the one that listed the rows last
\* decides what the free provider offers.
THEOREM LastListerAlwaysWins == Spec => []LastListerWins
<1>1. RegistryInv => LastListerWins
  <2> SUFFICES ASSUME RegistryInv, clean, Busy(Fillers) = {}
               PROVE  NamesOf(providers[Free]) \subseteq last
    BY DEF LastListerWins
  <2>1. \A r \in Requests : request[r].op \notin Fillers
    BY DEF Busy
  <2>2. \A r \in Requests : ~Threat(providers, request[r]) /\ request[r].pc # "delete"
    BY <2>1 DEF Threat, RegistryInv, Phases, Phase, Fillers
  <2>3. \A m \in RowsIn(providers, models, providers[Free]) : m.model \in last
    BY <2>2 DEF RegistryInv, Listed, Seen
  <2> QED
    BY <2>3, Views DEF NamesIn
<1> QED
  BY <1>1, Invariance, PTL

\* A model is listed twice only after a race or an edit, never because a
\* sync failed half way or the process died.
THEOREM TwinsAlwaysFromRaces == Spec => []TwinsOnlyFromRaces
<1>1. RegistryInv => TwinsOnlyFromRaces
  BY Views DEF RegistryInv, Unraced, NoRace, NoTwins, TwinsOnlyFromRaces
<1> QED
  BY <1>1, Invariance, PTL

\* A sync that nothing disturbs ends with exactly its selection, and with no
\* free model under the legacy provider.
THEOREM AloneAlwaysExact == Spec => []AloneExact
<1>1. RegistryInv => AloneExact
  <2> SUFFICES ASSUME RegistryInv, NEW r \in Requests,
                      request[r].pc = "done", request[r].op = "sync", request[r].alone
               PROVE  /\ NamesOf(request[r].provider) = ToSet(request[r].list)
                      /\ request[r].legacy # 0 => NamesOf(request[r].legacy) \cap FreeNamed = {}
    BY DEF AloneExact
  <2> DEFINE q == request[r]
  <2>1. AloneIn(providers, models, q)
    BY DEF RegistryInv, Undisturbed, Lone, AloneSync
  <2>2. /\ DoomedIn(providers, models, q) = {}
        /\ ToSet(q.list) \subseteq NamesIn(providers, models, q.provider)
    BY <2>1 DEF AloneIn
  <2>3. NamesIn(providers, models, q.provider) \subseteq ToSet(q.list)
    BY <2>2 DEF DoomedIn, NamesIn, RowsIn
  <2>4. NamesIn(providers, models, q.legacy) \cap FreeNamed = {}
    BY <2>2 DEF DoomedIn, NamesIn, RowsIn
  <2> QED
    BY <2>2, <2>3, <2>4, Views
<1> QED
  BY <1>1, Invariance, PTL
\* The selection too is the one that is called for, so that such a sync leaves
\* the best models of its listing behind.
THEOREM AloneSyncAlwaysExact == Spec => []AloneSyncIsExact
<1>1. \A l \in Listings : TopIsRight(l, TopN)
  BY RegistryAssumption, SelectionIsRight
<1>2. AloneExact => AloneSyncIsExact
  BY <1>1 DEF AloneSyncIsExact
<1> QED
  BY <1>2, AloneAlwaysExact, PTL

(***************************************************************************)
(* Saves and imports of a template: the inductive invariant                *)
(***************************************************************************)
\* The rows of a template, and the place of one of them in the order of ids.
LinesIn(L, t) == {l \in L : l.template = t}

RankIn(mine, x) == Cardinality({y \in mine : y.id < x.id}) + 1

\* In the order of their ids the rows are the beginning of a list.
Spells(mine, list) ==
    /\ Cardinality(mine) <= Len(list)
    /\ \A x \in mine : x.model = list[RankIn(mine, x)]

Told(L, t) == LinesIn(L, t) # {} => \E list \in Lists : Spells(LinesIn(L, t), list)

\* How far a writer is: what it has written, and what it has still to write.
Wrote(L, q, n) ==
    /\ Spells(LinesIn(L, q.row), q.list)
    /\ Cardinality(LinesIn(L, q.row)) = n

Done(q) == Len(q.list) - Len(q.todo)

Writing(L, q) ==
    /\ q.pc \in {"saved", "line", "added"} => q.op \in {"create", "update"}
    /\ q.op \in {"create", "update"} =>
          /\ q.list \in Lists /\ Len(q.todo) <= Len(q.list)
          /\ \A k \in 1..Len(q.todo) : q.todo[k] = q.list[Done(q) + k]
    /\ q.pc \in {"saved", "clear"} => q.todo = q.list
    /\ q.pc = "saved" /\ q.op = "create" => LinesIn(L, q.row) = {}
    /\ q.pc = "line" => Wrote(L, q, Done(q))
    /\ q.pc = "added" => Wrote(L, q, Done(q) + 1)

\* What an import knows when it has read the rows.
Read(q) ==
    q.op = "import" =>
        /\ Lists # {}
        /\ q.pc # "read" => \E l \in Lists : IsPrefix(q.list, l)

OneWriter(R) ==
    \A r, s \in Requests : R[r].op \in Writers /\ R[s].op \in Writers => r = s

SavesIn(T, L, R) ==
    /\ T # 0 => Lists # {}
    /\ OneWriter(R)
    /\ \A t : Told(L, t)
    /\ \A r \in Requests : Writing(L, R[r]) /\ Read(R[r])

SaveInv == ~mixed => SavesIn(template, lines, request)

(***************************************************************************)
(* Rows that spell a list                                                  *)
(***************************************************************************)
LEMMA NothingSpells ==
    ASSUME NEW list \in Lists
    PROVE  Spells({}, list) /\ Cardinality({}) = 0
<1>1. Len(list) \in Nat
  BY GivenLists
<1> QED
  BY <1>1, FS_EmptySet DEF Spells

\* The next row continues the list.
LEMMA NextSpells ==
    ASSUME NEW mine, NEW n \in Nat, NEW list \in Lists, NEW x,
           \A l \in mine : l.id \in 1..n,
           \A l, m \in mine : l.id = m.id => l = m,
           Spells(mine, list), Cardinality(mine) < Len(list),
           x.id = n + 1, x.model = list[Cardinality(mine) + 1]
    PROVE  /\ Spells(mine \cup {x}, list)
           /\ Cardinality(mine \cup {x}) = Cardinality(mine) + 1
<1> DEFINE more == mine \cup {x}
<1>1. IsFiniteSet(mine) /\ Cardinality(mine) \in Nat
  BY RowsById, FS_CardinalityType
<1>2. x \notin mine
  OBVIOUS
<1>3. Cardinality(more) = Cardinality(mine) + 1
  BY <1>1, <1>2, FS_AddElement
<1>4. {y \in more : y.id < x.id} = mine
  OBVIOUS
<1>5. \A z \in mine : {y \in more : y.id < z.id} = {y \in mine : y.id < z.id}
  OBVIOUS
<1>6. \A z \in mine : RankIn(more, z) = RankIn(mine, z)
  BY <1>5 DEF RankIn
<1>7. RankIn(more, x) = Cardinality(mine) + 1
  BY <1>3, <1>4 DEF RankIn
<1>8. Len(list) \in Nat
  BY GivenLists
<1> HIDE DEF more
<1>9. \A z \in more : z.model = list[RankIn(more, z)]
  <2>1. \A z \in mine : z.model = list[RankIn(more, z)]
    BY <1>6 DEF Spells
  <2>2. x.model = list[RankIn(more, x)]
    BY <1>7
  <2> QED
    BY <2>1, <2>2 DEF more
<1>10. Spells(more, list)
  BY <1>1, <1>3, <1>8, <1>9 DEF Spells
<1> QED
  BY <1>3, <1>10 DEF more

\* Rows that spell a list, read in the order of their ids, are its beginning.
LEMMA ReadSpells ==
    ASSUME NEW mine, NEW n \in Nat, NEW l \in Lists,
           \A x \in mine : x.id \in 1..n,
           \A x, y \in mine : x.id = y.id => x = y,
           Spells(mine, l)
    PROVE  IsPrefix([k \in DOMAIN ById(mine) |-> ById(mine)[k].model], l)
<1> DEFINE N == Cardinality(mine)
           rows == ById(mine)
           list == [k \in DOMAIN rows |-> rows[k].model]
<1>1. /\ N \in Nat /\ DOMAIN rows = 1..N
      /\ \A k \in 1..N : rows[k] \in mine
      /\ \A k \in 1..N : Cardinality({y \in mine : y.id < rows[k].id}) = k - 1
  BY RowsById DEF Enumerates
<1>2. \A k \in 1..N : RankIn(mine, rows[k]) = k
  BY <1>1 DEF RankIn
<1> HIDE DEF rows, N
<1>3. DOMAIN list = 1..N /\ \A k \in 1..N : list[k] = l[k]
  BY <1>1, <1>2 DEF Spells
<1>4. l \in Seq(Model) /\ Len(l) \in Nat /\ N <= Len(l)
  BY GivenLists DEF Spells, N
<1>5. list \in Seq(Model) /\ Len(list) = N
  <2>1. \A k \in 1..N : list[k] \in Model
    BY <1>1, <1>3, <1>4
  <2> QED
    BY <1>1, <2>1
<1> HIDE DEF list
<1>6. SubSeq(list, 1, N) = SubSeq(l, 1, N)
  <2>1. /\ SubSeq(list, 1, N) = [k \in 1..N |-> list[k]]
        /\ SubSeq(l, 1, N) = [k \in 1..N |-> l[k]]
    BY <1>1, <1>4, <1>5
  <2> QED
    BY <1>3, <2>1
<1> QED
  BY <1>4, <1>5, <1>6 DEF IsPrefix, list, rows, N

(***************************************************************************)
(* Steps of one request                                                    *)
(***************************************************************************)
\* Requests that differ in nothing the invariant looks at.
Alike(q, p) ==
    p.op = q.op /\ p.pc = q.pc /\ p.list = q.list /\ p.todo = q.todo /\ p.row = q.row

LEMMA AlikeKnows ==
    ASSUME NEW L, NEW q, NEW p, Alike(q, p)
    PROVE  (Writing(L, q) => Writing(L, p)) /\ (Read(q) => Read(p))
BY DEF Alike, Writing, Wrote, Done, Read

LEMMA OthersKnow ==
    ASSUME NEW L, NEW q, q.op \notin Writers \cup {"import"},
           q.pc \notin {"saved", "clear", "line", "added"}
    PROVE  Writing(L, q) /\ Read(q)
BY DEF Writing, Writers, Read

LEMMA IdleKnows ==
    /\ Idle.op = "none" /\ Idle.pc = "idle"
    /\ \A L : Writing(L, Idle) /\ Read(Idle)
<1>1. Idle.op = "none" /\ Idle.pc = "idle"
  BY DEF Idle
<1> QED
  BY <1>1, OthersKnow DEF Writers

\* One request makes a step: what the others know is not about rows that it
\* changes, since it is the only writer then.
LEMMA OneSaves ==
    ASSUME SavesIn(template, lines, request), NEW r \in Requests,
           template' # 0 => Lists # {},
           \A s \in Requests \ {r} : Alike(request[s], request'[s]),
           request'[r].op \in Writers => \/ request[r].op \in Writers
                                         \/ \A s \in Requests : request[s].op \notin Writers,
           UNCHANGED lines \/ request[r].op \in Writers,
           \A t : Told(lines', t),
           Writing(lines', request'[r]), Read(request'[r])
    PROVE  SavesIn(template', lines', request')
<1>1. OneWriter(request')
  BY DEF SavesIn, OneWriter, Alike
<1>2. ASSUME NEW s \in Requests, s # r
      PROVE  Writing(lines', request'[s]) /\ Read(request'[s])
  <2>1. Alike(request[s], request'[s]) /\ Writing(lines, request[s]) /\ Read(request[s])
    BY <1>2 DEF SavesIn
  <2>2. Writing(lines', request[s])
    <3>1. CASE UNCHANGED lines
      BY <2>1, <3>1
    <3>2. CASE request[r].op \in Writers
      <4>1. request[s].op \notin Writers
        BY <1>2, <3>2 DEF SavesIn, OneWriter
      <4>2. request[s].pc \notin {"saved", "line", "added"} /\ request[s].op \notin {"create", "update"}
        BY <2>1, <4>1 DEF Writing, Writers
      <4> QED
        BY <2>1, <4>2 DEF Writing
    <3> QED
      BY <3>1, <3>2
  <2> QED
    BY <2>1, <2>2, AlikeKnows
<1> QED
  BY <1>1, <1>2 DEF SavesIn

LEMMA AlikeSelf == \A q : Alike(q, q)
BY DEF Alike

LEMMA AbortSaves ==
    ASSUME TypeOK, SaveInv, NEW r \in Requests, Abort(r) \/ Answer(r)
    PROVE  SaveInv'
<1> SUFFICES ASSUME ~mixed' PROVE SavesIn(template', lines', request')
  BY DEF SaveInv
<1>1. /\ request' = [request EXCEPT ![r] = Idle] /\ UNCHANGED <<template, lines, mixed>>
  BY DEF Abort, Answer, db
<1>2. request'[r] = Idle /\ \A s \in Requests \ {r} : request'[s] = request[s]
  BY <1>1 DEF TypeOK
<1>3. SavesIn(template, lines, request)
  BY <1>1 DEF SaveInv
<1>4. Lists # {} \/ template' = 0
  BY <1>1, <1>3 DEF SavesIn
<1>5. \A t : Told(lines', t)
  BY <1>1, <1>3 DEF SavesIn
<1> QED
  BY <1>1, <1>2, <1>3, <1>4, <1>5, IdleKnows, AlikeSelf, OneSaves DEF Writers

\* A step of a synchronisation, or of an import that has read its rows.
LEMMA FillerSaves ==
    ASSUME TypeOK, SaveInv, NEW r \in Requests, NEW q,
           request[r].op \in Fillers, request[r].pc # "read",
           request' = [request EXCEPT ![r] = q],
           q.op = request[r].op, q.list = request[r].list,
           q.pc \notin {"read", "saved", "clear", "line", "added"},
           UNCHANGED <<template, lines, mixed>>
    PROVE  SaveInv'
<1> SUFFICES ASSUME ~mixed' PROVE SavesIn(template', lines', request')
  BY DEF SaveInv
<1>1. request'[r] = q /\ \A s \in Requests \ {r} : request'[s] = request[s]
  BY DEF TypeOK
<1>2. SavesIn(template, lines, request)
  BY DEF SaveInv
<1>3. Lists # {} \/ template' = 0
  BY <1>2 DEF SavesIn
<1>4. \A t : Told(lines', t)
  BY <1>2 DEF SavesIn
<1>5. Writing(lines, q)
  BY DEF Writing, Fillers
<1>6. Read(q)
  BY <1>2 DEF SavesIn, Read
<1>7. q.op \notin Writers
  BY DEF Fillers, Writers
<1> QED
  BY <1>1, <1>2, <1>3, <1>4, <1>5, <1>6, <1>7, AlikeSelf, OneSaves

\* A request begins, which is no writer or the only one.
LEMMA BeginSaves ==
    ASSUME TypeOK, Phases, SaveInv, NEW r \in Requests, NEW new, Begin(r, new),
           \A b \in BOOLEAN : Alike(new, [new EXCEPT !.alone = b]),
           template' # 0 => Lists # {} \/ template # 0, UNCHANGED lines,
           (\A t : Told(lines, t)) => Writing(lines, new),
           Lists # {} \/ template = 0 => Read(new)
    PROVE  SaveInv'
<1> SUFFICES ASSUME ~mixed' PROVE SavesIn(template', lines', request')
  BY DEF SaveInv
<1>1. ~mixed /\ (new.op \in Writers => Busy(Writers) = {})
  BY DEF Begin
<1>2. SavesIn(template, lines, request)
  BY <1>1 DEF SaveInv
<1>3. request'[r] = [new EXCEPT !.alone = (Busy(Fillers) = {})]
  BY DEF Begin
<1>4. Alike(new, request'[r])
  <2>1. (Busy(Fillers) = {}) \in BOOLEAN
    OBVIOUS
  <2> QED
    BY <1>3, <2>1
<1>5. ASSUME NEW s \in Requests \ {r}
      PROVE  Alike(request[s], request'[s])
  <2>1. request'[s] \in {request[s], [request[s] EXCEPT !.alone = FALSE]}
    BY DEF Begin
  <2>2. request[s] \in Request
    BY DEF TypeOK
  <2>3. Alike(request[s], [request[s] EXCEPT !.alone = FALSE])
    BY <2>2, Joined DEF Alike, Request
  <2> QED
    BY <2>1, <2>3, AlikeSelf
<1>6. Writing(lines', request'[r]) /\ Read(request'[r])
  BY <1>2, <1>4, AlikeKnows DEF SavesIn
<1>7. request'[r].op \in Writers => \A s \in Requests : request[s].op \notin Writers
  BY <1>1, <1>4 DEF Alike, Busy
<1>8. template' # 0 => Lists # {}
  BY <1>2 DEF SavesIn
<1>9. \A t : Told(lines', t)
  BY <1>2 DEF SavesIn
<1> QED
  BY <1>2, <1>5, <1>6, <1>7, <1>8, <1>9, OneSaves

LEMMA SyncSaves ==
    ASSUME TypeOK, Phases, SaveInv, NEW r \in Requests, SyncStep(r)
    PROVE  SaveInv'
<1> DEFINE old == request[r]
<1>0. old \in Request /\ Phase(old)
  BY DEF TypeOK, Phases
<1>1. ASSUME NEW a \in Answers, Fetch(r, a)
      PROVE  SaveInv'
  <2> DEFINE new == [Idle EXCEPT !.pc = "legacy", !.op = "sync", !.list = Chosen(a), !.todo = Chosen(a)]
  <2>1. Begin(r, new) /\ UNCHANGED <<template, lines>>
    BY <1>1 DEF Fetch, db
  <2>2. new.op = "sync" /\ new.pc = "legacy" /\ \A b \in BOOLEAN : Alike(new, [new EXCEPT !.alone = b])
    BY DEF Idle, Alike
  <2> HIDE DEF new
  <2>3. Writing(lines, new) /\ Read(new)
    BY <2>2, OthersKnow DEF Writers
  <2> QED
    BY <2>1, <2>2, <2>3, BeginSaves
<1>11. CASE FindLegacy(r)
  <2> DEFINE q == [old EXCEPT !.pc = "find", !.legacy = providers[Legacy]]
  <2>1. old.op \in Fillers /\ old.pc = "legacy" /\ request' = [request EXCEPT ![r] = q]
        /\ UNCHANGED <<template, lines, mixed>>
    BY <1>0, <1>11 DEF FindLegacy, Phase, Fillers, db, history
  <2>2. q.op = old.op /\ q.list = old.list /\ q.pc = "find"
    BY <1>0 DEF Request
  <2> HIDE DEF q
  <2> QED
    BY <2>1, <2>2, FillerSaves
<1>2. CASE FindProvider(r)
  <2> DEFINE found == [old EXCEPT !.provider = providers[Free]]
             next == IF found.provider = 0 THEN "create" ELSE Loop(found)
             q == [found EXCEPT !.pc = next]
  <2>1. old.op \in Fillers /\ old.pc = "find" /\ request' = [request EXCEPT ![r] = q]
        /\ UNCHANGED <<template, lines, mixed>>
    BY <1>0, <1>2 DEF FindProvider, Phase, Fillers, db, history
  <2>2. next \in {"create", "lookup", "write", "list", "done"}
    BY LoopTyped
  <2>3. q.op = old.op /\ q.list = old.list /\ q.pc = next
    BY <1>0 DEF Request
  <2> HIDE DEF q, next, found
  <2> QED
    BY <2>1, <2>2, <2>3, FillerSaves
<1>3. CASE CreateProvider(r) /\ ~Abort(r)
  <2> DEFINE q == [old EXCEPT !.pc = "created", !.provider = ids']
  <2>1. old.pc = "create" /\ old.op \in Fillers /\ request' = [request EXCEPT ![r] = q]
        /\ UNCHANGED <<template, lines, mixed>>
    BY <1>0, <1>3 DEF CreateProvider, Phase, history
  <2>2. q.op = old.op /\ q.list = old.list /\ q.pc = "created"
    BY <1>0 DEF Request
  <2> HIDE DEF q
  <2> QED
    BY <2>1, <2>2, FillerSaves
<1>4. CASE ProviderCreated(r) /\ ~Abort(r)
  <2> DEFINE q == [old EXCEPT !.pc = Loop(old)]
  <2>1. old.pc = "created" /\ old.op \in Fillers /\ request' = [request EXCEPT ![r] = q]
        /\ UNCHANGED <<template, lines, mixed>>
    BY <1>0, <1>4 DEF ProviderCreated, Goto, Phase, db, history
  <2>2. q.op = old.op /\ q.list = old.list /\ q.pc = Loop(old)
    BY <1>0 DEF Request
  <2>3. Loop(old) \in {"lookup", "write", "list", "done"}
    BY LoopTyped
  <2> HIDE DEF q
  <2> QED
    BY <2>1, <2>2, <2>3, FillerSaves
<1>5. CASE LookUp(r)
  <2> DEFINE same == {m.id : m \in {m \in RowsOf(old.provider) : m.model = Head(old.todo)}}
             row == IF same = {} THEN 0 ELSE Min(same)
             q == [old EXCEPT !.pc = "write", !.row = row]
  <2>1. old.pc = "lookup" /\ old.op \in Fillers /\ request' = [request EXCEPT ![r] = q]
        /\ UNCHANGED <<template, lines, mixed>>
    BY <1>0, <1>5 DEF LookUp, Phase, Fillers, db, history
  <2> HIDE DEF row
  <2>2. q.op = old.op /\ q.list = old.list /\ q.pc = "write"
    BY <1>0 DEF Request
  <2> HIDE DEF q
  <2> QED
    BY <2>1, <2>2, FillerSaves
<1>6. CASE WriteModel(r) /\ ~Abort(r)
  <2> DEFINE q(n) == [old EXCEPT !.pc = "written", !.row = n]
  <2>1. /\ old.pc = "write" /\ old.op \in Fillers
        /\ \/ request' = [request EXCEPT ![r] = q(ids')]
           \/ request' = [request EXCEPT ![r].pc = "written"]
        /\ UNCHANGED <<template, lines, mixed>>
    BY <1>0, <1>6 DEF WriteModel, Goto, Phase, db, history
  <2>2. [old EXCEPT !.pc = "written"] = q(old.row)
    BY <1>0 DEF Request
  <2>3. PICK n : request' = [request EXCEPT ![r] = q(n)]
    <3>1. CASE request' = [request EXCEPT ![r].pc = "written"]
      <4>1. request' = [request EXCEPT ![r] = [old EXCEPT !.pc = "written"]]
        BY <3>1
      <4> HIDE DEF q
      <4> QED
        BY <2>2, <4>1
    <3> QED
      BY <2>1, <3>1
  <2>4. q(n).op = old.op /\ q(n).list = old.list /\ q(n).pc = "written"
    BY <1>0 DEF Request
  <2> HIDE DEF q
  <2> QED
    BY <2>1, <2>3, <2>4, FillerSaves
<1>7. CASE ModelWritten(r) /\ ~Abort(r)
  <2> DEFINE next == [old EXCEPT !.todo = Tail(@), !.row = 0]
             pc == Loop(next)
             q == [next EXCEPT !.pc = pc]
  <2>1. old.pc = "written" /\ old.op \in Fillers /\ request' = [request EXCEPT ![r] = q]
        /\ UNCHANGED <<template, lines, mixed>>
    BY <1>0, <1>7 DEF ModelWritten, Phase, db, history
  <2>2. pc \in {"lookup", "write", "list", "done"}
    BY LoopTyped
  <2> HIDE DEF pc
  <2>3. q.op = old.op /\ q.list = old.list /\ q.pc = pc
    BY <1>0 DEF Request
  <2> HIDE DEF q
  <2> QED
    BY <2>1, <2>2, <2>3, FillerSaves
<1>8. CASE ListModels(r)
  <2> DEFINE pc == IF Doomed(old) = {} THEN "done" ELSE "delete"
             q == [old EXCEPT !.doomed = Doomed(old), !.pc = pc]
  <2>1. old.pc = "list" /\ old.op \in Fillers /\ request' = [request EXCEPT ![r] = q]
        /\ UNCHANGED <<template, lines, mixed>>
    BY <1>0, <1>8 DEF ListModels, Phase, Fillers, db
  <2>2. q.op = old.op /\ q.list = old.list /\ q.pc = pc
    BY <1>0 DEF Request
  <2>3. pc \in {"done", "delete"}
    OBVIOUS
  <2> HIDE DEF q, pc
  <2> QED
    BY <2>1, <2>2, <2>3, FillerSaves
<1>9. CASE DeleteModel(r)
  <2> DEFINE left == old.doomed \ {Min(old.doomed)}
             pc == IF left = {} THEN "done" ELSE "delete"
             q == [old EXCEPT !.doomed = left, !.pc = pc]
  <2>1. old.pc = "delete" /\ old.op \in Fillers /\ request' = [request EXCEPT ![r] = q]
        /\ UNCHANGED <<template, lines, mixed>>
    BY <1>0, <1>9 DEF DeleteModel, Phase, Fillers, history
  <2>2. pc \in {"done", "delete"}
    OBVIOUS
  <2> HIDE DEF left, pc
  <2>3. q.op = old.op /\ q.list = old.list /\ q.pc = pc
    BY <1>0 DEF Request
  <2> HIDE DEF q
  <2> QED
    BY <2>1, <2>2, <2>3, FillerSaves
<1>10. CASE Abort(r) \/ Answer(r)
  BY <1>10, AbortSaves
<1> QED
  BY <1>1, <1>2, <1>3, <1>4, <1>5, <1>6, <1>7, <1>8, <1>9, <1>10, <1>11 DEF SyncStep

(***************************************************************************)
(* Templates                                                               *)
(***************************************************************************)
LEMMA SeqFacts ==
    ASSUME NEW s \in Seq(Model), s # <<>>
    PROVE  /\ Len(s) \in Nat \ {0} /\ Len(Tail(s)) = Len(s) - 1 /\ Head(s) = s[1]
           /\ \A k \in 1..Len(Tail(s)) : Tail(s)[k] = s[k + 1]
  OBVIOUS

\* The rows of a template have ids that were given out, each its own.
LEMMA LineIds ==
    ASSUME TypeOK, NEW t
    PROVE  /\ ids \in Nat
           /\ \A x \in LinesIn(lines, t) : x.id \in 1..ids
           /\ \A x, y \in LinesIn(lines, t) : x.id = y.id => x = y
BY DEF TypeOK, LinesIn, LineRow

LEMMA Remaining ==
    \A n, m \in Nat : m <= n => n - m \in Nat /\ (m # 0 => n - m < n)
OBVIOUS

LEMMA TemplateSaves ==
    ASSUME TypeOK, Phases, SaveInv, NEW r \in Requests, TemplateStep(r)
    PROVE  SaveInv'
<1> DEFINE old == request[r]
<1>0. old \in Request /\ Phase(old) /\ ids \in Nat /\ old.todo \in Seq(Model) /\ old.list \in Seq(Model)
  BY DEF TypeOK, Phases, Request
<1>1. ASSUME NEW l \in Lists, CreateTemplate(r, l)
      PROVE  SaveInv'
  <2> DEFINE new == [Idle EXCEPT !.pc = "saved", !.op = "create", !.row = ids', !.list = l, !.todo = l]
  <2>1. Begin(r, new) /\ UNCHANGED lines /\ ids' = ids + 1
    BY <1>1 DEF CreateTemplate
  <2>2. /\ new.op = "create" /\ new.pc = "saved" /\ new.row = ids + 1 /\ new.list = l /\ new.todo = l
        /\ \A b \in BOOLEAN : Alike(new, [new EXCEPT !.alone = b])
    BY <2>1 DEF Idle, Alike
  <2> HIDE DEF new
  <2>3. LinesIn(lines, ids + 1) = {}
    BY DEF TypeOK, LinesIn, LineRow
  <2>4. Len(l) \in Nat /\ Lists # {}
    BY GivenLists
  <2>5. Writing(lines, new) /\ Read(new)
    BY <2>2, <2>3, <2>4 DEF Writing, Done, Read
  <2> QED
    BY <2>1, <2>2, <2>4, <2>5, BeginSaves
<1>2. ASSUME NEW l \in Lists, UpdateTemplate(r, l)
      PROVE  SaveInv'
  <2> DEFINE new == [Idle EXCEPT !.pc = "saved", !.op = "update", !.row = template, !.list = l, !.todo = l]
  <2>1. Begin(r, new) /\ UNCHANGED <<template, lines>>
    BY <1>2 DEF UpdateTemplate, db
  <2>2. /\ new.op = "update" /\ new.pc = "saved" /\ new.list = l /\ new.todo = l
        /\ \A b \in BOOLEAN : Alike(new, [new EXCEPT !.alone = b])
    BY <2>1 DEF Idle, Alike
  <2> HIDE DEF new
  <2>3. Len(l) \in Nat
    BY GivenLists
  <2>4. Writing(lines, new) /\ Read(new)
    BY <2>2, <2>3 DEF Writing, Done, Read
  <2> QED
    BY <2>1, <2>2, <2>4, BeginSaves
<1>3. CASE BeginDrop(r)
  <2> DEFINE new == [Idle EXCEPT !.pc = "clear", !.op = "drop", !.row = template]
  <2>1. Begin(r, new) /\ UNCHANGED <<template, lines>>
    BY <1>3 DEF BeginDrop, db
  <2>2. /\ new.op = "drop" /\ new.pc = "clear" /\ new.list = new.todo
        /\ \A b \in BOOLEAN : Alike(new, [new EXCEPT !.alone = b])
    BY DEF Idle, Alike
  <2> HIDE DEF new
  <2>3. Writing(lines, new) /\ Read(new)
    BY <2>2 DEF Writing, Read
  <2> QED
    BY <2>1, <2>2, <2>3, BeginSaves
<1>4. CASE BeginImport(r)
  <2> DEFINE new == [Idle EXCEPT !.pc = "read", !.op = "import", !.row = template]
  <2>1. Begin(r, new) /\ UNCHANGED <<template, lines>> /\ template # 0
    BY <1>4 DEF BeginImport, db
  <2>2. /\ new.op = "import" /\ new.pc = "read"
        /\ \A b \in BOOLEAN : Alike(new, [new EXCEPT !.alone = b])
    BY DEF Idle, Alike
  <2> HIDE DEF new
  <2>3. Writing(lines, new) /\ (Lists # {} => Read(new))
    BY <2>2 DEF Writing, Read
  <2> QED
    BY <2>1, <2>2, <2>3, BeginSaves
<1> SUFFICES ASSUME ~Abort(r), UNCHANGED mixed, ~mixed,
                    \/ TemplateSaved(r) \/ ClearLines(r) \/ AddLine(r) \/ LineAdded(r)
                    \/ DropTemplate(r) \/ ReadLines(r)
             PROVE  SavesIn(template', lines', request')
  <2>1. CASE Abort(r)
    BY <2>1, AbortSaves
  <2>2. ASSUME ~Abort(r), \/ TemplateSaved(r) \/ ClearLines(r) \/ AddLine(r) \/ LineAdded(r)
                          \/ DropTemplate(r) \/ ReadLines(r)
        PROVE  UNCHANGED mixed
    BY <2>2 DEF TemplateSaved, ClearLines, AddLine, LineAdded, DropTemplate, ReadLines, history
  <2> QED
    BY <1>1, <1>2, <1>3, <1>4, <2>1, <2>2 DEF TemplateStep, SaveInv
<1>5. /\ SavesIn(template, lines, request) /\ Writing(lines, old) /\ Read(old)
      /\ \A t : Told(lines, t)
      /\ template # 0 => Lists # {}
  BY DEF SaveInv, SavesIn
<1>6. ASSUME NEW q, request' = [request EXCEPT ![r] = q], template' \in {0, template},
             q.op \in Writers => old.op \in Writers,
             UNCHANGED lines \/ old.op \in Writers,
             \A t : Told(lines', t), Writing(lines', q), Read(q)
      PROVE  SavesIn(template', lines', request')
  <2>1. request'[r] = q /\ \A s \in Requests \ {r} : request'[s] = request[s]
    BY <1>6 DEF TypeOK
  <2> QED
    BY <1>5, <1>6, <2>1, AlikeSelf, OneSaves
<1>7. CASE TemplateSaved(r)
  <2> DEFINE next == IF old.op = "update" THEN "clear" ELSE IF old.todo = <<>> THEN "done" ELSE "line"
             q == [old EXCEPT !.pc = next]
  <2>1. old.pc = "saved" /\ request' = [request EXCEPT ![r] = q] /\ UNCHANGED <<template, lines>>
    BY <1>7 DEF TemplateSaved, Goto, db
  <2>2. next \in {"clear", "done", "line"} /\ (old.op # "update" => next # "clear")
        /\ (old.op = "update" => next = "clear")
    OBVIOUS
  <2> HIDE DEF next
  <2>3. /\ q.op = old.op /\ q.list = old.list /\ q.todo = old.todo /\ q.row = old.row /\ q.pc = next
    BY <1>0 DEF Request
  <2> HIDE DEF q
  <2>4. old.op \in {"create", "update"} /\ old.todo = old.list /\ old.list \in Lists
    BY <1>5, <2>1 DEF Writing
  <2>5. next = "line" => Wrote(lines, q, Done(q))
    <3> SUFFICES ASSUME next = "line" PROVE Wrote(lines, q, Done(q))
      OBVIOUS
    <3>1. LinesIn(lines, old.row) = {}
      BY <1>5, <2>1, <2>2, <2>4 DEF Writing
    <3>2. Done(q) = 0
      BY <1>0, <2>3, <2>4 DEF Done
    <3> QED
      BY <2>3, <2>4, <3>1, <3>2, NothingSpells DEF Wrote
  <2>6. Writing(lines', q) /\ Read(q)
    <3>1. Done(q) = Done(old)
      BY <2>3 DEF Done
    <3> QED
      BY <1>5, <2>1, <2>2, <2>3, <2>4, <2>5, <3>1 DEF Writing, Read
  <2> QED
    BY <1>5, <1>6, <2>1, <2>3, <2>6
<1>8. CASE ClearLines(r)
  <2> DEFINE next == IF old.op = "drop" THEN "drop" ELSE IF old.todo = <<>> THEN "done" ELSE "line"
             q == [old EXCEPT !.pc = next]
  <2>1. old.pc = "clear" /\ request' = [request EXCEPT ![r] = q] /\ UNCHANGED template
        /\ lines' = {l \in lines : l.template # old.row}
    BY <1>8 DEF ClearLines, Goto
  <2>2. old.op \in Writers /\ old.todo = old.list
    BY <1>0, <1>5, <2>1 DEF Phase, Writing
  <2>3. next \in {"drop", "done", "line"} /\ (next = "line" => old.op # "drop")
    OBVIOUS
  <2> HIDE DEF next
  <2>4. q.op = old.op /\ q.list = old.list /\ q.todo = old.todo /\ q.row = old.row /\ q.pc = next
    BY <1>0 DEF Request
  <2> HIDE DEF q
  <2>5. /\ LinesIn(lines', old.row) = {}
        /\ \A t : t # old.row => LinesIn(lines', t) = LinesIn(lines, t)
    BY <2>1 DEF LinesIn
  <2>6. \A t : Told(lines', t)
    BY <1>5, <2>5 DEF Told
  <2>7. next = "line" => Wrote(lines', q, Done(q))
    <3> SUFFICES ASSUME next = "line" PROVE Wrote(lines', q, Done(q))
      OBVIOUS
    <3>1. old.list \in Lists
      BY <1>5, <2>2, <2>3 DEF Writing, Writers
    <3>2. Done(q) = 0
      BY <1>0, <2>2, <2>4 DEF Done
    <3> QED
      BY <2>4, <2>5, <3>1, <3>2, NothingSpells DEF Wrote
  <2>8. Writing(lines', q) /\ Read(q)
    <3>1. Done(q) = Done(old)
      BY <2>4 DEF Done
    <3> QED
      BY <1>5, <2>2, <2>3, <2>4, <2>7, <3>1 DEF Writing, Read, Writers
  <2> QED
    BY <1>6, <2>1, <2>2, <2>4, <2>6, <2>8
<1>9. CASE AddLine(r)
  <2> DEFINE x == [id |-> ids + 1, template |-> old.row, model |-> Head(old.todo)]
             q == [old EXCEPT !.pc = "added", !.provider = ids']
             mine == LinesIn(lines, old.row)
  <2>1. old.pc = "line" /\ request' = [request EXCEPT ![r] = q] /\ UNCHANGED template
        /\ lines' = lines \cup {x}
    BY <1>9 DEF AddLine
  <2>2. q.op = old.op /\ q.list = old.list /\ q.todo = old.todo /\ q.row = old.row /\ q.pc = "added"
    BY <1>0 DEF Request
  <2> HIDE DEF q
  <2>3. /\ old.op \in {"create", "update"} /\ old.list \in Lists /\ old.todo # <<>>
        /\ Len(old.todo) <= Len(old.list)
        /\ \A k \in 1..Len(old.todo) : old.todo[k] = old.list[Done(old) + k]
        /\ Spells(mine, old.list) /\ Cardinality(mine) = Done(old)
    BY <1>0, <1>5, <2>1 DEF Writing, Wrote, Phase
  <2>4. /\ Len(old.todo) \in Nat \ {0} /\ Len(old.list) \in Nat
        /\ Done(old) \in Nat /\ Done(old) < Len(old.list)
        /\ Head(old.todo) = old.list[Done(old) + 1]
    <3>1. Len(old.todo) \in Nat \ {0} /\ Len(old.list) \in Nat /\ Head(old.todo) = old.todo[1]
      BY <1>0, <2>3, SeqFacts
    <3>2. Done(old) = Len(old.list) - Len(old.todo)
      BY DEF Done
    <3>3. old.todo[1] = old.list[Done(old) + 1]
      BY <2>3, <3>1
    <3>4. Len(old.todo) <= Len(old.list)
      BY <2>3
    <3>5. Done(old) \in Nat /\ Done(old) < Len(old.list)
      BY <3>1, <3>2, <3>4, Remaining
    <3> QED
      BY <3>1, <3>3, <3>5
  <2>5. x.id = ids + 1 /\ x.model = old.list[Done(old) + 1] /\ x.template = old.row
    BY <2>4
  <2> HIDE DEF x
  <2>6. /\ LinesIn(lines', old.row) = mine \cup {x}
        /\ \A t : t # old.row => LinesIn(lines', t) = LinesIn(lines, t)
    BY <2>1, <2>5 DEF LinesIn
  <2>7. /\ ids \in Nat /\ \A y \in mine : y.id \in 1..ids
        /\ \A y, z \in mine : y.id = z.id => y = z
    BY LineIds
  <2> HIDE DEF mine
  <2>8. Spells(mine \cup {x}, old.list) /\ Cardinality(mine \cup {x}) = Done(old) + 1
    <3>1. Cardinality(mine) < Len(old.list) /\ x.model = old.list[Cardinality(mine) + 1]
      BY <2>3, <2>4, <2>5
    <3>2. Spells(mine, old.list) /\ old.list \in Lists /\ x.id = ids + 1
      BY <2>3, <2>5
    <3>3. /\ Spells(mine \cup {x}, old.list)
          /\ Cardinality(mine \cup {x}) = Cardinality(mine) + 1
      BY <2>7, <3>1, <3>2, NextSpells
    <3> QED
      BY <2>3, <3>3
  <2>9. \A t : Told(lines', t)
    BY <1>5, <2>3, <2>6, <2>8 DEF Told
  <2>10. Done(q) = Done(old)
    BY <2>2 DEF Done
  <2>11. Writing(lines', q) /\ Read(q)
    BY <2>2, <2>3, <2>6, <2>8, <2>10 DEF Writing, Wrote, Read
  <2> QED
    BY <1>6, <2>1, <2>2, <2>3, <2>9, <2>11 DEF Writers
<1>10. CASE LineAdded(r)
  <2> DEFINE next == IF Tail(old.todo) = <<>> THEN "done" ELSE "line"
             q == [old EXCEPT !.todo = Tail(@), !.provider = 0, !.pc = next]
  <2>1. old.pc = "added" /\ request' = [request EXCEPT ![r] = q] /\ UNCHANGED <<template, lines>>
    BY <1>10 DEF LineAdded, db
  <2>2. next \in {"done", "line"}
    OBVIOUS
  <2> HIDE DEF next
  <2>3. q.op = old.op /\ q.list = old.list /\ q.todo = Tail(old.todo) /\ q.row = old.row /\ q.pc = next
    BY <1>0 DEF Request
  <2> HIDE DEF q
  <2>4. /\ old.op \in {"create", "update"} /\ old.list \in Lists /\ old.todo # <<>>
        /\ Len(old.todo) <= Len(old.list)
        /\ \A k \in 1..Len(old.todo) : old.todo[k] = old.list[Done(old) + k]
        /\ Wrote(lines, old, Done(old) + 1)
    BY <1>0, <1>5, <2>1 DEF Writing, Phase
  <2>5. /\ Len(old.todo) \in Nat \ {0} /\ Len(q.todo) = Len(old.todo) - 1 /\ Len(old.list) \in Nat
        /\ \A k \in 1..Len(q.todo) : q.todo[k] = old.todo[k + 1]
    BY <1>0, <2>3, <2>4, SeqFacts
  <2>6. Done(q) = Done(old) + 1 /\ Done(old) \in Nat
    <3>1. /\ Done(old) = Len(old.list) - Len(old.todo)
          /\ Done(q) = Len(old.list) - Len(q.todo)
      BY <2>3 DEF Done
    <3>2. Len(old.todo) <= Len(old.list)
      BY <2>4
    <3> QED
      BY <2>5, <3>1, <3>2
  <2>7. \A k \in 1..Len(q.todo) : q.todo[k] = old.list[Done(q) + k]
    <3> TAKE k \in 1..Len(q.todo)
    <3>1. k + 1 \in 1..Len(old.todo) /\ Done(old) + (k + 1) = Done(q) + k
      <4>1. /\ Len(old.todo) \in Nat \ {0} /\ Len(q.todo) = Len(old.todo) - 1
            /\ Done(q) = Done(old) + 1 /\ Done(old) \in Nat
        BY <2>5, <2>6
      <4> HIDE DEF old
      <4> QED
        BY <4>1
    <3> QED
      BY <2>4, <2>5, <3>1
  <2>8. Wrote(lines, q, Done(q))
    BY <2>3, <2>4, <2>6 DEF Wrote
  <2>9. Writing(lines, q) /\ Read(q)
    BY <2>2, <2>3, <2>4, <2>5, <2>7, <2>8 DEF Writing, Read
  <2> QED
    BY <1>5, <1>6, <2>1, <2>3, <2>9
<1>11. CASE DropTemplate(r)
  <2> DEFINE q == [old EXCEPT !.pc = "done"]
  <2>1. /\ old.pc = "drop" /\ request' = [request EXCEPT ![r] = q] /\ template' \in {0, template}
        /\ lines' \in {lines, {l \in lines : l.template # old.row}}
    BY <1>11 DEF DropTemplate, Goto
  <2>2. q.op = old.op /\ q.list = old.list /\ q.todo = old.todo /\ q.row = old.row /\ q.pc = "done"
    BY <1>0 DEF Request
  <2> HIDE DEF q
  <2>3. old.op \in Writers
    BY <1>0, <2>1 DEF Phase
  <2>4. \A t : LinesIn(lines', t) \in {{}, LinesIn(lines, t)}
    BY <2>1 DEF LinesIn
  <2>5. \A t : Told(lines', t)
    BY <1>5, <2>4 DEF Told
  <2>6. Writing(lines', q) /\ Read(q)
    <3>1. Done(q) = Done(old)
      BY <2>2 DEF Done
    <3> QED
      BY <1>5, <2>2, <2>3, <3>1 DEF Writing, Read, Writers
  <2> QED
    BY <1>6, <2>1, <2>2, <2>3, <2>5, <2>6
<1>12. CASE ReadLines(r)
  <2> DEFINE mine == LinesIn(lines, old.row)
             list == [k \in DOMAIN ById(mine) |-> ById(mine)[k].model]
             q == [old EXCEPT !.pc = "create", !.row = 0, !.list = list, !.todo = list]
  <2>1. old.pc = "read" /\ request' = [request EXCEPT ![r] = q] /\ UNCHANGED <<template, lines>>
    BY <1>12 DEF ReadLines, LinesIn, db
  <2>2. old.op = "import" /\ Lists # {}
    BY <1>0, <1>5, <2>1 DEF Phase, Read
  <2>3. /\ ids \in Nat /\ \A y \in mine : y.id \in 1..ids
        /\ \A y, z \in mine : y.id = z.id => y = z
    BY LineIds
  <2>4. PICK l \in Lists : Spells(mine, l)
    BY <1>5, <2>2, NothingSpells DEF Told
  <2> HIDE DEF mine
  <2>5. IsPrefix(list, l)
    <3>1. IsPrefix([k \in DOMAIN ById(mine) |-> ById(mine)[k].model], l)
      BY <2>3, <2>4, ReadSpells
    <3> QED
      BY <3>1
  <2> HIDE DEF list
  <2>6. q.op = "import" /\ q.list = list /\ q.pc = "create"
    BY <1>0, <2>2 DEF Request
  <2> HIDE DEF q
  <2>7. Writing(lines, q) /\ Read(q)
    BY <2>2, <2>5, <2>6 DEF Writing, Read
  <2> QED
    BY <1>5, <1>6, <2>1, <2>6, <2>7 DEF Writers
<1> QED
  BY <1>7, <1>8, <1>9, <1>10, <1>11, <1>12

LEMMA OtherSaves ==
    ASSUME TypeOK, SaveInv, AdminEdit \/ Crash
    PROVE  SaveInv'
<1> SUFFICES ASSUME ~mixed' PROVE SavesIn(template', lines', request')
  BY DEF SaveInv
<1>1. UNCHANGED <<template, lines, mixed>>
  BY DEF AdminEdit, ProviderEdit, ModelEdit, AddProvider, RemoveProvider, RenameProvider, AddModel,
         RemoveModel, RenameModel, Edit, Crash, db
<1>2. SavesIn(template, lines, request)
  BY <1>1 DEF SaveInv
<1>3. CASE AdminEdit
  <2>1. request' = [r \in Requests |-> [request[r] EXCEPT !.alone = FALSE]]
    BY <1>3 DEF AdminEdit, ProviderEdit, ModelEdit, AddProvider, RemoveProvider, RenameProvider,
                AddModel, RemoveModel, RenameModel, Edit
  <2>2. ASSUME NEW s \in Requests
        PROVE  Alike(request[s], request'[s])
    <3>1. request[s] \in Request
      BY DEF TypeOK
    <3> QED
      BY <2>1, <3>1 DEF Alike, Request
  <2>3. OneWriter(request')
    BY <1>2, <2>2 DEF SavesIn, OneWriter, Alike
  <2> QED
    BY <1>1, <1>2, <2>2, <2>3, AlikeKnows DEF SavesIn
<1>4. CASE Crash
  BY <1>1, <1>2, <1>4, IdleKnows DEF Crash, SavesIn, OneWriter, Writers
<1> QED
  BY <1>3, <1>4

\* As long as no two writers of the template overlapped, what an import reads
\* is the beginning of one save's list, whatever else runs, fails or crashes.
THEOREM ImportAlwaysOfOneSave == Spec => []ImportOfOneSave
<1>1. Init => SaveInv
  <2> SUFFICES ASSUME Init PROVE SaveInv
    OBVIOUS
  <2>1. template = 0 /\ lines = {} /\ \A r \in Requests : request[r] = Idle
    BY DEF Init
  <2> QED
    BY <2>1, IdleKnows DEF SaveInv, SavesIn, OneWriter, Writers, Told, LinesIn
<1>2. RegistryInv /\ SaveInv /\ [Next]_vars => SaveInv'
  <2> SUFFICES ASSUME TypeOK, Phases, SaveInv, [Next]_vars PROVE SaveInv'
    BY DEF RegistryInv
  <2>1. CASE UNCHANGED vars
    BY <2>1 DEF SaveInv, vars, db, history
  <2>2. CASE Next
    BY <2>2, SyncSaves, TemplateSaves, OtherSaves DEF Next
  <2> QED
    BY <2>1, <2>2
<1>3. SaveInv => ImportOfOneSave
  BY DEF SaveInv, SavesIn, Read, ImportOfOneSave
<1> QED
  BY <1>1, <1>2, <1>3, Invariance, PTL DEF Spec

=============================================================================
