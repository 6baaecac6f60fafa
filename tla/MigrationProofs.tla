-------------------------- MODULE MigrationProofs --------------------------
(***************************************************************************)
(* Proofs about Migration: whatever the old database holds and wherever the*)
(* process ends, no row is lost, none is hidden, and orders are kept.      *)
(***************************************************************************)
EXTENDS Migration, FiniteSetTheorems, TLAPS

(***************************************************************************)
(* The operators                                                           *)
(***************************************************************************)
\* A set of naturals with a bound has a greatest element: the least bound.
LEMMA MaxOfBounded ==
    ASSUME NEW S \in SUBSET Nat, NEW n \in Nat, S # {}, \A s \in S : s <= n
    PROVE  Max(S) \in S /\ \A s \in S : s <= Max(S)
<1> DEFINE R == OpToRel(<, Nat)
           T == {b \in Nat : \A s \in S : s <= b}
<1>1. \E b \in T : \A c \in T : <<c, b>> \notin R
  <2>1. T \subseteq Nat /\ T # {}
    OBVIOUS
  <2>2. IsWellFoundedOn(R, Nat)
    BY NatLessThanWellFounded, Zenon
  <2> QED
    BY <2>1, <2>2, WFMin, Zenon
<1>2. PICK b \in T : \A c \in T : ~(c < b)
  BY <1>1 DEF OpToRel
<1>3. b \in S
  <2> SUFFICES ASSUME b \notin S PROVE FALSE
    OBVIOUS
  <2>1. b # 0 /\ b - 1 \in Nat
    <3>1. PICK s \in S : TRUE
      OBVIOUS
    <3> QED
      BY <3>1
  <2>2. \A s \in S : s <= b - 1
    OBVIOUS
  <2> QED
    BY <2>1, <2>2, <1>2
<1>4. \A s \in S : b >= s
  OBVIOUS
<1> QED
  BY <1>3, <1>4 DEF Max

LEMMA LastIdIsLast ==
    ASSUME NEW rows \in SUBSET Row
    PROVE  LastId(rows) \in 0..MaxIds /\ \A r \in rows : r.id <= LastId(rows)
<1>1. CASE rows = {}
  BY <1>1, MigrationAssumption DEF LastId, MigrationAssumption
<1>2. CASE rows # {}
  <2> DEFINE S == {r.id : r \in rows}
  <2>1. S \in SUBSET Nat /\ S # {} /\ (\A s \in S : s <= MaxIds) /\ MaxIds \in Nat
    BY <1>2, MigrationAssumption DEF Row, MigrationAssumption
  <2> HIDE DEF S
  <2>2. Max(S) \in S /\ \A s \in S : s <= Max(S)
    BY <2>1, MaxOfBounded
  <2> QED
    BY <1>2, <2>1, <2>2 DEF LastId, S, Row
<1> QED
  BY <1>1, <1>2

Priorities == 0..Cardinality(Models)

LEMMA ModelsFinite == IsFiniteSet(Models) /\ Models \subseteq Nat /\ Cardinality(Models) \in Nat
BY MigrationAssumption, FS_CardinalityType DEF MigrationAssumption

LEMMA ListFacts ==
    ASSUME NEW l \in Lists
    PROVE  /\ \E n \in Priorities : l \in [1..n -> Models]
           /\ \A i, j \in DOMAIN l : l[i] = l[j] => i = j
           /\ ToSet(l) \subseteq Models
BY ModelsFinite DEF Lists, SeqOf, IsInjective, Priorities, ToSet

\* A saved list's rows hold the places of its models.
LEMMA PlacesFacts ==
    ASSUME NEW l \in Lists
    PROVE  /\ PlacesIn(l) \in [ToSet(l) -> Priorities]
           /\ \A i \in DOMAIN l : PlacesIn(l)[l[i]] = i - 1
<1>1. PICK n \in Priorities : l \in [1..n -> Models]
  BY ListFacts
<1>2. \A i, j \in DOMAIN l : l[i] = l[j] => i = j
  BY ListFacts
<1>3. \A i \in DOMAIN l : (CHOOSE j \in DOMAIN l : l[j] = l[i]) = i
  BY <1>2
<1>4. \A i \in DOMAIN l : PlacesIn(l)[l[i]] = i - 1
  BY <1>3 DEF PlacesIn, ToSet
<1>5. \A m \in ToSet(l) : PlacesIn(l)[m] \in Priorities
  BY <1>1, <1>4, ModelsFinite DEF ToSet, Priorities
<1> QED
  BY <1>4, <1>5 DEF PlacesIn

\* Numbering the models of a device by id.
LEMMA CountFacts ==
    ASSUME NEW D \in SUBSET Models
    PROVE  /\ \A m \in D : Cardinality({n \in D : n < m}) \in Priorities
           /\ \A m, n \in D : m < n =>
                 Cardinality({k \in D : k < m}) <= Cardinality({k \in D : k < n})
<1> DEFINE Below(m) == {k \in D : k < m}
<1>1. \A m \in D : /\ IsFiniteSet(Below(m)) /\ Cardinality(Below(m)) \in Nat
                   /\ Cardinality(Below(m)) <= Cardinality(Models)
  <2> TAKE m \in D
  <2>1. Below(m) \in SUBSET Models
    OBVIOUS
  <2> HIDE DEF Below
  <2> QED
    BY <2>1, ModelsFinite, FS_Subset, FS_CardinalityType
<1>2. \A m, n \in D : m < n => Cardinality(Below(m)) <= Cardinality(Below(n))
  <2> TAKE m, n \in D
  <2> HAVE m < n
  <2>0. \A k \in D : k \in Nat
    BY ModelsFinite
  <2>1. Below(m) \in SUBSET Below(n)
    BY <2>0
  <2> HIDE DEF Below
  <2> QED
    BY <2>1, <1>1, FS_Subset
<1> QED
  BY <1>1, <1>2, ModelsFinite DEF Priorities

(***************************************************************************)
(* The inductive invariant                                                 *)
(***************************************************************************)
Started == {"columns", "priority", "backfill", "media", "serve"}

\* What the pc says of the tables, and what the tables say of each other.
Shape ==
    /\ bindings = [d \in Devices |-> bindings[d]]
    /\ table.kind = "none" => table = NoTable
    /\ table.kind = "old" => legacy = NoTable /\ pc \in {"down", "schema", "check"}
    /\ pc = "create" => table = NoTable
    /\ pc = "copy" => table = NewTable
    /\ pc = "check" => table.kind # "none"
    /\ pc \in Started => table.kind = "new"
    /\ pc \in {"priority", "backfill", "media"} => behind = {}
    /\ pc \in {"backfill", "media"} => priority
    /\ table.kind = "new" => \A r \in table.rows : r.id <= given.template

\* Until a start is cut off, the old table is there only during the copy.
Whole == ~broken /\ pc \notin {"create", "copy"} => legacy = NoTable

\* Before it was numbered, and until it is, a device's list is in order of ids.
Sorted ==
    ~priority \/ pc = "backfill" =>
        \A d \in Devices : \A i, j \in DOMAIN order[d] : i < j => order[d][i] < order[d][j]

\* Without a migration foreign keys are enforced whenever rows are written.
Guarded ==
    ~migrated =>
        /\ pc \notin {"down", "schema"} => keys /\ pc \notin {"create", "copy"}
        /\ table.kind # "old" => \A r \in table.rows : r.provider \in media

MigrationInv == TypeOK /\ Shape /\ Whole /\ RowsKept /\ Sorted /\ OrderKept /\ Guarded

USE DEF MediaColumns, OtherColumns

LEMMA TablesType ==
    /\ NoTable \in Table /\ Unique(NoTable.rows)
    /\ NewTable \in Table /\ Unique(NewTable.rows)
BY DEF NoTable, NewTable, Table, Unique

LEMMA InitInv == Init => MigrationInv
<1> SUFFICES ASSUME Init PROVE MigrationInv
  OBVIOUS
<1> USE DEF Init
<1>1. table \in Table /\ Unique(table.rows) /\ table.rows \subseteq Row
  <2>1. CASE table = NoTable
    BY <2>1, TablesType DEF NoTable
  <2>2. CASE \E m \in SUBSET MediaColumns : table = [NewTable EXCEPT !.missing = m]
    BY <2>2 DEF NewTable, Table, Unique
  <2>3. CASE \E m \in SUBSET MediaColumns : \E rows \in OldRows :
                table = [kind |-> "old", missing |-> m, rows |-> rows]
    BY <2>3, OldRowsAssumption DEF OldRowsAssumption, Table
  <2> QED
    BY <2>1, <2>2, <2>3
<1>2. \A d \in Devices : bindings[d] \in [ToSet(order[d]) -> Priorities]
  <2> TAKE d \in Devices
  <2>1. PlacesIn(order[d]) \in [ToSet(order[d]) -> Priorities]
    BY PlacesFacts
  <2>2. 0 \in Priorities
    BY ModelsFinite DEF Priorities
  <2> QED
    BY <2>1, <2>2
<1>3. TypeOK
  <2>1. given \in [media : 0..MaxIds, template : 0..MaxIds] /\ media \subseteq 1..given.media
    BY MigrationAssumption DEF MigrationAssumption
  <2>2. edits \in 0..MaxEdits /\ crashes \in 0..MaxCrashes
    BY MigrationAssumption DEF MigrationAssumption
  <2>3. legacy \in Table /\ Unique(legacy.rows)
    BY TablesType
  <2> QED
    BY <1>1, <1>2, <2>1, <2>2, <2>3 DEF TypeOK, Priorities
<1>4. Shape
  <2>1. bindings = [d \in Devices |-> bindings[d]]
    OBVIOUS
  <2>2. table = NoTable \/ table.kind = "old" \/ (table.kind = "new" /\ table.rows = {})
    BY DEF NewTable
  <2> QED
    BY <2>1, <2>2 DEF Shape, NoTable, Started
<1>5. Whole /\ RowsKept /\ Guarded
  BY DEF Whole, RowsKept, Guarded, NoTable, NewTable
<1>6. Sorted
  BY DEF Sorted
<1>7. OrderKept
  <2> SUFFICES ASSUME NEW d \in Devices, NEW i \in DOMAIN order[d], NEW j \in DOMAIN order[d], i < j
               PROVE  Before(d, order[d][i], order[d][j])
    BY DEF OrderKept
  <2>1. i \in Int /\ j \in Int
    BY ListFacts DEF Priorities
  <2>2. CASE priority
    BY <2>1, <2>2, PlacesFacts DEF Before
  <2>3. CASE ~priority
    BY <2>1, <2>3 DEF Before, ToSet
  <2> QED
    BY <2>2, <2>3
<1> QED
  BY <1>3, <1>4, <1>5, <1>6, <1>7 DEF MigrationInv

(***************************************************************************)
(* Every step preserves it                                                 *)
(***************************************************************************)
\* What a start does, step by step.
LEMMA StartTypes ==
    ASSUME TypeOK, Shape, StartStep
    PROVE  TypeOK' /\ Shape'
<1> USE DEF TypeOK, Shape, Started, templates, devices, history, NoTable, NewTable
<1>1. CASE Start
  BY <1>1 DEF Start
<1>2. CASE Schema
  BY <1>2, TablesType DEF Schema
<1>3. CASE UpToDate
  BY <1>3 DEF UpToDate
<1>4. CASE Rename
  <2>1. table' = NoTable /\ legacy' = table /\ pc' = "create"
    BY <1>4 DEF Rename
  <2>2. table' \in Table /\ Unique(table'.rows) /\ legacy' \in Table /\ Unique(legacy'.rows)
    BY <2>1, TablesType
  <2>3. given' \in [media : 0..MaxIds, template : 0..MaxIds] /\ given'.media = given.media
    BY <1>4, MigrationAssumption DEF Rename, MigrationAssumption
  <2>4. table'.kind = "none" /\ table'.rows = {}
    BY <2>1
  <2>5. Unique(table.rows)' /\ Unique(legacy.rows)'
    BY <2>2
  <2>6. UNCHANGED <<media, behind, priority, bindings, calls, edits, crashes, order, owed, broken>>
        /\ keys' = FALSE /\ migrated' = TRUE /\ pc = "check"
    BY <1>4 DEF Rename
  <2>7. TypeOK'
    BY <2>1, <2>2, <2>3, <2>5, <2>6
  <2>8. Shape'
    BY <2>1, <2>4, <2>6
  <2> QED
    BY <2>7, <2>8
<1>5. CASE Create
  BY <1>5, TablesType DEF Create
<1>6. CASE Copy
  <2>1. legacy.rows \in SUBSET Row
    BY DEF Table
  <2>2. LastId(legacy.rows) \in 0..MaxIds /\ \A r \in legacy.rows : r.id <= LastId(legacy.rows)
    BY <2>1, LastIdIsLast
  <2>3. CASE legacy.missing = {}
    <3>1. table' = [table EXCEPT !.rows = legacy.rows] /\ legacy' = NoTable /\ table = NewTable
          /\ given' = [given EXCEPT !.template = LastId(legacy.rows)]
      BY <1>6, <2>3 DEF Copy
    <3>2. table' \in Table /\ Unique(table'.rows) /\ legacy' \in Table /\ Unique(legacy'.rows)
          /\ table'.kind = "new" /\ table'.rows = legacy.rows
      BY <3>1, <2>1, TablesType DEF Table
    <3>3. given' \in [media : 0..MaxIds, template : 0..MaxIds] /\ given'.media = given.media
          /\ given'.template = LastId(legacy.rows)
      BY <3>1, <2>2
    <3> QED
      BY <1>6, <2>2, <2>3, <3>2, <3>3 DEF Copy
  <2>4. CASE legacy.missing # {}
    BY <1>6, <2>4 DEF Copy
  <2> QED
    BY <2>3, <2>4
<1>7. CASE EnsureColumn
  BY <1>7 DEF EnsureColumn
<1>8. CASE EnsurePriority
  BY <1>8 DEF EnsurePriority
<1>9. CASE Backfill
  <2>1. \A d \in Devices : DOMAIN bindings[d] = ToSet(order[d])
    OBVIOUS
  <2>2. \A d \in Devices : DOMAIN bindings[d] \in SUBSET Models
    BY <2>1, ListFacts
  <2>3. ASSUME NEW d \in Devices
        PROVE  bindings'[d] \in [ToSet(order[d]) -> Priorities]
    <3>1. bindings'[d] = [m \in DOMAIN bindings[d] |->
                             Cardinality({n \in DOMAIN bindings[d] : n < m})]
      BY <1>9 DEF Backfill
    <3>2. \A m \in DOMAIN bindings[d] : Cardinality({n \in DOMAIN bindings[d] : n < m}) \in Priorities
      BY <2>2, CountFacts
    <3>3. DOMAIN bindings[d] = ToSet(order[d])
      BY <2>1
    <3> HIDE DEF TypeOK, Shape
    <3> QED
      BY <3>1, <3>2, <3>3
  <2>4. bindings' = [d \in Devices |-> bindings'[d]]
    BY <1>9 DEF Backfill
  <2> QED
    BY <1>9, <2>3, <2>4 DEF Backfill, Priorities
<1>10. CASE EnsureMediaColumn
  BY <1>10 DEF EnsureMediaColumn, Table
<1> QED
  BY <1>1, <1>2, <1>3, <1>4, <1>5, <1>6, <1>7, <1>8, <1>9, <1>10 DEF StartStep

\* The requests' calls are such.
LEMMA CallTypes ==
    ASSUME TypeOK, Shape, NEW c \in Call, Accept(c)
    PROVE  TypeOK' /\ Shape'
BY MigrationAssumption
   DEF TypeOK, Shape, Started, templates, devices, history, Accept, MigrationAssumption

LEMMA ServeTypes ==
    ASSUME TypeOK, Shape, Serve
    PROVE  TypeOK' /\ Shape'
<1> USE DEF templates, devices, history
<1>1. \A r \in table.rows : r \in Row
  BY DEF TypeOK, Table
<1>2. media \subseteq 1..MaxIds
  BY MigrationAssumption DEF TypeOK, MigrationAssumption
<1>3. ASSUME AddMediaProvider PROVE TypeOK' /\ Shape'
  BY <1>3, MigrationAssumption
     DEF TypeOK, Shape, Started, AddMediaProvider, InsertMedia, MigrationAssumption
<1>4. ASSUME NEW p \in media, DeleteMediaProvider(p) PROVE TypeOK' /\ Shape'
  <2>1. table' \in Table /\ Unique(table.rows)' /\ table'.rows \subseteq table.rows
        /\ table'.kind = table.kind /\ table'.missing = table.missing
    BY <1>4 DEF TypeOK, DeleteMediaProvider, RemoveMedia, Table, Unique
  <2>2. media' \subseteq 1..given'.media
    BY <1>4 DEF TypeOK, DeleteMediaProvider, RemoveMedia
  <2> QED
    BY <1>4, <2>1, <2>2, MigrationAssumption
       DEF TypeOK, Shape, Started, DeleteMediaProvider, NoTable, NewTable, MigrationAssumption
<1>5. ASSUME NEW p \in media, NEW k \in Keys, CreateTemplate(k, p) PROVE TypeOK' /\ Shape'
  BY <1>2, <1>5, CallTypes, MigrationAssumption DEF CreateTemplate, Call, MigrationAssumption
<1>6. ASSUME NEW p \in media, NEW k \in Keys, NEW r \in Visible, UpdateTemplate(r, k, p)
      PROVE TypeOK' /\ Shape'
  BY <1>1, <1>2, <1>6, CallTypes, MigrationAssumption
     DEF UpdateTemplate, Call, Row, Visible, MigrationAssumption
<1>7. ASSUME NEW r \in Visible, DeleteTemplate(r) PROVE TypeOK' /\ Shape'
  BY <1>1, <1>7, CallTypes, MigrationAssumption
     DEF DeleteTemplate, Call, Row, Visible, MigrationAssumption
<1>8. ASSUME NEW c \in calls, InsertTemplate(c) PROVE TypeOK' /\ Shape'
  <2>1. c \in Call /\ pc = "serve" /\ table.kind = "new"
    BY DEF TypeOK, Shape, Started
  <2>2. CASE ~Allowed(c, table.rows)
    BY <1>8, <2>1, <2>2 DEF TypeOK, Shape, Started, InsertTemplate
  <2>3. CASE Allowed(c, table.rows)
    <3> DEFINE new == [id |-> given'.template, key |-> c.key,
                       provider |-> c.provider, since |-> TRUE]
    <3>1. /\ given' = [given EXCEPT !.template = @ + 1] /\ given.template < MaxIds
          /\ table' = [table EXCEPT !.rows = @ \cup {new}]
      BY <1>8, <2>3 DEF InsertTemplate
    <3>2. given'.template \in 1..MaxIds /\ given' \in [media : 0..MaxIds, template : 0..MaxIds]
          /\ given'.media = given.media /\ given'.template = given.template + 1
      BY <3>1, MigrationAssumption DEF TypeOK, MigrationAssumption
    <3>3. new \in Row
      BY <2>1, <3>2 DEF Row, Call
    <3>4. \A r \in table.rows : r.id < given'.template /\ r.key # c.key
      BY <1>1, <2>1, <2>3, <3>2, MigrationAssumption DEF TypeOK, Shape, Allowed, Row, MigrationAssumption
    <3>5. table' \in Table /\ Unique(table.rows)' /\ table'.kind = "new" /\ table'.missing = table.missing
      <4>1. table.rows \subseteq Row /\ Unique(table.rows) /\ given'.template \in Nat
        BY <1>1, <3>2 DEF TypeOK
      <4>2. Unique(table.rows \cup {new})
        <5>1. new.id = given'.template /\ new.key = c.key
          OBVIOUS
        <5> HIDE DEF new
        <5> QED
          BY <3>4, <4>1, <5>1 DEF Unique, Row
      <4> HIDE DEF new
      <4> QED
        BY <2>1, <3>1, <3>3, <4>2 DEF TypeOK, Table
    <3>6. \A r \in table'.rows : r.id <= given'.template
      BY <3>1, <3>2, <3>4, <1>1 DEF TypeOK, Table, Row
    <3> QED
      BY <1>8, <2>1, <3>2, <3>5, <3>6 DEF TypeOK, Shape, Started, InsertTemplate
  <2> QED
    BY <2>2, <2>3
<1>9. ASSUME NEW c \in calls, WriteTemplate(c) PROVE TypeOK' /\ Shape'
  <2>1. c \in Call /\ pc = "serve" /\ table.kind = "new"
    BY DEF TypeOK, Shape, Started
  <2>2. table' \in Table /\ Unique(table.rows)' /\ table'.kind = "new" /\ table'.missing = table.missing
        /\ \A r \in table'.rows : r.id <= given.template
    <3>1. CASE table' = table
      BY <2>1, <3>1 DEF TypeOK, Shape
    <3>2. CASE table' # table
      <4> DEFINE new == [id |-> c.id, key |-> c.key, provider |-> c.provider, since |-> TRUE]
      <4>1. PICK r \in table.rows : r.id = c.id
        BY <1>9, <3>2 DEF WriteTemplate, Others
      <4>2. /\ table' = [table EXCEPT !.rows = Others(c) \cup {new}]
            /\ Allowed(c, Others(c))
        BY <1>9, <3>2 DEF WriteTemplate
      <4>3. new \in Row /\ new.id <= given.template
        BY <1>1, <2>1, <4>1 DEF Row, Call, Shape
      <4>4. Others(c) \subseteq table.rows /\ \A o \in Others(c) : o.id # c.id /\ o.key # c.key
        BY <4>2 DEF Others, Allowed
      <4>5. Unique(Others(c) \cup {new})
        <5>1. new.id = c.id /\ new.key = c.key
          OBVIOUS
        <5> HIDE DEF new
        <5> QED
          BY <4>4, <5>1 DEF Unique, TypeOK
      <4> HIDE DEF new
      <4> QED
        BY <2>1, <4>2, <4>3, <4>4, <4>5 DEF TypeOK, Shape, Table
    <3> QED
      BY <3>1, <3>2
  <2> QED
    BY <1>9, <2>1, <2>2 DEF TypeOK, Shape, Started, WriteTemplate
<1>10. ASSUME NEW c \in calls, RemoveTemplate(c) PROVE TypeOK' /\ Shape'
  <2>1. pc = "serve" /\ table.kind = "new"
    BY DEF TypeOK, Shape, Started
  <2>2. table' \in Table /\ Unique(table.rows)' /\ table'.kind = "new" /\ table'.missing = table.missing
        /\ \A r \in table'.rows : r.id <= given.template
    BY <1>10, <2>1 DEF TypeOK, Shape, RemoveTemplate, Others, Table, Unique
  <2> QED
    BY <1>10, <2>1, <2>2 DEF TypeOK, Shape, Started, RemoveTemplate
<1>11. ASSUME NEW d \in Devices, NEW l \in Lists, SetBindings(d, l) PROVE TypeOK' /\ Shape'
  <2>1. order' = [order EXCEPT ![d] = l] /\ bindings' = [bindings EXCEPT ![d] = PlacesIn(l)]
    BY <1>11 DEF SetBindings
  <2>2. order' \in [Devices -> Lists] /\ bindings' = [e \in Devices |-> bindings'[e]]
    BY <2>1 DEF TypeOK, Shape
  <2>3. \A e \in Devices : bindings'[e] \in [ToSet(order'[e]) -> Priorities]
    BY <2>1, PlacesFacts DEF TypeOK, Shape, Priorities
  <2> QED
    BY <1>11, <2>2, <2>3, MigrationAssumption
       DEF TypeOK, Shape, Started, SetBindings, Priorities, MigrationAssumption
<1> QED
  BY <1>3, <1>4, <1>5, <1>6, <1>7, <1>8, <1>9, <1>10, <1>11 DEF Serve, MediaRequest, Statement

LEMMA TypesStep ==
    ASSUME TypeOK, Shape, [Next]_vars
    PROVE  TypeOK' /\ Shape'
<1>1. CASE Crash
  BY <1>1, MigrationAssumption
     DEF TypeOK, Shape, Started, Crash, templates, devices, MigrationAssumption
<1>2. CASE UNCHANGED vars
  BY <1>2 DEF TypeOK, Shape, Started, vars, templates, devices, history
<1> QED
  BY <1>1, <1>2, StartTypes, ServeTypes DEF Next

\* Only the copy empties the renamed table, and then its rows are served.
LEMMA KeptStep ==
    ASSUME TypeOK, Shape, Whole, RowsKept, [Next]_vars
    PROVE  Whole' /\ RowsKept'
<1> USE DEF Whole, RowsKept, templates, devices, history
<1>1. CASE StartStep
  <2>1. CASE Start \/ UpToDate \/ EnsureColumn \/ EnsurePriority \/ Backfill
    BY <2>1 DEF Start, UpToDate, EnsureColumn, EnsurePriority, Backfill
  <2>6. CASE EnsureMediaColumn
    <3>1. table'.rows = table.rows /\ pc = "media" /\ pc' \in {"media", "serve"}
          /\ UNCHANGED <<legacy, owed, broken>>
      BY <2>6 DEF EnsureMediaColumn, TypeOK, Table
    <3> QED
      BY <3>1 DEF NoTable
  <2>2. CASE Schema
    BY <2>2 DEF Schema, Shape, NoTable, NewTable
  <2>3. CASE Rename
    BY <2>3 DEF Rename, Shape, NoTable
  <2>4. CASE Create
    BY <2>4 DEF Create, Shape, NoTable, NewTable
  <2>5. CASE Copy
    <3>1. CASE legacy.missing = {}
      <4>1. table' = [NewTable EXCEPT !.rows = legacy.rows] /\ legacy' = NoTable /\ owed' = owed
            /\ pc' = "columns"
        BY <2>5, <3>1 DEF Copy, Shape
      <4>2. owed \subseteq legacy.rows
        BY <2>5 DEF Copy, Shape, NewTable
      <4>3. table'.rows = legacy.rows
        BY <4>1 DEF NewTable
      <4> QED
        BY <4>1, <4>2, <4>3
    <3>2. CASE legacy.missing # {}
      BY <2>5, <3>2 DEF Copy
    <3> QED
      BY <3>1, <3>2
  <2> QED
    BY <1>1, <2>1, <2>2, <2>3, <2>4, <2>5, <2>6 DEF StartStep
<1>2. CASE Serve
  <2>0. pc = "serve"
    BY <1>2 DEF TypeOK, Serve, MediaRequest, Statement, AddMediaProvider, DeleteMediaProvider,
                CreateTemplate, UpdateTemplate, DeleteTemplate, Accept, SetBindings
  <2>1. UNCHANGED <<pc, legacy, broken>>
    BY <1>2 DEF Serve, MediaRequest, Statement, AddMediaProvider, DeleteMediaProvider,
                CreateTemplate, UpdateTemplate, DeleteTemplate, Accept, SetBindings,
                InsertTemplate, WriteTemplate, RemoveTemplate
  <2>2. \/ UNCHANGED <<table, owed>>
        \/ owed' \subseteq owed \cap (table'.rows \cup legacy.rows)
        \/ owed' = owed /\ table.rows \subseteq table'.rows
    <3>1. CASE MediaRequest
      BY <3>1 DEF MediaRequest, AddMediaProvider, DeleteMediaProvider,
                  CreateTemplate, UpdateTemplate, DeleteTemplate, Accept
    <3>2. CASE Statement
      <4>1. ASSUME NEW c \in calls, InsertTemplate(c)
            PROVE  owed' = owed /\ table.rows \subseteq table'.rows
        <5>1. owed' = owed /\ (table' = table \/ \E x : table' = [table EXCEPT !.rows = @ \cup {x}])
          BY <4>1 DEF InsertTemplate
        <5> QED
          BY <5>1 DEF TypeOK, Table
      <4>2. ASSUME NEW c \in calls, WriteTemplate(c)
            PROVE  owed' \subseteq owed \cap (table'.rows \cup legacy.rows)
        BY <4>2 DEF WriteTemplate
      <4>3. ASSUME NEW c \in calls, RemoveTemplate(c)
            PROVE  owed' \subseteq owed \cap (table'.rows \cup legacy.rows)
        BY <4>3 DEF RemoveTemplate, TypeOK, Table
      <4> QED
        BY <3>2, <4>1, <4>2, <4>3 DEF Statement
    <3>3. ASSUME NEW d \in Devices, NEW l \in Lists, SetBindings(d, l) PROVE UNCHANGED <<table, owed>>
      BY <3>3 DEF SetBindings
    <3> QED
      BY <1>2, <3>1, <3>2, <3>3 DEF Serve
  <2>3. ~broken => legacy.rows = {}
    BY <2>0 DEF NoTable
  <2> QED
    BY <2>0, <2>1, <2>2, <2>3
<1>3. CASE Crash
  BY <1>3 DEF Crash
<1>4. CASE UNCHANGED vars
  BY <1>4 DEF vars
<1> QED
  BY <1>1, <1>2, <1>3, <1>4 DEF Next

\* A model keeps its place: in the list that was saved, or among the ids.
LEMMA OrderStep ==
    ASSUME TypeOK, Shape, Sorted, OrderKept, [Next]_vars
    PROVE  Sorted' /\ OrderKept'
<1> USE DEF templates, devices, history
<1>1. \A d \in Devices : /\ DOMAIN bindings[d] = ToSet(order[d])
                         /\ order[d] \in Lists /\ DOMAIN order[d] \subseteq Int
                         /\ \A i \in DOMAIN order[d] : order[d][i] \in ToSet(order[d])
                         /\ ToSet(order[d]) \subseteq Models
  <2> TAKE d \in Devices
  <2>1. order[d] \in Lists /\ DOMAIN bindings[d] = ToSet(order[d])
    BY DEF TypeOK
  <2>2. PICK n \in Priorities : order[d] \in [1..n -> Models]
    BY <2>1, ListFacts
  <2> QED
    BY <2>1, <2>2, ListFacts, ModelsFinite DEF ToSet, Priorities
<1>2. CASE Backfill
  <2>1. order' = order /\ priority' = priority /\ pc' = "media" /\ pc = "backfill" /\ priority
        /\ bindings' = [d \in Devices |-> [m \in DOMAIN bindings[d] |->
                             Cardinality({n \in DOMAIN bindings[d] : n < m})]]
    BY <1>2 DEF Backfill, Shape
  <2>2. Sorted'
    BY <2>1 DEF Sorted
  <2>3. ASSUME NEW d \in Devices, NEW i \in DOMAIN order[d], NEW j \in DOMAIN order[d], i < j
        PROVE  Before(d, order[d][i], order[d][j])'
    <3>1. order[d][i] < order[d][j]
      BY <2>1, <2>3 DEF Sorted
    <3>2. DOMAIN bindings[d] \in SUBSET Models
          /\ order[d][i] \in DOMAIN bindings[d] /\ order[d][j] \in DOMAIN bindings[d]
      BY <1>1
    <3>3. /\ bindings'[d][order[d][i]] <= bindings'[d][order[d][j]]
          /\ bindings'[d][order[d][i]] \in Priorities /\ bindings'[d][order[d][j]] \in Priorities
      BY <2>1, <3>1, <3>2, CountFacts
    <3>4. order' = order
      BY <2>1
    <3> QED
      BY <3>1, <3>3, <3>4, ModelsFinite DEF Before, Priorities
  <2> QED
    BY <2>1, <2>2, <2>3 DEF OrderKept
<1>3. ASSUME NEW d \in Devices, NEW l \in Lists, SetBindings(d, l) PROVE Sorted' /\ OrderKept'
  <2>1. /\ order' = [order EXCEPT ![d] = l] /\ bindings' = [bindings EXCEPT ![d] = PlacesIn(l)]
        /\ priority' /\ pc' = "serve"
    BY <1>3 DEF SetBindings, TypeOK
  <2>2. Sorted'
    BY <2>1 DEF Sorted
  <2>3. order'[d] = l /\ bindings'[d] = PlacesIn(l)
        /\ \A e \in Devices \ {d} : order'[e] = order[e] /\ bindings'[e] = bindings[e]
    BY <2>1 DEF TypeOK, Shape
  <2>4. ASSUME NEW i \in DOMAIN l, NEW j \in DOMAIN l, i < j PROVE Before(d, l[i], l[j])'
    <3>1. PICK n \in Priorities : l \in [1..n -> Models]
      BY ListFacts
    <3>2. PlacesIn(l)[l[i]] = i - 1 /\ PlacesIn(l)[l[j]] = j - 1 /\ i \in Int /\ j \in Int
      BY <3>1, PlacesFacts, ModelsFinite DEF Priorities
    <3> QED
      BY <2>3, <2>4, <3>2 DEF Before
  <2>5. ASSUME NEW e \in Devices \ {d}, NEW i \in DOMAIN order[e], NEW j \in DOMAIN order[e], i < j
        PROVE  Before(e, order[e][i], order[e][j])'
    BY <2>3, <2>5 DEF Before, OrderKept
  <2> QED
    BY <2>2, <2>3, <2>4, <2>5 DEF OrderKept
<1>4. ASSUME UNCHANGED <<order, bindings>>, Sorted' PROVE Sorted' /\ OrderKept'
  BY <1>4 DEF OrderKept, Before
<1>5. CASE EnsurePriority
  BY <1>4, <1>5 DEF EnsurePriority, Sorted
<1>6. CASE StartStep /\ ~Backfill /\ ~EnsurePriority
  <2>1. UNCHANGED <<order, bindings, priority>> /\ pc' # "backfill"
    BY <1>6 DEF StartStep, Start, Schema, UpToDate, Rename, Create, Copy, EnsureColumn, EnsureMediaColumn
  <2> QED
    BY <1>4, <2>1 DEF Sorted
<1>7. CASE MediaRequest \/ Statement \/ Crash \/ UNCHANGED vars
  <2>1. UNCHANGED <<order, bindings, priority>> /\ (pc' = pc \/ pc' = "down")
    BY <1>7 DEF MediaRequest, Statement, AddMediaProvider, DeleteMediaProvider,
                CreateTemplate, UpdateTemplate, DeleteTemplate, Accept,
                InsertTemplate, WriteTemplate, RemoveTemplate, Crash, vars
  <2> QED
    BY <1>4, <2>1 DEF Sorted
<1> QED
  BY <1>2, <1>3, <1>5, <1>6, <1>7 DEF Next, Serve

\* A row is written only under a provider that is there, or by a process that
\* migrated.
LEMMA GuardedStep ==
    ASSUME TypeOK, Shape, Guarded, [Next]_vars
    PROVE  Guarded'
<1> USE DEF Guarded, templates, devices, history
<1>1. CASE StartStep
  <2>1. CASE Schema
    BY <2>1 DEF Schema, Shape, NoTable, NewTable
  <2>2. CASE Rename
    BY <2>2 DEF Rename
  <2>3. CASE Create \/ Copy
    BY <2>3 DEF Create, Copy
  <2>4. CASE Start \/ UpToDate \/ EnsureColumn \/ EnsurePriority \/ Backfill
    BY <2>4 DEF Start, UpToDate, EnsureColumn, EnsurePriority, Backfill
  <2>5. CASE EnsureMediaColumn
    <3>1. table'.rows = table.rows /\ table'.kind = table.kind
          /\ pc = "media" /\ pc' \in {"media", "serve"}
          /\ UNCHANGED <<media, keys, migrated>>
      BY <2>5 DEF EnsureMediaColumn, TypeOK, Table
    <3> QED
      BY <3>1
  <2> QED
    BY <1>1, <2>1, <2>2, <2>3, <2>4, <2>5 DEF StartStep
<1>2. CASE Serve
  <2>0. pc = "serve" /\ table.kind = "new"
    BY <1>2 DEF TypeOK, Serve, MediaRequest, Statement, AddMediaProvider, DeleteMediaProvider,
                CreateTemplate, UpdateTemplate, DeleteTemplate, Accept, SetBindings
  <2>1. UNCHANGED <<pc, keys, migrated>>
    BY <1>2 DEF Serve, MediaRequest, Statement, AddMediaProvider, DeleteMediaProvider,
                CreateTemplate, UpdateTemplate, DeleteTemplate, Accept, SetBindings,
                InsertTemplate, WriteTemplate, RemoveTemplate
  <2> SUFFICES ASSUME ~migrated PROVE \A r \in table'.rows : r.provider \in media'
    BY <2>0, <2>1
  <2>2. keys /\ \A r \in table.rows : r.provider \in media
    BY <2>0
  <2>3. CASE MediaRequest
    <3>1. CASE AddMediaProvider
      BY <2>2, <3>1 DEF AddMediaProvider, InsertMedia
    <3>2. ASSUME NEW p \in media, DeleteMediaProvider(p)
          PROVE  \A r \in table'.rows : r.provider \in media'
      BY <2>2, <3>2 DEF DeleteMediaProvider, RemoveMedia, TypeOK, Table
    <3>3. CASE UNCHANGED <<table, media>>
      BY <2>2, <3>3
    <3> QED
      BY <2>3, <3>1, <3>2, <3>3 DEF MediaRequest, CreateTemplate, UpdateTemplate, DeleteTemplate, Accept
  <2>4. CASE Statement
    <3>1. ASSUME NEW c \in calls, InsertTemplate(c) \/ WriteTemplate(c)
          PROVE  \A r \in table'.rows : r.provider \in media'
      <4>1. media' = media
        BY <3>1 DEF InsertTemplate, WriteTemplate
      <4>2. \/ table' = table
            \/ \E id : /\ table'.rows \subseteq table.rows \cup
                            {[id |-> id, key |-> c.key, provider |-> c.provider, since |-> TRUE]}
                       /\ c.provider \in media
        <5>1. CASE InsertTemplate(c)
          BY <2>2, <5>1 DEF InsertTemplate, Allowed, TypeOK, Table
        <5>2. CASE WriteTemplate(c)
          BY <2>2, <5>2 DEF WriteTemplate, Allowed, Others, TypeOK, Table
        <5> QED
          BY <3>1, <5>1, <5>2
      <4> QED
        BY <2>2, <4>1, <4>2
    <3>2. ASSUME NEW c \in calls, RemoveTemplate(c)
          PROVE  \A r \in table'.rows : r.provider \in media'
      BY <2>2, <3>2 DEF RemoveTemplate, Others, TypeOK, Table
    <3> QED
      BY <2>4, <3>1, <3>2 DEF Statement
  <2>5. ASSUME NEW d \in Devices, NEW l \in Lists, SetBindings(d, l)
        PROVE  \A r \in table'.rows : r.provider \in media'
    BY <2>2, <2>5 DEF SetBindings
  <2> QED
    BY <1>2, <2>3, <2>4, <2>5 DEF Serve
<1>3. CASE Crash \/ UNCHANGED vars
  BY <1>3 DEF Crash, vars
<1> QED
  BY <1>1, <1>2, <1>3 DEF Next

(***************************************************************************)
(* The theorems                                                            *)
(***************************************************************************)
\* The inductive invariant of Migration: what the tables are at each step of a
\* start, and what every step leaves of them.
THEOREM Invariance == Spec => []MigrationInv
<1>1. MigrationInv /\ [Next]_vars => MigrationInv'
  BY TypesStep, KeptStep, OrderStep, GuardedStep DEF MigrationInv
<1> QED
  BY <1>1, InitInv, PTL DEF Spec

\* Types; and a schema that is served is complete, whatever was interrupted.
THEOREM TypeCorrect == Spec => []TypeOK
<1>1. MigrationInv => TypeOK
  BY DEF MigrationInv
<1> QED
  BY <1>1, Invariance, PTL

\* No crash and no failed start loses a row of the old schema
\* (_migrate_media_template_provider_fk).
THEOREM RowsAlwaysKept == Spec => []RowsKept
<1>1. MigrationInv => RowsKept
  BY DEF MigrationInv
<1> QED
  BY <1>1, Invariance, PTL

\* The models of a device stay in order across the migration of its bindings
\* (_ensure_device_binding_priority_column, get_device_model_ids).
THEOREM OrderAlwaysKept == Spec => []OrderKept
<1>1. MigrationInv => OrderKept
  BY DEF MigrationInv
<1> QED
  BY <1>1, Invariance, PTL

\* In a database that was not migrated no template is hidden from its list by a
\* provider that is gone (delete_media_provider, list_media_templates).
THEOREM NothingEverHidden == Spec => []NothingHidden
<1>1. MigrationInv => NothingHidden
  BY DEF MigrationInv, Guarded, NothingHidden, Visible, Shape, Started
<1> QED
  BY <1>1, Invariance, PTL
=============================================================================
