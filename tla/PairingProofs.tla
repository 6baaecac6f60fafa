--------------------------- MODULE PairingProofs ---------------------------
(***************************************************************************)
(* Proofs about Pairing for every number of devices, tokens, machines,     *)
(* request threads, registrations and crashes.                             *)
(***************************************************************************)
EXTENDS Pairing, TLAPS

LEMMA Types ==
    /\ Idle \in Thread /\ Unpaired \in Machine /\ NoRows \in Store
    /\ \A m \in Machines : machine \in [Machines -> Machine] => Keep(m) \in Machine
BY PairingAssumption DEF Idle, Thread, HandlerPc, Unpaired, Machine, NoRows, Store, Keep

LEMMA PairingInit == Init => PairingInv
<1> SUFFICES ASSUME Init PROVE PairingInv
  OBVIOUS
<1>1. TypeOK
  BY Types DEF Init, TypeOK, Idle
<1>2. StoreKnows
  BY DEF Init, StoreKnows, NoRows
<1>3. HandlerKnows /\ NoLateReuse
  BY DEF Init, HandlerKnows, NoLateReuse, Idle
<1>4. RegisteredKnown
  BY DEF Init, RegisteredKnown, Unpaired
<1>5. QED
  BY <1>1, <1>2, <1>3, <1>4 DEF PairingInv

\* A thread that answers an error leaves the tables alone and its machine with
\* what it had.
LEMMA FailKeeps ==
    ASSUME PairingInv, NEW h \in Handlers, Fail(h),
           UNCHANGED <<db, disk, issued, expired, syncs, spent, lost, crashes>>
    PROVE  PairingInv'
<1> USE DEF PairingInv
<1>1. handler' = [handler EXCEPT ![h] = Idle]
      /\ machine' = [m \in Machines |-> IF Waits(m, h) THEN Keep(m) ELSE machine[m]]
  BY DEF Fail, Rest
<1>2. TypeOK'
  <2>1. handler' \in [Handlers -> Thread] /\ machine' \in [Machines -> Machine]
    BY <1>1, Types DEF TypeOK
  <2>2. QED
    BY <1>1, <2>1 DEF TypeOK, Idle
<1>3. StoreKnows'
  BY DEF StoreKnows
<1>4. HandlerKnows'
  BY <1>1 DEF TypeOK, HandlerKnows, Recorded, Idle
<1>5. RegisteredKnown'
  <2>1. \A m \in Machines : machine'[m].device = machine[m].device /\ machine'[m].sync = machine[m].sync
    BY <1>1 DEF TypeOK, Machine, Keep
  <2>2. QED
    BY <2>1 DEF RegisteredKnown, Recorded
<1>6. NoLateReuse'
  BY <1>1 DEF TypeOK, NoLateReuse, Idle
<1>7. QED
  BY <1>2, <1>3, <1>4, <1>5, <1>6

LEMMA PairingNext == PairingInv /\ [Next]_vars => PairingInv'
<1> SUFFICES ASSUME PairingInv, [Next]_vars PROVE PairingInv'
  OBVIOUS
<1> USE DEF PairingInv
<1>1. ASSUME NEW t \in Tokens, NEW d \in Devices, IssueToken(t, d) PROVE PairingInv'
  <2>1. TypeOK'
    BY <1>1, PairingAssumption DEF IssueToken, TypeOK, Store
  <2>2. StoreKnows'
    BY <1>1, PairingAssumption DEF IssueToken, TypeOK, StoreKnows, Store
  <2>3. HandlerKnows'
    BY <1>1, PairingAssumption DEF IssueToken, TypeOK, HandlerKnows, Store, Recorded, StoreKnows
  <2>4. RegisteredKnown'
    BY <1>1, PairingAssumption DEF IssueToken, TypeOK, RegisteredKnown, Store, Recorded
  <2>5. NoLateReuse'
    BY <1>1, PairingAssumption DEF IssueToken, TypeOK, NoLateReuse
  <2>6. QED
    BY <2>1, <2>2, <2>3, <2>4, <2>5
<1>2. ASSUME NEW d \in Devices, DeleteDevice(d) PROVE PairingInv'
  <2>1. TypeOK'
    BY <1>2, PairingAssumption DEF DeleteDevice, TypeOK, Store
  <2>2. StoreKnows'
    BY <1>2, PairingAssumption DEF DeleteDevice, TypeOK, StoreKnows, Store
  <2>3. HandlerKnows'
    BY <1>2, PairingAssumption DEF DeleteDevice, TypeOK, HandlerKnows, Store, Recorded, StoreKnows
  <2>4. RegisteredKnown'
    BY <1>2, PairingAssumption DEF DeleteDevice, TypeOK, RegisteredKnown, Store, Recorded, StoreKnows
  <2>5. NoLateReuse'
    BY <1>2, PairingAssumption DEF DeleteDevice, TypeOK, NoLateReuse
  <2>6. QED
    BY <2>1, <2>2, <2>3, <2>4, <2>5
<1>3. ASSUME NEW t \in Tokens, Expire(t) PROVE PairingInv'
  <2>1. TypeOK'
    BY <1>3, PairingAssumption DEF Expire, TypeOK
  <2>2. StoreKnows'
    BY <1>3, PairingAssumption DEF Expire, TypeOK, StoreKnows
  <2>3. HandlerKnows'
    BY <1>3, PairingAssumption DEF Expire, TypeOK, HandlerKnows, Recorded
  <2>4. RegisteredKnown'
    BY <1>3, PairingAssumption DEF Expire, TypeOK, RegisteredKnown, Recorded
  <2>5. NoLateReuse'
    BY <1>3, PairingAssumption DEF Expire, TypeOK, NoLateReuse
  <2>6. QED
    BY <2>1, <2>2, <2>3, <2>4, <2>5
<1>4. ASSUME NEW m \in Machines, NEW h \in Handlers, NEW t \in Tokens, Register(m, h, t)
      PROVE  PairingInv'
  <2>1. TypeOK'
    <3>1. [Idle EXCEPT !.pc = "select", !.token = t, !.late = (t \in spent)] \in Thread
      <4> DEFINE late == (t \in spent)
      <4>1. late \in BOOLEAN
        OBVIOUS
      <4> HIDE DEF late
      <4>2. [Idle EXCEPT !.pc = "select", !.token = t, !.late = late] \in Thread
        BY <4>1, Types DEF Thread, HandlerPc
      <4>3. QED
        BY <4>2 DEF late
    <3>2. machine' \in [Machines -> Machine]
      BY <1>4 DEF Register, TypeOK, Machine
    <3>3. QED
      BY <1>4, <3>1, <3>2 DEF Register, TypeOK, Idle
  <2>2. StoreKnows'
    BY <1>4, PairingAssumption DEF Register, TypeOK, StoreKnows
  <2>3. HandlerKnows'
    BY <1>4, PairingAssumption DEF Register, TypeOK, HandlerKnows, Idle, Thread
  <2>4. RegisteredKnown'
    BY <1>4, PairingAssumption DEF Register, TypeOK, RegisteredKnown, Machine, Recorded
  <2>5. NoLateReuse'
    BY <1>4, PairingAssumption DEF Register, TypeOK, NoLateReuse, Idle, Thread
  <2>6. QED
    BY <2>1, <2>2, <2>3, <2>4, <2>5
<1>5. ASSUME NEW m \in Machines, GiveUp(m) PROVE PairingInv'
  <2>1. TypeOK'
    BY <1>5, PairingAssumption DEF GiveUp, TypeOK, Keep, Machine
  <2>2. StoreKnows'
    BY <1>5, PairingAssumption DEF GiveUp, TypeOK, StoreKnows
  <2>3. HandlerKnows'
    BY <1>5, PairingAssumption DEF GiveUp, TypeOK, HandlerKnows, Recorded
  <2>4. RegisteredKnown'
    BY <1>5, PairingAssumption DEF GiveUp, TypeOK, RegisteredKnown, Keep, Machine, Recorded
  <2>5. NoLateReuse'
    BY <1>5, PairingAssumption DEF GiveUp, TypeOK, NoLateReuse
  <2>6. QED
    BY <2>1, <2>2, <2>3, <2>4, <2>5
<1>6. ASSUME NEW h \in Handlers, HandlerStep(h) PROVE PairingInv'
  <2>1. CASE SelectToken(h)
    <3>1. TypeOK'
      <4>1. db.owner[handler[h].token] \in Devices
        BY <2>1 DEF SelectToken, Usable, TypeOK, Store
      <4>2. handler' \in [Handlers -> Thread]
        <5>1. /\ handler \in [Handlers -> Thread]
              /\ handler' = [handler EXCEPT ![h] = [handler[h] EXCEPT !.pc = "mark",
                                                       !.device = db.owner[handler[h].token]]]
          BY <2>1 DEF SelectToken, TypeOK
        <5>2. [handler[h] EXCEPT !.pc = "mark", !.device = db.owner[handler[h].token]] \in Thread
          BY <4>1, <5>1 DEF Thread, HandlerPc
        <5>3. QED
          BY <5>1, <5>2
      <4>3. \A g \in Handlers : handler'[g] = handler[g] \/
                (handler'[g].token = handler[g].token /\ handler'[g].device \in Devices
                 /\ handler[g].pc = "select" /\ handler'[g].pc = "mark")
        BY <2>1, <4>1 DEF SelectToken, TypeOK, Thread
      <4>4. QED
        BY <2>1, <4>2, <4>3 DEF SelectToken, TypeOK
    <3>2. StoreKnows'
      BY <2>1, PairingAssumption DEF SelectToken, TypeOK, StoreKnows
    <3>3. HandlerKnows'
      BY <2>1, PairingAssumption DEF SelectToken, TypeOK, HandlerKnows, Thread, Recorded
    <3>4. RegisteredKnown'
      BY <2>1, PairingAssumption DEF SelectToken, TypeOK, RegisteredKnown, Recorded
    <3>5. NoLateReuse'
      BY <2>1, PairingAssumption DEF SelectToken, TypeOK, NoLateReuse, Usable, HandlerKnows, StoreKnows, Thread
    <3>6. QED
      BY <3>1, <3>2, <3>3, <3>4, <3>5
  <2>2. CASE RefuseToken(h)
    BY <2>2, FailKeeps DEF RefuseToken
  <2>3. CASE MarkUsed(h)
    <3>1. TypeOK'
      BY <2>3, PairingAssumption DEF MarkUsed, Step, TypeOK, Store, Thread, HandlerPc
    <3>2. StoreKnows'
      BY <2>3, PairingAssumption DEF MarkUsed, Step, TypeOK, StoreKnows, Store
    <3>3. HandlerKnows'
      BY <2>3, PairingAssumption DEF MarkUsed, Step, TypeOK, HandlerKnows, Store, Thread, Recorded
    <3>4. RegisteredKnown'
      BY <2>3, PairingAssumption DEF MarkUsed, Step, TypeOK, RegisteredKnown, Store, Recorded
    <3>5. NoLateReuse'
      BY <2>3, PairingAssumption DEF MarkUsed, Step, TypeOK, NoLateReuse, Thread
    <3>6. QED
      BY <3>1, <3>2, <3>3, <3>4, <3>5
  <2>4. CASE CommitToken(h)
    <3>1. TypeOK'
      BY <2>4, PairingAssumption DEF CommitToken, Step, TypeOK, Store, Thread, HandlerPc
    <3>2. StoreKnows'
      BY <2>4, PairingAssumption DEF CommitToken, Step, TypeOK, StoreKnows, Store, HandlerKnows
    <3>3. HandlerKnows'
      BY <2>4, PairingAssumption DEF CommitToken, Step, TypeOK, HandlerKnows, Store, Thread, Recorded
    <3>4. RegisteredKnown'
      BY <2>4, PairingAssumption DEF CommitToken, Step, TypeOK, RegisteredKnown, Store, Recorded
    <3>5. NoLateReuse'
      BY <2>4, PairingAssumption DEF CommitToken, Step, TypeOK, NoLateReuse, Thread
    <3>6. QED
      BY <3>1, <3>2, <3>3, <3>4, <3>5
  <2>5. CASE Activate(h)
    <3> DEFINE d == handler[h].device
    <3>1. /\ d \in Devices /\ handler[h].token \in Tokens /\ syncs' = syncs + 1 /\ syncs' \in Nat
          /\ handler' = [handler EXCEPT ![h].pc = "activated", ![h].sync = syncs']
          /\ UNCHANGED <<disk, machine, issued, expired, spent, lost, crashes>>
      BY <2>5 DEF Activate, TypeOK
    <3>2. \/ d \in db.gone /\ db' = db
          \/ db' = [db EXCEPT !.sync[d] = syncs', !.uses[handler[h].token] = @ + 1]
      BY <2>5 DEF Activate
    <3>3. /\ db' \in Store
          /\ db'.owner = db.owner /\ db'.used = db.used /\ db'.gone = db.gone
          /\ \A e \in Devices : e # d => db'.sync[e] = db.sync[e]
          /\ db'.sync[d] = syncs' \/ (d \in db.gone /\ db'.sync[d] = db.sync[d])
      <4>1. /\ db = [owner |-> db.owner, used |-> db.used, sync |-> db.sync,
                     gone |-> db.gone, uses |-> db.uses]
            /\ db.owner \in [Tokens -> Devices \cup {None}] /\ db.used \in SUBSET Tokens
            /\ db.sync \in [Devices -> Nat] /\ db.gone \in SUBSET Devices
            /\ db.uses \in [Tokens -> Nat] /\ db \in Store
        BY DEF TypeOK, Store
      <4>2. CASE d \in db.gone /\ db' = db
        BY <4>1, <4>2, <3>1
      <4>3. CASE db' = [db EXCEPT !.sync[d] = syncs', !.uses[handler[h].token] = @ + 1]
        <5>1. db' = [owner |-> db.owner, used |-> db.used, sync |-> [db.sync EXCEPT ![d] = syncs'],
                     gone |-> db.gone, uses |-> [db.uses EXCEPT ![handler[h].token] = @ + 1]]
          BY <4>1, <4>3
        <5>2. /\ [db.sync EXCEPT ![d] = syncs'] \in [Devices -> Nat]
              /\ [db.uses EXCEPT ![handler[h].token] = @ + 1] \in [Tokens -> Nat]
          BY <3>1, <4>1
        <5>3. QED
          BY <3>1, <4>1, <5>1, <5>2 DEF Store
      <4>4. QED
        BY <3>2, <4>2, <4>3
    <3>4. \A e \in Devices : disk.sync[e] \in Nat /\ db.sync[e] \in Nat /\ db'.sync[e] \in Nat
      BY <3>3 DEF TypeOK, Store
    <3>5. \A e \in Devices : db.sync[e] <= db'.sync[e] /\ db'.sync[e] <= syncs'
      BY <3>1, <3>3, <3>4 DEF TypeOK, StoreKnows
    <3>6. /\ handler' \in [Handlers -> Thread]
          /\ handler'[h].pc = "activated" /\ handler'[h].sync = syncs'
          /\ handler'[h].device = d /\ handler'[h].token = handler[h].token
          /\ handler'[h].late = handler[h].late
          /\ \A g \in Handlers : g # h => handler'[g] = handler[g]
      BY <3>1 DEF TypeOK, Thread, HandlerPc
    <3> HIDE DEF d
    <3>7. \A e \in Devices, s \in Nat : Recorded(db, e, s) => Recorded(db', e, s)
      BY <3>3, <3>4, <3>5 DEF Recorded
    <3>8. TypeOK'
      BY <2>5, <3>1, <3>3, <3>6 DEF TypeOK
    <3>9. StoreKnows'
      BY <3>1, <3>3, <3>4, <3>5 DEF StoreKnows, TypeOK
    <3>10. HandlerKnows'
      <4>1. Recorded(db', d, syncs')
        BY <3>1, <3>3 DEF Recorded
      <4>2. \A g \in Handlers : handler[g].sync \in Nat /\ (handler[g].pc \in {"activated", "reply"} => handler[g].device \in Devices)
        BY DEF TypeOK, Thread
      <4>3. handler[h].pc = "activate"
        BY <2>5 DEF Activate
      <4>4. QED
        BY <3>1, <3>3, <3>6, <3>7, <4>1, <4>2, <4>3 DEF HandlerKnows
    <3>11. RegisteredKnown'
      <4>1. \A m \in Machines : machine[m].sync \in Nat /\ machine[m].device \in Devices \cup {None}
        BY DEF TypeOK, Machine
      <4>2. QED
        BY <3>1, <3>7, <4>1 DEF RegisteredKnown
    <3>12. NoLateReuse'
      BY <2>5, <3>6 DEF Activate, NoLateReuse
    <3>13. QED
      BY <3>8, <3>9, <3>10, <3>11, <3>12
  <2>6. CASE CommitDevice(h)
    <3>1. TypeOK'
      BY <2>6, PairingAssumption DEF CommitDevice, Step, TypeOK, Store, Thread, HandlerPc
    <3>2. StoreKnows'
      BY <2>6, PairingAssumption DEF CommitDevice, Step, TypeOK, StoreKnows, Store
    <3>3. HandlerKnows'
      BY <2>6, PairingAssumption DEF CommitDevice, Step, TypeOK, HandlerKnows, Store, Thread, Recorded
    <3>4. RegisteredKnown'
      BY <2>6, PairingAssumption DEF CommitDevice, Step, TypeOK, RegisteredKnown, Store, Recorded
    <3>5. NoLateReuse'
      BY <2>6, PairingAssumption DEF CommitDevice, Step, TypeOK, NoLateReuse, Thread
    <3>6. QED
      BY <3>1, <3>2, <3>3, <3>4, <3>5
  <2>7. CASE Reply(h)
    <3> DEFINE saved == [req |-> None, device |-> handler[h].device, sync |-> handler[h].sync]
    <3>1. CASE Fail(h)
      BY <2>7, <3>1, FailKeeps DEF Reply
    <3>2. CASE ~Fail(h)
      <4>1. /\ handler' = [handler EXCEPT ![h] = Idle]
            /\ machine' = [m \in Machines |-> IF Waits(m, h) THEN saved ELSE machine[m]]
            /\ UNCHANGED <<db, disk, issued, expired, syncs, spent, lost, crashes>>
            /\ handler[h].pc = "reply"
        BY <2>7, <3>2 DEF Reply, Rest
      <4>2. handler' \in [Handlers -> Thread] /\ machine' \in [Machines -> Machine]
        <5>1. saved \in Machine
          BY <4>1 DEF TypeOK, Thread, Machine
        <5> HIDE DEF saved
        <5>2. QED
          BY <4>1, <5>1, Types DEF TypeOK
      <4>3. TypeOK'
        BY <4>1, <4>2 DEF TypeOK, Idle
      <4>4. StoreKnows'
        BY <4>1 DEF StoreKnows
      <4>5. HandlerKnows' /\ NoLateReuse'
        BY <4>1 DEF TypeOK, HandlerKnows, NoLateReuse, Recorded, Idle
      <4>6. RegisteredKnown'
        BY <4>1 DEF RegisteredKnown, HandlerKnows, Recorded
      <4>7. QED
        BY <4>3, <4>4, <4>5, <4>6
    <3>3. QED
      BY <3>1, <3>2
  <2>8. QED
    BY <1>6, <2>1, <2>2, <2>3, <2>4, <2>5, <2>6, <2>7 DEF HandlerStep
<1>7. CASE OtherCommit
  <2>1. TypeOK'
    BY <1>7, PairingAssumption DEF OtherCommit, TypeOK, Store
  <2>2. StoreKnows'
    BY <1>7, PairingAssumption DEF OtherCommit, TypeOK, StoreKnows, Store
  <2>3. HandlerKnows'
    BY <1>7, PairingAssumption DEF OtherCommit, TypeOK, HandlerKnows, Store, Recorded
  <2>4. RegisteredKnown'
    BY <1>7, PairingAssumption DEF OtherCommit, TypeOK, RegisteredKnown, Store, Recorded
  <2>5. NoLateReuse'
    BY <1>7, PairingAssumption DEF OtherCommit, TypeOK, NoLateReuse
  <2>6. QED
    BY <2>1, <2>2, <2>3, <2>4, <2>5
<1>8. CASE ServerCrash
  <2>1. TypeOK'
    <3>1. handler' \in [Handlers -> Thread] /\ machine' \in [Machines -> Machine]
      BY <1>8, Types DEF ServerCrash, TypeOK
    <3>2. crashes' \in Nat /\ lost' \in SUBSET Tokens
      BY <1>8 DEF ServerCrash, UnderWay, TypeOK
    <3>3. QED
      BY <1>8, <3>1, <3>2 DEF ServerCrash, TypeOK, Idle
  <2>2. StoreKnows'
    BY <1>8, PairingAssumption DEF ServerCrash, TypeOK, StoreKnows, Store
  <2>3. HandlerKnows'
    BY <1>8, PairingAssumption DEF ServerCrash, TypeOK, HandlerKnows, Idle
  <2>4. RegisteredKnown'
    BY <1>8, PairingAssumption DEF ServerCrash, TypeOK, RegisteredKnown, Keep, Machine, Recorded
  <2>5. NoLateReuse'
    BY <1>8, PairingAssumption DEF ServerCrash, TypeOK, NoLateReuse, Idle
  <2>6. QED
    BY <2>1, <2>2, <2>3, <2>4, <2>5
<1>9. CASE UNCHANGED vars
  <2>1. TypeOK'
    BY <1>9, PairingAssumption DEF vars, TypeOK
  <2>2. StoreKnows'
    BY <1>9, PairingAssumption DEF vars, TypeOK, StoreKnows
  <2>3. HandlerKnows'
    BY <1>9, PairingAssumption DEF vars, TypeOK, HandlerKnows, Recorded
  <2>4. RegisteredKnown'
    BY <1>9, PairingAssumption DEF vars, TypeOK, RegisteredKnown, Recorded
  <2>5. NoLateReuse'
    BY <1>9, PairingAssumption DEF vars, TypeOK, NoLateReuse
  <2>6. QED
    BY <2>1, <2>2, <2>3, <2>4, <2>5
<1>10. QED
  BY <1>1, <1>2, <1>3, <1>4, <1>5, <1>6, <1>7, <1>8, <1>9 DEF Next, AdminStep

\* The inductive invariant holds.
THEOREM PairingCorrect == Spec => []PairingInv
BY PairingInit, PairingNext, PTL DEF Spec

\* Type correctness of registration.
THEOREM PairingTypeCorrect == Spec => []TypeOK
<1>1. PairingInv => TypeOK
  BY DEF PairingInv
<1>2. QED
  BY <1>1, PairingCorrect, PTL

\* A machine that was answered stays known to the control plane through any
\* crash, until a later registration or the deletion of its device.
THEOREM RegisteredCorrect == Spec => []RegisteredKnown
<1>1. PairingInv => RegisteredKnown
  BY DEF PairingInv
<1>2. QED
  BY <1>1, PairingCorrect, PTL

\* A token consumed before a request arrived is refused to that request.
THEOREM LateReuseCorrect == Spec => []NoLateReuse
<1>1. PairingInv => NoLateReuse
  BY DEF PairingInv
<1>2. QED
  BY <1>1, PairingCorrect, PTL

(***************************************************************************)
(* Tokens are not used up in vain                                          *)
(***************************************************************************)
\* A used token still has its device's row, and a thread that read a token
\* registers the device that owns it: tokens are never given to another, and
\* one whose device is gone went with it.
UsedKnows ==
    /\ \A t \in Tokens : db.owner[t] \notin db.gone
    /\ \A t \in db.used : db.owner[t] # None
    /\ \A h \in Handlers : handler[h].pc \in {"mark", "consumed", "activate"} =>
          db.owner[handler[h].token] \in {handler[h].device, None}

\* A thread that stored its sync token counted it, unless its device was gone,
\* and what a crash would take back is what such a thread did not commit yet.
UsesKnown ==
    /\ \A h \in Handlers : handler[h].pc = "activated" =>
          db.uses[handler[h].token] > 0 \/ db.owner[handler[h].token] = None
    /\ \A t \in Tokens : db.uses[t] > 0 =>
          \/ disk.uses[t] > 0
          \/ \E h \in Handlers : handler[h].pc = "activated" /\ handler[h].token = t

SpendInv == UsedKnows /\ UsesKnown /\ SpentForUse

LEMMA SpendInit == Init => SpendInv
BY PairingAssumption DEF Init, SpendInv, UsedKnows, UsesKnown, SpentForUse, NoRows, Idle

LEMMA Way ==
    \A t : t \in UnderWay <=> \E h \in Handlers : handler[h].token = t
                                  /\ handler[h].pc \in {"consumed", "activate", "activated"}
BY DEF UnderWay

LEMMA WayNext ==
    \A t : t \in UnderWay' <=> \E h \in Handlers : handler'[h].token = t
                                  /\ handler'[h].pc \in {"consumed", "activate", "activated"}
BY DEF UnderWay

Working == {"mark", "consumed", "activate", "activated"}

\* Steps that leave the tables alone, and the tokens of threads that hold one.
LEMMA SpendKeeps ==
    ASSUME SpendInv, UNCHANGED <<db, lost>>, disk' \in {disk, db},
           \A h \in Handlers :
               \/ /\ handler[h].pc \in Working /\ handler'[h].pc \in Working
                  /\ handler'[h].token = handler[h].token
                  /\ handler'[h].device = handler[h].device
                  /\ handler[h].pc # "mark" => handler'[h].pc # "mark"
                  /\ handler[h].pc = "activated" <=> handler'[h].pc = "activated"
               \/ /\ handler[h].pc \notin Working /\ handler'[h].pc \notin Working
    PROVE  SpendInv'
<1>1. UsedKnows'
  BY DEF SpendInv, UsedKnows, Working
<1>2. UsesKnown'
  BY PairingAssumption DEF SpendInv, UsesKnown, Working
<1>3. \A t \in UnderWay : t \in UnderWay'
  BY Way, WayNext DEF Working
<1>4. SpentForUse'
  BY <1>3 DEF SpendInv, SpentForUse
<1>5. QED
  BY <1>1, <1>2, <1>4 DEF SpendInv

LEMMA SpendNext == PairingInv /\ SpendInv /\ [Next]_vars => SpendInv'
<1> SUFFICES ASSUME PairingInv, SpendInv, [Next]_vars PROVE SpendInv'
  OBVIOUS
<1> USE DEF PairingInv
<1>1. ASSUME NEW t \in Tokens, NEW d \in Devices, IssueToken(t, d) PROVE SpendInv'
  <2>1. /\ db'.owner = [db.owner EXCEPT ![t] = d] /\ db'.used = db.used
        /\ db'.gone = db.gone /\ db'.uses = db.uses /\ disk' = db'
        /\ handler' = handler /\ lost' = lost
    BY <1>1 DEF IssueToken, TypeOK, Store
  <2>2. \A h \in Handlers : handler[h].pc # "idle" => handler[h].token # t
    BY <1>1 DEF IssueToken, HandlerKnows
  <2>3. UsedKnows'
    BY <1>1, <2>1, <2>2, PairingAssumption DEF IssueToken, SpendInv, UsedKnows, TypeOK, Store
  <2>4. UsesKnown'
    <3>1. \A h \in Handlers : handler[h].pc = "activated" =>
             handler[h].token \in Tokens /\ db'.owner[handler[h].token] = db.owner[handler[h].token]
      BY <2>1, <2>2 DEF TypeOK, Store
    <3>2. \A s \in Tokens : db.uses[s] \in Nat
      BY DEF TypeOK, Store
    <3>3. QED
      BY <2>1, <3>1, <3>2 DEF SpendInv, UsesKnown
  <2>5. SpentForUse'
    BY <2>1 DEF SpendInv, SpentForUse, UnderWay
  <2>6. QED
    BY <2>3, <2>4, <2>5 DEF SpendInv
<1>2. ASSUME NEW d \in Devices, DeleteDevice(d) PROVE SpendInv'
  <2>1. /\ db'.owner = [t \in Tokens |-> IF db.owner[t] = d THEN None ELSE db.owner[t]]
        /\ db'.used = {t \in db.used : db.owner[t] # d}
        /\ db'.gone = db.gone \cup {d} /\ db'.uses = db.uses /\ disk' = db'
        /\ handler' = handler /\ lost' = lost
    BY <1>2 DEF DeleteDevice, TypeOK, Store
  <2>2. None \notin db'.gone
    BY <2>1, PairingAssumption DEF TypeOK, Store
  <2>3. UsedKnows'
    BY <1>2, <2>1, <2>2 DEF DeleteDevice, SpendInv, UsedKnows, TypeOK, Store
  <2>4. UsesKnown'
    <3>1. \A h \in Handlers : handler[h].pc = "activated" => handler[h].token \in Tokens
      BY DEF TypeOK
    <3>2. \A s \in Tokens : db.uses[s] \in Nat
      BY DEF TypeOK, Store
    <3>3. QED
      BY <2>1, <3>1, <3>2 DEF SpendInv, UsesKnown
  <2>5. SpentForUse'
    BY <2>1 DEF SpendInv, SpentForUse, UnderWay
  <2>6. QED
    BY <2>3, <2>4, <2>5 DEF SpendInv
<1>3. ASSUME NEW t \in Tokens, Expire(t) PROVE SpendInv'
  BY <1>3, SpendKeeps DEF Expire, Working
<1>4. ASSUME NEW m \in Machines, NEW h \in Handlers, NEW t \in Tokens, Register(m, h, t)
      PROVE  SpendInv'
  <2>1. /\ handler[h].pc = "idle" /\ handler'[h].pc = "select"
        /\ \A g \in Handlers : g # h => handler'[g] = handler[g]
    BY <1>4 DEF Register, Idle, TypeOK
  <2>2. QED
    BY <1>4, <2>1, SpendKeeps DEF Register, Working
<1>5. ASSUME NEW m \in Machines, GiveUp(m) PROVE SpendInv'
  BY <1>5, SpendKeeps DEF GiveUp, Working
<1>6. ASSUME NEW h \in Handlers, HandlerStep(h) PROVE SpendInv'
  <2> DEFINE token == handler[h].token
  <2>1. CASE SelectToken(h)
    <3>1. /\ handler[h].pc = "select" /\ handler'[h].pc = "mark"
          /\ handler'[h].token = token /\ handler'[h].device = db.owner[token]
          /\ \A g \in Handlers : g # h => handler'[g] = handler[g]
      BY <2>1 DEF SelectToken, TypeOK, Thread
    <3>2. UNCHANGED <<db, disk, lost>>
      BY <2>1 DEF SelectToken
    <3>3. UsedKnows'
      BY <3>1, <3>2 DEF SpendInv, UsedKnows
    <3>4. UsesKnown'
      BY <3>1, <3>2 DEF SpendInv, UsesKnown
    <3>5. \A t \in UnderWay : t \in UnderWay'
      BY <3>1, Way, WayNext
    <3>6. QED
      BY <3>2, <3>3, <3>4, <3>5 DEF SpendInv, SpentForUse
  <2>2. CASE RefuseToken(h)
    <3>1. handler[h].pc = "select" /\ handler' = [handler EXCEPT ![h] = Idle]
      BY <2>2 DEF RefuseToken, Fail, Rest
    <3>2. QED
      BY <2>2, <3>1, SpendKeeps DEF RefuseToken, Idle, TypeOK, Working
  <2>3. CASE MarkUsed(h)
    <3>1. /\ handler[h].pc = "mark" /\ handler'[h].pc = "consumed"
          /\ handler'[h].token = token /\ handler'[h].device = handler[h].device
          /\ \A g \in Handlers : g # h => handler'[g] = handler[g]
      BY <2>3 DEF MarkUsed, Step, TypeOK, Thread
    <3>2. /\ db'.owner = db.owner /\ db'.gone = db.gone /\ db'.uses = db.uses
          /\ db'.used = IF db.owner[token] = None THEN db.used ELSE db.used \cup {token}
      BY <2>3 DEF MarkUsed, TypeOK, Store
    <3>3. UNCHANGED <<disk, lost>>
      BY <2>3 DEF MarkUsed
    <3>4. UsedKnows'
      BY <3>1, <3>2 DEF SpendInv, UsedKnows
    <3>5. UsesKnown'
      BY <3>1, <3>2, <3>3 DEF SpendInv, UsesKnown
    <3>6. token \in UnderWay' /\ \A t \in UnderWay : t \in UnderWay'
      BY <3>1, Way, WayNext
    <3>7. SpentForUse'
      BY <3>2, <3>3, <3>6 DEF SpendInv, SpentForUse
    <3>8. QED
      BY <3>4, <3>5, <3>7 DEF SpendInv
  <2>4. CASE CommitToken(h)
    <3>1. /\ handler[h].pc = "consumed" /\ handler'[h].pc = "activate"
          /\ handler'[h].token = token /\ handler'[h].device = handler[h].device
          /\ \A g \in Handlers : g # h => handler'[g] = handler[g]
      BY <2>4 DEF CommitToken, Step, TypeOK, Thread
    <3>2. UNCHANGED <<db, lost>> /\ disk' = db
      BY <2>4 DEF CommitToken
    <3>3. QED
      BY <3>1, <3>2, SpendKeeps DEF Working
  <2>5. CASE Activate(h)
    <3>1. /\ handler[h].pc = "activate" /\ handler'[h].pc = "activated"
          /\ handler'[h].token = token /\ token \in Tokens
          /\ \A g \in Handlers : g # h => handler'[g] = handler[g]
      BY <2>5 DEF Activate, TypeOK, Thread
    <3>2. /\ db'.owner = db.owner /\ db'.gone = db.gone /\ db'.used = db.used
          /\ UNCHANGED <<disk, lost>>
      BY <2>5 DEF Activate, TypeOK, Store
    <3>3. /\ \A t \in Tokens : db.uses[t] \in Nat
          /\ \A t \in Tokens \ {token} : db'.uses[t] = db.uses[t]
          /\ \/ db'.uses[token] = db.uses[token] + 1
             \/ db'.uses[token] = db.uses[token] /\ handler[h].device \in db.gone
      BY <2>5, <3>1 DEF Activate, TypeOK, Store
    <3>4. db'.uses[token] > 0 \/ db'.owner[token] = None
      BY <3>1, <3>2, <3>3 DEF SpendInv, UsedKnows
    <3>5. UsedKnows'
      BY <3>1, <3>2 DEF SpendInv, UsedKnows
    <3>6. UsesKnown'
      <4>1. ASSUME NEW g \in Handlers, handler'[g].pc = "activated"
            PROVE  db'.uses[handler'[g].token] > 0 \/ db'.owner[handler'[g].token] = None
        <5>1. g # h => handler[g].token \in Tokens
          BY <3>1, <4>1 DEF TypeOK
        <5>2. QED
          BY <3>1, <3>2, <3>3, <3>4, <4>1, <5>1 DEF SpendInv, UsesKnown
      <4>2. ASSUME NEW t \in Tokens, db'.uses[t] > 0
            PROVE  \/ disk'.uses[t] > 0
                   \/ \E g \in Handlers : handler'[g].pc = "activated" /\ handler'[g].token = t
        <5>1. CASE t = token
          BY <3>1, <5>1
        <5>2. CASE t # token
          <6>1. db.uses[t] > 0
            BY <3>3, <4>2, <5>2
          <6>2. \/ disk.uses[t] > 0
                \/ \E g \in Handlers : handler[g].pc = "activated" /\ handler[g].token = t
            BY <6>1 DEF SpendInv, UsesKnown
          <6>3. QED
            BY <3>1, <3>2, <6>2
        <5>3. QED
          BY <5>1, <5>2
      <4>3. QED
        BY <4>1, <4>2 DEF UsesKnown
    <3>7. \A t \in UnderWay : t \in UnderWay'
      BY <3>1, Way, WayNext
    <3>8. \A t \in Tokens : db.uses[t] > 0 => db'.uses[t] > 0
      BY <3>3
    <3>9. SpentForUse'
      BY <3>2, <3>7, <3>8 DEF SpendInv, SpentForUse, TypeOK, Store
    <3>10. QED
      BY <3>5, <3>6, <3>9 DEF SpendInv
  <2>6. CASE CommitDevice(h)
    <3>1. /\ handler[h].pc = "activated" /\ handler'[h].pc = "reply"
          /\ \A g \in Handlers : g # h => handler'[g] = handler[g]
      BY <2>6 DEF CommitDevice, Step, TypeOK, Thread
    <3>2. UNCHANGED <<db, lost>> /\ disk' = db
      BY <2>6 DEF CommitDevice
    <3>3. UsedKnows'
      BY <3>1, <3>2 DEF SpendInv, UsedKnows
    <3>4. UsesKnown'
      <4>1. \A t \in Tokens : db.uses[t] \in Nat
        BY DEF TypeOK, Store
      <4>2. QED
        BY <3>1, <3>2, <4>1 DEF SpendInv, UsesKnown
    <3>5. \A t \in UnderWay : t = token \/ t \in UnderWay'
      BY <3>1, Way, WayNext
    <3>6. token \in db.used => db.uses[token] > 0
      BY <3>1 DEF SpendInv, UsedKnows, UsesKnown
    <3>7. SpentForUse'
      BY <3>2, <3>5, <3>6 DEF SpendInv, SpentForUse
    <3>8. QED
      BY <3>3, <3>4, <3>7 DEF SpendInv
  <2>7. CASE Reply(h)
    <3>1. handler[h].pc = "reply" /\ handler' = [handler EXCEPT ![h] = Idle]
      BY <2>7 DEF Reply, Fail, Rest
    <3>2. QED
      BY <2>7, <3>1, SpendKeeps DEF Reply, Idle, TypeOK, Working
  <2>8. QED
    BY <1>6, <2>1, <2>2, <2>3, <2>4, <2>5, <2>6, <2>7 DEF HandlerStep
<1>7. CASE OtherCommit
  BY <1>7, SpendKeeps DEF OtherCommit, Working
<1>8. CASE ServerCrash
  <2>1. /\ db' = disk /\ disk' = disk /\ lost' = lost \cup UnderWay
        /\ db'.owner = db.owner /\ db'.gone = db.gone /\ db'.used \subseteq db.used
        /\ \A h \in Handlers : handler'[h].pc = "idle"
    BY <1>8 DEF ServerCrash, StoreKnows, TypeOK, Idle
  <2>2. UsedKnows'
    BY <2>1 DEF SpendInv, UsedKnows
  <2>3. UsesKnown'
    <3>1. \A t \in Tokens : disk.uses[t] \in Nat
      BY DEF TypeOK, Store
    <3>2. QED
      BY <2>1, <3>1 DEF UsesKnown
  <2>4. ASSUME NEW t \in db'.used PROVE db'.uses[t] > 0 \/ t \in lost'
    <3>1. t \in db.used /\ t \in Tokens /\ db.uses[t] \in Nat
      BY <2>1 DEF TypeOK, Store
    <3>2. CASE db.uses[t] > 0
      BY <2>1, <3>1, <3>2, Way DEF SpendInv, UsesKnown
    <3>3. CASE ~(db.uses[t] > 0)
      BY <2>1, <3>1, <3>3 DEF SpendInv, SpentForUse
    <3>4. QED
      BY <3>2, <3>3
  <2>5. SpentForUse'
    BY <2>4 DEF SpentForUse
  <2>6. QED
    BY <2>2, <2>3, <2>5 DEF SpendInv
<1>9. CASE UNCHANGED vars
  BY <1>9, SpendKeeps DEF vars, Working
<1>10. QED
  BY <1>1, <1>2, <1>3, <1>4, <1>5, <1>6, <1>7, <1>8, <1>9 DEF Next, AdminStep

\* A token that was used up registered a machine, is about to, or was on its
\* way when a crash came.
THEOREM SpentAlwaysForUse == Spec => []SpentForUse
<1>1. SpendInv => SpentForUse
  BY DEF SpendInv
<1>2. QED
  BY <1>1, SpendInit, SpendNext, PairingCorrect, PTL DEF Spec
=============================================================================
