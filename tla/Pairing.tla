------------------------------ MODULE Pairing ------------------------------
(***************************************************************************)
(* How a machine becomes a device: an administrator issues a pairing token *)
(* for the device, the machine's `agent register` trades it for a sync     *)
(* token, and the machine saves that.                                      *)
(*                                                                         *)
(* The request threads share one sqlite3 connection without a lock: a      *)
(* statement is visible to all of them at once (db), a commit by any of    *)
(* them makes everything so far durable (disk), a crash falls back to disk.*)
(*                                                                         *)
(* Pairing tokens are fresh random values, never issued twice.  The sync   *)
(* tokens that registrations draw are numbered in the order in which they  *)
(* are stored, so a greater one superseded a smaller one.                  *)
(***************************************************************************)
EXTENDS Naturals

CONSTANTS
    Devices,     \* devices an administrator created
    Tokens,      \* pairing tokens that may be issued
    Machines,    \* computers on which `agent register` is run
    Handlers,    \* request threads that serve /agent/v1/register
    None,        \* no token, no device or no request
    MaxSyncs,    \* bound: registrations that store a sync token
    MaxCrashes   \* bound: ends of the control plane process

ASSUME PairingAssumption ==
    /\ None \notin Devices \cup Tokens \cup Handlers
    /\ MaxSyncs \in Nat /\ MaxCrashes \in Nat

VARIABLES
    db,         \* what the shared connection sees: owner, used, sync, uses
    disk,       \* what the last commit on that connection made durable
    handler,    \* the request threads
    machine,    \* the request each machine waits for, and what it saved
    issued,     \* pairing tokens handed out so far
    expired,    \* those whose expires_at has passed
    syncs,      \* sync tokens stored so far
    spent,      \* history: tokens whose consumption was committed
    lost,       \* history: tokens of the registrations a crash took
    crashes     \* ends of the control plane so far

vars == <<db, disk, handler, machine, issued, expired, syncs, spent, lost, crashes>>

\* In the tables, owner is pairing_tokens.device_id (None for no row), used
\* the rows with a used_at, and sync the devices' sync_token_hash (0 for '');
\* gone are the deleted devices; uses, a history, counts the sync tokens that
\* each pairing token stored, and a crash takes it back with the rows.
NoRows == [owner |-> [t \in Tokens |-> None], used |-> {},
           sync |-> [d \in Devices |-> 0], gone |-> {}, uses |-> [t \in Tokens |-> 0]]

Idle == [pc |-> "idle", token |-> None, late |-> FALSE, device |-> None, sync |-> 0]

Unpaired == [req |-> None, device |-> None, sync |-> 0]

Waits(m, h) == machine[m].req = h

Step(h, pc) == handler' = [handler EXCEPT ![h].pc = pc]

Rest(h) == handler' = [handler EXCEPT ![h] = Idle]

\* `agent register` ended without an answer; an earlier agent.json stays.
Keep(m) == [machine[m] EXCEPT !.req = None]

\* An error answer, to the machine that waits for it, if any.
Fail(h) ==
    /\ Rest(h)
    /\ machine' = [m \in Machines |-> IF Waits(m, h) THEN Keep(m) ELSE machine[m]]

(***************************************************************************)
(* Administrators and time                                                 *)
(***************************************************************************)
\* create_pairing_token.  The INSERT and its commit are one step: nobody
\* knows the token before the answer.
IssueToken(t, d) ==
    /\ t \notin issued
    /\ d \notin db.gone
    /\ db' = [db EXCEPT !.owner[t] = d]
    /\ disk' = db'
    /\ issued' = issued \cup {t}
    /\ UNCHANGED <<handler, machine, expired, syncs, spent, lost, crashes>>

\* delete_device: the device's tokens go with it (ON DELETE CASCADE).
DeleteDevice(d) ==
    /\ d \notin db.gone
    /\ db' = [db EXCEPT !.owner = [t \in Tokens |-> IF @[t] = d THEN None ELSE @[t]],
                        !.used = {t \in @ : db.owner[t] # d},
                        !.sync[d] = 0,
                        !.gone = @ \cup {d}]
    /\ disk' = db'
    /\ UNCHANGED <<handler, machine, issued, expired, syncs, spent, lost, crashes>>

Expire(t) ==
    /\ t \in issued \ expired
    /\ expired' = expired \cup {t}
    /\ UNCHANGED <<db, disk, handler, machine, issued, syncs, spent, lost, crashes>>

(***************************************************************************)
(* POST /agent/v1/register                                                 *)
(***************************************************************************)
Register(m, h, t) ==
    /\ machine[m].req = None
    /\ handler[h].pc = "idle"
    /\ t \in issued
    /\ handler' = [handler EXCEPT ![h] =
          [Idle EXCEPT !.pc = "select", !.token = t, !.late = (t \in spent)]]
    /\ machine' = [machine EXCEPT ![m].req = h]
    /\ UNCHANGED <<db, disk, issued, expired, syncs, spent, lost, crashes>>

\* The machine's request times out or its process ends; the thread runs on.
GiveUp(m) ==
    /\ machine[m].req # None
    /\ machine' = [machine EXCEPT ![m] = Keep(m)]
    /\ UNCHANGED <<db, disk, handler, issued, expired, syncs, spent, lost, crashes>>

\* Mutant of Usable: the query that finds no row is taken for a valid token.
UsableUnknown(t) == t \notin db.used /\ t \notin expired

\* Mutant of Usable: used_at is not looked at.
UsableAgain(t) == db.owner[t] # None /\ t \notin expired

\* The WHERE of the SELECT in consume_pairing_token.
Usable(t) == db.owner[t] # None /\ t \notin db.used /\ t \notin expired

\* consume_pairing_token, the SELECT.
SelectToken(h) ==
    /\ handler[h].pc = "select"
    /\ Usable(handler[h].token)
    /\ handler' = [handler EXCEPT ![h].pc = "mark", ![h].device = db.owner[handler[h].token]]
    /\ UNCHANGED <<db, disk, machine, issued, expired, syncs, spent, lost, crashes>>

\* 401 "Invalid or expired pairing token".
RefuseToken(h) ==
    /\ handler[h].pc = "select"
    /\ ~Usable(handler[h].token)
    /\ Fail(h)
    /\ UNCHANGED <<db, disk, issued, expired, syncs, spent, lost, crashes>>

\* UPDATE pairing_tokens SET used_at WHERE id: it does not look at used_at
\* again, and touches nothing when the row went with its device.
MarkUsed(h) ==
    /\ handler[h].pc = "mark"
    /\ db' = IF db.owner[handler[h].token] = None THEN db
             ELSE [db EXCEPT !.used = @ \cup {handler[h].token}]
    /\ Step(h, "consumed")
    /\ UNCHANGED <<disk, machine, issued, expired, syncs, spent, lost, crashes>>

CommitToken(h) ==
    /\ handler[h].pc = "consumed"
    /\ disk' = db
    /\ spent' = spent \cup {handler[h].token}
    /\ Step(h, "activate")
    /\ UNCHANGED <<db, machine, issued, expired, syncs, lost, crashes>>

\* Mutant of Activate: a device that is already registered is refused, when
\* the token is used up.
ActivateOnce(h) ==
    /\ handler[h].pc = "activate"
    /\ syncs < MaxSyncs
    /\ IF db.sync[handler[h].device] # 0
       THEN Fail(h) /\ UNCHANGED <<db, syncs>>
       ELSE /\ syncs' = syncs + 1
            /\ db' = [db EXCEPT !.sync[handler[h].device] = syncs',
                                !.uses[handler[h].token] = @ + 1]
            /\ handler' = [handler EXCEPT ![h].pc = "activated", ![h].sync = syncs']
            /\ UNCHANGED machine
    /\ UNCHANGED <<disk, issued, expired, spent, lost, crashes>>

\* activate_device_registration: the UPDATE touches no row of a deleted device.
Activate(h) ==
    /\ handler[h].pc = "activate"
    /\ syncs < MaxSyncs
    /\ syncs' = syncs + 1
    /\ handler' = [handler EXCEPT ![h].pc = "activated", ![h].sync = syncs']
    /\ db' = IF handler[h].device \in db.gone THEN db
             ELSE [db EXCEPT !.sync[handler[h].device] = syncs',
                             !.uses[handler[h].token] = @ + 1]
    /\ UNCHANGED <<disk, machine, issued, expired, spent, lost, crashes>>

\* Mutant of CommitDevice: the registration is answered before any commit.
AnswerUncommitted(h) ==
    /\ handler[h].pc = "activated"
    /\ Step(h, "reply")
    /\ UNCHANGED <<db, disk, machine, issued, expired, syncs, spent, lost, crashes>>

CommitDevice(h) ==
    /\ handler[h].pc = "activated"
    /\ disk' = db
    /\ Step(h, "reply")
    /\ UNCHANGED <<db, machine, issued, expired, syncs, spent, lost, crashes>>

\* get_device: a registration of a device deleted meanwhile answers 500; any
\* other is answered, and handle_register saves what it got.
Reply(h) ==
    /\ handler[h].pc = "reply"
    /\ IF handler[h].device \in db.gone THEN Fail(h)
       ELSE LET saved == [req |-> None, device |-> handler[h].device, sync |-> handler[h].sync]
            IN  /\ Rest(h)
                /\ machine' = [m \in Machines |-> IF Waits(m, h) THEN saved ELSE machine[m]]
    /\ UNCHANGED <<db, disk, issued, expired, syncs, spent, lost, crashes>>

(***************************************************************************)
(* The shared connection                                                   *)
(***************************************************************************)
\* A commit by any other request.
OtherCommit ==
    /\ disk # db
    /\ disk' = db
    /\ UNCHANGED <<db, handler, machine, issued, expired, syncs, spent, lost, crashes>>

\* Tokens of the registrations between the UPDATE of the pairing token and
\* the commit of the device.
UnderWay == {handler[h].token : h \in {g \in Handlers :
                handler[g].pc \in {"consumed", "activate", "activated"}}}

ServerCrash ==
    /\ crashes < MaxCrashes
    /\ crashes' = crashes + 1
    /\ lost' = lost \cup UnderWay
    /\ db' = disk
    /\ handler' = [h \in Handlers |-> Idle]
    /\ machine' = [m \in Machines |-> Keep(m)]
    /\ UNCHANGED <<disk, issued, expired, syncs, spent>>

Init ==
    /\ db = NoRows /\ disk = NoRows
    /\ handler = [h \in Handlers |-> Idle]
    /\ machine = [m \in Machines |-> Unpaired]
    /\ issued = {} /\ expired = {} /\ spent = {}
    /\ syncs = 0
    /\ lost = {}
    /\ crashes = 0

HandlerStep(h) ==
    \/ SelectToken(h)
    \/ RefuseToken(h)
    \/ MarkUsed(h)
    \/ CommitToken(h)
    \/ Activate(h)
    \/ CommitDevice(h)
    \/ Reply(h)

AdminStep ==
    \/ \E t \in Tokens, d \in Devices : IssueToken(t, d)
    \/ \E d \in Devices : DeleteDevice(d)

Next ==
    \/ AdminStep
    \/ \E t \in Tokens : Expire(t)
    \/ \E m \in Machines, h \in Handlers, t \in Tokens : Register(m, h, t)
    \/ \E m \in Machines : GiveUp(m)
    \/ \E h \in Handlers : HandlerStep(h)
    \/ OtherCommit
    \/ ServerCrash

Spec == Init /\ [][Next]_vars

(***************************************************************************)
(* Properties                                                              *)
(***************************************************************************)
Store == [owner : [Tokens -> Devices \cup {None}], used : SUBSET Tokens,
          sync : [Devices -> Nat], gone : SUBSET Devices, uses : [Tokens -> Nat]]
HandlerPc == {"idle", "select", "mark", "consumed", "activate", "activated", "reply"}
Thread == [pc : HandlerPc, token : Tokens \cup {None}, late : BOOLEAN,
           device : Devices \cup {None}, sync : Nat]
Machine == [req : Handlers \cup {None}, device : Devices \cup {None}, sync : Nat]

\* Every variable has the shape its comment gives it, and a thread at work
\* has a token and, once the token was accepted, a device.
TypeOK ==
    /\ db \in Store /\ disk \in Store
    /\ handler \in [Handlers -> Thread] /\ machine \in [Machines -> Machine]
    /\ issued \in SUBSET Tokens /\ expired \in SUBSET Tokens /\ spent \in SUBSET Tokens
    /\ lost \in SUBSET Tokens /\ syncs \in Nat /\ crashes \in Nat
    /\ \A h \in Handlers :
        /\ handler[h].pc # "idle" => handler[h].token \in Tokens
        /\ handler[h].pc \notin {"idle", "select"} => handler[h].device \in Devices

\* Sync token s of device d is stored, was superseded by a later registration
\* of d, or went with the device.
Recorded(store, d, s) == d \in store.gone \/ store.sync[d] >= s

\* A machine that was answered is known to the control plane, now and after
\* any crash, until a later registration or the deletion of its device: the
\* answer never overtakes the commit (register_device).
RegisteredKnown ==
    \A m \in Machines :
        machine[m].device # None =>
            /\ Recorded(db, machine[m].device, machine[m].sync)
            /\ Recorded(disk, machine[m].device, machine[m].sync)

\* A token that was consumed when a request for it arrived is refused to that
\* request, whatever crashed in between (consume_pairing_token).
NoLateReuse ==
    \A h \in Handlers : handler[h].late => handler[h].pc \in {"idle", "select"}

\* A token is not used up in vain: a sync token is stored with it, or on its
\* way, and only a crash between the UPDATE of the token and the commit of the
\* device leaves one used with nothing to show for it (the two commits of
\* register_device).  No other interleaving, crash or error does.
SpentForUse == \A t \in db.used : db.uses[t] > 0 \/ t \in UnderWay \/ t \in lost

\* One-time tokens (README.md:339, agent/cli.py:37): a pairing token registers
\* at most one machine.
OneTime == \A t \in Tokens : db.uses[t] <= 1

\* What the threads know: a token once consumed stays consumed or is gone, and
\* a sync token once stored is recorded.
HandlerKnows ==
    \A h \in Handlers :
        /\ handler[h].pc # "idle" => handler[h].token \in issued
        /\ handler[h].late => handler[h].token \in spent
        /\ handler[h].pc = "consumed" =>
              handler[h].token \in db.used \/ db.owner[handler[h].token] = None
        /\ handler[h].pc \in {"activated", "reply"} =>
              Recorded(db, handler[h].device, handler[h].sync)
        /\ handler[h].pc = "reply" => Recorded(disk, handler[h].device, handler[h].sync)

\* What commits and crashes leave alone: deletions and tokens are committed at
\* once, and durable state is behind by uses and sync tokens only.
StoreKnows ==
    /\ spent \subseteq issued
    /\ disk.owner = db.owner /\ disk.gone = db.gone
    /\ disk.used \subseteq db.used
    /\ \A t \in spent : t \in disk.used \/ disk.owner[t] = None
    /\ \A d \in Devices : disk.sync[d] <= db.sync[d] /\ db.sync[d] <= syncs

\* The inductive invariant.
PairingInv == TypeOK /\ StoreKnows /\ HandlerKnows /\ RegisteredKnown /\ NoLateReuse
=============================================================================
