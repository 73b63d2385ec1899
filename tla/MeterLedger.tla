------------------------------ MODULE MeterLedger ------------------------------
(***************************************************************************)
(* The usage meters of one license and their ledger:                       *)
(* DrizzleMeterRepository.ts under LicenseService.consume and the meter    *)
(* operations of AdminService.ts.                                          *)
(*                                                                         *)
(* Every transaction that writes a meter takes the advisory lock           *)
(* meter:<licenseId> and keeps it until it ends.  It is two steps here:    *)
(* the one that takes the lock and reads, and the one that writes and      *)
(* commits, so that the lock is what keeps others out in between.  The     *)
(* license row (its type, its draft of meter names) is written in single   *)
(* steps; a handler that read it earlier writes it only if nobody else did *)
(* (expectedUpdatedAt).  A client repeats a request as often as it likes.  *)
(***************************************************************************)
EXTENDS Integers, Sequences, FiniteSets

CONSTANTS
    Handler,        \* request handlers, of clients and of operators
    Nobody,         \* no handler
    Meter,          \* names of meters
    EventId,        \* event ids chosen by the clients
    NoEvent,        \* the event id of an operator's entry, unique in the code
    MaxBalance,     \* MAX_LICENSE_LIMIT
    Units,          \* the amounts consumed
    Deltas,         \* the adjustments made
    MaxEntries,     \* bound: the length of the ledger
    Faults          \* whether handlers may fail

ASSUME HandlerAssumption == Nobody \notin Handler
ASSUME MeterAssumption == Meter # {}
ASSUME EventAssumption == NoEvent \notin EventId
ASSUME BalanceAssumption == MaxBalance \in Nat \ {0}
ASSUME UnitsAssumption == Units \subseteq 1 .. MaxBalance
ASSUME DeltasAssumption == Deltas \subseteq (-MaxBalance .. MaxBalance) \ {0}
ASSUME EntriesAssumption == MaxEntries \in Nat
ASSUME MeterFaultsAssumption == Faults \in BOOLEAN

VARIABLES
    license,        \* whether the row exists, and whether its type is metered
    draft,          \* typeDrafts.metered.meterNames
    meter,          \* license_meters, by name (unique per license)
    ledger,         \* usage_ledger_entries, in the order of their insertion
    lock,           \* holder of the advisory lock meter:<licenseId>
    handler,        \* local state of every handler
    stale,          \* handlers whose reading of the row is out of date
    answers         \* history: the successes that reached a client

vars == <<license, draft, meter, ledger, lock, handler, stale, answers>>

-----------------------------------------------------------------------------
(* Types                                                                   *)

Balance == 0 .. MaxBalance

License == [exists : BOOLEAN, metered : BOOLEAN]

MeterRow == [state : {"none", "active", "archived"}, balance : Balance]

NoMeter == [state |-> "none", balance |-> 0]

Entry == [kind : {"create", "consume", "adjust", "archive"},
          meter : Meter,
          event : EventId \cup {NoEvent},
          delta : -MaxBalance .. MaxBalance,
          before : Balance,
          after : Balance]

Answer == [event : EventId, meter : Meter, units : 1 .. MaxBalance, remaining : Balance]

Pc == {"idle", "checked", "debit", "reply", "adjust", "create", "archive",
       "draftRead", "draftWrite", "update"}

HandlerState == [pc : Pc,
                 meter : Meter,
                 event : EventId \cup {NoEvent},
                 amount : -MaxBalance .. MaxBalance,  \* units, delta or initial balance
                 remaining : Balance,                 \* what the reply will say
                 names : SUBSET Meter,                \* meter names read earlier
                 adds : BOOLEAN,                      \* the update brings a new meter
                 target : BOOLEAN]                    \* the update leaves a metered license

AnyMeter == CHOOSE m \in Meter : TRUE

Idle == [pc |-> "idle", meter |-> AnyMeter, event |-> NoEvent, amount |-> 0,
         remaining |-> 0, names |-> {}, adds |-> FALSE, target |-> FALSE]

(* A type invariant: every variable keeps its shape.  No balance, in a     *)
(* meter or in the ledger, leaves 0 .. MaxBalance.                         *)
TypeOK ==
    /\ license \in License
    /\ draft \subseteq Meter
    /\ meter \in [Meter -> MeterRow]
    /\ ledger \in Seq(Entry)
    /\ lock \in Handler \cup {Nobody}
    /\ handler \in [Handler -> HandlerState]
    /\ stale \subseteq Handler
    /\ answers \subseteq Answer

-----------------------------------------------------------------------------
Active == {m \in Meter : meter[m].state = "active"}

CreateEntry(m, balance) ==
    [kind |-> "create", meter |-> m, event |-> NoEvent, delta |-> balance,
     before |-> 0, after |-> balance]

(* createLicense: a metered license has at least one meter, another type   *)
(* has none; every meter has its first entry.                              *)
Init ==
    /\ \/ /\ license = [exists |-> TRUE, metered |-> FALSE]
          /\ draft = {}
          /\ meter = [m \in Meter |-> NoMeter]
          /\ ledger = <<>>
       \/ \E first \in Meter, balance \in Balance :
             /\ license = [exists |-> TRUE, metered |-> TRUE]
             /\ draft = {first}
             /\ meter = [m \in Meter |-> IF m = first
                                         THEN [state |-> "active", balance |-> balance]
                                         ELSE NoMeter]
             /\ ledger = <<CreateEntry(first, balance)>>
    /\ lock = Nobody
    /\ handler = [h \in Handler |-> Idle]
    /\ stale = {}
    /\ answers = {}

-----------------------------------------------------------------------------
(* Transactions                                                            *)

(* Bound: a handler starts while the ledger has room for its entry.        *)
Start(h) ==
    /\ handler[h].pc = "idle"
    /\ license.exists
    /\ Len(ledger) + Cardinality({g \in Handler : handler[g].pc # "idle"}) < MaxEntries

Goto(h, state) == handler' = [handler EXCEPT ![h] = state]

Finish(h) == Goto(h, Idle)

(* Deliberate fault: the lock is awaited and not kept.                     *)
LockForgotten(h) == lock = Nobody /\ UNCHANGED lock

(* lockLicense: pg_advisory_xact_lock waits for the holder to end.         *)
Lock(h) == lock = Nobody /\ lock' = h

Unlock(h) == lock' = IF lock = h THEN Nobody ELSE lock

(* A write of the license row moves updatedAt on.                          *)
RowWritten == stale' = Handler

Record(kind, m, event, delta, before) ==
    ledger' = Append(ledger, [kind |-> kind, meter |-> m, event |-> event,
                              delta |-> delta, before |-> before,
                              after |-> before + delta])

-----------------------------------------------------------------------------
(* consume                                                                 *)

(* requireActiveSessionLicense and the check of the type, on a row read    *)
(* without a lock.                                                         *)
ConsumeCheck(h, event, m, units) ==
    /\ Start(h)
    /\ license.metered
    /\ Goto(h, [Idle EXCEPT !.pc = "checked", !.event = event, !.meter = m, !.amount = units])
    /\ UNCHANGED <<license, draft, meter, ledger, lock, stale, answers>>

(* The entry an event left in the ledger.                                  *)
Recorded(event) == {i \in DOMAIN ledger : ledger[i].event = event}

(* Deliberate fault: any usage entry of the event counts as a replay.      *)
SameEvent(h, i) == ledger[i].kind = "consume"

(* The entry is the one this request would make.                           *)
SameRequest(h, i) ==
    /\ ledger[i].kind = "consume"
    /\ ledger[i].delta = -handler[h].amount
    /\ ledger[i].meter = handler[h].meter

(* The transaction finds the event: a repeated request gets the first      *)
(* answer again, another one is USAGE_EVENT_CONFLICT.                      *)
ConsumeReplay(h) ==
    /\ handler[h].pc = "checked"
    /\ lock = Nobody
    /\ \E i \in Recorded(handler[h].event) :
          IF SameRequest(h, i)
          THEN Goto(h, [handler[h] EXCEPT !.pc = "reply", !.remaining = ledger[i].after])
          ELSE Finish(h)
    /\ UNCHANGED <<license, draft, meter, ledger, lock, stale, answers>>

(* The event is new and the meter is neither missing nor archived.         *)
ConsumeBegin(h) ==
    /\ handler[h].pc = "checked"
    /\ Recorded(handler[h].event) = {}
    /\ meter[handler[h].meter].state = "active"
    /\ Lock(h)
    /\ Goto(h, [handler[h] EXCEPT !.pc = "debit"])
    /\ UNCHANGED <<license, draft, meter, ledger, stale, answers>>

(* METER_NOT_FOUND or METER_ARCHIVED.                                      *)
ConsumeRefuse(h) ==
    /\ handler[h].pc = "checked"
    /\ lock = Nobody
    /\ Recorded(handler[h].event) = {}
    /\ meter[handler[h].meter].state # "active"
    /\ Finish(h)
    /\ UNCHANGED <<license, draft, meter, ledger, lock, stale, answers>>

(* UPDATE ... WHERE balance >= units finds its row: debit, entry, COMMIT.  *)
(* The unique index on the event would make the INSERT fail.               *)
ConsumeCommit(h) ==
    LET m == handler[h].meter
        units == handler[h].amount
        remaining == meter[m].balance - units
    IN  /\ handler[h].pc = "debit"
        /\ meter[m].state # "none" /\ remaining >= 0
        /\ Recorded(handler[h].event) = {}
        /\ meter' = [meter EXCEPT ![m].balance = remaining]
        /\ Record("consume", m, handler[h].event, -units, remaining + units)
        /\ Goto(h, [handler[h] EXCEPT !.pc = "reply", !.remaining = remaining])
        /\ Unlock(h)
        /\ UNCHANGED <<license, draft, stale, answers>>

(* METER_EXHAUSTED, also for a meter deleted since it was read; or the     *)
(* unique index refuses the entry.                                         *)
ConsumeExhausted(h) ==
    /\ handler[h].pc = "debit"
    /\ \/ meter[handler[h].meter].state = "none"
       \/ meter[handler[h].meter].balance < handler[h].amount
       \/ Recorded(handler[h].event) # {}
    /\ Finish(h) /\ Unlock(h)
    /\ UNCHANGED <<license, draft, meter, ledger, stale, answers>>

(* The answer reaches the client.                                          *)
ConsumeReply(h) ==
    /\ handler[h].pc = "reply"
    /\ answers' = answers \cup {[event |-> handler[h].event, meter |-> handler[h].meter,
                                 units |-> handler[h].amount,
                                 remaining |-> handler[h].remaining]}
    /\ Finish(h)
    /\ UNCHANGED <<license, draft, meter, ledger, lock, stale>>

-----------------------------------------------------------------------------
(* Operator actions                                                        *)

(* topUpLicenseMeter and adjustLicenseMeter: adjust locks and reads the    *)
(* meter; METER_NOT_FOUND and METER_ARCHIVED change nothing.               *)
AdjustBegin(h, m, delta) ==
    /\ Start(h)
    /\ meter[m].state = "active"
    /\ Lock(h)
    /\ Goto(h, [Idle EXCEPT !.pc = "adjust", !.meter = m, !.amount = delta])
    /\ UNCHANGED <<license, draft, meter, ledger, stale, answers>>

(* Deliberate fault: only debits are bounded.                              *)
InRangeBelow(m, delta) == meter[m].state # "none" /\ meter[m].balance >= -delta

(* The WHERE clause that keeps the balance in range.                       *)
InRange(m, delta) ==
    /\ meter[m].state # "none"
    /\ IF delta > 0
       THEN meter[m].balance <= MaxBalance - delta
       ELSE meter[m].balance >= -delta

(* Deliberate fault: balanceBefore is the balance after the adjustment.    *)
AdjustCommitMisrecorded(h) ==
    LET m == handler[h].meter
        after == meter[m].balance + handler[h].amount
    IN  /\ handler[h].pc = "adjust"
        /\ InRange(m, handler[h].amount)
        /\ meter' = [meter EXCEPT ![m].balance = after]
        /\ ledger' = Append(ledger, [kind |-> "adjust", meter |-> m, event |-> NoEvent,
                                     delta |-> handler[h].amount, before |-> after,
                                     after |-> after])
        /\ Finish(h) /\ Unlock(h)
        /\ UNCHANGED <<license, draft, stale, answers>>

(* adjust: the update finds its row, and the entry is written with it.     *)
AdjustCommit(h) ==
    LET m == handler[h].meter
        delta == handler[h].amount
    IN  /\ handler[h].pc = "adjust"
        /\ InRange(m, delta)
        /\ meter' = [meter EXCEPT ![m].balance = @ + delta]
        /\ Record("adjust", m, NoEvent, delta, meter[m].balance)
        /\ Finish(h) /\ Unlock(h)
        /\ UNCHANGED <<license, draft, stale, answers>>

AdjustRefuse(h) ==
    /\ handler[h].pc = "adjust"
    /\ ~InRange(handler[h].meter, handler[h].amount)
    /\ Finish(h) /\ Unlock(h)
    /\ UNCHANGED <<license, draft, meter, ledger, stale, answers>>

(* createLicenseMeter                                                      *)
CreateBegin(h, m, balance) ==
    /\ Start(h)
    /\ Lock(h)
    /\ Goto(h, [Idle EXCEPT !.pc = "create", !.meter = m, !.amount = balance])
    /\ UNCHANGED <<license, draft, meter, ledger, stale, answers>>

(* The name is free (an archived meter keeps its name) and the license was *)
(* not deleted meanwhile; the draft is refreshed afterwards.               *)
CreateCommit(h) ==
    LET m == handler[h].meter
        balance == handler[h].amount
    IN  /\ handler[h].pc = "create"
        /\ license.exists /\ meter[m].state = "none"
        /\ meter' = [meter EXCEPT ![m] = [state |-> "active", balance |-> balance]]
        /\ ledger' = Append(ledger, CreateEntry(m, balance))
        /\ Goto(h, [Idle EXCEPT !.pc = "draftRead"])
        /\ Unlock(h)
        /\ UNCHANGED <<license, draft, stale, answers>>

CreateRefuse(h) ==
    /\ handler[h].pc = "create"
    /\ ~license.exists \/ meter[handler[h].meter].state # "none"
    /\ Finish(h) /\ Unlock(h)
    /\ UNCHANGED <<license, draft, meter, ledger, stale, answers>>

(* archiveLicenseMeter                                                     *)
ArchiveBegin(h, m) ==
    /\ Start(h)
    /\ Lock(h)
    /\ Goto(h, [Idle EXCEPT !.pc = "archive", !.meter = m])
    /\ UNCHANGED <<license, draft, meter, ledger, stale, answers>>

(* A metered license keeps its last active meter.                          *)
LastMeter(m) == license.metered /\ Active = {m}

ArchiveCommit(h) ==
    LET m == handler[h].meter
    IN  /\ handler[h].pc = "archive"
        /\ license.exists /\ meter[m].state = "active" /\ ~LastMeter(m)
        /\ meter' = [meter EXCEPT ![m].state = "archived"]
        /\ Record("archive", m, NoEvent, 0, meter[m].balance)
        /\ Goto(h, [Idle EXCEPT !.pc = "draftRead"])
        /\ Unlock(h)
        /\ UNCHANGED <<license, draft, stale, answers>>

(* Nothing is archived: a meter archived before still refreshes the draft, *)
(* a missing one and the last one are errors.                              *)
ArchiveNothing(h) ==
    LET m == handler[h].meter
    IN  /\ handler[h].pc = "archive"
        /\ ~license.exists \/ meter[m].state # "active" \/ LastMeter(m)
        /\ IF license.exists /\ meter[m].state = "archived"
           THEN Goto(h, [Idle EXCEPT !.pc = "draftRead"])
           ELSE Finish(h)
        /\ Unlock(h)
        /\ UNCHANGED <<license, draft, meter, ledger, stale, answers>>

(* updateMeterDraft: listMeters, then a transaction that writes the row.   *)
DraftRead(h) ==
    /\ handler[h].pc = "draftRead"
    /\ Goto(h, [Idle EXCEPT !.pc = "draftWrite", !.names = Active])
    /\ UNCHANGED <<license, draft, meter, ledger, lock, stale, answers>>

DraftWrite(h) ==
    /\ handler[h].pc = "draftWrite"
    /\ IF license.exists
       THEN draft' = handler[h].names /\ RowWritten
       ELSE UNCHANGED <<draft, stale>>
    /\ Finish(h)
    /\ UNCHANGED <<license, meter, ledger, lock, answers>>

(* insertNewMeters accepts a meter that is already there as asked for.     *)
Insertable(m, balance) ==
    meter[m] \in {NoMeter, [state |-> "active", balance |-> balance]}

(* updateLicense reads the row and the meters and checks the update; a     *)
(* metered license needs a meter, and only a metered one may bring a new   *)
(* meter along.                                                            *)
UpdateRead(h, target, adds, m, balance) ==
    LET names == IF adds THEN Active \cup {m} ELSE Active
    IN  /\ Start(h)
        /\ adds => target /\ Insertable(m, balance)
        /\ target => names # {}
        /\ Goto(h, [Idle EXCEPT !.pc = "update", !.target = target,
                                !.adds = adds /\ m \notin Active,
                                !.meter = m, !.amount = balance,
                                !.names = IF target \/ license.metered THEN names ELSE draft])
        /\ stale' = stale \ {h}
        /\ UNCHANGED <<license, draft, meter, ledger, lock, answers>>

(* Deliberate fault: the active meters are not counted again under the     *)
(* lock.                                                                   *)
UpdatableUnchecked(h) ==
    /\ license.exists
    /\ h \notin stale
    /\ handler[h].adds => Insertable(handler[h].meter, handler[h].amount)

(* The conditions under which DrizzleLicenseRepository.update commits; the *)
(* meters are locked only for a metered license.                           *)
Updatable(h) ==
    /\ license.exists
    /\ h \notin stale
    /\ handler[h].adds => Insertable(handler[h].meter, handler[h].amount)
    /\ handler[h].target => handler[h].adds \/ Active # {}

UpdateCommit(h) ==
    LET m == handler[h].meter
    IN  /\ handler[h].pc = "update"
        /\ handler[h].target => lock = Nobody
        /\ Updatable(h)
        /\ license' = [license EXCEPT !.metered = handler[h].target]
        /\ draft' = handler[h].names
        /\ IF handler[h].adds /\ meter[m] = NoMeter
           THEN /\ meter' = [meter EXCEPT ![m] = [state |-> "active",
                                                 balance |-> handler[h].amount]]
                /\ ledger' = Append(ledger, CreateEntry(m, handler[h].amount))
           ELSE UNCHANGED <<meter, ledger>>
        /\ RowWritten
        /\ Finish(h)
        /\ UNCHANGED <<lock, answers>>

UpdateRefuse(h) ==
    /\ handler[h].pc = "update"
    /\ handler[h].target => lock = Nobody
    /\ ~Updatable(h)
    /\ Finish(h)
    /\ UNCHANGED <<license, draft, meter, ledger, lock, stale, answers>>

(* deleteLicense cascades to the meters and the ledger and takes no        *)
(* advisory lock.                                                          *)
DeleteLicense(h) ==
    /\ handler[h].pc = "idle"
    /\ license.exists
    /\ license' = [license EXCEPT !.exists = FALSE]
    /\ draft' = {}
    /\ meter' = [m \in Meter |-> NoMeter]
    /\ ledger' = <<>>
    /\ UNCHANGED <<lock, handler, stale, answers>>

-----------------------------------------------------------------------------
(* The process dies, the connection is lost, or the reply does not arrive: *)
(* an open transaction rolls back and its lock is free.                    *)
Fail(h) ==
    /\ Faults
    /\ handler[h].pc # "idle"
    /\ Finish(h) /\ Unlock(h)
    /\ UNCHANGED <<license, draft, meter, ledger, stale, answers>>

BeginStep(h) ==
    \/ \E e \in EventId, m \in Meter, u \in Units : ConsumeCheck(h, e, m, u)
    \/ \E m \in Meter, d \in Deltas : AdjustBegin(h, m, d)
    \/ \E m \in Meter, b \in Balance : CreateBegin(h, m, b)
    \/ \E m \in Meter : ArchiveBegin(h, m)
    \/ \E target \in BOOLEAN, adds \in BOOLEAN, m \in Meter, b \in Balance :
          UpdateRead(h, target, adds, m, b)
    \/ DeleteLicense(h)

(* The steps that wait for the lock.                                       *)
LockStep(h) ==
    ConsumeReplay(h) \/ ConsumeBegin(h) \/ ConsumeRefuse(h) \/ UpdateCommit(h) \/ UpdateRefuse(h)

HandlerStep(h) ==
    \/ LockStep(h)
    \/ ConsumeCommit(h) \/ ConsumeExhausted(h) \/ ConsumeReply(h)
    \/ AdjustCommit(h) \/ AdjustRefuse(h)
    \/ CreateCommit(h) \/ CreateRefuse(h)
    \/ ArchiveCommit(h) \/ ArchiveNothing(h)
    \/ DraftRead(h) \/ DraftWrite(h)

Next == \E h \in Handler : BeginStep(h) \/ HandlerStep(h) \/ Fail(h)

Spec == Init /\ [][Next]_vars

-----------------------------------------------------------------------------
(* Correctness                                                             *)

EntriesOf(m) == {i \in DOMAIN ledger : ledger[i].meter = m}

(* The ledger explains every balance: the entries of a meter start with    *)
(* its creation at 0, each takes up the balance the one before left and    *)
(* changes it by its delta, and the last one leaves the present balance.   *)
LedgerExplainsBalance ==
    \A m \in Meter :
        /\ meter[m].state = "none" <=> EntriesOf(m) = {}
        /\ \A i \in EntriesOf(m) :
              LET earlier == {j \in EntriesOf(m) : j < i}
                  later == {j \in EntriesOf(m) : j > i}
              IN  /\ ledger[i].after = ledger[i].before + ledger[i].delta
                  /\ earlier = {} => ledger[i].kind = "create" /\ ledger[i].before = 0
                  /\ later = {} => ledger[i].after = meter[m].balance
                  /\ \A j \in later :
                        (\A k \in later : j <= k) => ledger[j].before = ledger[i].after

(* A success a client has seen is in the ledger, as one debit of exactly   *)
(* those units that left exactly that remainder, however often the request *)
(* was repeated and whatever answers were lost.                            *)
AnswersRecorded ==
    license.exists =>
        \A a \in answers :
            \E i \in DOMAIN ledger :
                /\ Recorded(a.event) = {i}
                /\ ledger[i].kind = "consume" /\ ledger[i].meter = a.meter
                /\ ledger[i].delta = -a.units /\ ledger[i].after = a.remaining

(* A metered license has an active meter, although operators archive       *)
(* meters and change the type at the same time.                            *)
MeteredKeepsMeter == license.exists /\ license.metered => Active # {}

(* A usage report is accepted only for a metered license.                  *)
UsageOnlyMetered ==
    [][\A h \in Handler : ConsumeCommit(h) => license.metered]_vars

-----------------------------------------------------------------------------
(* The debits of the ledger, as the abstract account sees them.            *)
Debits == {[event |-> ledger[i].event, meter |-> ledger[i].meter,
            units |-> -ledger[i].delta, remaining |-> ledger[i].after] :
              i \in {j \in DOMAIN ledger : ledger[j].kind = "consume"}}

Abstract == INSTANCE MeterAccount WITH account <- meter, debited <- Debits

(* The transactions implement the account of MeterAccount.                 *)
ImplementsAccount == Abstract!AccountSpec

=============================================================================
