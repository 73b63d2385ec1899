------------------------------ MODULE StripeSync ------------------------------
(***************************************************************************)
(* The optional Stripe integration: the durable inbox of webhook events    *)
(* (StripeWebhookService.ts), linking, unlinking and reconciliation        *)
(* (StripeSubscriptionService.ts), their repositories                      *)
(* (DrizzleStripeRepository.ts), and updateLicense, which may end a link.  *)
(*                                                                         *)
(* A subscription at Stripe is the number of its last change; change n     *)
(* makes event n, which Stripe delivers until it is accepted.  The steps   *)
(* of a handler are what lies between two awaits that others can fall      *)
(* into: it holds the advisory lock stripe:<subscription> while it asks    *)
(* Stripe, and the rows it writes are locked in its last step only.        *)
(***************************************************************************)
EXTENDS Integers, FiniteSets

CONSTANTS
    Worker,         \* webhook workers, one per server process
    Operator,       \* operator request handlers
    Nobody,         \* no handler
    License,        \* licenses
    Subscription,   \* subscriptions at Stripe
    MaxChanges,     \* bound: changes made at Stripe
    BatchSize,      \* batchSize of the worker
    Lease,          \* the 60 s of claimDue, in units of time
    BaseDelay,      \* baseDelayMs, in units of time
    MaxDelay,       \* maxDelayMs, in units of time
    MaxFailures,    \* bound: calls, connections and processes that fail
    Operations      \* bound: what the operators do, a subset of OperationKinds

OperationKinds == {"link", "sync", "unlink", "update", "delete"}

ASSUME StripeHandlerAssumption == Nobody \notin Worker \cup Operator /\ Worker \cap Operator = {}
ASSUME StripeRowAssumption == License # {} /\ Subscription # {}
ASSUME StripeBoundAssumption == MaxChanges \in Nat /\ MaxFailures \in Nat
ASSUME StripeTimeAssumption ==
    /\ BatchSize \in Nat \ {0} /\ Lease \in Nat \ {0} /\ BaseDelay \in Nat \ {0}
    /\ MaxDelay \in Nat /\ MaxDelay >= BaseDelay
ASSUME OperationsAssumption == Operations \subseteq OperationKinds

VARIABLES
    stripe,         \* external: the subscriptions at Stripe
    event,          \* stripe_webhook_events
    license,        \* licenses: type and expiresAt
    link,           \* stripe_subscription_links, by license (unique)
    lock,           \* holder of the advisory lock of every subscription
    process,        \* local state of every handler
    stale,          \* operators whose reading of the license row is out of date
    failures        \* bound: failures so far

vars == <<stripe, event, license, link, lock, process, stale, failures>>

-----------------------------------------------------------------------------
(* Types                                                                   *)

Handler == Worker \cup Operator
Event == 1 .. MaxChanges
Version == 0 .. MaxChanges

(* An expiresAt an operator chose; others are the paidThrough of a change. *)
Manual == -1

(* paid: some item of the subscription has a period, so paidThrough is     *)
(* not null.                                                               *)
Snapshot == [version : Version, paid : BOOLEAN]

EventRow == [status : {"none", "sent", "pending", "processing", "failed", "processed"},
             sub : Subscription,
             due : 0 .. Lease + MaxDelay,       \* until nextAttemptAt
             attempts : 0 .. MaxDelay]          \* saturates: the delay does, too

LicenseRow == [type : {"subscription", "other", "deleted"}, expiry : Version \cup {Manual}]

Link == [linked : {TRUE}, sub : Subscription, version : Version, paid : BOOLEAN]

NoLink == [linked |-> FALSE]

Pc == {"idle", "batch", "reconcile", "fetch", "write", "mark", "failed",
       "link", "linkFetch", "linkWrite", "update", "unlink"}

(* A row as claimDue returned it.                                          *)
Claim == [event : Event, attempts : 1 .. MaxDelay]

NoClaim == [event |-> 0, attempts |-> 0]

Process == [pc : Pc,
            batch : SUBSET Claim,               \* claimed events, not yet marked
            work : {NoClaim} \cup Claim,        \* the one in work
            age : 0 .. MaxDelay,                \* time since the claim
            license : License,
            sub : Subscription,
            snapshot : Snapshot,                \* what Stripe answered
            target : {"subscription", "other"}, \* type after the update
            manual : BOOLEAN,                   \* the update brings an expiresAt
            confirm : BOOLEAN,                  \* unlinkStripe
            linked : BOOLEAN]                   \* the update found a link

Idle == [pc |-> "idle", batch |-> {}, work |-> NoClaim, age |-> 0,
         license |-> CHOOSE l \in License : TRUE, sub |-> CHOOSE s \in Subscription : TRUE,
         snapshot |-> [version |-> 0, paid |-> FALSE], target |-> "other",
         manual |-> FALSE, confirm |-> FALSE, linked |-> FALSE]

(* A type invariant: every variable keeps its shape.                       *)
TypeOK ==
    /\ stripe \in [Subscription -> Snapshot]
    /\ event \in [Event -> EventRow]
    /\ license \in [License -> LicenseRow]
    /\ link \in [License -> Link \cup {NoLink}]
    /\ lock \in [Subscription -> Handler \cup {Nobody}]
    /\ process \in [Handler -> Process]
    /\ stale \subseteq Operator
    /\ failures \in 0 .. MaxFailures

Init ==
    /\ stripe \in [Subscription -> [version : {0}, paid : BOOLEAN]]
    /\ event = [e \in Event |-> [status |-> "none", sub |-> Idle.sub, due |-> 0,
                                 attempts |-> 0]]
    /\ license \in [License -> [type : {"subscription", "other"}, expiry : {Manual}]]
    /\ link = [l \in License |-> NoLink]
    /\ lock = [s \in Subscription |-> Nobody]
    /\ process = [h \in Handler |-> Idle]
    /\ stale = {}
    /\ failures = 0

-----------------------------------------------------------------------------
(* Stripe                                                                  *)

Emitted == {e \in Event : event[e].status # "none"}

(* Something happens to a subscription, and an event tells of it.          *)
Change(s) ==
    LET n == Cardinality(Emitted) + 1
    IN  /\ n \in Event
        /\ \E paid \in BOOLEAN : stripe' = [stripe EXCEPT ![s] = [version |-> n, paid |-> paid]]
        /\ event' = [event EXCEPT ![n] = [@ EXCEPT !.status = "sent", !.sub = s]]
        /\ UNCHANGED <<license, link, lock, process, stale, failures>>

(* receive and enqueue; a second delivery of an event finds its row and    *)
(* changes nothing.                                                        *)
Receive(e) ==
    /\ event[e].status = "sent"
    /\ event' = [event EXCEPT ![e].status = "pending"]
    /\ UNCHANGED <<stripe, license, link, lock, process, stale, failures>>

-----------------------------------------------------------------------------
(* The worker                                                              *)

Goto(h, state) == process' = [process EXCEPT ![h] = state]

Local(h, pc) == [process[h] EXCEPT !.pc = pc]

Unlocked(h) == [s \in Subscription |-> IF lock[s] = h THEN Nobody ELSE lock[s]]

Unlock(h) == lock' = Unlocked(h)

(* Deliberate fault: claimed events are never claimed again.               *)
DueOnce == {e \in Event : event[e].status \in {"pending", "failed"} /\ event[e].due = 0}

(* The rows claimDue selects.                                              *)
Due == {e \in Event : event[e].status \in {"pending", "failed", "processing"}
                         /\ event[e].due = 0}

(* The exponential backoff, which ends at MaxDelay.                        *)
Delay(attempts) ==
    LET delay == BaseDelay * 2 ^ (attempts - 1)
    IN  IF delay \in 1 .. MaxDelay THEN delay ELSE MaxDelay

(* Deliberate fault: the attempt is not counted.                           *)
AttemptUncounted(e) == event[e].attempts

(* attempts + 1, as long as it makes a difference to the delay: no delay   *)
(* is shorter than its attempts, up to MaxDelay.                           *)
Attempt(e) == IF event[e].attempts = MaxDelay THEN MaxDelay ELSE event[e].attempts + 1

(* processDue: claimDue takes a lease on a batch of due events.            *)
ClaimDue(w) ==
    /\ process[w].pc = "idle"
    /\ Due # {}
    /\ \E batch \in SUBSET Due :
          /\ Cardinality(batch) = IF Cardinality(Due) < BatchSize THEN Cardinality(Due)
                                                                  ELSE BatchSize
          /\ event' = [e \in Event |->
                         IF e \in batch
                         THEN [event[e] EXCEPT !.status = "processing", !.due = Lease,
                                               !.attempts = Attempt(e)]
                         ELSE event[e]]
          /\ Goto(w, [Idle EXCEPT !.pc = "batch",
                                  !.batch = {[event |-> e, attempts |-> Attempt(e)] : e \in batch}])
    /\ UNCHANGED <<stripe, license, link, lock, stale, failures>>

(* The loop of processDue and the start of processOne.                     *)
ProcessOne(w) ==
    /\ process[w].pc = "batch"
    /\ IF process[w].batch = {}
       THEN Goto(w, Idle)
       ELSE \E claim \in process[w].batch :
               Goto(w, [Local(w, "reconcile") EXCEPT !.work = claim,
                                                     !.sub = event[claim.event].sub])
    /\ UNCHANGED <<stripe, event, license, link, lock, stale, failures>>

(* The event in work leaves the batch.                                     *)
Marked(w) == [Idle EXCEPT !.pc = "batch", !.age = process[w].age,
                          !.batch = process[w].batch \ {process[w].work}]

MarkProcessed(w) ==
    /\ process[w].pc = "mark"
    /\ event' = [event EXCEPT ![process[w].work.event].status = "processed"]
    /\ Goto(w, Marked(w))
    /\ UNCHANGED <<stripe, license, link, lock, stale, failures>>

(* The catch block of processOne: the next attempt is counted from the     *)
(* time of the claim.                                                      *)
MarkFailed(w) ==
    LET e == process[w].work.event
        left == Delay(process[w].work.attempts) - process[w].age
    IN  /\ process[w].pc = "failed"
        /\ event' = [event EXCEPT ![e].status = "failed",
                                  ![e].due = IF left > 0 THEN left ELSE 0]
        /\ Goto(w, Marked(w))
        /\ UNCHANGED <<stripe, license, link, lock, stale, failures>>

-----------------------------------------------------------------------------
(* Reconciliation                                                          *)

LinkedTo(s) == {l \in License : link[l].linked /\ link[l].sub = s}

(* A worker done with the subscription, not yet with the event.            *)
Settled(w, pc) == [Idle EXCEPT !.pc = pc, !.batch = process[w].batch,
                               !.work = process[w].work, !.age = process[w].age]

(* What follows a reconciliation that returned.                            *)
Return(h) == Goto(h, IF h \in Worker THEN Settled(h, "mark") ELSE Idle)

(* Deliberate fault: an error counts as success.                           *)
ThrowSwallowed(h) == Return(h)

(* What follows one that threw.                                            *)
Throw(h) == Goto(h, IF h \in Worker THEN Settled(h, "failed") ELSE Idle)

(* Others who read this license must read it again.                        *)
RowWritten(l) ==
    stale' = stale \cup {o \in Operator : process[o].pc = "update" /\ process[o].license = l}

(* reconcileSubscription takes the lock; without a link it is done.        *)
ReconcileBegin(h) ==
    LET s == process[h].sub
    IN  /\ process[h].pc = "reconcile"
        /\ lock[s] = Nobody
        /\ IF LinkedTo(s) = {}
           THEN Return(h) /\ UNCHANGED lock
           ELSE Goto(h, Local(h, "fetch")) /\ lock' = [lock EXCEPT ![s] = h]
        /\ UNCHANGED <<stripe, event, license, link, stale, failures>>

(* getSubscription answers.                                                *)
Fetch(h) ==
    /\ process[h].pc = "fetch"
    /\ Goto(h, [Local(h, "write") EXCEPT !.snapshot = stripe[process[h].sub]])
    /\ UNCHANGED <<stripe, event, license, link, lock, stale, failures>>

(* The link as the snapshot of a handler says, and the expiry with it.     *)
LinkOf(h) == [linked |-> TRUE, sub |-> process[h].sub,
              version |-> process[h].snapshot.version, paid |-> process[h].snapshot.paid]

(* Deliberate fault: the write does not go through the locked transaction. *)
ReconcileWriteUnlocked(h) ==
    /\ process[h].pc = "write"
    /\ \E l \in LinkedTo(process[h].sub) :
          /\ link' = [link EXCEPT ![l] = LinkOf(h)]
          /\ license' = [license EXCEPT ![l].expiry = process[h].snapshot.version]
    /\ Return(h) /\ Unlock(h)
    /\ UNCHANGED <<stripe, event, stale, failures>>

(* reconcileForSubscriptionLicense and COMMIT.                             *)
ReconcileWrite(h) ==
    LET s == process[h].sub
        paid == process[h].snapshot.paid
    IN  /\ process[h].pc = "write"
        /\ lock[s] = h
        /\ \/ LinkedTo(s) = {} /\ UNCHANGED <<license, link, stale>>
           \/ \E l \in LinkedTo(s) :
                 IF license[l].type = "subscription"
                 THEN /\ link' = [link EXCEPT ![l] = LinkOf(h)]
                      /\ IF paid
                         THEN /\ license' = [license EXCEPT ![l].expiry =
                                                process[h].snapshot.version]
                              /\ RowWritten(l)
                         ELSE UNCHANGED <<license, stale>>
                 ELSE link' = [link EXCEPT ![l] = NoLink] /\ UNCHANGED <<license, stale>>
        /\ Return(h) /\ Unlock(h)
        /\ UNCHANGED <<stripe, event, failures>>

-----------------------------------------------------------------------------
(* Operators                                                               *)

(* linkLicense: requireSubscriptionLicense.                                *)
LinkLicense(o, l, s) ==
    /\ process[o].pc = "idle"
    /\ license[l].type = "subscription"
    /\ Goto(o, [Idle EXCEPT !.pc = "link", !.license = l, !.sub = s])
    /\ UNCHANGED <<stripe, event, license, link, lock, stale, failures>>

(* Under the lock: a link that is already there is reconciled, a conflict  *)
(* is an error.                                                            *)
LinkBegin(o) ==
    LET l == process[o].license
        s == process[o].sub
    IN  /\ process[o].pc = "link"
        /\ lock[s] = Nobody
        /\ \/ /\ LinkedTo(s) = {} /\ ~link[l].linked
              /\ lock' = [lock EXCEPT ![s] = o]
              /\ Goto(o, Local(o, "linkFetch"))
           \/ /\ LinkedTo(s) # {} \/ link[l].linked
              /\ Goto(o, IF l \in LinkedTo(s) THEN Local(o, "reconcile") ELSE Idle)
              /\ UNCHANGED lock
        /\ UNCHANGED <<stripe, event, license, link, stale, failures>>

(* getSubscription and requirePaidThrough.                                 *)
LinkFetch(o) ==
    LET snapshot == stripe[process[o].sub]
    IN  /\ process[o].pc = "linkFetch"
        /\ IF snapshot.paid
           THEN Goto(o, [Local(o, "linkWrite") EXCEPT !.snapshot = snapshot]) /\ UNCHANGED lock
           ELSE Goto(o, Idle) /\ Unlock(o)
        /\ UNCHANGED <<stripe, event, license, link, stale, failures>>

(* Deliberate fault: the expiry is left to the next reconciliation.        *)
LinkWriteKeepsExpiry(o) ==
    /\ process[o].pc = "linkWrite"
    /\ lock[process[o].sub] = o
    /\ ~link[process[o].license].linked /\ license[process[o].license].type = "subscription"
    /\ link' = [link EXCEPT ![process[o].license] = LinkOf(o)]
    /\ Goto(o, Idle) /\ Unlock(o)
    /\ UNCHANGED <<stripe, event, license, stale, failures>>

(* Deliberate fault: the type is not looked at again.                      *)
LinkableAnyType(o) ==
    ~link[process[o].license].linked /\ LinkedTo(process[o].sub) = {}

(* The license is still a subscription, and the unique indexes agree.      *)
Linkable(o) ==
    /\ license[process[o].license].type = "subscription"
    /\ ~link[process[o].license].linked
    /\ LinkedTo(process[o].sub) = {}

(* createForSubscriptionLicense and COMMIT, or an error.                   *)
LinkWrite(o) ==
    LET l == process[o].license
    IN  /\ process[o].pc = "linkWrite"
        /\ lock[process[o].sub] = o
        /\ IF Linkable(o)
           THEN /\ link' = [link EXCEPT ![l] = LinkOf(o)]
                /\ license' = [license EXCEPT ![l].expiry = process[o].snapshot.version]
                /\ RowWritten(l)
           ELSE UNCHANGED <<link, license, stale>>
        /\ Goto(o, Idle) /\ Unlock(o)
        /\ UNCHANGED <<stripe, event, failures>>

(* syncLicense                                                             *)
SyncLicense(o, l) ==
    /\ process[o].pc = "idle"
    /\ link[l].linked
    /\ Goto(o, [Idle EXCEPT !.pc = "reconcile", !.license = l, !.sub = link[l].sub])
    /\ UNCHANGED <<stripe, event, license, link, lock, stale, failures>>

(* unlinkLicense                                                           *)
UnlinkLicense(o, l) ==
    /\ process[o].pc = "idle"
    /\ link[l].linked
    /\ link' = [link EXCEPT ![l] = NoLink]
    /\ UNCHANGED <<stripe, event, license, lock, process, stale, failures>>

(* updateLicense reads the license and, when it matters, the link.         *)
UpdateRead(o, l, target, manual, confirm) ==
    LET linked == (target = "other" \/ manual) /\ link[l].linked
    IN  /\ process[o].pc = "idle"
        /\ license[l].type # "deleted"
        /\ manual => target = "subscription"
        /\ linked => target = "other" /\ confirm
        /\ Goto(o, [Idle EXCEPT !.pc = "update", !.license = l, !.target = target,
                                !.manual = manual, !.confirm = confirm, !.linked = linked])
        /\ stale' = stale \ {o}
        /\ UNCHANGED <<stripe, event, license, link, lock, failures>>

(* What DrizzleLicenseRepository.update checks under the row lock.         *)
Updatable(o) ==
    LET l == process[o].license
    IN  /\ license[l].type # "deleted"
        /\ o \notin stale
        /\ link[l].linked => IF process[o].target = "other" THEN process[o].confirm
                                                           ELSE ~process[o].manual

(* The transaction ends the link of a license that is no subscription any  *)
(* more, and leaves the expiry of a linked one alone.  The handler then    *)
(* calls deleteByLicenseId if it had found a link.                         *)
UpdateCommit(o) ==
    LET l == process[o].license
        target == process[o].target
        chosen == process[o].manual \/ license[l].type # target
    IN  /\ process[o].pc = "update"
        /\ Updatable(o)
        /\ license' = [license EXCEPT
                         ![l].type = target,
                         ![l].expiry = IF ~link[l].linked /\ chosen THEN Manual ELSE @]
        /\ link' = [link EXCEPT ![l] = IF target = "other" THEN NoLink ELSE @]
        /\ RowWritten(l)
        /\ Goto(o, IF process[o].linked THEN Local(o, "unlink") ELSE Idle)
        /\ UNCHANGED <<stripe, event, lock, failures>>

UpdateRefuse(o) ==
    /\ process[o].pc = "update"
    /\ ~Updatable(o)
    /\ Goto(o, Idle)
    /\ UNCHANGED <<stripe, event, license, link, lock, stale, failures>>

(* deleteByLicenseId after the update.                                     *)
UnlinkAfterUpdate(o) ==
    /\ process[o].pc = "unlink"
    /\ link' = [link EXCEPT ![process[o].license] = NoLink]
    /\ Goto(o, Idle)
    /\ UNCHANGED <<stripe, event, license, lock, stale, failures>>

(* deleteLicense cascades to the link.                                     *)
DeleteLicense(o, l) ==
    /\ process[o].pc = "idle"
    /\ license[l].type # "deleted"
    /\ license' = [license EXCEPT ![l].type = "deleted"]
    /\ link' = [link EXCEPT ![l] = NoLink]
    /\ UNCHANGED <<stripe, event, lock, process, stale, failures>>

-----------------------------------------------------------------------------
(* Failures and time                                                       *)

Failure == failures < MaxFailures /\ failures' = failures + 1

(* Stripe does not answer, a statement fails, or the activity cannot be    *)
(* recorded: the transaction rolls back and the handler throws.            *)
CallFails(h) ==
    /\ process[h].pc \in {"fetch", "write", "mark", "linkFetch", "linkWrite"}
    /\ Failure
    /\ Throw(h) /\ Unlock(h)
    /\ UNCHANGED <<stripe, event, license, link, stale>>

(* The database drops the connection of a handler that waits for Stripe.   *)
ConnectionLost(h) ==
    /\ process[h].pc \in {"fetch", "write", "linkFetch", "linkWrite"}
    /\ lock[process[h].sub] = h
    /\ Failure
    /\ Unlock(h)
    /\ UNCHANGED <<stripe, event, license, link, process, stale>>

(* Its next statement throws.                                              *)
WriteFails(h) ==
    /\ process[h].pc \in {"write", "linkWrite"}
    /\ lock[process[h].sub] # h
    /\ Throw(h)
    /\ UNCHANGED <<stripe, event, license, link, lock, stale, failures>>

(* The process dies, or a statement of the catch block fails: the batch is *)
(* abandoned.                                                              *)
Crash(h) ==
    /\ process[h].pc # "idle"
    /\ Failure
    /\ Goto(h, Idle) /\ Unlock(h)
    /\ UNCHANGED <<stripe, event, license, link, stale>>

Tick ==
    /\ \/ \E e \in Event : event[e].due > 0
       \/ \E w \in Worker : process[w].pc # "idle" /\ process[w].age < MaxDelay
    /\ event' = [e \in Event |-> [event[e] EXCEPT !.due = IF @ > 0 THEN @ - 1 ELSE 0]]
    /\ process' = [h \in Handler |->
                     IF process[h].pc = "idle" \/ h \notin Worker THEN process[h]
                     ELSE [process[h] EXCEPT !.age = IF @ < MaxDelay THEN @ + 1 ELSE @]]
    /\ UNCHANGED <<stripe, license, link, lock, stale, failures>>

-----------------------------------------------------------------------------
(* The steps that wait for the lock of a subscription.                     *)
LockStep(h) == ReconcileBegin(h) \/ (h \in Operator /\ LinkBegin(h))

HandlerStep(h) ==
    \/ LockStep(h)
    \/ Fetch(h) \/ ReconcileWrite(h) \/ WriteFails(h)
    \/ /\ h \in Worker
       /\ ClaimDue(h) \/ ProcessOne(h) \/ MarkProcessed(h) \/ MarkFailed(h)
    \/ /\ h \in Operator
       /\ \/ LinkFetch(h) \/ LinkWrite(h)
          \/ UpdateCommit(h) \/ UpdateRefuse(h) \/ UnlinkAfterUpdate(h)

OperatorStart(o) ==
    \/ /\ "link" \in Operations
       /\ \E l \in License, s \in Subscription : LinkLicense(o, l, s)
    \/ "sync" \in Operations /\ \E l \in License : SyncLicense(o, l)
    \/ "unlink" \in Operations /\ \E l \in License : UnlinkLicense(o, l)
    \/ "delete" \in Operations /\ \E l \in License : DeleteLicense(o, l)
    \/ /\ "update" \in Operations
       /\ \E l \in License, target \in {"subscription", "other"},
             manual \in BOOLEAN, confirm \in BOOLEAN : UpdateRead(o, l, target, manual, confirm)

Next ==
    \/ \E s \in Subscription : Change(s)
    \/ \E e \in Event : Receive(e)
    \/ \E o \in Operator : OperatorStart(o)
    \/ \E h \in Handler : HandlerStep(h) \/ CallFails(h) \/ ConnectionLost(h) \/ Crash(h)
    \/ Tick

Spec == Init /\ [][Next]_vars

(* Stripe delivers every event in the end, time passes, the timer of the   *)
(* worker wakes it, every handler that can go on does, and the queue of    *)
(* the advisory lock serves those who wait.                                *)
FairSpec ==
    /\ Spec
    /\ \A e \in Event : WF_vars(Receive(e))
    /\ \A h \in Handler : WF_vars(HandlerStep(h)) /\ SF_vars(LockStep(h))
    /\ WF_vars(Tick)

-----------------------------------------------------------------------------
(* Correctness                                                             *)

(* Duplicate, late and reordered events are safe: once an event is marked  *)
(* processed, the link of its subscription shows that change or a later    *)
(* one, although links come and go, leases run out and two workers process *)
(* the same event.                                                         *)
NoChangeLost ==
    \A e \in Event, l \in License :
        event[e].status = "processed" /\ l \in LinkedTo(event[e].sub)
            => link[l].version >= e

(* A link never goes back to an older state of its subscription.           *)
LinkNeverGoesBack ==
    [][\A l \in License :
          link[l].linked /\ link'[l].linked /\ link'[l].sub = link[l].sub
              => link'[l].version >= link[l].version]_vars

(* Only subscription licenses are linked, although the type is changed     *)
(* while a link is being made.                                             *)
LinkedAreSubscriptions ==
    \A l \in License : link[l].linked => license[l].type = "subscription"

(* A linked license expires when Stripe says so: no update of an operator  *)
(* puts another date over it.                                              *)
ExpiryFollowsStripe ==
    \A l \in License :
        link[l].linked /\ link[l].paid => license[l].expiry = link[l].version

(* A linked license is under the control of Stripe: it is a subscription   *)
(* license and expires when Stripe says so.                                *)
LinkedFollowStripe == LinkedAreSubscriptions /\ ExpiryFollowsStripe

(* A subscription license loses its link only when an operator asks for    *)
(* it; otherwise a change of type is what ends a link.                     *)
LinkEndsOnRequest ==
    [][\A l \in License :
          link[l].linked /\ ~link'[l].linked
              => \/ license'[l].type # "subscription"
                 \/ \E o \in Operator : UnlinkLicense(o, l)]_vars

(* Once Stripe is quiet and failures end, every link shows the present     *)
(* state of its subscription, and stays so.                                *)
Converges ==
    \A l \in License :
        <>[](link[l].linked => link[l].version = stripe[link[l].sub].version)

=============================================================================
