--------------------------- MODULE StripeSyncProofs ---------------------------
(***************************************************************************)
(* No change made at Stripe is lost on a linked license, for any number of *)
(* workers, operators, licenses, subscriptions, changes and failures.  The *)
(* invariant says what the advisory lock of a subscription is worth: while *)
(* a handler holds it, no event of the subscription is done with and no    *)
(* link of it is written, so that what Stripe told the handler is news.    *)
(***************************************************************************)
EXTENDS StripeSync, FiniteSetTheorems, TLAPS

-----------------------------------------------------------------------------
(* The inductive invariant                                                 *)

WorkerPc == {"idle", "batch", "reconcile", "fetch", "write", "mark", "failed"}
Working == {"reconcile", "fetch", "write", "mark", "failed"}
Reconciling == {"reconcile", "fetch", "write"}
Writing == {"write", "linkWrite"}

(* Events are numbered as they come, and Stripe has them all.              *)
EventsTold ==
    /\ \E k \in Version : Emitted = 1 .. k
    /\ \A s \in Subscription : stripe[s].version \in Emitted \cup {0}
    /\ \A e \in Emitted : e <= stripe[event[e].sub].version

(* An event whose reconciliation is over.                                  *)
SettledEvent(e) ==
    \/ event[e].status = "processed"
    \/ \E w \in Worker : process[w].pc = "mark" /\ process[w].work.event = e

(* What is known of a handler and the events it works on.                  *)
WorkKnown(h) ==
    LET p == process[h]
    IN  /\ \A c \in p.batch : c.event \in Emitted
        /\ h \in Worker =>
              /\ p.pc \in WorkerPc
              /\ p.pc \in Working => p.work \in Claim /\ p.work.event \in Emitted
              /\ p.pc \in Reconciling => p.sub = event[p.work.event].sub
              /\ p.pc = "write" => p.work.event <= p.snapshot.version

(* What Stripe has told a handler is news as long as it has the lock.      *)
SnapshotFresh(h) ==
    LET p == process[h]
    IN  p.pc \in Writing =>
          /\ p.snapshot.version <= stripe[p.sub].version
          /\ lock[p.sub] = h =>
                /\ \A e \in Event : SettledEvent(e) /\ event[e].sub = p.sub
                                       => e <= p.snapshot.version
                /\ \A l \in License : link[l].linked /\ link[l].sub = p.sub
                                       => link[l].version <= p.snapshot.version

LinksBehind == \A l \in License : link[l].linked => link[l].version <= stripe[link[l].sub].version

LinksUnique ==
    \A l, m \in License : link[l].linked /\ link[m].linked /\ link[l].sub = link[m].sub => l = m

(* An event that is over shows in the link.                                *)
EventsShown ==
    \A e \in Event, l \in License :
        SettledEvent(e) /\ link[l].linked /\ link[l].sub = event[e].sub => e <= link[l].version

IInv ==
    /\ TypeOK /\ EventsTold
    /\ \A h \in Handler : WorkKnown(h) /\ SnapshotFresh(h)
    /\ LinksBehind /\ LinksUnique /\ EventsShown /\ LinkedFollowStripe

-----------------------------------------------------------------------------
(* What a step leaves as it was                                            *)

(* A handler at rest has nothing in work.                                  *)
LEMMA IdleType ==
    Idle \in Process /\ Idle.pc = "idle" /\ Idle.batch = {} /\ Idle.sub \in Subscription
<1>1. (CHOOSE l \in License : TRUE) \in License
  BY StripeRowAssumption
<1>2. (CHOOSE s \in Subscription : TRUE) \in Subscription
  BY StripeRowAssumption
<1>3. 0 \in Version /\ 0 \in 0 .. MaxDelay
  BY StripeBoundAssumption, StripeTimeAssumption DEF Version
<1> QED
  BY <1>1, <1>2, <1>3 DEF Idle, Process, Pc, Snapshot

(* A link is a record of the subscription it follows.                      *)
LEMMA LinkType ==
    ASSUME TypeOK, NEW l \in License, link[l].linked
    PROVE  /\ link[l] \in Link
           /\ link[l].sub \in Subscription /\ link[l].version \in Version
           /\ link[l].version \in Nat
<1>1. link[l] \in Link \cup {NoLink}
  BY DEF TypeOK
<1>2. link[l] # NoLink
  <2>1. ~NoLink.linked
    BY DEF NoLink
  <2> QED
    BY <2>1, Zenon
<1>3. link[l] \in Link
  BY <1>1, <1>2, Zenon
<1>4. link[l].sub \in Subscription /\ link[l].version \in Version
  BY <1>3 DEF Link
<1> QED
  BY <1>3, <1>4, StripeBoundAssumption DEF Version

(* An event that is over was told before.                                  *)
LEMMA SettledEmitted ==
    ASSUME IInv, NEW e \in Event, SettledEvent(e)
    PROVE  e \in Emitted
<1>1. CASE event[e].status = "processed"
  BY <1>1 DEF Emitted
<1>2. ASSUME NEW w \in Worker, process[w].pc = "mark" /\ process[w].work.event = e
      PROVE  e \in Emitted
  BY <1>2 DEF IInv, WorkKnown, Working, Handler
<1> QED
  BY <1>1, <1>2 DEF SettledEvent

(* The events keep their numbers and subscriptions, and only one that is   *)
(* over is processed.                                                      *)
EventsKept ==
    \A e \in Event :
        /\ event'[e].sub = event[e].sub
        /\ event'[e].status = "none" <=> event[e].status = "none"
        /\ event'[e].status = "processed" => SettledEvent(e)

(* What another handler knows stays true when a step of h ends no event    *)
(* and writes no link of a subscription whose lock h has not got.          *)
LEMMA StepKeeps ==
    ASSUME IInv, TypeOK', NEW h \in Handler, NEW s \in Process, Goto(h, s),
           UNCHANGED stripe, EventsKept,
           \A x \in Subscription, g \in Handler \ {h} : lock'[x] = g => lock[x] = g,
           \A l \in License : \/ link'[l] = link[l]
                              \/ ~link'[l].linked
                              \/ lock[link'[l].sub] = h,
           h \in Worker /\ s.pc = "mark" =>
               SettledEvent(s.work.event) \/ lock[event[s.work.event].sub] \in {h, Nobody},
           WorkKnown(h)', SnapshotFresh(h)',
           EventsShown', LinksBehind', LinksUnique', LinkedFollowStripe'
    PROVE  IInv'
<1>1. Emitted' = Emitted
  BY DEF EventsKept, Emitted
<1>2. EventsTold'
  BY <1>1 DEF EventsTold, IInv, EventsKept, Emitted
<1>3. ASSUME NEW g \in Handler, g # h
      PROVE  WorkKnown(g)' /\ SnapshotFresh(g)'
  <2>1. process'[g] = process[g] /\ process[g] \in Process
    BY <1>3 DEF Goto, IInv, TypeOK
  <2>2. WorkKnown(g)'
    <3>1. \A c \in process[g].batch : c.event \in Emitted
      BY DEF IInv, WorkKnown
    <3>2. CASE g \in Worker
      <4>1. process[g].pc \in Reconciling => process[g].work.event \in Event
        BY <3>2 DEF IInv, WorkKnown, Reconciling, Working, Emitted
      <4> QED
        BY <1>1, <2>1, <3>1, <3>2, <4>1 DEF IInv, WorkKnown, EventsKept
    <3> QED
      BY <1>1, <2>1, <3>1, <3>2 DEF WorkKnown
  <2>3. SnapshotFresh(g)'
    <3> DEFINE p == process[g]
    <3> SUFFICES ASSUME p.pc \in Writing, p.sub \in Subscription
                 PROVE  /\ p.snapshot.version <= stripe[p.sub].version
                        /\ lock'[p.sub] = g =>
                              /\ \A e \in Event : SettledEvent(e)' /\ event'[e].sub = p.sub
                                                     => e <= p.snapshot.version
                              /\ \A l \in License : link'[l].linked /\ link'[l].sub = p.sub
                                                     => link'[l].version <= p.snapshot.version
      <4>1. p.sub \in Subscription
        BY <2>1 DEF Process
      <4> QED
        BY <2>1, <4>1 DEF SnapshotFresh
    <3>1. p.snapshot.version <= stripe[p.sub].version
      BY DEF IInv, SnapshotFresh
    <3>2. ASSUME lock'[p.sub] = g
          PROVE  lock[p.sub] = g /\ g # Nobody
      BY <3>2, <1>3, StripeHandlerAssumption DEF Handler
    <3>3. ASSUME lock'[p.sub] = g, NEW e \in Event, SettledEvent(e)', event'[e].sub = p.sub
          PROVE  e <= p.snapshot.version
      <4>1. event[e].sub = p.sub /\ lock[p.sub] = g /\ g # Nobody
        BY <3>2, <3>3 DEF EventsKept
      <4>2. SettledEvent(e)
        <5>1. CASE event'[e].status = "processed"
          BY <5>1 DEF EventsKept
        <5>2. ASSUME NEW w \in Worker, process'[w].pc = "mark", process'[w].work.event = e
              PROVE  SettledEvent(e)
          <6>1. CASE w = h
            <7>1. process'[w] = s
              BY <6>1 DEF Goto, IInv, TypeOK
            <7> QED
              BY <1>3, <4>1, <5>2, <6>1, <7>1
          <6>2. CASE w # h
            BY <5>2, <6>2 DEF Goto, IInv, TypeOK, SettledEvent, Handler
          <6> QED
            BY <6>1, <6>2
        <5> QED
          BY <3>3, <5>1, <5>2 DEF SettledEvent
      <4> QED
        BY <4>1, <4>2 DEF IInv, SnapshotFresh
    <3>4. ASSUME lock'[p.sub] = g, NEW l \in License, link'[l].linked, link'[l].sub = p.sub
          PROVE  link'[l].version <= p.snapshot.version
      <4>1. link'[l] = link[l]
        BY <1>3, <3>2, <3>4
      <4> QED
        BY <3>2, <3>4, <4>1 DEF IInv, SnapshotFresh
    <3> QED
      BY <3>1, <3>3, <3>4
  <2> QED
    BY <2>2, <2>3
<1> QED
  BY <1>2, <1>3 DEF IInv

(* A step that writes no link may only end one.                            *)
LinksKept == \A l \in License : link'[l] = link[l] \/ ~link'[l].linked

(* Such a step ends an event only where there is no link to show it.       *)
LEMMA QuietStep ==
    ASSUME IInv, TypeOK', NEW h \in Handler, NEW s \in Process, Goto(h, s),
           UNCHANGED stripe, EventsKept, LinksKept,
           \A x \in Subscription, g \in Handler \ {h} : lock'[x] = g => lock[x] = g,
           h \in Worker /\ s.pc = "mark" =>
               \/ SettledEvent(s.work.event)
               \/ /\ lock[event[s.work.event].sub] = Nobody
                  /\ LinkedTo(event[s.work.event].sub) = {},
           WorkKnown(h)', SnapshotFresh(h)', LinkedFollowStripe'
    PROVE  IInv'
<1>1. LinksBehind'
  BY DEF LinksKept, LinksBehind, IInv
<1>2. LinksUnique'
  BY DEF LinksKept, LinksUnique, IInv
<1>3. EventsShown'
  <2> SUFFICES ASSUME NEW e \in Event, NEW l \in License, SettledEvent(e)',
                      link'[l].linked, link'[l].sub = event'[e].sub
               PROVE  e <= link'[l].version
    BY DEF EventsShown
  <2>1. link'[l] = link[l] /\ link[l].linked /\ link[l].sub = event[e].sub
    BY DEF LinksKept, EventsKept
  <2>2. SettledEvent(e)
    <3>1. CASE event'[e].status = "processed"
      BY <3>1 DEF EventsKept
    <3>2. ASSUME NEW w \in Worker, process'[w].pc = "mark", process'[w].work.event = e
          PROVE  SettledEvent(e)
      <4>1. CASE w = h
        <5>1. process'[w] = s
          BY <4>1 DEF Goto, IInv, TypeOK
        <5>2. l \in LinkedTo(event[e].sub)
          BY <2>1 DEF LinkedTo
        <5> QED
          BY <3>2, <4>1, <5>1, <5>2
      <4>2. CASE w # h
        BY <3>2, <4>2 DEF Goto, IInv, TypeOK, SettledEvent, Handler
      <4> QED
        BY <4>1, <4>2
    <3> QED
      BY <3>1, <3>2 DEF SettledEvent
  <2> QED
    BY <2>1, <2>2 DEF IInv, EventsShown
<1> QED
  BY <1>1, <1>2, <1>3, StepKeeps DEF LinksKept

(* Where no row is written, they stay as they were.                        *)
LEMMA RowsKept ==
    ASSUME IInv, UNCHANGED <<event, license, link>>
    PROVE  EventsKept /\ LinksKept /\ LinkedFollowStripe'
<1>1. EventsKept
  BY DEF EventsKept, SettledEvent
<1>2. LinksKept
  BY DEF LinksKept
<1>3. LinkedFollowStripe'
  BY DEF IInv, LinkedFollowStripe, LinkedAreSubscriptions, ExpiryFollowsStripe
<1> QED
  BY <1>1, <1>2, <1>3

(* The end of a transaction gives its locks back.                          *)
LEMMA UnlockKeeps ==
    ASSUME TypeOK, NEW h \in Handler, Unlock(h)
    PROVE  /\ lock' \in [Subscription -> Handler \cup {Nobody}]
           /\ \A x \in Subscription, g \in Handler \ {h} : lock'[x] = g => lock[x] = g
           /\ \A x \in Subscription : lock'[x] # h
BY StripeHandlerAssumption DEF TypeOK, Unlock, Unlocked, Handler

(* The local states a handler goes to.                                     *)
LEMMA LocalType ==
    ASSUME TypeOK, NEW h \in Handler, NEW pc \in Pc
    PROVE  /\ Local(h, pc) \in Process
           /\ Local(h, pc).pc = pc
           /\ Local(h, pc).batch = process[h].batch
           /\ Local(h, pc).work = process[h].work
           /\ Local(h, pc).sub = process[h].sub
           /\ Local(h, pc).snapshot = process[h].snapshot
<1>1. process[h] \in Process
  BY DEF TypeOK
<1> QED
  BY <1>1 DEF Local, Process

LEMMA SettledType ==
    ASSUME TypeOK, NEW w \in Handler, NEW pc \in Pc
    PROVE  /\ Settled(w, pc) \in Process
           /\ Settled(w, pc).pc = pc
           /\ Settled(w, pc).batch = process[w].batch
           /\ Settled(w, pc).work = process[w].work
<1>1. process[w] \in Process
  BY DEF TypeOK
<1> QED
  BY <1>1, IdleType DEF Settled, Process

LEMMA MarkedType ==
    ASSUME TypeOK, NEW w \in Handler
    PROVE  /\ Marked(w) \in Process
           /\ Marked(w).pc = "batch"
           /\ Marked(w).batch \subseteq process[w].batch
<1>1. process[w] \in Process
  BY DEF TypeOK
<1> QED
  BY <1>1, IdleType DEF Marked, Process, Pc

LEMMA GotoType ==
    ASSUME TypeOK, NEW h \in Handler, NEW s \in Process, Goto(h, s)
    PROVE  process' \in [Handler -> Process] /\ process'[h] = s
BY DEF TypeOK, Goto

(* A handler that goes to rest knows nothing and owes nothing.             *)
LEMMA RestKnows ==
    ASSUME TypeOK, NEW h \in Handler, Goto(h, Idle)
    PROVE  WorkKnown(h)' /\ SnapshotFresh(h)'
<1>1. process'[h] = Idle
  BY IdleType, GotoType
<1> QED
  BY <1>1, IdleType DEF WorkKnown, SnapshotFresh, WorkerPc, Working, Reconciling, Writing

(* One that is done with a subscription still knows its events.            *)
LEMMA SettledKnows ==
    ASSUME IInv, NEW w \in Worker, process[w].pc \in Working, NEW pc \in {"mark", "failed"},
           Goto(w, Settled(w, pc)), Emitted' = Emitted
    PROVE  WorkKnown(w)' /\ SnapshotFresh(w)'
<1>1. w \in Handler /\ pc \in Pc
  BY DEF Handler, Pc
<1>2. process'[w] = Settled(w, pc)
  BY <1>1, SettledType, GotoType DEF IInv
<1>3. /\ process'[w].pc = pc
      /\ process'[w].batch = process[w].batch
      /\ process'[w].work = process[w].work
  BY <1>1, <1>2, SettledType DEF IInv
<1>4. /\ \A c \in process[w].batch : c.event \in Emitted
      /\ process[w].work \in Claim /\ process[w].work.event \in Emitted
  BY <1>1 DEF IInv, WorkKnown
<1> QED
  BY <1>3, <1>4 DEF WorkKnown, SnapshotFresh, WorkerPc, Working, Reconciling, Writing

-----------------------------------------------------------------------------
(* Stripe and time                                                         *)

(* A step that no handler takes: Stripe goes on, and all that was known    *)
(* stays true.                                                             *)
LEMMA WorldKeeps ==
    ASSUME IInv, TypeOK', EventsTold',
           UNCHANGED <<license, link, lock>>,
           \A h \in Handler : /\ process'[h].pc = process[h].pc
                              /\ process'[h].batch = process[h].batch
                              /\ process'[h].work = process[h].work
                              /\ process'[h].sub = process[h].sub
                              /\ process'[h].snapshot = process[h].snapshot,
           \A e \in Emitted : e \in Emitted' /\ event'[e].sub = event[e].sub,
           \A e \in Event : event'[e].status = "processed" => event[e].status = "processed",
           \A s \in Subscription : stripe[s].version <= stripe'[s].version
    PROVE  IInv'
<1>1. ASSUME NEW e \in Event, SettledEvent(e)'
      PROVE  SettledEvent(e) /\ event'[e].sub = event[e].sub
  <2>1. SettledEvent(e)
    BY <1>1 DEF SettledEvent, Handler
  <2> QED
    BY <2>1, SettledEmitted
<1>2. /\ \A s \in Subscription : stripe[s].version \in Nat /\ stripe'[s].version \in Nat
      /\ \A l \in License : link[l].linked =>
                               link[l].version \in Nat /\ link[l].sub \in Subscription
      /\ \A h \in Handler : process[h].snapshot.version \in Nat /\ process[h].sub \in Subscription
  <2>1. \A s \in Subscription : stripe[s].version \in Nat /\ stripe'[s].version \in Nat
    BY DEF IInv, TypeOK, Snapshot, Version
  <2>2. \A h \in Handler : process[h].snapshot.version \in Nat /\ process[h].sub \in Subscription
    BY DEF IInv, TypeOK, Snapshot, Version, Process
  <2> QED
    BY <2>1, <2>2, LinkType DEF IInv
<1>3. ASSUME NEW h \in Handler
      PROVE  WorkKnown(h)'
  BY <1>3 DEF IInv, WorkKnown, Reconciling, Working
<1>4. ASSUME NEW h \in Handler
      PROVE  SnapshotFresh(h)'
  <2> SUFFICES ASSUME process[h].pc \in Writing
               PROVE  SnapshotFresh(h)'
    BY DEF SnapshotFresh
  <2>1. process[h].snapshot.version <= stripe'[process[h].sub].version
    BY <1>2 DEF IInv, SnapshotFresh
  <2>2. ASSUME lock[process[h].sub] = h, NEW e \in Event, SettledEvent(e)',
               event'[e].sub = process[h].sub
        PROVE  e <= process[h].snapshot.version
    BY <1>1, <2>2 DEF IInv, SnapshotFresh
  <2>3. ASSUME lock[process[h].sub] = h, NEW l \in License, link[l].linked,
               link[l].sub = process[h].sub
        PROVE  link[l].version <= process[h].snapshot.version
    BY <2>3 DEF IInv, SnapshotFresh
  <2> QED
    BY <2>1, <2>2, <2>3 DEF SnapshotFresh
<1>5. LinksBehind'
  BY <1>2 DEF IInv, LinksBehind
<1>6. EventsShown'
  BY <1>1 DEF IInv, EventsShown
<1>7. LinksUnique' /\ LinkedFollowStripe'
  BY DEF IInv, LinksUnique, LinkedFollowStripe, LinkedAreSubscriptions, ExpiryFollowsStripe
<1> QED
  BY <1>3, <1>4, <1>5, <1>6, <1>7 DEF IInv

LEMMA ChangeKeeps ==
    ASSUME IInv, NEW s \in Subscription, Change(s)
    PROVE  IInv'
<1>1. PICK k \in Version : Emitted = 1 .. k
  BY DEF IInv, EventsTold
<1>2. k \in Nat /\ Cardinality(Emitted) = k
  <2>1. k \in Nat /\ 1 \in Int /\ k \in Int
    BY StripeBoundAssumption DEF Version
  <2>2. Cardinality(1 .. k) = IF 1 > k THEN 0 ELSE k - 1 + 1
    BY <2>1, FS_Interval
  <2> QED
    BY <1>1, <2>1, <2>2
<1> DEFINE n == k + 1
<1>3. n \in Event /\ n \notin Emitted /\ n \in Version
  BY <1>1, <1>2 DEF Change, Event, Version
<1>4. PICK paid \in BOOLEAN : stripe' = [stripe EXCEPT ![s] = [version |-> n, paid |-> paid]]
  BY <1>2 DEF Change
<1>5. event' = [event EXCEPT ![n] = [@ EXCEPT !.status = "sent", !.sub = s]]
  BY <1>2 DEF Change
<1>6. UNCHANGED <<license, link, lock, process, stale, failures>>
  BY DEF Change
<1>7. TypeOK'
  <2>1. stripe' \in [Subscription -> Snapshot]
    BY <1>3, <1>4 DEF IInv, TypeOK, Snapshot
  <2>2. event' \in [Event -> EventRow]
    BY <1>3, <1>5 DEF IInv, TypeOK, EventRow
  <2> QED
    BY <1>6, <2>1, <2>2 DEF IInv, TypeOK
<1>8. /\ \A e \in Event \ {n} : event'[e] = event[e]
      /\ event'[n].status = "sent" /\ event'[n].sub = s
  BY <1>3, <1>5 DEF IInv, TypeOK, EventRow
<1>9. Emitted' = 1 .. n
  <2>1. Emitted' = Emitted \cup {n}
    BY <1>3, <1>8 DEF Emitted
  <2> QED
    BY <1>1, <1>2, <2>1
<1>10. \A x \in Subscription : /\ stripe[x].version \in 0 .. k
                               /\ x # s => stripe'[x].version = stripe[x].version
  <2>1. \A x \in Subscription : stripe[x].version \in Emitted \cup {0}
    BY DEF IInv, EventsTold
  <2> QED
    BY <1>1, <1>2, <1>4, <2>1 DEF IInv, TypeOK
<1>11. stripe'[s].version = n
  BY <1>4 DEF IInv, TypeOK
<1>12. EventsTold'
  <2>1. \A x \in Subscription : stripe'[x].version \in Emitted' \cup {0}
    BY <1>2, <1>9, <1>10, <1>11
  <2>2. ASSUME NEW e \in Emitted'
        PROVE  e <= stripe'[event'[e].sub].version
    <3>1. CASE e = n
      BY <1>2, <1>8, <1>11, <3>1
    <3>2. CASE e # n
      <4>1. e \in Emitted /\ event'[e] = event[e] /\ e <= k /\ event[e].sub \in Subscription
        BY <1>1, <1>2, <1>3, <1>8, <1>9, <2>2, <3>2 DEF Emitted, IInv, TypeOK, EventRow
      <4>2. e <= stripe[event[e].sub].version
        BY <4>1 DEF IInv, EventsTold
      <4> QED
        <5>1. e \in Int
          BY <4>1 DEF Emitted, Event
        <5>2. CASE event[e].sub = s
          BY <1>2, <1>11, <4>1, <5>1, <5>2
        <5>3. CASE event[e].sub # s
          BY <1>10, <4>1, <4>2, <5>3
        <5> QED
          BY <5>2, <5>3
    <3> QED
      BY <3>1, <3>2
  <2> QED
    BY <1>3, <1>9, <2>1, <2>2 DEF EventsTold, Version
<1>13. \A x \in Subscription : stripe[x].version <= stripe'[x].version
  BY <1>2, <1>10, <1>11
<1>14. \A e \in Emitted : e \in Emitted' /\ event'[e].sub = event[e].sub
  BY <1>1, <1>2, <1>3, <1>8, <1>9 DEF Emitted
<1>15. \A e \in Event : event'[e].status = "processed" => event[e].status = "processed"
  BY <1>8
<1> QED
  BY <1>6, <1>7, <1>12, <1>13, <1>14, <1>15, WorldKeeps

LEMMA ReceiveKeeps ==
    ASSUME IInv, NEW e \in Event, Receive(e)
    PROVE  IInv'
<1>1. event' \in [Event -> EventRow]
  BY DEF IInv, TypeOK, Receive, EventRow
<1>2. \A x \in Event : /\ event'[x].sub = event[x].sub
                       /\ event'[x].status = "none" <=> event[x].status = "none"
                       /\ event'[x].status = "processed" => event[x].status = "processed"
  BY DEF IInv, TypeOK, Receive, EventRow
<1>3. Emitted' = Emitted
  BY <1>2 DEF Emitted
<1>4. TypeOK'
  BY <1>1 DEF IInv, TypeOK, Receive
<1>5. EventsTold'
  BY <1>2, <1>3 DEF IInv, EventsTold, Receive, Emitted
<1>6. \A s \in Subscription : stripe[s].version \in Nat
  BY DEF IInv, TypeOK, Snapshot, Version
<1> QED
  BY <1>2, <1>3, <1>4, <1>5, <1>6, WorldKeeps DEF Receive, Emitted

LEMMA TickKeeps ==
    ASSUME IInv, Tick
    PROVE  IInv'
<1>1. event' \in [Event -> EventRow]
  <2>1. ASSUME NEW e \in Event
        PROVE  event'[e] \in EventRow
    <3>1. event[e] \in EventRow /\ event'[e] = [event[e] EXCEPT !.due = IF @ > 0 THEN @ - 1 ELSE 0]
      BY DEF IInv, TypeOK, Tick
    <3>2. (IF event[e].due > 0 THEN event[e].due - 1 ELSE 0) \in 0 .. Lease + MaxDelay
      BY <3>1, StripeTimeAssumption DEF EventRow
    <3> QED
      BY <3>1, <3>2 DEF EventRow
  <2> QED
    BY <2>1 DEF Tick
<1>2. \A h \in Handler : /\ process'[h] \in Process
                         /\ process'[h].pc = process[h].pc
                         /\ process'[h].batch = process[h].batch
                         /\ process'[h].work = process[h].work
                         /\ process'[h].sub = process[h].sub
                         /\ process'[h].snapshot = process[h].snapshot
  <2> TAKE h \in Handler
  <2>1. process[h] \in Process
    BY DEF IInv, TypeOK
  <2>2. CASE process[h].pc = "idle" \/ h \notin Worker
    BY <2>1, <2>2 DEF Tick
  <2>3. CASE ~(process[h].pc = "idle" \/ h \notin Worker)
    <3>1. process'[h] = [process[h] EXCEPT !.age = IF @ < MaxDelay THEN @ + 1 ELSE @]
      BY <2>3 DEF Tick
    <3>2. (IF process[h].age < MaxDelay THEN process[h].age + 1 ELSE process[h].age)
             \in 0 .. MaxDelay
      BY <2>1, StripeTimeAssumption DEF Process
    <3> QED
      BY <2>1, <3>1, <3>2 DEF Process
  <2> QED
    BY <2>2, <2>3
<1>3. process' \in [Handler -> Process]
  BY <1>2 DEF Tick
<1>4. \A x \in Event : event'[x].sub = event[x].sub /\ event'[x].status = event[x].status
  BY DEF IInv, TypeOK, Tick, EventRow
<1>5. Emitted' = Emitted
  BY <1>4 DEF Emitted
<1>6. TypeOK'
  BY <1>1, <1>3 DEF IInv, TypeOK, Tick
<1>7. EventsTold'
  BY <1>4, <1>5 DEF IInv, EventsTold, Tick, Emitted
<1>8. \A s \in Subscription : stripe[s].version \in Nat
  BY DEF IInv, TypeOK, Snapshot, Version
<1> QED
  BY <1>2, <1>4, <1>5, <1>6, <1>7, <1>8, WorldKeeps DEF Tick, Emitted

-----------------------------------------------------------------------------
(* Steps that write no row                                                 *)

LEMMA RowsStep ==
    ASSUME IInv, NEW h \in Handler, NEW s \in Process, Goto(h, s),
           UNCHANGED <<stripe, event, license, link>>,
           lock' \in [Subscription -> Handler \cup {Nobody}],
           \A x \in Subscription, g \in Handler \ {h} : lock'[x] = g => lock[x] = g,
           stale' \subseteq Operator, failures' \in 0 .. MaxFailures,
           h \in Worker /\ s.pc = "mark" =>
               \/ SettledEvent(s.work.event)
               \/ /\ lock[event[s.work.event].sub] = Nobody
                  /\ LinkedTo(event[s.work.event].sub) = {},
           WorkKnown(h)', SnapshotFresh(h)'
    PROVE  IInv'
<1>1. TypeOK'
  BY GotoType DEF IInv, TypeOK
<1> QED
  BY <1>1, RowsKept, QuietStep

(* The transaction is over, or there was none.                             *)
LockKept(h) == UNCHANGED lock \/ Unlock(h)

LEMMA LockKeptKeeps ==
    ASSUME TypeOK, NEW h \in Handler, LockKept(h)
    PROVE  /\ lock' \in [Subscription -> Handler \cup {Nobody}]
           /\ \A x \in Subscription, g \in Handler \ {h} : lock'[x] = g => lock[x] = g
<1>1. CASE UNCHANGED lock
  BY <1>1 DEF TypeOK
<1>2. CASE Unlock(h)
  BY <1>2, UnlockKeeps
<1> QED
  BY <1>1, <1>2 DEF LockKept

(* A handler goes to rest.                                                 *)
LEMMA RestStep ==
    ASSUME IInv, NEW h \in Handler, Goto(h, Idle),
           UNCHANGED <<stripe, event, license, link>>, LockKept(h),
           stale' \subseteq Operator, failures' \in 0 .. MaxFailures
    PROVE  IInv'
<1>1. TypeOK
  BY DEF IInv
<1>2. WorkKnown(h)' /\ SnapshotFresh(h)'
  BY <1>1, RestKnows
<1> QED
  BY <1>1, <1>2, IdleType, LockKeptKeeps, RowsStep

(* A worker is done with the subscription, for good or bad.                *)
LEMMA DoneStep ==
    ASSUME IInv, NEW w \in Worker, process[w].pc \in Working, NEW pc \in {"mark", "failed"},
           Goto(w, Settled(w, pc)),
           UNCHANGED <<stripe, event, license, link>>, LockKept(w),
           stale' \subseteq Operator, failures' \in 0 .. MaxFailures,
           pc = "mark" =>
               /\ lock[event[process[w].work.event].sub] = Nobody
               /\ LinkedTo(event[process[w].work.event].sub) = {}
    PROVE  IInv'
<1>1. TypeOK /\ w \in Handler /\ pc \in Pc
  BY DEF IInv, Handler, Pc
<1>2. Emitted' = Emitted
  BY DEF Emitted
<1>3. WorkKnown(w)' /\ SnapshotFresh(w)'
  BY <1>2, SettledKnows
<1>4. /\ Settled(w, pc) \in Process /\ Settled(w, pc).pc = pc
      /\ Settled(w, pc).work = process[w].work
  BY <1>1, SettledType
<1>5. /\ lock' \in [Subscription -> Handler \cup {Nobody}]
      /\ \A x \in Subscription, g \in Handler \ {w} : lock'[x] = g => lock[x] = g
  BY <1>1, LockKeptKeeps
<1> QED
  BY <1>1, <1>3, <1>4, <1>5, RowsStep

(* A handler throws.                                                       *)
LEMMA ThrowStep ==
    ASSUME IInv, NEW h \in Handler, h \in Worker => process[h].pc \in Working, Throw(h),
           UNCHANGED <<stripe, event, license, link>>, LockKept(h),
           stale' \subseteq Operator, failures' \in 0 .. MaxFailures
    PROVE  IInv'
<1>1. CASE h \in Worker
  BY <1>1, DoneStep DEF Throw
<1>2. CASE h \notin Worker
  BY <1>2, RestStep DEF Throw
<1> QED
  BY <1>1, <1>2

(* A handler that takes no lock, has no answer and ends no event.          *)
LEMMA MoveStep ==
    ASSUME IInv, NEW h \in Handler, NEW s \in Process, Goto(h, s),
           UNCHANGED <<stripe, event, license, link>>,
           lock' \in [Subscription -> Handler \cup {Nobody}],
           \A x \in Subscription, g \in Handler \ {h} : lock'[x] = g => lock[x] = g,
           stale' \subseteq Operator, UNCHANGED failures,
           s.pc \notin Writing, s.pc # "mark",
           \A c \in s.batch : c.event \in Emitted,
           h \in Worker =>
               /\ s.pc \in WorkerPc
               /\ s.pc \in Working => s.work \in Claim /\ s.work.event \in Emitted
               /\ s.pc \in Reconciling => s.sub = event[s.work.event].sub
    PROVE  IInv'
<1>1. process'[h] = s
  BY GotoType DEF IInv
<1>2. Emitted' = Emitted
  BY DEF Emitted
<1>3. SnapshotFresh(h)'
  BY <1>1 DEF SnapshotFresh
<1>4. WorkKnown(h)'
  BY <1>1, <1>2 DEF WorkKnown, Writing
<1>5. failures' \in 0 .. MaxFailures
  BY DEF IInv, TypeOK
<1> QED
  BY <1>3, <1>4, <1>5, RowsStep

-----------------------------------------------------------------------------
(* The worker                                                              *)

LEMMA AttemptType ==
    ASSUME TypeOK, NEW e \in Event
    PROVE  Attempt(e) \in 1 .. MaxDelay
<1>1. event[e].attempts \in 0 .. MaxDelay
  BY DEF TypeOK, EventRow
<1> QED
  BY <1>1, StripeTimeAssumption DEF Attempt

LEMMA DelayType ==
    ASSUME NEW attempts
    PROVE  Delay(attempts) \in 1 .. MaxDelay
BY StripeTimeAssumption DEF Delay

LEMMA ClaimDueKeeps ==
    ASSUME IInv, NEW w \in Worker, ClaimDue(w)
    PROVE  IInv'
<1>1. PICK batch \in SUBSET Due :
        /\ event' = [e \in Event |->
                       IF e \in batch
                       THEN [event[e] EXCEPT !.status = "processing", !.due = Lease,
                                             !.attempts = Attempt(e)]
                       ELSE event[e]]
        /\ Goto(w, [Idle EXCEPT !.pc = "batch",
                                !.batch = {[event |-> e, attempts |-> Attempt(e)] : e \in batch}])
  BY DEF ClaimDue
<1> DEFINE claims == {[event |-> e, attempts |-> Attempt(e)] : e \in batch}
           s == [Idle EXCEPT !.pc = "batch", !.batch = claims]
<1>2. w \in Handler /\ TypeOK
  BY DEF Handler, IInv
<1>3. claims \subseteq Claim
  BY <1>2, AttemptType DEF Due, Claim
<1>4. s \in Process /\ s.pc = "batch" /\ s.batch = claims
  <2>1. Idle \in Process
    BY IdleType
  <2> QED
    BY <1>3, <2>1 DEF Process, Pc
<1>5. \A e \in Event : event'[e] \in EventRow
  <2> TAKE e \in Event
  <2>1. event[e] \in EventRow /\ Attempt(e) \in 0 .. MaxDelay /\ Lease \in 0 .. Lease + MaxDelay
    BY <1>2, AttemptType, StripeTimeAssumption DEF TypeOK
  <2> QED
    BY <1>1, <2>1 DEF EventRow
<1>6. EventsKept
  <2> SUFFICES ASSUME NEW e \in Event
               PROVE  /\ event'[e].sub = event[e].sub
                      /\ event'[e].status = "none" <=> event[e].status = "none"
                      /\ event'[e].status = "processed" => event[e].status = "processed"
    BY DEF EventsKept, SettledEvent
  <2>1. event[e] \in EventRow
    BY <1>2 DEF TypeOK
  <2>2. CASE e \in batch
    BY <1>1, <2>1, <2>2 DEF EventRow, Due
  <2>3. CASE e \notin batch
    BY <1>1, <2>1, <2>3
  <2> QED
    BY <2>2, <2>3
<1>7. TypeOK'
  <2>1. process' \in [Handler -> Process]
    BY <1>1, <1>2, <1>4, GotoType
  <2>2. event' \in [Event -> EventRow]
    BY <1>1, <1>5
  <2> QED
    BY <1>2, <2>1, <2>2 DEF TypeOK, ClaimDue
<1>8. process'[w] = s
  BY <1>1, <1>2, <1>4, GotoType
<1>9. \A c \in claims : c.event \in Emitted'
  <2>1. \A e \in batch : e \in Event /\ event[e].status # "none"
    BY DEF Due
  <2> QED
    BY <2>1, <1>6 DEF Emitted, EventsKept
<1>10. WorkKnown(w)' /\ SnapshotFresh(w)'
  BY <1>4, <1>8, <1>9 DEF WorkKnown, SnapshotFresh, WorkerPc, Working, Reconciling, Writing
<1>11. LinksKept /\ LinkedFollowStripe' /\ UNCHANGED <<stripe, lock>>
  BY DEF ClaimDue, LinksKept, IInv, LinkedFollowStripe, LinkedAreSubscriptions, ExpiryFollowsStripe
<1> HIDE DEF s
<1> QED
  BY <1>1, <1>2, <1>4, <1>6, <1>7, <1>10, <1>11, QuietStep DEF s

LEMMA ProcessOneKeeps ==
    ASSUME IInv, NEW w \in Worker, ProcessOne(w)
    PROVE  IInv'
<1>1. w \in Handler /\ TypeOK /\ process[w] \in Process
  BY DEF Handler, IInv, TypeOK
<1>2. CASE process[w].batch = {}
  BY <1>1, <1>2, RestStep DEF ProcessOne, TypeOK, LockKept
<1>3. CASE process[w].batch # {}
  <2>1. PICK claim \in process[w].batch :
          Goto(w, [Local(w, "reconcile") EXCEPT !.work = claim, !.sub = event[claim.event].sub])
    BY <1>3 DEF ProcessOne
  <2> DEFINE s == [Local(w, "reconcile") EXCEPT !.work = claim, !.sub = event[claim.event].sub]
  <2>2. claim \in Claim /\ claim.event \in Emitted
    BY <1>1 DEF IInv, WorkKnown, Process
  <2>3. event[claim.event].sub \in Subscription
    BY <1>1, <2>2 DEF TypeOK, EventRow, Emitted
  <2>4. /\ Local(w, "reconcile") \in Process
        /\ Local(w, "reconcile").pc = "reconcile"
        /\ Local(w, "reconcile").batch = process[w].batch
    BY <1>1, LocalType DEF Pc
  <2>5. /\ s \in Process /\ s.pc = "reconcile" /\ s.work = claim
        /\ s.sub = event[claim.event].sub /\ s.batch = process[w].batch
    BY <2>2, <2>3, <2>4 DEF Process
  <2>6. \A c \in process[w].batch : c.event \in Emitted
    BY <1>1 DEF IInv, WorkKnown
  <2> HIDE DEF s
  <2>7. Goto(w, s)
    BY <2>1 DEF s
  <2> QED
    BY <1>1, <2>2, <2>5, <2>6, <2>7, MoveStep
       DEF ProcessOne, TypeOK, Writing, WorkerPc, Working, Reconciling
<1> QED
  BY <1>2, <1>3

(* The two ways to mark an event: what has been settled may be processed.  *)
LEMMA MarkKeeps ==
    ASSUME IInv, NEW w \in Worker, Goto(w, Marked(w)), event' \in [Event -> EventRow], EventsKept,
           UNCHANGED <<stripe, license, link, lock, stale, failures>>
    PROVE  IInv'
<1>1. w \in Handler /\ TypeOK
  BY DEF Handler, IInv
<1>2. /\ Marked(w) \in Process /\ Marked(w).pc = "batch"
      /\ Marked(w).batch \subseteq process[w].batch
  BY <1>1, MarkedType
<1>3. process'[w] = Marked(w) /\ process' \in [Handler -> Process]
  BY <1>1, <1>2, GotoType
<1>4. TypeOK'
  BY <1>1, <1>3 DEF TypeOK
<1>5. Emitted' = Emitted
  BY DEF EventsKept, Emitted
<1>6. \A c \in Marked(w).batch : c.event \in Emitted
  BY <1>1, <1>2 DEF IInv, WorkKnown
<1>7. WorkKnown(w)' /\ SnapshotFresh(w)'
  BY <1>2, <1>3, <1>5, <1>6 DEF WorkKnown, SnapshotFresh, WorkerPc, Working, Reconciling, Writing
<1>8. LinksKept /\ LinkedFollowStripe'
  BY DEF LinksKept, IInv, LinkedFollowStripe, LinkedAreSubscriptions, ExpiryFollowsStripe
<1> QED
  BY <1>1, <1>2, <1>4, <1>7, <1>8, QuietStep

LEMMA MarkProcessedKeeps ==
    ASSUME IInv, NEW w \in Worker, MarkProcessed(w)
    PROVE  IInv'
<1>1. event' \in [Event -> EventRow]
  BY DEF IInv, TypeOK, MarkProcessed, EventRow
<1>2. w \in Handler /\ process[w].pc = "mark" /\ process[w].work.event \in Emitted
  BY DEF MarkProcessed, Handler, IInv, WorkKnown, Working
<1>3. EventsKept
  <2> SUFFICES ASSUME NEW e \in Event
               PROVE  /\ event'[e].sub = event[e].sub
                      /\ event'[e].status = "none" <=> event[e].status = "none"
                      /\ event'[e].status = "processed" => SettledEvent(e)
    BY DEF EventsKept
  <2>1. event[e] \in EventRow
    BY DEF IInv, TypeOK
  <2>2. CASE e = process[w].work.event
    <3>1. event'[e] = [event[e] EXCEPT !.status = "processed"]
      BY <2>2 DEF IInv, TypeOK, MarkProcessed
    <3>2. SettledEvent(e)
      BY <1>2, <2>2 DEF SettledEvent
    <3> QED
      BY <1>2, <2>1, <2>2, <3>1, <3>2 DEF Emitted, EventRow
  <2>3. CASE e # process[w].work.event
    <3>1. event'[e] = event[e]
      BY <2>3 DEF IInv, TypeOK, MarkProcessed
    <3> QED
      BY <3>1 DEF SettledEvent
  <2> QED
    BY <2>2, <2>3
<1> QED
  BY <1>1, <1>3, MarkKeeps DEF MarkProcessed

LEMMA MarkFailedKeeps ==
    ASSUME IInv, NEW w \in Worker, MarkFailed(w)
    PROVE  IInv'
<1> DEFINE x == process[w].work.event
           left == Delay(process[w].work.attempts) - process[w].age
           due == IF left > 0 THEN left ELSE 0
<1>1. w \in Handler /\ process[w].pc = "failed" /\ x \in Emitted /\ x \in Event
  BY DEF MarkFailed, Handler, IInv, WorkKnown, Working, Emitted
<1>2. due \in 0 .. Lease + MaxDelay
  <2>1. Delay(process[w].work.attempts) \in 1 .. MaxDelay
    BY DelayType
  <2>2. process[w].age \in 0 .. MaxDelay
    BY <1>1 DEF IInv, TypeOK, Process
  <2> QED
    BY <2>1, <2>2, StripeTimeAssumption
<1>3. event' = [event EXCEPT ![x].status = "failed", ![x].due = due]
  BY DEF MarkFailed
<1> HIDE DEF due, x
<1>4. \A e \in Event : /\ event'[e] \in EventRow
                       /\ event'[e].sub = event[e].sub
                       /\ e # x => event'[e] = event[e]
  BY <1>1, <1>2, <1>3 DEF IInv, TypeOK, EventRow
<1>5. event'[x].status = "failed"
  BY <1>1, <1>3 DEF IInv, TypeOK, EventRow
<1>6. EventsKept
  BY <1>1, <1>4, <1>5 DEF EventsKept, SettledEvent, Emitted
<1>7. event' \in [Event -> EventRow]
  BY <1>3, <1>4 DEF IInv, TypeOK
<1> QED
  BY <1>6, <1>7, MarkKeeps DEF MarkFailed

-----------------------------------------------------------------------------
(* Reconciliation                                                          *)

LEMMA ReconcileBeginKeeps ==
    ASSUME IInv, NEW h \in Handler, ReconcileBegin(h)
    PROVE  IInv'
<1>1. TypeOK /\ process[h] \in Process /\ process[h].sub \in Subscription
  BY DEF IInv, TypeOK, Process
<1>2. /\ process[h].pc = "reconcile" /\ lock[process[h].sub] = Nobody
      /\ UNCHANGED <<stripe, event, license, link, stale, failures>>
  BY DEF ReconcileBegin
<1>3. stale' \subseteq Operator /\ failures' \in 0 .. MaxFailures
  BY <1>1, <1>2 DEF TypeOK
<1>4. h \in Worker => /\ process[h].pc \in Working
                      /\ process[h].work \in Claim /\ process[h].work.event \in Emitted
                      /\ process[h].sub = event[process[h].work.event].sub
  BY <1>2 DEF IInv, WorkKnown, Working, Reconciling
<1>5. CASE LinkedTo(process[h].sub) = {}
  <2>1. Return(h) /\ LockKept(h)
    BY <1>5 DEF ReconcileBegin, LockKept
  <2>2. CASE h \in Worker
    <3>1. Goto(h, Settled(h, "mark"))
      BY <2>1, <2>2 DEF Return
    <3> QED
      BY <1>2, <1>3, <1>4, <1>5, <2>1, <2>2, <3>1, DoneStep
  <2>3. CASE h \notin Worker
    BY <1>2, <1>3, <2>1, <2>3, RestStep DEF Return
  <2> QED
    BY <2>2, <2>3
<1>6. CASE LinkedTo(process[h].sub) # {}
  <2>1. Goto(h, Local(h, "fetch")) /\ lock' = [lock EXCEPT ![process[h].sub] = h]
    BY <1>6 DEF ReconcileBegin
  <2>2. /\ Local(h, "fetch") \in Process
        /\ Local(h, "fetch").pc = "fetch"
        /\ Local(h, "fetch").batch = process[h].batch
        /\ Local(h, "fetch").work = process[h].work
        /\ Local(h, "fetch").sub = process[h].sub
    BY <1>1, LocalType DEF Pc
  <2>3. /\ lock' \in [Subscription -> Handler \cup {Nobody}]
        /\ \A x \in Subscription, g \in Handler \ {h} : lock'[x] = g => lock[x] = g
    BY <1>1, <2>1 DEF TypeOK
  <2>4. \A c \in process[h].batch : c.event \in Emitted
    BY DEF IInv, WorkKnown
  <2> QED
    BY <1>2, <1>3, <1>4, <2>1, <2>2, <2>3, <2>4, MoveStep
       DEF Writing, WorkerPc, Working, Reconciling
<1> QED
  BY <1>5, <1>6

(* What Stripe answers now is news to every row.                           *)
LEMMA AnswerIsNews ==
    ASSUME IInv, NEW s \in Subscription
    PROVE  /\ stripe[s] \in Snapshot
           /\ stripe[s].version <= stripe[s].version
           /\ \A e \in Event : SettledEvent(e) /\ event[e].sub = s => e <= stripe[s].version
           /\ \A l \in License : link[l].linked /\ link[l].sub = s
                                   => link[l].version <= stripe[s].version
<1>1. stripe[s] \in Snapshot /\ stripe[s].version <= stripe[s].version
  BY DEF IInv, TypeOK, Snapshot, Version
<1>2. \A e \in Event : SettledEvent(e) /\ event[e].sub = s => e <= stripe[s].version
  BY SettledEmitted DEF IInv, EventsTold
<1>3. \A l \in License : link[l].linked /\ link[l].sub = s => link[l].version <= stripe[s].version
  BY DEF IInv, LinksBehind
<1> QED
  BY <1>1, <1>2, <1>3

(* A handler that has its answer.                                          *)
LEMMA AnsweredStep ==
    ASSUME IInv, NEW h \in Handler, NEW pc \in Writing,
           h \in Worker => process[h].pc = "fetch" /\ pc = "write",
           Goto(h, [Local(h, pc) EXCEPT !.snapshot = stripe[process[h].sub]]),
           UNCHANGED <<stripe, event, license, link, lock, stale, failures>>
    PROVE  IInv'
<1> DEFINE s == [Local(h, pc) EXCEPT !.snapshot = stripe[process[h].sub]]
<1>1. TypeOK /\ process[h] \in Process /\ process[h].sub \in Subscription
  BY DEF IInv, TypeOK, Process
<1>2. /\ Local(h, pc) \in Process
      /\ Local(h, pc).pc = pc
      /\ Local(h, pc).batch = process[h].batch
      /\ Local(h, pc).work = process[h].work
      /\ Local(h, pc).sub = process[h].sub
  BY <1>1, LocalType DEF Pc, Writing
<1>3. stripe[process[h].sub] \in Snapshot
  BY <1>1, AnswerIsNews
<1>4. /\ s \in Process /\ s.pc = pc /\ s.batch = process[h].batch /\ s.work = process[h].work
      /\ s.sub = process[h].sub /\ s.snapshot = stripe[process[h].sub]
  BY <1>2, <1>3 DEF Process
<1>5. Goto(h, s)
  OBVIOUS
<1> HIDE DEF s
<1>6. process'[h] = s
  BY <1>1, <1>4, <1>5, GotoType
<1>7. \A g \in Handler \ {h} : process'[g] = process[g]
  BY <1>5 DEF Goto, IInv, TypeOK
<1>8. Emitted' = Emitted
  BY DEF Emitted
<1>9. WorkKnown(h)'
  <2>1. \A c \in process[h].batch : c.event \in Emitted
    BY DEF IInv, WorkKnown
  <2>2. CASE h \in Worker
    <3>1. /\ process[h].work \in Claim /\ process[h].work.event \in Emitted
          /\ process[h].sub = event[process[h].work.event].sub
      BY <2>2 DEF IInv, WorkKnown, Working, Reconciling
    <3>2. process[h].work.event <= stripe[process[h].sub].version
      BY <3>1 DEF IInv, EventsTold
    <3> QED
      BY <1>4, <1>6, <1>8, <2>1, <2>2, <3>1, <3>2 DEF WorkKnown, WorkerPc
  <2> QED
    BY <1>4, <1>6, <1>8, <2>1, <2>2 DEF WorkKnown
<1>10. SnapshotFresh(h)'
  <2>1. ASSUME NEW e \in Event, SettledEvent(e)'
        PROVE  SettledEvent(e)
    <3>1. ASSUME NEW w \in Worker, process'[w].pc = "mark", process'[w].work.event = e
          PROVE  SettledEvent(e)
      <4>1. w # h
        BY <1>4, <1>6, <3>1 DEF Writing
      <4> QED
        BY <1>7, <3>1, <4>1 DEF SettledEvent, Handler
    <3> QED
      BY <2>1, <3>1 DEF SettledEvent
  <2>2. \A e \in Event : SettledEvent(e)' /\ event[e].sub = process[h].sub
                            => e <= stripe[process[h].sub].version
    BY <1>1, <2>1, AnswerIsNews
  <2>3. /\ stripe[process[h].sub].version <= stripe[process[h].sub].version
        /\ \A l \in License : link[l].linked /\ link[l].sub = process[h].sub
                                 => link[l].version <= stripe[process[h].sub].version
    BY <1>1, AnswerIsNews
  <2> QED
    BY <1>4, <1>6, <2>2, <2>3 DEF SnapshotFresh
<1>11. h \in Worker => s.pc # "mark"
  BY <1>4 DEF Writing
<1> QED
  BY <1>1, <1>4, <1>5, <1>9, <1>10, <1>11, RowsStep DEF TypeOK

LEMMA FetchKeeps ==
    ASSUME IInv, NEW h \in Handler, Fetch(h)
    PROVE  IInv'
BY AnsweredStep DEF Fetch, Writing

LEMMA WriteFailsKeeps ==
    ASSUME IInv, NEW h \in Handler, WriteFails(h)
    PROVE  IInv'
<1>1. h \in Worker => process[h].pc \in Working
  BY DEF WriteFails, IInv, WorkKnown, WorkerPc, Working
<1> QED
  BY <1>1, ThrowStep DEF WriteFails, LockKept, IInv, TypeOK

(* The holder of the lock writes the link, and the license with it.        *)
LEMMA LinkWritten ==
    ASSUME IInv, NEW h \in Handler, process[h].pc \in Writing, lock[process[h].sub] = h,
           NEW l \in License, link' = [link EXCEPT ![l] = LinkOf(h)],
           \A m \in License \ {l} : ~(link[m].linked /\ link[m].sub = process[h].sub),
           license' \in [License -> LicenseRow],
           \A m \in License \ {l} : license'[m] = license[m],
           license'[l].type = "subscription",
           process[h].snapshot.paid => license'[l].expiry = process[h].snapshot.version,
           NEW s \in Process, Goto(h, s), s.pc \notin Writing, WorkKnown(h)',
           h \in Worker /\ s.pc = "mark" =>
               /\ event[s.work.event].sub = process[h].sub
               /\ s.work.event <= process[h].snapshot.version,
           Unlock(h), UNCHANGED <<stripe, event, failures>>, stale' \subseteq Operator
    PROVE  IInv'
<1> DEFINE x == process[h].sub
           v == process[h].snapshot.version
<1>1. TypeOK /\ process[h] \in Process /\ x \in Subscription /\ process[h].snapshot \in Snapshot
  BY DEF IInv, TypeOK, Process
<1>2. LinkOf(h) \in Link
  BY <1>1 DEF LinkOf, Link, Snapshot
<1>3. /\ link'[l] = LinkOf(h)
      /\ \A m \in License \ {l} : link'[m] = link[m]
  BY <1>1 DEF TypeOK
<1>4. /\ link'[l].linked /\ link'[l].sub = x /\ link'[l].version = v
      /\ link'[l].paid = process[h].snapshot.paid
  BY <1>3 DEF LinkOf
<1>5. process'[h] = s /\ process' \in [Handler -> Process]
  BY <1>1, GotoType
<1>6. TypeOK'
  <2>1. link' \in [License -> Link \cup {NoLink}]
    BY <1>1, <1>2 DEF TypeOK
  <2>2. lock' \in [Subscription -> Handler \cup {Nobody}]
    BY <1>1, UnlockKeeps
  <2> QED
    BY <1>1, <1>5, <2>1, <2>2 DEF TypeOK
<1>7. /\ v <= stripe[x].version
      /\ \A e \in Event : SettledEvent(e) /\ event[e].sub = x => e <= v
  BY DEF IInv, SnapshotFresh
<1>8. LinksBehind'
  <2> SUFFICES ASSUME NEW m \in License, link'[m].linked
               PROVE  link'[m].version <= stripe[link'[m].sub].version
    BY DEF LinksBehind
  <2>1. CASE m = l
    BY <1>4, <1>7, <2>1
  <2>2. CASE m # l
    BY <1>3, <2>2 DEF IInv, LinksBehind
  <2> QED
    BY <2>1, <2>2
<1>9. LinksUnique'
  BY <1>3, <1>4 DEF IInv, LinksUnique
<1>10. \A e \in Event : SettledEvent(e)' =>
           SettledEvent(e) \/ (event[e].sub = x /\ e <= v)
  <2> SUFFICES ASSUME NEW e \in Event, SettledEvent(e)'
               PROVE  SettledEvent(e) \/ (event[e].sub = x /\ e <= v)
    OBVIOUS
  <2>1. ASSUME NEW w \in Worker, process'[w].pc = "mark", process'[w].work.event = e
        PROVE  SettledEvent(e) \/ (event[e].sub = x /\ e <= v)
    <3>1. CASE w = h
      BY <1>5, <2>1, <3>1
    <3>2. CASE w # h
      BY <2>1, <3>2, <1>1 DEF Goto, TypeOK, SettledEvent, Handler
    <3> QED
      BY <3>1, <3>2
  <2> QED
    BY <2>1 DEF SettledEvent
<1>11. EventsShown'
  <2> SUFFICES ASSUME NEW e \in Event, NEW m \in License, SettledEvent(e)',
                      link'[m].linked, link'[m].sub = event[e].sub
               PROVE  e <= link'[m].version
    BY DEF EventsShown
  <2>1. CASE m = l
    BY <1>4, <1>7, <1>10, <2>1
  <2>2. CASE m # l
    <3>1. link'[m] = link[m] /\ event[e].sub # x
      BY <1>3, <2>2
    <3>2. SettledEvent(e)
      BY <1>10, <3>1
    <3> QED
      BY <3>1, <3>2 DEF IInv, EventsShown
  <2> QED
    BY <2>1, <2>2
<1>12. LinkedFollowStripe'
  <2>1. LinkedAreSubscriptions'
    BY <1>3 DEF IInv, LinkedFollowStripe, LinkedAreSubscriptions
  <2>2. ExpiryFollowsStripe'
    BY <1>3, <1>4 DEF IInv, LinkedFollowStripe, ExpiryFollowsStripe
  <2> QED
    BY <2>1, <2>2 DEF LinkedFollowStripe
<1>13. SnapshotFresh(h)'
  BY <1>5 DEF SnapshotFresh
<1>14. EventsKept
  BY DEF EventsKept, SettledEvent
<1>15. \A m \in License : link'[m] = link[m] \/ ~link'[m].linked \/ lock[link'[m].sub] = h
  BY <1>3, <1>4
<1>16. \A y \in Subscription, g \in Handler \ {h} : lock'[y] = g => lock[y] = g
  BY <1>1, UnlockKeeps
<1> QED
  BY <1>4, <1>6, <1>8, <1>9, <1>11, <1>12, <1>13, <1>14, <1>15, <1>16, StepKeeps

LEMMA RowWrittenType ==
    ASSUME TypeOK, NEW l \in License, RowWritten(l)
    PROVE  stale' \subseteq Operator
BY DEF TypeOK, RowWritten

LEMMA ReconcileWriteKeeps ==
    ASSUME IInv, NEW h \in Handler, ReconcileWrite(h)
    PROVE  IInv'
<1> DEFINE x == process[h].sub
           s == IF h \in Worker THEN Settled(h, "mark") ELSE Idle
<1>1. TypeOK /\ process[h] \in Process /\ x \in Subscription /\ process[h].snapshot \in Snapshot
  BY DEF IInv, TypeOK, Process
<1>2. /\ process[h].pc = "write" /\ lock[x] = h /\ Goto(h, s) /\ Unlock(h)
      /\ UNCHANGED <<stripe, event, failures>>
  BY DEF ReconcileWrite, Return
<1>3. h \in Worker => /\ process[h].work \in Claim /\ process[h].work.event \in Emitted
                      /\ x = event[process[h].work.event].sub
                      /\ process[h].work.event <= process[h].snapshot.version
  BY <1>2 DEF IInv, WorkKnown, Working, Reconciling
<1>4. Emitted' = Emitted
  BY <1>2 DEF Emitted
<1>5. /\ s \in Process /\ s.pc \notin Writing
      /\ h \in Worker => s.pc = "mark" /\ s.work = process[h].work
  <2>1. CASE h \in Worker
    BY <1>1, <2>1, SettledType DEF Pc, Writing
  <2>2. CASE h \notin Worker
    BY <2>2, IdleType DEF Writing
  <2> QED
    BY <2>1, <2>2
<1>6. WorkKnown(h)' /\ SnapshotFresh(h)'
  <2>1. CASE h \in Worker
    <3>1. Goto(h, Settled(h, "mark")) /\ process[h].pc \in Working
      BY <1>2, <2>1 DEF Working
    <3> QED
      BY <1>4, <2>1, <3>1, SettledKnows
  <2>2. CASE h \notin Worker
    <3>1. Goto(h, Idle)
      BY <1>2, <2>2
    <3> QED
      BY <1>1, <3>1, RestKnows
  <2> QED
    BY <2>1, <2>2
<1>7. h \in Worker /\ s.pc = "mark" =>
          /\ event[s.work.event].sub = x
          /\ s.work.event <= process[h].snapshot.version
  BY <1>3, <1>5
<1>8. /\ process' \in [Handler -> Process]
      /\ lock' \in [Subscription -> Handler \cup {Nobody}]
      /\ \A y \in Subscription, g \in Handler \ {h} : lock'[y] = g => lock[y] = g
  BY <1>1, <1>2, <1>5, GotoType, UnlockKeeps
<1> HIDE DEF s
(* The event that is settled has no link to show in.                       *)
<1>9. CASE LinkedTo(x) = {} /\ UNCHANGED <<license, link, stale>>
  <2>1. TypeOK'
    BY <1>1, <1>2, <1>8, <1>9 DEF TypeOK
  <2>2. LinksBehind' /\ LinksUnique' /\ LinkedFollowStripe'
    BY <1>2, <1>9 DEF IInv, LinksBehind, LinksUnique, LinkedFollowStripe,
                      LinkedAreSubscriptions, ExpiryFollowsStripe
  <2>3. EventsShown'
    <3> SUFFICES ASSUME NEW e \in Event, NEW m \in License, SettledEvent(e)',
                        link'[m].linked, link'[m].sub = event[e].sub
                 PROVE  e <= link'[m].version
      BY <1>2 DEF EventsShown
    <3>1. link'[m] = link[m] /\ event[e].sub # x
      BY <1>9 DEF LinkedTo
    <3>2. SettledEvent(e)
      <4>1. ASSUME NEW w \in Worker, process'[w].pc = "mark", process'[w].work.event = e
            PROVE  SettledEvent(e)
        <5>1. CASE w = h
          <6>1. process'[w] = s
            BY <1>1, <1>2, <1>5, <5>1, GotoType
          <6> QED
            BY <1>7, <3>1, <4>1, <5>1, <6>1
        <5>2. CASE w # h
          BY <1>1, <1>2, <4>1, <5>2 DEF Goto, TypeOK, SettledEvent, Handler
        <5> QED
          BY <5>1, <5>2
      <4> QED
        BY <1>2, <4>1 DEF SettledEvent
    <3> QED
      BY <3>1, <3>2 DEF IInv, EventsShown
  <2>4. EventsKept
    BY <1>2 DEF EventsKept, SettledEvent
  <2>5. \A m \in License : link'[m] = link[m] \/ ~link'[m].linked \/ lock[link'[m].sub] = h
    BY <1>9
  <2>6. h \in Worker /\ s.pc = "mark" =>
            SettledEvent(s.work.event) \/ lock[event[s.work.event].sub] \in {h, Nobody}
    BY <1>2, <1>7
  <2> QED
    BY <1>2, <1>5, <1>6, <1>8, <2>1, <2>2, <2>3, <2>4, <2>5, <2>6, StepKeeps
<1>10. ASSUME NEW l \in LinkedTo(x),
              IF license[l].type = "subscription"
              THEN /\ link' = [link EXCEPT ![l] = LinkOf(h)]
                   /\ IF process[h].snapshot.paid
                      THEN /\ license' = [license EXCEPT ![l].expiry = process[h].snapshot.version]
                           /\ RowWritten(l)
                      ELSE UNCHANGED <<license, stale>>
              ELSE link' = [link EXCEPT ![l] = NoLink] /\ UNCHANGED <<license, stale>>
       PROVE  IInv'
  <2>1. l \in License /\ link[l].linked /\ link[l].sub = x
    BY <1>10 DEF LinkedTo
  <2>2. license[l].type = "subscription"
    BY <2>1 DEF IInv, LinkedFollowStripe, LinkedAreSubscriptions
  <2>3. \A m \in License \ {l} : ~(link[m].linked /\ link[m].sub = x)
    BY <2>1 DEF IInv, LinksUnique
  <2>4. link' = [link EXCEPT ![l] = LinkOf(h)]
    BY <1>10, <2>2
  <2>5. /\ license' \in [License -> LicenseRow] /\ stale' \subseteq Operator
        /\ \A m \in License \ {l} : license'[m] = license[m]
        /\ license'[l].type = "subscription"
        /\ process[h].snapshot.paid => license'[l].expiry = process[h].snapshot.version
    <3>1. CASE process[h].snapshot.paid
      <4>1. license' = [license EXCEPT ![l].expiry = process[h].snapshot.version]
        BY <1>10, <2>2, <3>1
      <4>2. stale' \subseteq Operator
        BY <1>1, <1>10, <2>1, <2>2, <3>1, RowWrittenType
      <4>3. process[h].snapshot.version \in Version
        BY <1>1 DEF Snapshot
      <4>4. license \in [License -> LicenseRow]
        BY <1>1 DEF TypeOK
      <4> QED
        BY <2>1, <2>2, <4>1, <4>2, <4>3, <4>4 DEF LicenseRow
    <3>2. CASE ~process[h].snapshot.paid
      BY <1>1, <1>10, <2>2, <3>2 DEF TypeOK
    <3> QED
      BY <3>1, <3>2
  <2> QED
    BY <1>2, <1>5, <1>6, <1>7, <2>1, <2>3, <2>4, <2>5, LinkWritten DEF Writing
<1> QED
  BY <1>9, <1>10 DEF ReconcileWrite

-----------------------------------------------------------------------------
(* Operators                                                               *)

LEMMA OperatorIsHandler ==
    ASSUME NEW o \in Operator
    PROVE  o \in Handler /\ o \notin Worker
BY StripeHandlerAssumption DEF Handler

(* An operator's handler starts a request.                                 *)
LEMMA StartStep ==
    ASSUME IInv, NEW o \in Operator, NEW s \in Process, Goto(o, s),
           s.pc \notin Writing, s.pc # "mark", s.batch = {},
           UNCHANGED <<stripe, event, license, link, lock, failures>>, stale' \subseteq Operator
    PROVE  IInv'
<1>1. o \in Handler /\ o \notin Worker /\ TypeOK
  BY OperatorIsHandler DEF IInv
<1> QED
  BY <1>1, MoveStep DEF TypeOK

LEMMA LinkLicenseKeeps ==
    ASSUME IInv, NEW o \in Operator, NEW l \in License, NEW s \in Subscription, LinkLicense(o, l, s)
    PROVE  IInv'
<1> DEFINE p == [Idle EXCEPT !.pc = "link", !.license = l, !.sub = s]
<1>1. p \in Process /\ p.pc = "link" /\ p.batch = {}
  BY IdleType DEF Process, Pc
<1>2. Goto(o, p)
  BY DEF LinkLicense
<1> HIDE DEF p
<1> QED
  BY <1>1, <1>2, StartStep DEF LinkLicense, Writing, IInv, TypeOK

LEMMA SyncLicenseKeeps ==
    ASSUME IInv, NEW o \in Operator, NEW l \in License, SyncLicense(o, l)
    PROVE  IInv'
<1> DEFINE p == [Idle EXCEPT !.pc = "reconcile", !.license = l, !.sub = link[l].sub]
<1>1. link[l].sub \in Subscription
  BY LinkType DEF SyncLicense, IInv
<1>2. p \in Process /\ p.pc = "reconcile" /\ p.batch = {}
  BY <1>1, IdleType DEF Process, Pc
<1>3. Goto(o, p)
  BY DEF SyncLicense
<1> HIDE DEF p
<1> QED
  BY <1>2, <1>3, StartStep DEF SyncLicense, Writing, IInv, TypeOK

LEMMA UpdateReadKeeps ==
    ASSUME IInv, NEW o \in Operator, NEW l \in License, NEW target \in {"subscription", "other"},
           NEW manual \in BOOLEAN, NEW confirm \in BOOLEAN,
           UpdateRead(o, l, target, manual, confirm)
    PROVE  IInv'
<1> DEFINE linked == (target = "other" \/ manual) /\ link[l].linked
           p == [Idle EXCEPT !.pc = "update", !.license = l, !.target = target,
                             !.manual = manual, !.confirm = confirm, !.linked = linked]
<1>1. linked \in BOOLEAN
  OBVIOUS
<1>2. Goto(o, p)
  BY DEF UpdateRead
<1> HIDE DEF linked
<1>3. p \in Process /\ p.pc = "update" /\ p.batch = {}
  BY <1>1, IdleType DEF Process, Pc
<1> HIDE DEF p
<1> QED
  BY <1>2, <1>3, StartStep DEF UpdateRead, Writing, IInv, TypeOK

LEMMA LinkBeginKeeps ==
    ASSUME IInv, NEW o \in Operator, LinkBegin(o)
    PROVE  IInv'
<1>1. o \in Handler /\ o \notin Worker /\ TypeOK
  BY OperatorIsHandler DEF IInv
<1>2. /\ UNCHANGED <<stripe, event, license, link, stale, failures>>
      /\ process[o].sub \in Subscription /\ lock[process[o].sub] = Nobody
      /\ \A c \in process[o].batch : c.event \in Emitted
  BY <1>1 DEF LinkBegin, IInv, WorkKnown, TypeOK, Process
<1>3. \A pc \in {"linkFetch", "reconcile"} :
        /\ Local(o, pc) \in Process /\ Local(o, pc).pc = pc
        /\ Local(o, pc).batch = process[o].batch
  BY <1>1, LocalType DEF Pc
<1>4. CASE lock' = [lock EXCEPT ![process[o].sub] = o] /\ Goto(o, Local(o, "linkFetch"))
  <2>1. /\ lock' \in [Subscription -> Handler \cup {Nobody}]
        /\ \A x \in Subscription, g \in Handler \ {o} : lock'[x] = g => lock[x] = g
    BY <1>1, <1>4 DEF TypeOK
  <2> QED
    BY <1>1, <1>2, <1>3, <1>4, <2>1, MoveStep DEF TypeOK, Writing
<1>5. CASE UNCHANGED lock /\ Goto(o, Local(o, "reconcile"))
  BY <1>1, <1>2, <1>3, <1>5, MoveStep DEF TypeOK, Writing
<1>6. CASE UNCHANGED lock /\ Goto(o, Idle)
  BY <1>1, <1>2, <1>6, RestStep DEF TypeOK, LockKept
<1> QED
  BY <1>4, <1>5, <1>6 DEF LinkBegin

LEMMA LinkFetchKeeps ==
    ASSUME IInv, NEW o \in Operator, LinkFetch(o)
    PROVE  IInv'
<1>1. o \in Handler /\ o \notin Worker /\ TypeOK
  BY OperatorIsHandler DEF IInv
<1>2. CASE stripe[process[o].sub].paid
  BY <1>1, <1>2, AnsweredStep DEF LinkFetch, Writing
<1>3. CASE ~stripe[process[o].sub].paid
  BY <1>1, <1>3, RestStep DEF LinkFetch, TypeOK, LockKept
<1> QED
  BY <1>2, <1>3

LEMMA LinkWriteKeeps ==
    ASSUME IInv, NEW o \in Operator, LinkWrite(o)
    PROVE  IInv'
<1>1. o \in Handler /\ o \notin Worker /\ TypeOK
  BY OperatorIsHandler DEF IInv
<1> DEFINE l == process[o].license
           x == process[o].sub
<1>2. /\ l \in License /\ x \in Subscription /\ process[o].snapshot.version \in Version
      /\ license \in [License -> LicenseRow]
  BY <1>1 DEF TypeOK, Process, Snapshot
<1>3. /\ process[o].pc = "linkWrite" /\ lock[x] = o /\ Goto(o, Idle) /\ Unlock(o)
      /\ UNCHANGED <<stripe, event, failures>>
  BY DEF LinkWrite
<1>4. CASE Linkable(o)
  <2>1. /\ link' = [link EXCEPT ![l] = LinkOf(o)]
        /\ license' = [license EXCEPT ![l].expiry = process[o].snapshot.version]
        /\ stale' \subseteq Operator
    BY <1>1, <1>2, <1>4, RowWrittenType DEF LinkWrite
  <2>2. \A m \in License \ {l} : ~(link[m].linked /\ link[m].sub = x)
    BY <1>4 DEF Linkable, LinkedTo
  <2>3. license[l].type = "subscription"
    BY <1>4 DEF Linkable
  <2>4. /\ license' \in [License -> LicenseRow]
        /\ \A m \in License \ {l} : license'[m] = license[m]
        /\ license'[l].type = "subscription"
        /\ license'[l].expiry = process[o].snapshot.version
    BY <1>2, <2>1, <2>3 DEF LicenseRow
  <2>5. WorkKnown(o)' /\ Idle \in Process /\ Idle.pc = "idle"
    BY <1>1, <1>3, RestKnows, IdleType
  <2> QED
    BY <1>1, <1>2, <1>3, <2>1, <2>2, <2>4, <2>5, LinkWritten DEF Writing
<1>5. CASE ~Linkable(o)
  BY <1>1, <1>3, <1>5, RestStep DEF LinkWrite, TypeOK, LockKept
<1> QED
  BY <1>4, <1>5

(* An operator's step that may end a link, and writes none.                *)
LEMMA UnlinkStep ==
    ASSUME IInv, NEW o \in Operator, NEW s \in Process, Goto(o, s), s.pc \notin Writing,
           \A c \in s.batch : c.event \in Emitted,
           UNCHANGED <<stripe, event, lock, failures>>, stale' \subseteq Operator,
           link' \in [License -> Link \cup {NoLink}], LinksKept,
           license' \in [License -> LicenseRow], LinkedFollowStripe'
    PROVE  IInv'
<1>1. o \in Handler /\ o \notin Worker /\ TypeOK
  BY OperatorIsHandler DEF IInv
<1>2. process'[o] = s /\ process' \in [Handler -> Process]
  BY <1>1, GotoType
<1>3. TypeOK'
  BY <1>1, <1>2 DEF TypeOK
<1>4. WorkKnown(o)' /\ SnapshotFresh(o)'
  <2>1. Emitted' = Emitted
    BY DEF Emitted
  <2> QED
    BY <1>1, <1>2, <2>1 DEF WorkKnown, SnapshotFresh
<1>5. EventsKept
  BY DEF EventsKept, SettledEvent
<1> QED
  BY <1>1, <1>3, <1>4, <1>5, QuietStep

(* Links that end take nothing away from those that stay.                  *)
LEMMA LinkEnds ==
    ASSUME TypeOK, NEW l \in License, link' = [link EXCEPT ![l] = NoLink]
    PROVE  /\ link' \in [License -> Link \cup {NoLink}] /\ LinksKept
           /\ ~link'[l].linked /\ \A m \in License \ {l} : link'[m] = link[m]
<1>1. ~NoLink.linked
  BY DEF NoLink
<1> QED
  BY <1>1 DEF TypeOK, LinksKept

LEMMA UnlinkLicenseKeeps ==
    ASSUME IInv, NEW o \in Operator, NEW l \in License, UnlinkLicense(o, l)
    PROVE  IInv'
<1>1. TypeOK /\ o \in Handler /\ process[o] \in Process
  BY OperatorIsHandler DEF IInv, TypeOK
<1>2. /\ link' \in [License -> Link \cup {NoLink}] /\ LinksKept
      /\ ~link'[l].linked /\ \A m \in License \ {l} : link'[m] = link[m]
  BY <1>1, LinkEnds DEF UnlinkLicense
<1>3. LinkedFollowStripe'
  BY <1>2 DEF UnlinkLicense, IInv, LinkedFollowStripe, LinkedAreSubscriptions, ExpiryFollowsStripe
<1>4. Goto(o, process[o]) /\ process[o].pc \notin Writing
  BY <1>1 DEF UnlinkLicense, Goto, TypeOK, Writing
<1>5. \A c \in process[o].batch : c.event \in Emitted
  BY <1>1 DEF IInv, WorkKnown
<1> QED
  BY <1>1, <1>2, <1>3, <1>4, <1>5, UnlinkStep DEF UnlinkLicense, TypeOK

LEMMA DeleteLicenseKeeps ==
    ASSUME IInv, NEW o \in Operator, NEW l \in License, DeleteLicense(o, l)
    PROVE  IInv'
<1>1. TypeOK /\ o \in Handler /\ process[o] \in Process
  BY OperatorIsHandler DEF IInv, TypeOK
<1>2. /\ link' \in [License -> Link \cup {NoLink}] /\ LinksKept
      /\ ~link'[l].linked /\ \A m \in License \ {l} : link'[m] = link[m]
  BY <1>1, LinkEnds DEF DeleteLicense
<1>3. /\ license' \in [License -> LicenseRow]
      /\ \A m \in License \ {l} : license'[m] = license[m]
  BY <1>1 DEF DeleteLicense, TypeOK, LicenseRow
<1>4. LinkedFollowStripe'
  BY <1>2, <1>3 DEF IInv, LinkedFollowStripe, LinkedAreSubscriptions, ExpiryFollowsStripe
<1>5. Goto(o, process[o]) /\ process[o].pc \notin Writing
  BY <1>1 DEF DeleteLicense, Goto, TypeOK, Writing
<1>6. \A c \in process[o].batch : c.event \in Emitted
  BY <1>1 DEF IInv, WorkKnown
<1> QED
  BY <1>1, <1>2, <1>3, <1>4, <1>5, <1>6, UnlinkStep DEF DeleteLicense, TypeOK

LEMMA UnlinkAfterUpdateKeeps ==
    ASSUME IInv, NEW o \in Operator, UnlinkAfterUpdate(o)
    PROVE  IInv'
<1>1. TypeOK /\ o \in Handler /\ process[o].license \in License
  BY OperatorIsHandler DEF IInv, TypeOK, Process
<1>2. PICK l \in License : l = process[o].license
  BY <1>1
<1>3. /\ link' \in [License -> Link \cup {NoLink}] /\ LinksKept
      /\ ~link'[l].linked /\ \A m \in License \ {l} : link'[m] = link[m]
  BY <1>1, <1>2, LinkEnds DEF UnlinkAfterUpdate
<1>4. LinkedFollowStripe'
  BY <1>3 DEF UnlinkAfterUpdate, IInv, LinkedFollowStripe, LinkedAreSubscriptions,
              ExpiryFollowsStripe
<1> QED
  BY <1>1, <1>3, <1>4, IdleType, UnlinkStep DEF UnlinkAfterUpdate, TypeOK, Writing

(* The transaction of an update ends the link of a license that is no      *)
(* subscription any more, and leaves the expiry of a linked one alone.     *)
LEMMA UpdateCommitKeeps ==
    ASSUME IInv, NEW o \in Operator, UpdateCommit(o)
    PROVE  IInv'
<1>1. TypeOK /\ o \in Handler /\ process[o] \in Process
  BY OperatorIsHandler DEF IInv, TypeOK
<1>2. process[o].license \in License /\ process[o].target \in {"subscription", "other"}
  BY <1>1 DEF Process
<1>3. PICK l \in License : l = process[o].license
  BY <1>2
<1>4. PICK target \in {"subscription", "other"} : target = process[o].target
  BY <1>2
<1>5. PICK chosen \in BOOLEAN : chosen = (process[o].manual \/ license[l].type # target)
  OBVIOUS
<1>6. /\ license' = [license EXCEPT
                       ![l].type = target,
                       ![l].expiry = IF ~link[l].linked /\ chosen THEN Manual ELSE @]
      /\ link' = [link EXCEPT ![l] = IF target = "other" THEN NoLink ELSE @]
  BY <1>3, <1>4, <1>5 DEF UpdateCommit
<1>7. /\ license' \in [License -> LicenseRow]
      /\ \A m \in License \ {l} : license'[m] = license[m]
      /\ license'[l].type = target
      /\ link[l].linked => license'[l].expiry = license[l].expiry
  <2>1. license \in [License -> LicenseRow]
    BY <1>1 DEF TypeOK
  <2> QED
    BY <1>6, <2>1 DEF LicenseRow, Manual
<1>8. /\ link' \in [License -> Link \cup {NoLink}] /\ LinksKept
      /\ target = "other" => ~link'[l].linked
      /\ target # "other" => link' = link
      /\ \A m \in License \ {l} : link'[m] = link[m]
  <2>1. CASE target = "other"
    <3>1. link' = [link EXCEPT ![l] = NoLink]
      BY <1>6, <2>1
    <3> QED
      BY <1>1, <2>1, <3>1, LinkEnds
  <2>2. CASE target # "other"
    <3>1. link' = link
      BY <1>1, <1>6, <2>2 DEF TypeOK
    <3> QED
      BY <1>1, <2>2, <3>1 DEF TypeOK, LinksKept
  <2> QED
    BY <2>1, <2>2
<1>9. LinkedFollowStripe'
  <2>1. LinkedAreSubscriptions'
    BY <1>4, <1>7, <1>8 DEF IInv, LinkedFollowStripe, LinkedAreSubscriptions
  <2>2. ExpiryFollowsStripe'
    <3> SUFFICES ASSUME NEW m \in License, link'[m].linked, link'[m].paid
                 PROVE  license'[m].expiry = link'[m].version
      BY DEF ExpiryFollowsStripe
    <3>1. link'[m] = link[m] /\ license'[m].expiry = license[m].expiry
      BY <1>4, <1>7, <1>8
    <3> QED
      BY <3>1 DEF IInv, LinkedFollowStripe, ExpiryFollowsStripe
  <2> QED
    BY <2>1, <2>2 DEF LinkedFollowStripe
<1>10. stale' \subseteq Operator /\ UNCHANGED <<stripe, event, lock, failures>>
  BY <1>1, <1>2, RowWrittenType DEF UpdateCommit
<1>11. CASE Goto(o, Local(o, "unlink"))
  <2>1. /\ Local(o, "unlink") \in Process /\ Local(o, "unlink").pc = "unlink"
        /\ Local(o, "unlink").batch = process[o].batch
    BY <1>1, LocalType DEF Pc
  <2>2. \A c \in process[o].batch : c.event \in Emitted
    BY <1>1 DEF IInv, WorkKnown
  <2> QED
    BY <1>7, <1>8, <1>9, <1>10, <1>11, <2>1, <2>2, UnlinkStep DEF Writing
<1>12. CASE Goto(o, Idle)
  BY <1>7, <1>8, <1>9, <1>10, <1>12, IdleType, UnlinkStep DEF Writing
<1> QED
  BY <1>11, <1>12 DEF UpdateCommit

LEMMA UpdateRefuseKeeps ==
    ASSUME IInv, NEW o \in Operator, UpdateRefuse(o)
    PROVE  IInv'
BY OperatorIsHandler, RestStep DEF UpdateRefuse, IInv, TypeOK, LockKept

-----------------------------------------------------------------------------
(* Failures                                                                *)

LEMMA FailureType ==
    ASSUME TypeOK, Failure
    PROVE  failures' \in 0 .. MaxFailures
BY StripeBoundAssumption DEF TypeOK, Failure

LEMMA CallFailsKeeps ==
    ASSUME IInv, NEW h \in Handler, CallFails(h)
    PROVE  IInv'
<1>1. h \in Worker => process[h].pc \in Working
  BY DEF CallFails, IInv, WorkKnown, WorkerPc, Working
<1> QED
  BY <1>1, ThrowStep, FailureType DEF CallFails, LockKept, IInv, TypeOK

LEMMA CrashKeeps ==
    ASSUME IInv, NEW h \in Handler, Crash(h)
    PROVE  IInv'
BY RestStep, FailureType DEF Crash, LockKept, IInv, TypeOK

(* Without the lock, the snapshot is worth nothing, and is not written.    *)
LEMMA ConnectionLostKeeps ==
    ASSUME IInv, NEW h \in Handler, ConnectionLost(h)
    PROVE  IInv'
<1>1. TypeOK /\ process[h] \in Process /\ process[h].sub \in Subscription
  BY DEF IInv, TypeOK, Process
<1>2. /\ process[h].pc \in {"fetch", "write", "linkFetch", "linkWrite"}
      /\ UNCHANGED <<stripe, event, license, link, process, stale>>
      /\ failures' \in 0 .. MaxFailures
  BY <1>1, FailureType DEF ConnectionLost
<1>3. /\ lock' \in [Subscription -> Handler \cup {Nobody}]
      /\ \A x \in Subscription, g \in Handler \ {h} : lock'[x] = g => lock[x] = g
      /\ lock'[process[h].sub] # h
  BY <1>1, UnlockKeeps DEF ConnectionLost
<1>4. Goto(h, process[h])
  BY <1>1, <1>2 DEF Goto, TypeOK
<1>5. Emitted' = Emitted
  BY <1>2 DEF Emitted
<1>6. WorkKnown(h)'
  BY <1>2, <1>5 DEF IInv, WorkKnown
<1>7. SnapshotFresh(h)'
  BY <1>2, <1>3 DEF IInv, SnapshotFresh
<1> QED
  BY <1>1, <1>2, <1>3, <1>4, <1>6, <1>7, RowsStep DEF TypeOK

-----------------------------------------------------------------------------
(* The theorems                                                            *)

LEMMA InitEstablishes == ASSUME Init PROVE IInv
<1>1. 0 \in Version /\ Version \subseteq Int /\ 0 \in 0 .. MaxDelay /\ 0 \in 0 .. Lease + MaxDelay
  BY StripeBoundAssumption, StripeTimeAssumption DEF Version
<1>2. \A h \in Handler : process[h] = Idle
  BY DEF Init
<1>3. TypeOK
  <2>1. stripe \in [Subscription -> Snapshot] /\ license \in [License -> LicenseRow]
    BY <1>1 DEF Init, Snapshot, LicenseRow
  <2>2. event \in [Event -> EventRow]
    BY <1>1, IdleType DEF Init, EventRow
  <2>3. process \in [Handler -> Process]
    BY IdleType DEF Init
  <2>4. failures \in 0 .. MaxFailures
    BY StripeBoundAssumption DEF Init
  <2>5. /\ link \in [License -> Link \cup {NoLink}] /\ stale \subseteq Operator
        /\ lock \in [Subscription -> Handler \cup {Nobody}]
    BY DEF Init
  <2> QED
    BY <2>1, <2>2, <2>3, <2>4, <2>5 DEF TypeOK
<1>4. Emitted = {}
  BY DEF Emitted, Init
<1>5. EventsTold
  <2>1. Emitted = 1 .. 0
    BY <1>4
  <2>2. \A s \in Subscription : stripe[s].version = 0
    BY DEF Init
  <2> QED
    BY <1>1, <1>4, <2>1, <2>2 DEF EventsTold
<1>6. \A h \in Handler : WorkKnown(h) /\ SnapshotFresh(h)
  BY <1>2, IdleType DEF WorkKnown, SnapshotFresh, WorkerPc, Working, Reconciling, Writing
<1>7. \A l \in License : ~link[l].linked
  BY DEF Init, NoLink
<1>8. LinksBehind /\ LinksUnique /\ EventsShown /\ LinkedFollowStripe
  BY <1>7 DEF LinksBehind, LinksUnique, EventsShown, LinkedFollowStripe,
              LinkedAreSubscriptions, ExpiryFollowsStripe
<1> QED
  BY <1>3, <1>5, <1>6, <1>8 DEF IInv

LEMMA HandlerStepKeeps ==
    ASSUME IInv, NEW h \in Handler, HandlerStep(h)
    PROVE  IInv'
<1>1. CASE LockStep(h)
  BY <1>1, ReconcileBeginKeeps, LinkBeginKeeps DEF LockStep
<1>2. CASE Fetch(h) \/ ReconcileWrite(h) \/ WriteFails(h)
  BY <1>2, FetchKeeps, ReconcileWriteKeeps, WriteFailsKeeps
<1>3. CASE h \in Worker /\ (ClaimDue(h) \/ ProcessOne(h) \/ MarkProcessed(h) \/ MarkFailed(h))
  BY <1>3, ClaimDueKeeps, ProcessOneKeeps, MarkProcessedKeeps, MarkFailedKeeps
<1>4. CASE /\ h \in Operator
           /\ \/ LinkFetch(h) \/ LinkWrite(h)
              \/ UpdateCommit(h) \/ UpdateRefuse(h) \/ UnlinkAfterUpdate(h)
  BY <1>4, LinkFetchKeeps, LinkWriteKeeps, UpdateCommitKeeps, UpdateRefuseKeeps,
     UnlinkAfterUpdateKeeps
<1> QED
  BY <1>1, <1>2, <1>3, <1>4 DEF HandlerStep

LEMMA OperatorStartKeeps ==
    ASSUME IInv, NEW o \in Operator, OperatorStart(o)
    PROVE  IInv'
BY LinkLicenseKeeps, SyncLicenseKeeps, UnlinkLicenseKeeps, DeleteLicenseKeeps, UpdateReadKeeps
   DEF OperatorStart

LEMMA StepPreserves == ASSUME IInv, [Next]_vars PROVE IInv'
<1>1. ASSUME NEW s \in Subscription, Change(s) PROVE IInv'
  BY <1>1, ChangeKeeps
<1>2. ASSUME NEW e \in Event, Receive(e) PROVE IInv'
  BY <1>2, ReceiveKeeps
<1>3. ASSUME NEW o \in Operator, OperatorStart(o) PROVE IInv'
  BY <1>3, OperatorStartKeeps
<1>4. ASSUME NEW h \in Handler, HandlerStep(h) \/ CallFails(h) \/ ConnectionLost(h) \/ Crash(h)
      PROVE  IInv'
  BY <1>4, HandlerStepKeeps, CallFailsKeeps, ConnectionLostKeeps, CrashKeeps
<1>5. CASE Tick
  BY <1>5, TickKeeps
<1>6. CASE UNCHANGED vars
  BY <1>6 DEF vars, IInv, TypeOK, EventsTold, Emitted, SettledEvent, WorkKnown, SnapshotFresh,
              LinksBehind, LinksUnique, EventsShown, LinkedFollowStripe,
              LinkedAreSubscriptions, ExpiryFollowsStripe
<1> QED
  BY <1>1, <1>2, <1>3, <1>4, <1>5, <1>6 DEF Next

(* The inductive invariant holds at all times: what a handler holding the  *)
(* lock of a subscription was told by Stripe is news to its link.          *)
THEOREM Invariance == Spec => []IInv
BY InitEstablishes, StepPreserves, PTL DEF Spec

(* Every variable keeps its shape.                                         *)
THEOREM TypeCorrect == Spec => []TypeOK
<1>1. IInv => TypeOK
  BY DEF IInv
<1> QED
  BY <1>1, Invariance, PTL

(* Webhook events may come late, twice, or out of order, leases may run    *)
(* out, workers may crash and links may come and go: an event that is      *)
(* marked processed shows in the link of its subscription.                 *)
THEOREM NoneLost == Spec => []NoChangeLost
<1>1. IInv => NoChangeLost
  <2> SUFFICES ASSUME IInv, NEW e \in Event, NEW l \in License,
                      event[e].status = "processed", l \in LinkedTo(event[e].sub)
               PROVE  link[l].version >= e
    BY DEF NoChangeLost
  <2>1. link[l].linked /\ link[l].sub = event[e].sub /\ SettledEvent(e)
    BY DEF LinkedTo, SettledEvent
  <2>2. e <= link[l].version
    BY <2>1 DEF IInv, EventsShown
  <2>3. e \in Int /\ link[l].version \in Int
    BY <2>1, LinkType DEF IInv, Event
  <2> QED
    BY <2>2, <2>3
<1> QED
  BY <1>1, Invariance, PTL

(* A linked license is a subscription license that expires when Stripe     *)
(* says so, whatever operators update meanwhile.                           *)
THEOREM FollowStripe == Spec => []LinkedFollowStripe
<1>1. IInv => LinkedFollowStripe
  BY DEF IInv
<1> QED
  BY <1>1, Invariance, PTL

(* A handler writes over a link only what is no older.                     *)
LEMMA StepNeverBack ==
    ASSUME IInv, [Next]_vars, NEW l \in License,
           link[l].linked, link'[l].linked, link'[l].sub = link[l].sub
    PROVE  link'[l].version >= link[l].version
<1>1. TypeOK /\ link[l].version \in Int
  BY LinkType DEF IInv
<1>2. SUFFICES ASSUME link'[l] # link[l]
               PROVE  link'[l].version >= link[l].version
  BY <1>1
<1>3. ASSUME NEW h \in Handler, ReconcileWrite(h)
      PROVE  link'[l].version >= link[l].version
  <2> DEFINE x == process[h].sub
             v == process[h].snapshot.version
  <2>1. /\ process[h].pc = "write" /\ lock[x] = h
        /\ process[h].snapshot.version \in Int
    BY <1>1, <1>3 DEF ReconcileWrite, TypeOK, Process, Snapshot, Version
  <2>2. PICK m \in LinkedTo(x) :
          link' \in {[link EXCEPT ![m] = LinkOf(h)], [link EXCEPT ![m] = NoLink]}
    BY <1>2, <1>3 DEF ReconcileWrite
  <2>3. m = l
    BY <1>1, <1>2, <2>2 DEF TypeOK
  <2>4. link[l].sub = x
    BY <2>2, <2>3 DEF LinkedTo
  <2>5. link'[l] = LinkOf(h)
    <3>1. link'[l] # NoLink
      <4>1. ~NoLink.linked
        BY DEF NoLink
      <4> QED
        BY <4>1, Zenon
    <3> QED
      BY <1>1, <2>2, <2>3, <3>1 DEF TypeOK
  <2>6. link'[l].version = v
    BY <2>5 DEF LinkOf
  <2>7. link[l].version <= v
    BY <2>1, <2>4 DEF IInv, SnapshotFresh, Writing
  <2> QED
    BY <1>1, <2>1, <2>6, <2>7
<1>4. ASSUME NEW o \in Operator, LinkWrite(o)
      PROVE  FALSE
  <2>1. ~link[process[o].license].linked /\ link' = [link EXCEPT ![process[o].license] = LinkOf(o)]
    BY <1>2, <1>4 DEF LinkWrite, Linkable
  <2> QED
    BY <1>1, <1>2, <2>1 DEF TypeOK
<1>5. ASSUME LinksKept
      PROVE  FALSE
  BY <1>2, <1>5 DEF LinksKept
<1>6. ASSUME NEW m \in License, link' = [link EXCEPT ![m] = NoLink]
      PROVE  FALSE
  BY <1>1, <1>5, <1>6, LinkEnds
<1>7. ASSUME NEW o \in Operator, UpdateCommit(o)
      PROVE  FALSE
  <2>1. process[o].license \in License
    BY <1>1, OperatorIsHandler DEF TypeOK, Process
  <2>2. CASE process[o].target = "other"
    BY <1>6, <1>7, <2>1, <2>2 DEF UpdateCommit
  <2>3. CASE process[o].target # "other"
    BY <1>1, <1>2, <1>7, <2>3 DEF UpdateCommit, TypeOK
  <2> QED
    BY <2>2, <2>3
<1>8. ASSUME NEW o \in Operator, UnlinkAfterUpdate(o)
      PROVE  FALSE
  <2>1. process[o].license \in License
    BY <1>1, OperatorIsHandler DEF TypeOK, Process
  <2> QED
    BY <1>6, <1>8, <2>1 DEF UnlinkAfterUpdate
<1>9. ASSUME NEW o \in Operator, OperatorStart(o)
      PROVE  FALSE
  BY <1>2, <1>6, <1>9 DEF OperatorStart, LinkLicense, SyncLicense, UnlinkLicense, DeleteLicense,
                          UpdateRead
<1>10. ASSUME NEW h \in Handler, HandlerStep(h)
       PROVE  link'[l].version >= link[l].version
  BY <1>2, <1>3, <1>4, <1>7, <1>8, <1>10
     DEF HandlerStep, LockStep, ReconcileBegin, LinkBegin, Fetch, WriteFails, ClaimDue, ProcessOne,
         MarkProcessed, MarkFailed, LinkFetch, UpdateRefuse
<1>11. ASSUME NEW h \in Handler, CallFails(h) \/ ConnectionLost(h) \/ Crash(h)
       PROVE  FALSE
  BY <1>2, <1>11 DEF CallFails, ConnectionLost, Crash
<1> QED
  BY <1>2, <1>9, <1>10, <1>11 DEF Next, Change, Receive, Tick, vars

(* A link never goes back to an older state of its subscription: the       *)
(* handler that writes it held the lock since it asked Stripe.             *)
THEOREM NeverBack == Spec => LinkNeverGoesBack
<1>1. ASSUME IInv, [Next]_vars
      PROVE  [\A l \in License :
                 link[l].linked /\ link'[l].linked /\ link'[l].sub = link[l].sub
                     => link'[l].version >= link[l].version]_vars
  BY <1>1, StepNeverBack
<1> QED
  BY <1>1, Invariance, PTL DEF Spec, LinkNeverGoesBack
=============================================================================
